----------------------------- MODULE MCParsing -----------------------------
(* Programs for the parser: trees, and the texts they are written as.          *)
EXTENDS Grammar

K(unit) == <<unit>>
N(unit) == SimpleIdentifier(K(unit))
a == N("a")
b == N("b")
c == N("c")
x == N("x")
A == N("A")
B == N("B")
T == N("T")
One == Literal("IntegerLiteral", K("1"))
Bin(op, l, r) == Operation(op, l, r)
Pre(op, e) == Operation(op, Null, e)
Post(e, op) == Operation(op, e, Null)
Dot(e, name) == Bin(K("."), e, name)
Call(f, args) == FunctionCall(f, <<>>, args, <<>>)
Index(e, i) == ArraySubscript(e, <<>>, i, <<>>)
Braced(t, args) == BraceConstruction(t, <<>>, args, <<>>)
Array(es) == ArrayExpression(<<>>, es, <<>>)
Listed(es) == ListExpression(<<>>, es, <<>>)
Cond(p, q, r) == ConditionalExpression(p, <<>>, q, <<>>, r)
Tmpl(name, args) == TemplateIdentifier(K(name), <<>>, args, <<>>)
OpName(symbol) == OperatorName(K("operator"), symbol)

QType(const, type, ref, after) == Node("QualifiedType", <<const, <<>>, ref, after>>, <<type, Null>>)
Plain(type) == QType(<<>>, type, <<>>, <<>>)
ConstRef(type) == QType(K("const"), type, K("&"), <<>>)
Function(ret, params) ==
  Node("QualifiedType", << <<>>, <<>>, <<>>, <<>> >>, <<Null, FunctionType(ret, params)>>)
Integer == Plain(N("int"))
TypeArg(type) == TypeNode(type)
NoName == <<>>
Param(type, name) == FunctionParameter(type, name, Null)

Binaries == UNION {Binding[i] : i \in DOMAIN Binding}
Pairs == {Bin(o1, Bin(o2, a, b), c) : o1, o2 \in Binaries} \cup {Bin(o1, a, Bin(o2, b, c)) : o1, o2 \in Binaries}

Return(e) == ReturnStatement(K("return"), e)
Expr(e) == ExpressionStatement(e, <<>>)
Block(ss) == CompoundStatement(<<>>, ss, <<>>)
Empty == Block(<<>>)
Skipped == NullStatement(<<>>)
Var(static, type, name, init) == Node("VariableDecl", <<static, <<>>>>, <<type, name, init>>)
Assigned(e) == AssignmentInitialization(<<>>, e)
Paren(es) == ConstructorInitialization(<<>>, es, <<>>)
Brace(es) == BraceInitialization(<<>>, es, <<>>)
NoToks == [i \in 1 .. 9 |-> <<>>]
Func(kind, attr, type, name, params, body, inits, toks) ==
  Node(kind, toks, <<attr, type, name, List(params), body, List(inits)>>)
Fun(type, name, params, body) == Func("FunctionDecl", Null, type, name, params, body, <<>>, NoToks)
With(toks, place, word) == [toks EXCEPT ![place] = K(word)]
Class(name, parent, content) ==
  ClassDecl(K("class"), Null, name, IF IsNull(parent) THEN <<>> ELSE K(":"), parent, <<>>, content, <<>>, <<>>)
Deref(toks, place, word) == With(With(toks, EqualSign, "="), place, word)

If(p, s) == IfStatement(<<>>, p, s, <<>>, Null)
IfElse(p, s, t) == IfStatement(<<>>, p, s, K("else"), t)
While(p, s) == WhileLoop(<<>>, p, s)
For(i, p, n, s) == ForLoop(<<>>, i, p, n, s)

Literals == {Literal("BoolLiteral", K("true")), Literal("IntegerLiteral", K("0")),
  Literal("IntegerLiteral", <<"0", "x", "8", "f">>), Literal("IntegerLiteral", <<"0", "b", "1">>),
  Literal("IntegerLiteral", <<"0", "1">>), Literal("IntegerLiteral", <<"1", "8">>),
  Literal("FloatingPointLiteral", <<"1", ".", "8">>), Literal("FloatingPointLiteral", <<"0", ".", "1", "e", "-", "1">>),
  Literal("FloatingPointLiteral", <<"1", "f">>), Literal("FloatingPointLiteral", <<"1", ".">>),
  Literal("UserDefinedLiteral", <<"1", "_", "z">>), Literal("UserDefinedLiteral", <<"\"", "a", "\"", "z">>),
  Literal("StringLiteral", <<"\"", "/", "*", "\"">>), Literal("StringLiteral", <<"'", "\"", "'">>)}
Captures == << LambdaCapture(<<>>, K("="), <<>>, <<>>, Null),
  LambdaCapture(K("&"), <<>>, <<>>, <<>>, Null), LambdaCapture(<<>>, <<>>, K("a"), <<>>, Null),
  LambdaCapture(K("&"), <<>>, K("b"), <<>>, Null), LambdaCapture(<<>>, <<>>, K("c"), K("="), Bin(K("+"), a, One)) >>
Lambda(captures, params, body) == LambdaExpression(<<>>, captures, <<>>, <<>>, params, <<>>, Block(body))
AB == Tmpl("A", <<TypeArg(Plain(B))>>)
ABB == Tmpl("A", <<TypeArg(Plain(Tmpl("B", <<TypeArg(Plain(T))>>)))>>)

\* Expressions that are read the same where a statement may begin
Expressions == Literals \cup
  {Bin(<<"+", "=">>, x, Bin(K("-"), a, Pre(K("-"), Pre(K("-"), b)))), Post(Post(a, <<"+", "+">>), <<"-", "-">>),
   Pre(<<"-", "-">>, Post(a, <<"+", "+">>)), Bin(K("*"), Pre(K("!"), a), Post(b, <<"+", "+">>)),
   Pre(K("-"), Bin(K("*"), a, b)), Post(Pre(<<"+", "+">>, a), <<"+", "+">>), Dot(Pre(K("-"), a), b),
   Call(a, <<>>), Call(a, <<b, Bin(K(","), One, c)>>), Call(Index(Dot(a, b), One), <<Call(c, <<a>>)>>),
   Call(Dot(a, AB), <<>>), Call(ABB, <<a>>), Call(Tmpl("A", <<One, TypeArg(Integer)>>), <<>>),
   Call(Tmpl("A", <<TypeArg(Function(Integer, <<Integer, ConstRef(A)>>))>>), <<>>),
   Call(ScopedIdentifier(<<A, B>>), <<>>), Call(ScopedIdentifier(<<AB, B, Tmpl("T", <<One>>)>>), <<>>),
   Call(Bin(K("+"), a, b), <<c>>), Index(Array(<<a, One>>), One), Braced(A, <<a, One>>), Braced(AB, <<>>),
   Call(a, <<Listed(<<One, Listed(<<>>)>>), Array(<<>>)>>), Call(OpName(K("+")), <<a, b>>),
   Call(OpName(K(")")), <<>>), Call(OpName(K("]")), <<>>), Call(Dot(N("this"), a), <<b>>),
   Cond(a, b, c), Cond(Bin(<<"|", "|">>, a, b), Bin(K("="), a, b), Bin(K("="), x, c)),
   Bin(K("="), x, Cond(Bin(K("="), a, b), One, c)), Bin(K(","), Cond(a, b, c), x),
   Bin(K("="), x, Bin(K(">"), Bin(K("<"), a, b), c)), Bin(K("="), x, Bin(<<">", ">">>, Bin(K("<"), a, b), c)),
   Bin(K("="), x, Bin(K("-"), Post(a, <<"+", "+">>), Pre(<<"-", "-">>, b))),
   Lambda(<<>>, <<>>, <<>>), Call(Lambda(<<Captures[1], Captures[4]>>, <<Param(Integer, K("a"))>>, <<Return(a)>>), <<One>>),
   Lambda(<<Captures[2], Captures[3], Captures[5]>>, <<Param(Integer, NoName), FunctionParameter(ConstRef(A), K("b"), One)>>, <<>>)}
Types == {Integer, Plain(A), ConstRef(A), QType(<<>>, A, K("&"), <<>>), QType(<<>>, A, <<"&", "&">>, <<>>),
  Node("QualifiedType", << <<>>, K("const"), K("&"), <<>> >>, <<A, Null>>), QType(<<>>, A, K("&"), K("const")),
  Plain(AB), Plain(ABB), Plain(Tmpl("A", <<TypeArg(ConstRef(B)), One>>)), ConstRef(ScopedIdentifier(<<A, AB>>)),
  Plain(Tmpl("A", <<TypeArg(Function(Plain(AB), <<>>))>>)), Function(Integer, <<>>), Function(Integer, <<ConstRef(A), Integer>>),
  Function(Function(Integer, <<>>).kids[2].kids[1], <<Plain(A)>>)}
Inits == {Null, Assigned(One), Assigned(Bin(K("="), b, c)), Assigned(Cond(a, b, c)), Assigned(Listed(<<One>>)),
          Paren(<<>>), Paren(<<b>>), Paren(<<One, Bin(K("*"), b, c)>>), Paren(<<Call(b, <<>>)>>), Brace(<<a, b>>)}
Variables == {Var(<<>>, type, a, init) : type \in Types, init \in {Null, Assigned(b), Brace(<<>>)}} \cup
             {Var(static, Integer, a, init) : static \in {<<>>, K("static")}, init \in Inits} \cup
             {Var(<<>>, type, a, init) : type \in {Plain(AB), ConstRef(A)}, init \in Inits}

Attr == AttributeDeclaration(<<>>, Call(a, <<One>>), <<>>)
ParamLists == {<<>>, <<Param(Integer, NoName)>>, <<Param(Plain(A), K("a")), Param(ConstRef(AB), NoName)>>,
  <<Param(Plain(A), NoName), Param(Plain(B), NoName)>>, <<FunctionParameter(Integer, K("a"), Bin(K("+"), b, One))>>,
  <<Param(Function(Integer, <<Integer>>), K("a"))>>}
Functions0 == {Fun(type, a, params, Block(<<Return(One)>>)) : type \in {Integer, ConstRef(AB)}, params \in ParamLists}
  \cup {Func("FunctionDecl", Attr, Integer, a, <<>>, Empty, <<>>, NoToks),
        Func("FunctionDecl", Null, Integer, a, <<>>, Null, <<>>, Deref(NoToks, DeleteKeyword, "delete"))}
  \cup {Func("OperatorOverloadDecl", Null, Integer, OpName(op), <<Param(Integer, K("a"))>>, Empty, <<>>, NoToks) :
        op \in {K("+"), <<"<", "<">>, K(">"), <<">", ">">>, K(")"), K("]"), K(","), K("~")}}
  \cup {Func("OperatorOverloadDecl", Null, Integer, LiteralOperatorName(K("operator"), q, s), <<>>, Empty, <<>>, NoToks) :
        q \in {<<"\"", "\"">>}, s \in {<<"_", "z">>}}
  \cup {Func("OperatorOverloadDecl", Null, Integer, LiteralOperatorName(K("operator"), q, q), <<>>, Empty, <<>>, NoToks) :
        q \in {<<"\"", "\"", "z">>}}

Member(toks, params, body) == Func("FunctionDecl", Null, Integer, a, params, body, <<>>, toks)
Ctor(toks, name, params, body, inits) == Func("ConstructorDecl", Null, Null, name, params, body, inits, toks)
Dtor(toks, body) == Func("DestructorDecl", Null, Null, A, <<>>, body, <<>>, With(toks, LeadingToken, "~"))
Cast(toks, type, body) == Func("CastDecl", Null, type, Null, <<>>, body, <<>>, With(toks, LeadingToken, "operator"))
MemInit(name, init) == MemberInitialization(name, init)
Explicit == With(NoToks, ExplicitKeyword, "explicit")
Virtual == With(NoToks, VirtualKeyword, "virtual")
Const == With(NoToks, ConstQualifier, "const")
Members == Variables \cup {Member(NoToks, <<>>, Empty), Member(Virtual, <<Param(Integer, NoName)>>, Empty),
    Member(With(NoToks, StaticKeyword, "static"), <<>>, Empty), Member(Const, <<>>, Empty),
    Member(With(Virtual, ConstQualifier, "const"), <<>>, Empty),
    Member(Deref(Virtual, VirtualPure, "0"), <<>>, Null), Member(Deref(Const, DeleteKeyword, "delete"), <<>>, Null)}
  \cup {Ctor(toks, A, params, Empty, inits) : toks \in {NoToks, Explicit}, params \in ParamLists,
        inits \in {<<>>, <<MemInit(a, Paren(<<One>>)), MemInit(AB, Brace(<<>>))>>}}
  \cup {Ctor(Deref(NoToks, DefaultKeyword, "default"), A, params, Null, <<>>) : params \in ParamLists}
  \cup {Dtor(NoToks, Empty), Dtor(Deref(NoToks, DefaultKeyword, "default"), Null), Dtor(NoToks, Block(<<Skipped>>))}
  \cup {Cast(NoToks, Integer, Empty), Cast(Const, ConstRef(AB), Empty)}
  \cup {Func("OperatorOverloadDecl", Null, type, OpName(op), <<Param(Integer, NoName)>>, Empty, <<>>, Const) :
        op \in {K("="), K(")")}, type \in {Plain(A), ConstRef(A)}}
  \cup {AccessSpecifier(K("private"), <<>>), ClassFriendDeclaration(<<>>, <<>>, ScopedIdentifier(<<A, AB>>)),
        Typedef(<<>>, Integer, T), UsingDeclaration(<<>>, ScopedIdentifier(<<A, B>>))}
Classes == {Class(A, parent, content) : parent \in {Null, B, ScopedIdentifier(<<A, B>>), AB}, content \in {<<>>, <<Member(NoToks, <<>>, Empty)>>}}
  \cup {Class(A, Null, <<m>>) : m \in Members}
  \cup {Class(A, B, <<Ctor(NoToks, A, <<>>, Empty, <<MemInit(B, Paren(<<a>>))>>), Dtor(NoToks, Empty), Var(<<>>, Integer, a, Null)>>)}

Value(name, v) == EnumValueDeclaration(name, v)
TParam(kind, name, default) == TemplateParameter(K(kind), K(name), <<>>, default)
Template(params, d) == TemplateDeclaration(<<>>, <<>>, params, <<>>, d)
Others == {Typedef(<<>>, ConstRef(AB), T), Typedef(<<>>, Function(Integer, <<Integer>>), T),
  UsingDeclaration(<<>>, ScopedIdentifier(<<A, B>>)), UsingDirective(<<>>, <<>>, ScopedIdentifier(<<A, B>>)),
  UsingDirective(<<>>, <<>>, A), TypeAliasDeclaration(<<>>, T, <<>>, AB),
  NamespaceAliasDefinition(<<>>, A, <<>>, ScopedIdentifier(<<A, B>>)),
  NamespaceDeclaration(<<>>, A, <<>>, <<Var(<<>>, Integer, a, Null), NamespaceDeclaration(<<>>, B, <<>>, <<>>, <<>>)>>, <<>>),
  ImportDirective(<<>>, <<>>, <<K("a")>>), ImportDirective(K("export"), <<>>, <<K("a"), K("b"), K("c")>>),
  EnumDeclaration(<<>>, <<>>, Null, <<>>, A, <<>>, <<>>),
  EnumDeclaration(<<>>, K("class"), Attr, <<>>, A, <<Value(a, Null), Value(b, Bin(K("+"), One, One)), Value(c, Null)>>, <<>>)}
  \cup {Template(params, d) : params \in {<<>>, <<TParam("typename", "T", Null)>>,
          <<TParam("int", "a", One), TParam("typename", "T", TypeArg(Plain(AB)))>>},
        d \in {Class(A, Null, <<>>), Class(AB, Null, <<Ctor(NoToks, A, <<>>, Empty, <<>>)>>),
               Fun(Plain(T), a, <<Param(Plain(T), K("b"))>>, Empty),
               Fun(Integer, Tmpl("a", <<TypeArg(Integer)>>), <<>>, Empty), Fun(ConstRef(AB), a, <<>>, Empty)}}

Small == {Skipped, Expr(Call(a, <<>>)), Block(<<Skipped, Expr(Bin(K("="), a, One))>>)}
Nested == Small \cup {If(a, Skipped), IfElse(a, Skipped, Empty), While(a, Skipped)}
Statements == Small
  \cup {If(a, s) : s \in Nested} \cup {IfElse(Bin(K(","), a, b), s, t) : s \in Nested, t \in Nested}
  \cup {While(Bin(<<"=", "=">>, a, b), s) : s \in Nested}
  \cup {IfElse(a, While(b, If(c, Skipped)), Skipped)}
  \cup {For(i, p, n, Block(<<BreakStatement(K("break")), ContinueStatement(K("continue"))>>)) :
        i \in {Null, Expr(Bin(K("="), a, One)), Var(<<>>, Integer, a, Assigned(One)), Var(<<>>, Integer, a, Paren(<<One>>))},
        p \in {Null, Bin(K("<"), a, One)}, n \in {Null, Post(a, <<"+", "+">>)}}
  \cup {Return(Null), Return(Listed(<<a>>))}

Programs == {<<Return(e)>> : e \in Expressions} \cup {<<Expr(e)>> : e \in Expressions}
  \cup {<<d>> : d \in Variables \cup Functions0 \cup Classes \cup Others \cup Statements}
  \cup {<<d, Skipped>> : d \in Others} \cup {<<Fun(Integer, a, <<>>, Block(<<s>>))>> : s \in Statements}

-----------------------------------------------------------------------------
(* Layouts: as close as the words can be, or something between all of them     *)
IsWordy(unit) == unit \in Letters \cup Digits \cup Keywords \cup {"_", "\"", "'"}
Collide(w, next) ==
  LET l == w[Len(w)]
      n == next[1]
  IN  \/ IsWordy(l) /\ IsWordy(n)
      \/ IsWordy(l) /\ n = "." /\ w[1] \in Digits
      \/ l \in OneCharOps /\ n \in OneCharOps /\ ~(w = K(">") /\ next = K(">"))
      \/ l = ":" /\ n = ":"
Layouts == {"close", "spaced", "commented"}
Between(layout, w, next) ==
  CASE layout = "close" -> IF Collide(w, next) THEN <<" ">> ELSE <<>>
    [] layout = "spaced" -> <<" ">>
    [] layout = "commented" -> <<"/", "*", "*", "/", "/", "/", "\"", "\n">>
\* operator() and operator[] are written without a space
IsPair(words, i) == words[i - 1] = K("operator") /\ words[i] \in {K("("), K("[")} /\ words[i + 1] \in {K(")"), K("]")}
Text1(words, layout) ==
  FlattenSeq([i \in DOMAIN words |-> IF i = Len(words) THEN words[i]
                                     ELSE IF i > 1 /\ IsPair(words, i) THEN words[i]
                                     ELSE words[i] \o Between(layout, words[i], words[i + 1])])
Written(program, layout) == Text1(Write(ScriptRootNode(program)), layout)
Wholes == {Written(p, l) : p \in Programs, l \in Layouts} \cup {Written(<<Return(e)>>, "close") : e \in Pairs}

\* Texts that lack a delimiter or a semicolon, or close
\* a delimiter with another; they start with an
\* empty line, to be told from programs
Without(words, i) == SubSeq(words, 1, i - 1) \o SubSeq(words, i + 1, Len(words))
Damaged(program) ==
  LET words == Write(ScriptRootNode(program))
      signs == {i \in DOMAIN words : words[i] \in {K(s) : s \in {"(", ")", "{", "}", "[", "]", ";"}}}
      closing == {i \in signs : words[i] \in {K(")"), K("}"), K("]")}}
      Swapped(i) == [words EXCEPT ![i] = K(IF words[i] = K(")") THEN "]" ELSE ")")]
  IN  {<<"\n">> \o Text1(Without(words, i), "close") : i \in signs}
        \cup {<<"\n">> \o Text1(Swapped(i), "close") : i \in closing}
Ended == {<<Return(Null)>>, <<Fun(Integer, a, <<>>, Block(<<Return(Null)>>))>>}
Breakable == Ended \cup {<<Fun(Integer, a, <<>>, Block(<<s>>))>> : s \in Statements}
  \cup {<<Expr(e)>> : e \in Expressions} \cup {<<d>> : d \in Others \cup Functions0 \cup Classes}
MCTexts == Wholes \cup UNION {Damaged(p) : p \in Breakable}
MCIsProgram(text) == text[1] # "\n"
MCBeyond == {"Invalid", ";"}

Spec == ParserInit /\ [][ParserNext]_vars
=============================================================================
