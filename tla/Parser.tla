------------------------------- MODULE Parser -------------------------------
(* The parser (src/parser/parser.cpp).  Each class of parser is an operator    *)
(* that takes a reader and returns a result; the fragments it works on, the    *)
(* choices it makes by looking ahead and those it takes back on a syntax error *)
(* are the code's.  parse() builds the tree of a script, a statement a step.   *)
EXTENDS TokenReader, SyntaxTree

VARIABLES at,            \* the parser's m_iterator
          root           \* the statements of the ScriptRootNode

vars == <<source, pos, tokens, status, beyond, at, root>>

RECURSIVE Parse(_, _, _), ReadTerms(_), ReadOperand(_), Postfix(_, _, _), Build(_, _),
  QualifiedNames(_, _), ParseProgram(_), ClassContent(_, _), MemberInitializations(_),
  ArgsOrParams(_, _), DottedNames(_)

\* The parsers that use each other; options is what else they are given
ParseExpression(r) == Parse("ExpressionParser", r, {})
ParseIdentifier(r, options) == Parse("IdentifierParser", r, options)
ParseType(r, signatures) == Parse("TypeParser", r, signatures)
ParseStatement(r) == Parse("ProgramParser", r, {})
DetectDecl(d, r) == Parse("DeclParser::detectDecl", r, d)
ParseDecl(d, r) == Parse("DeclParser::parse", r, d)

\* read(id) for an optional token: 0 when it is not there
Optional(r, id) == IF Peek(r) = id THEN ReadAny(r) ELSE Ok(0, r.at)
\* The content of a pair of delimiters, read by Inner, and the right delimiter
Delimited(r, right, Inner(_)) ==
  Then(DelimiterPair(r), LAMBDA content, close :
  Then(Inner(content), LAMBDA v, stop :
  Then(ReadId(From(r, close), right), LAMBDA t, p : Ok([v |-> v, right |-> t], p))))
\* The elements of a list, each read by Element
Elements(r, Element(_)) ==
  Then(ListElements(r), LAMBDA es, p : Collect([i \in DOMAIN es |-> Element(es[i])], r.end))

-----------------------------------------------------------------------------
(* Expressions                                                                 *)
LiteralKind(id) ==
  CASE id \in {"true", "false"} -> "BoolLiteral"
    [] id \in {"IntegerLiteral", "BinaryLiteral", "OctalLiteral", "HexadecimalLiteral"} -> "IntegerLiteral"
    [] id = "DecimalLiteral" -> "FloatingPointLiteral"
    [] id = "StringLiteral" -> "StringLiteral"
    [] id = "UserDefinedLiteral" -> "UserDefinedLiteral"

\* OperatorName::getOperatorId, precedence and associativity
PrefixIds == {"++", "--", "!", "~", "+", "-"}
InfixIds == OperatorIds \ {"++", "--", "!", "~", "?", ":", "."}
Precedence(id) ==
  CASE id = ":" -> -66
    [] id = "::" -> 1
    [] id \in {"*", "/", "%"} -> 4
    [] id \in {"+", "-"} -> 5
    [] id \in {"<<", ">>"} -> 6
    [] id \in {"<", ">", "<=", ">="} -> 7
    [] id \in {"==", "!="} -> 8
    [] id = "&" -> 9
    [] id = "^" -> 10
    [] id = "|" -> 11
    [] id = "&&" -> 12
    [] id = "||" -> 13
    [] id = "," -> 15
    [] OTHER -> 14
RightToLeft == {3, 14}

IsClearlyAnExpr(id) == IsLiteral(id) \/ (IsOperator(id) /\ id # "~")
\* ExpressionParser::detect
MayBeAnExpr(r) == \/ IsClearlyAnExpr(Peek(r))
                  \/ Peek(r) # "const" /\ ~(IsIdentifier(Peek(r)) /\ IsIdentifier(Id(r.at + 1)))

ReadTerms(r) ==
  Then(ReadOperand(r), LAMBDA x, p :
    IF p = r.end THEN Ok([operands |-> <<x>>, ops |-> <<>>], p)
    ELSE IF Id(p) \notin InfixIds \cup {"?", ":"} THEN SyntaxError
    ELSE Then(ReadTerms(From(r, p + 1)), LAMBDA rest, stop :
           Ok([operands |-> <<x>> \o rest.operands, ops |-> <<p>> \o rest.ops], stop)))

ExpressionParser(r) ==
  Then(ReadTerms(r), LAMBDA t, p :
  Then(Build(t.operands, t.ops), LAMBDA e, q : Ok(e, p)))

\* The same with each group associating the other way
SplitPointAcross(ops) ==
  LET P(i) == Precedence(Id(ops[i]))
      weakest == {i \in DOMAIN ops : \A j \in DOMAIN ops : P(j) <= P(i)}
      leftmost == P(CHOOSE i \in weakest : TRUE) \notin RightToLeft
  IN  CHOOSE i \in weakest : \A j \in weakest : IF leftmost THEN i <= j ELSE i >= j

\* buildExpression: split at the operator that binds last
SplitPoint(ops) ==
  LET P(i) == Precedence(Id(ops[i]))
      weakest == {i \in DOMAIN ops : \A j \in DOMAIN ops : P(j) <= P(i)}
      leftmost == P(CHOOSE i \in weakest : TRUE) \in RightToLeft
  IN  CHOOSE i \in weakest : \A j \in weakest : IF leftmost THEN i <= j ELSE i >= j
LastColon(ops, after) ==
  LET colons == {i \in after + 1 .. Len(ops) : Id(ops[i]) = ":"}
  IN  IF colons = {} THEN 0 ELSE CHOOSE i \in colons : \A j \in colons : i >= j
Build(operands, ops) ==
  LET n == Len(ops)
      k == SplitPoint(ops)
      c == LastColon(ops, k)
      Part(from, to) == Build(SubSeq(operands, from, to + 1), SubSeq(ops, from, to))
  IN  CASE n = 0 -> Ok(operands[1], 0)
        [] n # 0 /\ Id(ops[k]) = "?" ->
             IF c = 0 THEN SyntaxError
             ELSE Then(Part(1, k - 1), LAMBDA cond, p :
                  Then(Part(k + 1, c - 1), LAMBDA onTrue, q :
                  Then(Part(c + 1, n), LAMBDA onFalse, s :
                       Ok(ConditionalExpression(cond, ops[k], onTrue, ops[c], onFalse), 0))))
        [] n # 0 /\ Id(ops[k]) # "?" ->
             Then(Part(1, k - 1), LAMBDA lhs, p :
             Then(Part(k + 1, n), LAMBDA rhs, q : Ok(Operation(ops[k], lhs, rhs), 0)))

ExpressionList(r) == Elements(r, ParseExpression)

ParseListExpression(r) ==
  Then(Delimited(r, "}", ExpressionList), LAMBDA l, p : Ok(ListExpression(r.at, l.v, l.right), p))

CaptureParser(r) ==
  LET named == IF Peek(r) = "&" THEN r.at + 1 ELSE r.at
      reference == IF Peek(r) = "&" THEN r.at ELSE 0
  IN  CASE Finished(r) \/ Peek(r) \notin {"=", "&", "UserDefinedName"} -> SyntaxError
        [] ~Finished(r) /\ Peek(r) = "=" ->
             IF r.at + 1 = r.end THEN Ok(LambdaCapture(0, r.at, 0, 0, Null), r.end) ELSE SyntaxError
        [] ~Finished(r) /\ Peek(r) \in {"&", "UserDefinedName"} ->
             IF named = r.end THEN Ok(LambdaCapture(reference, 0, 0, 0, Null), named)
             ELSE Then(ParseIdentifier(From(r, named), {}), LAMBDA name, p :
                  IF p = r.end THEN Ok(LambdaCapture(reference, 0, name.toks[1], 0, Null), p)
                  ELSE Then(ReadId(From(r, p), "="), LAMBDA eq, q :
                       Then(ParseExpression(From(r, q)), LAMBDA value, stop :
                            Ok(LambdaCapture(reference, 0, name.toks[1], eq, value), stop))))

FunctionParam(r) ==
  Then(ParseType(r, TRUE), LAMBDA type, p :
    IF p = r.end THEN Ok(FunctionParameter(type, 0, Null), p)
    ELSE Then(ParseIdentifier(From(r, p), {}), LAMBDA name, q :
         IF q = r.end THEN Ok(FunctionParameter(type, name.toks[1], Null), q)
         ELSE Then(ReadId(From(r, q), "="), LAMBDA eq, s :
              Then(ParseExpression(From(r, s)), LAMBDA default, stop :
                   Ok(FunctionParameter(type, name.toks[1], default), stop)))))

ParamList(r) == Elements(r, FunctionParam)

ReadBody(r) == IF Finished(r) \/ Peek(r) # "{" THEN SyntaxError ELSE ParseStatement(r)

\* LambdaParser: a lambda if a parenthesis follows the brackets, else an array
ParseLambda(r) ==
  LET CaptureList(c) == Elements(c, CaptureParser)
      IsArray(close) == close = Len(tokens) \/ Id(close + 1) # "("
  IN  Then(DelimiterPair(r), LAMBDA content, close :
        IF IsArray(close)
        THEN Then(ExpressionList(content), LAMBDA es, p :
                  Ok(ArrayExpression(r.at, es, close), close + 1))
        ELSE Then(CaptureList(content), LAMBDA captures, p :
             Then(Delimited(From(r, close + 1), ")", ParamList), LAMBDA params, q :
             Then(ReadBody(From(r, q)), LAMBDA body, stop :
                  Ok(LambdaExpression(r.at, captures, close, close + 1, params.v, params.right, body), stop)))))

ReadOperand(r) ==
  LET t == Peek(r)
      Start == CASE Finished(r) -> SyntaxError
                 [] ~Finished(r) /\ IsOperator(t) ->
                      IF t \notin PrefixIds THEN SyntaxError
                      ELSE Then(ReadOperand(From(r, r.at + 1)), LAMBDA x, p :
                                Ok(Operation(r.at, x, Null), p))
                 [] ~Finished(r) /\ t = "(" ->
                      IF Id(r.at + 1) = ")" THEN SyntaxError
                      ELSE Then(Delimited(r, ")", ParseExpression), LAMBDA e, p : Ok(e.v, p))
                 [] ~Finished(r) /\ t = "[" -> ParseLambda(r)
                 [] ~Finished(r) /\ t = "{" -> ParseListExpression(r)
                 [] ~Finished(r) /\ IsLiteral(t) -> Ok(Literal(LiteralKind(t), r.at), r.at + 1)
                 [] OTHER -> ParseIdentifier(r, {"TemplateId", "QualifiedId", "OperatorName"})
  IN  Then(Start, LAMBDA x, p : Postfix(r, p, x))

IsIdentifierNode(n) == n.kind \in {"SimpleIdentifier", "TemplateIdentifier", "OperatorName",
                                   "LiteralOperatorName", "ScopedIdentifier"}

\* The loop at the end of readOperand; r is the operand's reader, p its place
Postfix(r, p, x) ==
  LET t == Id(p)
      here == From(r, p)
  IN  CASE p = r.end -> Ok(x, p)
        [] p # r.end /\ t \in {"++", "--"} -> Postfix(r, p + 1, Operation(p, x, Null))
        [] p # r.end /\ t = "." ->
             Then(ParseIdentifier(From(r, p + 1), {"TemplateId"}), LAMBDA name, q :
                  Postfix(r, q, Operation(p, x, name)))
        [] p # r.end /\ t = "(" ->
             Then(Delimited(here, ")", ExpressionList), LAMBDA args, q :
                  Postfix(r, q, FunctionCall(x, p, args.v, args.right)))
        [] p # r.end /\ t = "[" ->
             Then(DelimiterPair(here), LAMBDA content, close :
               IF Finished(content) THEN SyntaxError
               ELSE Then(ParseExpression(content), LAMBDA index, q :
                         Postfix(r, close + 1, ArraySubscript(x, p, index, close))))
        [] p # r.end /\ t = "{" /\ IsIdentifierNode(x) ->
             Then(Delimited(here, "}", ExpressionList), LAMBDA args, q :
                  Postfix(r, q, BraceConstruction(x, p, args.v, args.right)))
        [] p # r.end /\ IsOperator(t) /\ t \notin {"++", "--", "."} -> Ok(x, p)
        [] OTHER ->
             IF x.kind # "TemplateIdentifier" THEN SyntaxError
             ELSE Then(ParseIdentifier(r, {"OperatorName", "QualifiedId"}), LAMBDA name, q :
                       Postfix(r, q, name))

-----------------------------------------------------------------------------
(* Identifiers and types                                                       *)
NameIds == {"void", "bool", "char", "int", "float", "double", "auto", "this"}

Adjacent(i, j) == tokens[i].to = tokens[j].from /\ tokens[i].to = tokens[i].from + 1
StartsWithQuotes(i) == /\ tokens[i].to > tokens[i].from + 1
                       /\ source[tokens[i].from + 1] = "\""
ReadOperatorName(r) ==
  LET op == r.at + 1
      here == From(r, op)
      Pair(right) ==
        Then(ReadId(From(r, op + 1), right), LAMBDA t, p :
             IF Adjacent(op, t) THEN Ok(OperatorName(r.at, t), p) ELSE SyntaxError)
  IN  CASE op = r.end -> SyntaxError
        [] op # r.end /\ IsOperator(Id(op)) -> Ok(OperatorName(r.at, op), op + 1)
        [] op # r.end /\ Id(op) = "(" -> Pair(")")
        [] op # r.end /\ Id(op) = "[" -> Pair("]")
        [] op # r.end /\ Id(op) = "StringLiteral" ->
             IF tokens[op].to # tokens[op].from + 2 THEN SyntaxError
             ELSE Then(ParseIdentifier(From(r, op + 1), {}), LAMBDA suffix, p :
                       Ok(LiteralOperatorName(r.at, op, suffix.toks[1]), p))
        [] op # r.end /\ Id(op) = "UserDefinedLiteral" ->
             IF StartsWithQuotes(op) THEN Ok(LiteralOperatorName(r.at, op, op), op + 1) ELSE SyntaxError
        [] OTHER -> SyntaxError

\* readTemplateArguments; TemplateArgParser: a type if all of it is one
TemplateArg(r) ==
  LET type == IF Peek(r) = "const" \/ IsIdentifier(Peek(r)) THEN ParseType(r, TRUE) ELSE SyntaxError
  IN  CASE type.ok /\ type.at = r.end -> Ok(TypeNode(type.v), type.at)
        [] ~type.ok /\ type.what # "SyntaxError" -> type
        [] OTHER -> ParseExpression(r)
TemplateArgList(r) == Elements(r, TemplateArg)

\* The names after each `::'
QualifiedNames(r, names) ==
  IF Finished(r) \/ Peek(r) # "::" THEN Ok(names, r.at)
  ELSE Then(ParseIdentifier(From(r, r.at + 1), {"TemplateId"}), LAMBDA name, p :
            QualifiedNames(From(r, p), Append(names, name)))

\* What is left when the template arguments are not well formed is the name alone
ReadUserDefinedName(r, options) ==
  LET next == r.at + 1
      simple == SimpleIdentifier(r.at)
      fragment == IF next # r.end /\ "TemplateId" \in options THEN TemplateFragment(From(r, next))
                  ELSE SyntaxError
      args == IF fragment.ok THEN TemplateArgList(fragment.v) ELSE Ok(<<>>, 0)
      end == fragment.at
      after == IF ~fragment.ok THEN next ELSE IF end = r.end THEN end ELSE end + 1
      name == IF fragment.ok THEN TemplateIdentifier(r.at, next, args.v, end) ELSE simple
  IN  CASE Finished(r) -> SyntaxError
        [] ~Finished(r) /\ ~args.ok -> Ok(simple, next)
        [] ~Finished(r) /\ args.ok ->
             IF after = r.end \/ "QualifiedId" \notin options \/ Id(after) # "::" THEN Ok(name, after)
             ELSE Then(QualifiedNames(From(r, after), <<name>>), LAMBDA names, p :
                       Ok(ScopedIdentifier(names), p))

IdentifierParser(r, options) ==
  CASE Peek(r) \in NameIds -> Ok(SimpleIdentifier(r.at), r.at + 1)
    [] Peek(r) = "operator" ->
         IF "OperatorName" \in options /\ ~Finished(r) THEN ReadOperatorName(r) ELSE SyntaxError
    [] Peek(r) = "UserDefinedName" -> ReadUserDefinedName(r, options)
    [] OTHER -> SyntaxError

AnyIdentifier(r) == ParseIdentifier(r, {"TemplateId", "QualifiedId", "OperatorName"})
OnlySimpleId(r) == ParseIdentifier(r, {})

\* TypeParser::detect(FullFragmentDetection)
IsWhollyAType(r) ==
  LET here == r.at .. r.end - 1
      Count(id) == Cardinality({i \in here : Id(i) = id})
      AfterName(i) == i > r.at /\ Id(i - 1) # "const" /\ IsIdentifier(Id(i - 1))
  IN  /\ Peek(r) = "const" \/ IsIdentifier(Peek(r))
      /\ \A i \in here : Id(i) # "const" =>
           /\ AfterName(i) => Id(i) \in {"<", "::", "&", "&&"}
           /\ Id(i) \in {"&", "&&"} => i = r.end - 1
      /\ Count("<") = Count(">") + 2 * Count(">>")

\* const and reference after the name of a type that ends at p
Qualifiers(r, p, const) ==
  LET IsAt(i, ids) == i # r.end /\ Id(i) \in ids
      references == {"&", "&&"}
  IN  CASE IsAt(p, {"const"}) ->
             IF IsAt(p + 1, references) THEN [const |-> p, reference |-> p + 1, to |-> p + 2]
             ELSE [const |-> p, reference |-> 0, to |-> p + 1]
        [] IsAt(p, references) ->
             IF IsAt(p + 1, {"const"}) THEN [const |-> p + 1, reference |-> p, to |-> p + 2]
             ELSE [const |-> const, reference |-> p, to |-> p + 1]
        [] OTHER -> [const |-> const, reference |-> 0, to |-> p]

\* tryReadFunctionSignature
FunctionSignature(r, returnType) ==
  LET Param(e) == Then(ParseType(e, TRUE), LAMBDA type, p : IF p = e.end THEN Ok(type, p) ELSE SyntaxError)
      ParamTypes(c) == Elements(c, Param)
      IsAt(i, id) == i # r.end /\ Id(i) = id
  IN  Then(DelimiterPair(r), LAMBDA content, close :
      Then(ParamTypes(content), LAMBDA params, q :
        LET p == close + 1
            const == IF IsAt(p, "const") THEN p ELSE 0
            s == IF IsAt(p, "const") THEN p + 1 ELSE p
            reference == IF IsAt(s, "&") THEN s ELSE 0
        IN  Ok(QualifiedType(const, Null, reference, FunctionType(returnType, params)),
               IF IsAt(s, "&") THEN s + 1 ELSE s)))

\* lookAheadFunctionSignature, then the attempt to read one
TypeParser(r, signatures) ==
  Then(Optional(r, "const"), LAMBDA const, p :
  Then(AnyIdentifier(From(r, p)), LAMBDA name, q :
    LET qualifiers == Qualifiers(r, q, const)
        type == QualifiedType(qualifiers.const, name, qualifiers.reference, Null)
        here == From(r, qualifiers.to)
        Plain == Ok(type, here.at)
    IN  IF Finished(here) \/ ~signatures \/ Peek(here) # "(" THEN Plain
        ELSE Then(DelimiterPair(here), LAMBDA content, close :
             Then(ListElements(content), LAMBDA es, s :
               LET signature == FunctionSignature(here, type)
               IN  IF (\E i \in DOMAIN es : ~IsWhollyAType(es[i])) THEN Plain
                   ELSE IF ~signature.ok /\ signature.what = "SyntaxError" THEN Plain
                   ELSE signature))))

-----------------------------------------------------------------------------
(* Declarations: the state of a DeclParser is a record.                        *)
NoType == QualifiedType(0, Null, 0, Null)
DeclParser(className, options) ==
  [dec |-> "Undecided", class |-> className, options |-> options, attribute |-> Null, virtual |-> 0,
   static |-> 0, explicit |-> 0, type |-> NoType, name |-> Null, func |-> Null, var |-> Null,
   paramsRead |-> FALSE]
IsParsingMember(d) == ~IsNull(d.class)
IsParsingFunction(d) == d.dec \in {"ParsingFunction", "ParsingCastDecl", "ParsingConstructor",
                                   "ParsingDestructor"}
Decided(d, decision, func) == [d EXCEPT !.dec = decision, !.func = func]

TokenText(i) == Spelling(tokens[i].from, tokens[i].to)
IsClassName(d, n) == /\ n.kind = "SimpleIdentifier"
                     /\ d.class.kind \in {"SimpleIdentifier", "TemplateIdentifier"}
                     /\ TokenText(d.class.toks[1]) = TokenText(n.toks[1])

ReadAttribute(r) ==
  Then(DelimiterPair(r), LAMBDA outer, close :
  Then(DelimiterPair(outer), LAMBDA inner, second :
  Then(ParseExpression(inner), LAMBDA attribute, p :
  Then(ReadId(From(r, p), "]"), LAMBDA t1, q :
  Then(ReadId(From(r, q), "]"), LAMBDA t2, stop :
       Ok(AttributeDeclaration(r.at, attribute, t2), stop))))))
OptionalAttribute(r) ==
  IF Peek(r) = "[" /\ Id(r.at + 1) = "[" THEN ReadAttribute(r) ELSE Ok(Null, r.at)

OptionalDeclSpecifiers(d, r) ==
  Then(Optional(r, "virtual"), LAMBDA virtual, p :
  Then(Optional(From(r, p), "static"), LAMBDA static, q :
  Then(Optional(From(r, q), "explicit"), LAMBDA explicit, s :
    IF ~IsParsingMember(d) /\ (virtual # 0 \/ explicit # 0) THEN SyntaxError
    ELSE Ok([d EXCEPT !.virtual = virtual, !.static = static, !.explicit = explicit], s))))

DetectDestructor(d, r) ==
  IF r.at + 1 = r.end THEN SyntaxError
  ELSE Then(ParseIdentifier(From(r, r.at + 1), {"TemplateId"}), LAMBDA name, p :
    LET dtor == FunctionDecl("DestructorDecl", name)
    IN  IF ~IsClassName(d, name) THEN SyntaxError
        ELSE Ok(Decided(d, "ParsingDestructor", [dtor EXCEPT !.toks[LeadingToken] = r.at,
                                                             !.toks[VirtualKeyword] = d.virtual]), p))

DetectConstructor(d, r) ==          \* only an explicit one is detected before its type is read
  LET name == AnyIdentifier(r)
      ctor == FunctionDecl("ConstructorDecl", name.v)
  IN  IF d.explicit # 0 /\ name.ok
      THEN IF IsClassName(d, name.v) /\ Id(name.at) = "("
           THEN Ok(Decided(d, "ParsingConstructor", [ctor EXCEPT !.toks[ExplicitKeyword] = d.explicit]), name.at)
           ELSE Ok(d, r.at)
      ELSE IF d.explicit # 0 /\ name.what # "SyntaxError" THEN name ELSE Ok(d, r.at)

DetectCast(d, r) ==
  LET type == ParseType(From(r, r.at + 1), FALSE)
      cast == FunctionDecl("CastDecl", Null)
  IN  IF type.ok
      THEN Ok(Decided(d, "ParsingCastDecl", [cast EXCEPT !.kids[ReturnType] = type.v,
                                                         !.toks[LeadingToken] = r.at,
                                                         !.toks[ExplicitKeyword] = d.explicit]), type.at)
      ELSE IF d.explicit # 0 THEN SyntaxError ELSE Ok(d, r.at)

DetectBeforeType(d, r) ==
  CASE ~IsParsingMember(d) -> Ok(d, r.at)
    [] IsParsingMember(d) /\ Peek(r) = "~" -> DetectDestructor(d, r)
    [] IsParsingMember(d) /\ Peek(r) = "operator" -> DetectCast(d, r)
    [] OTHER -> DetectConstructor(d, r)

\* A constructor whose name, or name and parameters, were read as a type
DetectBeforeDeclarator(d, r) ==
  LET function == d.type.kids[2]
      returned == function.kids[1]
      IsSimple(type) == type.toks = <<0, 0>>
      Ctor(name, params) == LET ctor == FunctionDecl("ConstructorDecl", name)
                            IN  [ctor EXCEPT !.kids[Attribute] = d.attribute, !.kids[Params] = List(params)]
      Constructor(ctor, paramsRead) == [Decided(d, "ParsingConstructor", ctor) EXCEPT !.type = NoType,
                                                                                     !.paramsRead = paramsRead]
  IN  IF ~IsParsingMember(d) THEN d
      ELSE IF ~IsNull(function) /\ Peek(r) \in {":", "{", "="}
      THEN IF IsSimple(returned) /\ IsClassName(d, returned.kids[1])
           THEN LET types == function.kids[2].kids
                IN  Constructor(Ctor(returned.kids[1],
                                     [i \in DOMAIN types |-> FunctionParameter(types[i], 0, Null)]), TRUE)
           ELSE d
      ELSE IF Peek(r) = "(" /\ IsNull(function) /\ IsSimple(d.type) /\ IsClassName(d, d.type.kids[1])
      THEN Constructor(Ctor(d.type.kids[1], <<>>), FALSE)
      ELSE d

DetectFromDeclarator(d) ==
  LET kind == IF d.name.kind \in {"OperatorName", "LiteralOperatorName"} THEN "OperatorOverloadDecl"
              ELSE "FunctionDecl"
      func == [FunctionDecl(kind, d.name) EXCEPT !.kids[Attribute] = d.attribute, !.kids[ReturnType] = d.type]
  IN  CASE kind = "OperatorOverloadDecl" -> Decided(d, "ParsingFunction", func)
        [] kind = "FunctionDecl" /\ d.virtual # 0 ->
             Decided(d, "ParsingFunction", [func EXCEPT !.toks[VirtualKeyword] = d.virtual])
        [] OTHER -> d

NotADecl(d, r) == Ok([d EXCEPT !.dec = "NotADecl"], r.at)

DetectFromType(d, r) ==
  LET type == ParseType(r, TRUE)
      typed == DetectBeforeDeclarator([d EXCEPT !.type = type.v], From(r, type.at))
      name == ParseIdentifier(From(r, type.at), d.options)
      named == DetectFromDeclarator([typed EXCEPT !.name = name.v])
      TookBack(result) == IF result.what = "SyntaxError" THEN NotADecl(d, r) ELSE result
  IN  CASE ~type.ok -> TookBack(type)
        [] type.ok /\ typed.dec # "Undecided" -> Ok(typed, type.at)
        [] type.ok /\ typed.dec = "Undecided" ->
             IF Id(type.at) \notin NameIds \cup {"operator", "UserDefinedName"} THEN NotADecl(d, r)
             ELSE IF ~name.ok THEN TookBack(name)
             ELSE IF Id(name.at) = ";" THEN Ok([named EXCEPT !.dec = "ParsingVariable"], name.at)
             ELSE Ok(named, name.at)

DetectedDecl(d, r) ==
  IF IsClearlyAnExpr(Peek(r)) THEN NotADecl(d, r)
  ELSE Then(OptionalAttribute(r), LAMBDA attribute, p :
       Then(OptionalDeclSpecifiers([d EXCEPT !.attribute = attribute], From(r, p)), LAMBDA d1, q :
       Then(DetectBeforeType(d1, From(r, q)), LAMBDA d2, s :
         IF d2.dec # "Undecided" THEN Ok(d2, s) ELSE DetectFromType(d2, From(r, s)))))

-----------------------------------------------------------------------------
(* DeclParser::parse, once the declaration is detected                         *)
\* delete, default or, when asked for, the zero of a pure function: the function, or Null
OptionalSpecifier(d, r, ids) ==
  LET spec == r.at + 1
      place == CASE Id(spec) = "delete" -> DeleteKeyword [] Id(spec) = "default" -> DefaultKeyword
                 [] OTHER -> VirtualPure
      IsZero == tokens[spec].to = tokens[spec].from + 1
  IN  CASE IsNull(d.func) \/ d.dec = "ParsingVariable" \/ Peek(r) # "=" -> Ok(Null, r.at)
        [] OTHER ->
             IF spec = r.end THEN SyntaxError
             ELSE IF Id(spec) \notin ids THEN Ok(Null, r.at)
             ELSE Then(ReadId(From(r, spec + 1), ";"), LAMBDA t, p :
                  IF place = VirtualPure /\ ~IsZero THEN SyntaxError
                  ELSE Ok([d.func EXCEPT !.toks[EqualSign] = r.at, !.toks[place] = spec], p))

\* What follows the declarator of a function: a specifier or the body
FinishFunction(d, r, ids) ==
  Then(OptionalSpecifier(d, r, ids), LAMBDA specified, p :
    IF ~IsNull(specified) THEN Ok(specified, p)
    ELSE Then(ReadBody(r), LAMBDA body, q : Ok([d.func EXCEPT !.kids[Body] = body], q)))
Specifiers(d) == {"delete", "default"} \cup (IF IsParsingMember(d) THEN {"OctalLiteral"} ELSE {})

ReadParams(d, r) ==
  Then(Delimited(r, ")", ParamList), LAMBDA params, p : Ok([d EXCEPT !.func.kids[Params] = List(params.v)], p))

ParseFunctionDecl(d, r) ==
  Then(ReadParams(d, r), LAMBDA d1, p :
  Then(Optional(From(r, p), "const"), LAMBDA const, q :
       FinishFunction([d1 EXCEPT !.func.toks[ConstQualifier] = const, !.dec = "ParsingFunction"],
                      From(r, q), Specifiers(d))))

ParenthesesOrBraces(r) ==          \* an initialization between them, or Null
  CASE Peek(r) = "{" -> Then(Delimited(r, "}", ExpressionList), LAMBDA args, p :
                             Ok(BraceInitialization(r.at, args.v, args.right), p))
    [] Peek(r) = "(" -> Then(Delimited(r, ")", ExpressionList), LAMBDA args, p :
                             Ok(ConstructorInitialization(r.at, args.v, args.right), p))
    [] OTHER -> Ok(Null, r.at)

MemberInitializations(r) ==
  Then(ParseIdentifier(r, {"TemplateId"}), LAMBDA name, p :
  Then(ParenthesesOrBraces(From(r, p)), LAMBDA init, q :
    LET here == From(r, q)
        this == IF IsNull(init) THEN <<>> ELSE <<MemberInitialization(name, init)>>
    IN  IF Peek(here) = "{" THEN Ok(this, q)
        ELSE Then(ReadId(here, ","), LAMBDA t, s :
             Then(MemberInitializations(From(r, s)), LAMBDA others, stop : Ok(this \o others, stop)))))

ParseConstructor(d, r) ==
  Then(IF d.paramsRead THEN Ok(d, r.at) ELSE ReadParams(d, r), LAMBDA d1, p :
  Then(IF Id(p) = ":" THEN MemberInitializations(From(r, p + 1)) ELSE Ok(<<>>, p), LAMBDA inits, q :
       FinishFunction([d1 EXCEPT !.func.kids[MemberInitializers] = List(inits)], From(r, q),
                      {"delete", "default"})))

ParseDestructor(d, r) ==
  Then(ReadId(r, "("), LAMBDA t, p :
  Then(ReadId(From(r, p), ")"), LAMBDA u, q : FinishFunction(d, From(r, q), {"delete", "default"})))

ParseVarDecl(d, r) ==
  LET var == [VariableDecl(d.type, d.name) EXCEPT !.toks[StaticSpecifier] = d.static]
      Assignment == Then(Statement(From(r, r.at + 1)), LAMBDA content, p :
                    Then(ParseExpression(content), LAMBDA value, q :
                         Ok(AssignmentInitialization(r.at, value), q)))
  IN  Then(IF Peek(r) = "=" THEN Assignment ELSE ParenthesesOrBraces(r), LAMBDA init, p :
      Then(ReadId(From(r, p), ";"), LAMBDA t, q :
           Ok([var EXCEPT !.kids[Init] = init, !.toks[EndSemicolon] = t], q)))

\* tryDetectFromArgsOrParams: the first element that can only be one of the two
Decide(r) ==
  CASE IsClearlyAnExpr(Peek(r)) -> "ParsingVariable"
    [] ~IsClearlyAnExpr(Peek(r)) /\ ~MayBeAnExpr(r) -> "ParsingFunction"
    [] ~IsClearlyAnExpr(Peek(r)) /\ MayBeAnExpr(r) /\ ~IsIdentifier(Peek(r)) -> "ParsingVariable"
    [] OTHER -> "Undecided"
DetectFromArgsOrParams(d, es) ==
  LET telling == {i \in DOMAIN es : Decide(es[i]) # "Undecided"}
      decision == Decide(es[CHOOSE i \in telling : \A j \in telling : i <= j])
  IN  IF telling = {} THEN d
      ELSE [d EXCEPT !.dec = decision, !.var = IF decision = "ParsingFunction" THEN Null ELSE @]

\* The elements are read as arguments and as parameters, until one of the two fails
AsArgument(d, r) ==
  LET arg == ParseExpression(r)
  IN  CASE IsParsingFunction(d) -> Ok(d, 0)
        [] ~IsParsingFunction(d) /\ arg.ok -> Ok([d EXCEPT !.var.kids[Init].kids = Append(@, arg.v)], 0)
        [] OTHER -> IF d.dec = "ParsingVariable" \/ arg.what # "SyntaxError" THEN arg
                    ELSE Ok([d EXCEPT !.dec = "ParsingFunction", !.var = Null], 0)
AsParameter(d, r) ==
  LET param == FunctionParam(r)
  IN  CASE d.dec = "ParsingVariable" -> Ok(d, 0)
        [] d.dec # "ParsingVariable" /\ param.ok ->
             Ok([d EXCEPT !.func.kids[Params] = List(Append(@.kids, param.v))], 0)
        [] OTHER -> IF IsParsingFunction(d) \/ param.what # "SyntaxError" THEN param
                    ELSE Ok([d EXCEPT !.dec = "ParsingVariable", !.func = Null], 0)
ArgsOrParams(d, es) ==
  IF es = <<>> THEN Ok(d, 0)
  ELSE Then(AsArgument(d, Head(es)), LAMBDA d1, p :
       Then(AsParameter(d1, Head(es)), LAMBDA d2, q : ArgsOrParams(d2, Tail(es))))

ReadArgsOrParams(d, r) ==
  LET Undecided(content) ==
        Then(ListElements(content), LAMBDA es, p :
          LET d1 == DetectFromArgsOrParams(d, es)
          IN  ArgsOrParams(IF IsParsingFunction(d1) THEN d1
                           ELSE [d1 EXCEPT !.var.kids[Init] = ConstructorInitialization(r.at, <<>>, 0)], es))
  IN  Then(Delimited(r, ")", Undecided), LAMBDA args, p :
        Ok(IF IsNull(args.v.var) THEN args.v
           ELSE [args.v EXCEPT !.var.kids[Init].toks[2] = args.right], p))

\* A variable or a function: what follows the parentheses has the last word
ParseUndecided(d, r) ==
  LET func == [FunctionDecl("FunctionDecl", d.name) EXCEPT
                 !.kids[Attribute] = d.attribute, !.kids[ReturnType] = d.type,
                 !.toks[StaticKeyword] = d.static, !.toks[VirtualKeyword] = d.virtual]
      var == [VariableDecl(d.type, d.name) EXCEPT !.toks[StaticSpecifier] = d.static]
  IN  Then(ReadArgsOrParams([d EXCEPT !.func = func, !.var = var], r), LAMBDA d1, p :
      Then(Optional(From(r, p), "const"), LAMBDA const, q :
        LET d2 == IF const = 0 THEN d1
                  ELSE [d1 EXCEPT !.dec = "ParsingFunction", !.var = Null, !.func.toks[ConstQualifier] = const]
            here == From(r, q)
        IN  IF const # 0 /\ d1.dec = "ParsingVariable" THEN SyntaxError
            ELSE Then(OptionalSpecifier(d2, here, Specifiers(d)), LAMBDA specified, s :
              CASE ~IsNull(specified) -> Ok(specified, s)
                [] IsNull(specified) /\ Peek(here) = "{" ->
                     IF d2.dec = "ParsingVariable" THEN SyntaxError
                     ELSE FinishFunction(d2, here, {})
                [] IsNull(specified) /\ Peek(here) = ";" ->
                     IF d2.dec = "ParsingFunction" THEN SyntaxError
                     ELSE Then(ReadId(here, ";"), LAMBDA t, stop :
                               Ok([d2.var EXCEPT !.toks[EndSemicolon] = t], stop))
                [] OTHER -> SyntaxError)))

ParsedDecl(d, r) ==
  CASE d.dec = "ParsingDestructor" -> ParseDestructor(d, r)
    [] d.dec = "ParsingConstructor" -> ParseConstructor(d, r)
    [] d.dec \in {"ParsingCastDecl", "ParsingFunction"} -> ParseFunctionDecl(d, r)
    [] d.dec = "ParsingVariable" -> ParseVarDecl(d, r)
    [] d.dec = "Undecided" /\ Peek(r) \in {"{", "="} -> ParseVarDecl(d, r)
    [] d.dec = "Undecided" /\ Peek(r) = "(" -> ParseUndecided(d, r)
    [] OTHER -> SyntaxError

\* TypedefParser, FriendParser, UsingParser, ImportParser
ParseTypedef(r) ==
  Then(ParseType(From(r, r.at + 1), TRUE), LAMBDA type, p :
  Then(OnlySimpleId(From(r, p)), LAMBDA name, q :
  Then(ReadId(From(r, q), ";"), LAMBDA t, stop : Ok(Typedef(r.at, type, name), stop))))

ParseFriend(r) ==
  Then(ReadId(From(r, r.at + 1), "class"), LAMBDA class, p :
  Then(AnyIdentifier(From(r, p)), LAMBDA name, q :
  Then(ReadId(From(r, q), ";"), LAMBDA t, stop : Ok(ClassFriendDeclaration(r.at, class, name), stop))))

ParseUsing(r) ==
  LET namespace == r.at + 1
      Name1(p) == AnyIdentifier(From(r, p))
      Ended(node, p) == Then(ReadId(From(r, p), ";"), LAMBDA t, stop : Ok(node, stop))
  IN  IF Id(namespace) = "namespace"
      THEN Then(Name1(namespace + 1), LAMBDA name, p : Ended(UsingDirective(r.at, namespace, name), p))
      ELSE Then(Name1(r.at + 1), LAMBDA name, p :
             IF name.kind = "ScopedIdentifier" THEN Ended(UsingDeclaration(r.at, name), p)
             ELSE Then(ReadId(From(r, p), "="), LAMBDA eq, q :
                  Then(Name1(q), LAMBDA aliased, s :
                       Ended(TypeAliasDeclaration(r.at, name, eq, aliased), s))))

DottedNames(r) ==
  Then(ReadAny(r), LAMBDA name, p :
    IF ~IsIdentifier(Id(name)) THEN SyntaxError
    ELSE IF Id(p) # "." THEN Ok(<<name>>, p)
    ELSE Then(DottedNames(From(r, p + 1)), LAMBDA names, q : Ok(<<name>> \o names, q)))
ParseImport(r) ==
  Then(Optional(r, "export"), LAMBDA export, p :
  Then(ReadId(From(r, p), "import"), LAMBDA keyword, q :
  Then(DottedNames(From(r, q)), LAMBDA names, s :
  Then(ReadId(From(r, s), ";"), LAMBDA t, stop : Ok(ImportDirective(export, keyword, names), stop)))))

EnumValue(r) ==
  Then(OnlySimpleId(r), LAMBDA name, p :
    IF p = r.end THEN Ok(EnumValueDeclaration(name, Null), p)
    ELSE Then(ReadId(From(r, p), "="), LAMBDA eq, q :
         Then(ParseExpression(From(r, q)), LAMBDA value, stop :
              Ok(EnumValueDeclaration(name, value), stop))))
EnumValues(r) == Elements(r, EnumValue)
ParseEnum(r) ==
  Then(Optional(From(r, r.at + 1), "class"), LAMBDA class, p :
  Then(OptionalAttribute(From(r, p)), LAMBDA attribute, q :
  Then(OnlySimpleId(From(r, q)), LAMBDA name, s :
  Then(ReadId(From(r, s), "{"), LAMBDA left, t :
  Then(Delimited(From(r, s), "}", EnumValues), LAMBDA values, u :
  Then(ReadId(From(r, u), ";"), LAMBDA semicolon, stop :
       Ok(EnumDeclaration(r.at, class, attribute, left, name, values.v, values.right), stop)))))))

ParseNamespace(r) ==
  Then(OnlySimpleId(From(r, r.at + 1)), LAMBDA name, p :
    IF Id(p) = "="
    THEN Then(AnyIdentifier(From(r, p + 1)), LAMBDA aliased, q :
         Then(ReadId(From(r, q), ";"), LAMBDA t, stop :
              Ok(NamespaceAliasDefinition(r.at, name, p, aliased), stop)))
    ELSE Then(ReadId(From(r, p), "{"), LAMBDA left, q :
         Then(Delimited(From(r, p), "}", ParseProgram), LAMBDA content, stop :
              Ok(NamespaceDeclaration(r.at, name, left, content.v, content.right), stop))))

TemplateParam(r) ==
  LET name == r.at + 1
      eq == r.at + 2
  IN  CASE Peek(r) \notin {"typename", "int", "bool"} \/ ~IsIdentifier(Id(name)) -> SyntaxError
        [] OTHER ->
             IF eq = r.end THEN Ok(TemplateParameter(r.at, name, 0, Null), eq)
             ELSE Then(ReadId(From(r, eq), "="), LAMBDA t, p :
                  Then(TemplateArg(From(r, p)), LAMBDA default, stop :
                       Ok(TemplateParameter(r.at, name, eq, default), stop)))

\* ClassParser; what follows its keyword, name and base
ClassMember(r, class) ==
  CASE Peek(r) \in {"public", "protected", "private"} ->
         Then(ReadId(From(r, r.at + 1), ":"), LAMBDA colon, p : Ok(AccessSpecifier(r.at, colon), p))
    [] Peek(r) = "friend" -> ParseFriend(r)
    [] Peek(r) \in {"using", "template", "typedef"} -> ParseStatement(r)
    [] OTHER ->
         IF Finished(r) THEN SyntaxError
         ELSE Then(DetectDecl(DeclParser(class, {"OperatorName"}), r), LAMBDA d, p :
                IF d.dec = "NotADecl" THEN SyntaxError ELSE ParseDecl(d, From(r, p)))
ClassContent(r, class) ==
  IF Peek(r) = "}" THEN Ok(<<>>, r.at)
  ELSE Then(ClassMember(r, class), LAMBDA member, p :
       Then(ClassContent(From(r, p), class), LAMBDA others, stop : Ok(<<member>> \o others, stop)))
OptionalParent(r) ==
  CASE Finished(r) -> SyntaxError
    [] ~Finished(r) /\ Peek(r) # ":" -> Ok(Null, r.at)
    [] OTHER -> IF r.at + 1 = r.end THEN SyntaxError
                ELSE ParseIdentifier(From(r, r.at + 1), {"TemplateId", "QualifiedId"})
ParseClass(r, options) ==
  Then(OptionalAttribute(From(r, r.at + 1)), LAMBDA attribute, p :
  Then(ParseIdentifier(From(r, p), options), LAMBDA name, q :
  Then(OptionalParent(From(r, q)), LAMBDA parent, s :
  Then(ReadId(From(r, s), "{"), LAMBDA left, t :
  Then(ClassContent(From(r, t), name), LAMBDA content, right :
  Then(ReadId(From(r, right + 1), ";"), LAMBDA semicolon, stop :
       Ok(ClassDecl(r.at, attribute, name, IF IsNull(parent) THEN 0 ELSE q, parent, left, content,
                    right, semicolon), stop)))))))

\* TemplateParser: setDecision makes a function of what was detected
AsFunction(d) ==
  LET func == [FunctionDecl("FunctionDecl", d.name) EXCEPT
                 !.kids[ReturnType] = d.type, !.toks[StaticKeyword] = d.static,
                 !.toks[VirtualKeyword] = d.virtual]
  IN  [d EXCEPT !.dec = "ParsingFunction", !.var = Null, !.func = IF IsNull(@) THEN func ELSE @]
TemplatedDecl(r) ==
  IF Peek(r) \in {"class", "struct"} THEN ParseClass(r, {"TemplateId"})
  ELSE Then(DetectDecl(DeclParser(Null, {"OperatorName", "TemplateId"}), r), LAMBDA d, p :
         IF d.dec = "NotADecl" THEN SyntaxError ELSE ParseDecl(AsFunction(d), From(r, p)))
ParseTemplate(r) ==
  Then(TemplateFragment(From(r, r.at + 1)), LAMBDA fragment, right :
  Then(Elements(fragment, TemplateParam), LAMBDA params, p :
  Then(TemplatedDecl(From(r, fragment.end + 1)), LAMBDA declaration, stop :
       Ok(TemplateDeclaration(r.at, r.at + 1, params, fragment.end, declaration), stop))))

-----------------------------------------------------------------------------
(* Statements: ProgramParser                                                   *)
ParseAmbiguous(r) ==
  Then(DetectDecl(DeclParser(Null, {"OperatorName"}), r), LAMBDA d, p :
    IF d.dec # "NotADecl" THEN ParseDecl(d, From(r, p))
    ELSE Then(Statement(r), LAMBDA content, s :
         Then(ParseExpression(content), LAMBDA expr, q :
         Then(ReadId(From(r, q), ";"), LAMBDA semicolon, stop :
              Ok(ExpressionStatement(expr, semicolon), stop)))))

ParseJump(r, Make(_)) ==
  Then(ReadId(From(r, r.at + 1), ";"), LAMBDA t, stop : Ok(Make(r.at), stop))

ParseReturn(r) ==
  LET here == From(r, r.at + 1)
  IN  IF Peek(here) = ";" THEN Ok(ReturnStatement(r.at, Null), here.at + 1)
      ELSE Then(Statement(here), LAMBDA content, s :
           Then(ParseExpression(content), LAMBDA value, p :
           Then(ReadAny(From(r, p)), LAMBDA t, stop : Ok(ReturnStatement(r.at, value), stop))))

ParseCompound(r) ==
  Then(Delimited(r, "}", ParseProgram), LAMBDA content, stop :
       Ok(CompoundStatement(r.at, content.v, content.right), stop))

ParseIf(r) ==
  Then(Delimited(From(r, r.at + 1), ")", ParseExpression), LAMBDA condition, p :
  Then(ParseStatement(From(r, p)), LAMBDA body, q :
    IF q = r.end \/ Id(q) # "else" THEN Ok(IfStatement(r.at, condition.v, body, 0, Null), q)
    ELSE Then(ParseStatement(From(r, q + 1)), LAMBDA elseClause, stop :
              Ok(IfStatement(r.at, condition.v, body, q, elseClause), stop))))

ParseWhile(r) ==
  Then(Delimited(From(r, r.at + 1), ")", ParseExpression), LAMBDA condition, p :
  Then(ParseStatement(From(r, p)), LAMBDA body, stop : Ok(WhileLoop(r.at, condition.v, body), stop)))

\* The three parts of a for loop; an empty part is Null
OptionalExpression(r) == IF Finished(r) THEN Ok(Null, r.at) ELSE ParseExpression(r)
ForInit(c) ==
  Then(DetectDecl(DeclParser(Null, {"OperatorName"}), c), LAMBDA d, p :
    IF d.dec # "NotADecl" THEN ParseDecl([d EXCEPT !.dec = "ParsingVariable", !.func = Null], From(c, p))
    ELSE Then(Statement(c), LAMBDA content, s :
         Then(OptionalExpression(content), LAMBDA expr, q :
         Then(ReadId(From(c, s), ";"), LAMBDA semicolon, stop :
              Ok(IF IsNull(expr) THEN Null ELSE ExpressionStatement(expr, semicolon), stop)))))
ParseFor(r) ==
  Then(DelimiterPair(From(r, r.at + 1)), LAMBDA c, close :
  Then(ForInit(c), LAMBDA init, p :
  Then(Statement(From(c, p)), LAMBDA content, s :
  Then(OptionalExpression(content), LAMBDA condition, q :
  Then(ReadId(From(c, s), ";"), LAMBDA semicolon, t :
  Then(OptionalExpression(From(c, t)), LAMBDA increment, u :
  Then(ParseStatement(From(r, close + 1)), LAMBDA body, stop :
       Ok(ForLoop(r.at, init, condition, increment, body), stop))))))))

ProgramParser(r) ==
  LET t == Peek(r)
  IN  CASE t = ";" -> Then(ReadAny(r), LAMBDA semicolon, stop : Ok(NullStatement(semicolon), stop))
        [] t = "break" -> ParseJump(r, BreakStatement)
        [] t \in {"class", "struct"} -> ParseClass(r, {})
        [] t = "continue" -> ParseJump(r, ContinueStatement)
        [] t = "enum" -> ParseEnum(r)
        [] t = "if" -> ParseIf(r)
        [] t = "return" -> ParseReturn(r)
        [] t = "using" -> ParseUsing(r)
        [] t = "while" -> ParseWhile(r)
        [] t = "for" -> ParseFor(r)
        [] t = "{" -> ParseCompound(r)
        [] t = "template" -> ParseTemplate(r)
        [] t = "typedef" -> ParseTypedef(r)
        [] t = "namespace" -> ParseNamespace(r)
        [] t = "friend" -> SyntaxError
        [] t \in {"export", "import"} -> ParseImport(r)
        [] OTHER -> ParseAmbiguous(r)

Parse(parser, r, options) ==
  CASE parser = "ExpressionParser" -> ExpressionParser(r)
    [] parser = "IdentifierParser" -> IdentifierParser(r, options)
    [] parser = "TypeParser" -> TypeParser(r, options)
    [] parser = "ProgramParser" -> ProgramParser(r)
    [] parser = "DeclParser::detectDecl" -> DetectedDecl(options, r)
    [] parser = "DeclParser::parse" -> ParsedDecl(options, r)

\* parseProgram
ParseProgram(r) ==
  IF Finished(r) THEN Ok(<<>>, r.at)
  ELSE Then(ParseStatement(r), LAMBDA statement, p :
       Then(ParseProgram(From(r, p)), LAMBDA others, stop : Ok(<<statement>> \o others, stop)))

-----------------------------------------------------------------------------
(* parse(): the tokens first, then a statement after the other                 *)
ParserInit ==
  /\ LexerInit
  /\ beyond \in Beyond
  /\ at = 1
  /\ root = <<>>

Tokenize ==
  /\ LexerNext
  /\ UNCHANGED <<beyond, at, root>>

AddStatement ==
  /\ status = "lexed"
  /\ at \in 1 .. Len(tokens)
  /\ \E result \in {ParseStatement(Reader(at, Len(tokens) + 1, FALSE))} :
       IF result.ok
       THEN /\ root' = Append(root, result.v)
            /\ at' = result.at
            /\ UNCHANGED status
       ELSE /\ status' = result.what
            /\ UNCHANGED <<at, root>>
  /\ UNCHANGED <<source, pos, tokens, beyond>>

EndOfTokens ==
  /\ status = "lexed"
  /\ at = Len(tokens) + 1
  /\ status' = "parsed"
  /\ UNCHANGED <<source, pos, tokens, beyond, at, root>>

\* `return' as the last token, with a semicolon in the memory after it: the
\* reader is past its end, and what it does next is not defined.
Overrun ==
  /\ status = "lexed"
  /\ at > Len(tokens) + 1
  /\ status' = "overrun"
  /\ UNCHANGED <<source, pos, tokens, beyond, at, root>>

ParserNext == Tokenize \/ AddStatement \/ EndOfTokens \/ Overrun
=============================================================================
