------------------------------ MODULE Grammar ------------------------------
(* What the parser is for: the way a tree is written.  A written tree has the  *)
(* nodes of SyntaxTree, with the spelling of its tokens (<<>> for an absent    *)
(* one).  Write gives the words of a tree, with the parentheses that the       *)
(* precedence of C++ asks for; no two trees are written with the same words,   *)
(* so reading is right when the tree that was read is written as the text is.  *)
EXTENDS Parser, Visitor

CONSTANT IsProgram(_)    \* tells the texts that are programs

P(unit) == << <<unit>> >>                        \* a word that no node keeps
Opt(t) == IF t = <<>> THEN <<>> ELSE <<t>>       \* an optional token
Scope == << <<":", ":">> >>
In(left, words, right) == P(left) \o words \o P(right)

(* A tree as it is spelled.  The order of an operator and its operand, and of  *)
(* the parts of a type, is that of the text.                                   *)
Spelled(t) == IF t = 0 THEN <<>> ELSE TokenText(t)
RECURSIVE Shape(_)
Shape(n) ==
  LET toks == [i \in DOMAIN n.toks |-> Spelled(n.toks[i])]
      kids == [i \in DOMAIN n.kids |-> Shape(n.kids[i])]
      const == n.toks[1]
      isFirst == ~IsNull(n.kids[1]) /\ const < Source(n.kids[1])[1]
      isLast == n.toks[2] # 0 /\ const > n.toks[2]
  IN  CASE n.kind = "Operation" /\ IsNull(n.kids[2]) /\ n.toks[1] < Source(n.kids[1])[1] ->
             Node(n.kind, toks, <<Null, kids[1]>>)
        [] n.kind = "QualifiedType" ->
             Node(n.kind, << IF const # 0 /\ isFirst THEN toks[1] ELSE <<>>,
                             IF const # 0 /\ ~isFirst /\ ~isLast THEN toks[1] ELSE <<>>, toks[2],
                             IF const # 0 /\ isLast THEN toks[1] ELSE <<>> >>, kids)
        [] OTHER -> Node(n.kind, toks, kids)

(* The operators of C++, from the ones that bind first to the last             *)
Binding == << {<<"*">>, <<"/">>, <<"%">>}, {<<"+">>, <<"-">>}, {<<"<", "<">>, <<">", ">">>},
  {<<"<">>, <<">">>, <<"<", "=">>, <<">", "=">>}, {<<"=", "=">>, <<"!", "=">>},
  {<<"&">>}, {<<"^">>}, {<<"|">>}, {<<"&", "&">>}, {<<"|", "|">>},
  {<<"=">>} \cup {<<o, "=">> : o \in {"*", "/", "%", "+", "-", "&", "|", "^"}}
            \cup {<<"<", "<", "=">>, <<">", ">", "=">>}, {<<",">>} >>
Postfixed == -1
Prefixed == 0
Shift == 3
LogicalOr == 10
Assignment == 11
Level(n) ==
  LET op == n.toks[1]
  IN  CASE n.kind = "ConditionalExpression" -> Assignment
        [] n.kind = "Operation" ->
             IF IsNull(n.kids[1]) THEN Prefixed
             ELSE IF IsNull(n.kids[2]) \/ op = <<".">> THEN Postfixed
             ELSE CHOOSE i \in DOMAIN Binding : op \in Binding[i]
        [] OTHER -> Postfixed

RECURSIVE Write(_), WriteAll(_), WriteList(_)
WriteAll(nodes) == IF nodes = <<>> THEN <<>> ELSE Write(Head(nodes)) \o WriteAll(Tail(nodes))
\* With a comma between them, and in parentheses if they have one
WriteList(nodes) ==
  IF nodes = <<>> THEN <<>>
  ELSE LET n == Head(nodes)
           words == IF Level(n) > Assignment THEN In("(", Write(n), ")") ELSE Write(n)
       IN  IF Len(nodes) = 1 THEN words ELSE words \o P(",") \o WriteList(Tail(nodes))
Operand(n, level) == IF Level(n) <= level THEN Write(n) ELSE In("(", Write(n), ")")
Dotted(words) == FlattenSeq([i \in DOMAIN words |-> IF i = 1 THEN <<words[i]>> ELSE <<<<".">>, words[i]>>])
TemplateArgs(args) ==
  LET Arg(n) == IF n.kind = "TypeNode" THEN Write(n) ELSE Operand(n, Shift - 1)
  IN  In("<", FlattenSeq([i \in DOMAIN args |-> IF i = 1 THEN Arg(args[i]) ELSE P(",") \o Arg(args[i])]), ">")

WriteExpression(n) ==
  LET op == Level(n)
      left == IF op = Assignment THEN LogicalOr ELSE op
      right == IF op = Assignment THEN op ELSE op - 1
  IN  CASE n.kind = "TemplateIdentifier" -> Opt(n.toks[1]) \o TemplateArgs(n.kids)
        [] n.kind = "OperatorName" ->
             Opt(n.toks[1]) \o (CASE n.toks[2] = <<")">> -> In("(", <<>>, ")")
                                  [] n.toks[2] = <<"]">> -> In("[", <<>>, "]")
                                  [] OTHER -> <<n.toks[2]>>)
        [] n.kind = "LiteralOperatorName" ->
             Opt(n.toks[1]) \o (IF n.toks[2] = n.toks[3] THEN <<n.toks[2]>> ELSE <<n.toks[2], n.toks[3]>>)
        [] n.kind = "ScopedIdentifier" -> Write(n.kids[1]) \o Scope \o Write(n.kids[2])
        [] n.kind = "FunctionCall" -> Operand(n.kids[1], Postfixed) \o In("(", WriteList(n.kids[2].kids), ")")
        [] n.kind = "BraceConstruction" -> Write(n.kids[1]) \o In("{", WriteList(n.kids[2].kids), "}")
        [] n.kind = "ArraySubscript" -> Operand(n.kids[1], Postfixed) \o In("[", Write(n.kids[2]), "]")
        [] n.kind = "Operation" /\ op = Prefixed -> <<n.toks[1]>> \o Operand(n.kids[2], Prefixed)
        [] n.kind = "Operation" /\ op = Postfixed ->
             Operand(n.kids[1], Postfixed) \o <<n.toks[1]>> \o Write(n.kids[2])
        [] n.kind = "Operation" /\ op > Prefixed ->
             Operand(n.kids[1], left) \o <<n.toks[1]>> \o Operand(n.kids[2], right)
        [] n.kind = "ConditionalExpression" ->
             Operand(n.kids[1], LogicalOr) \o P("?") \o Operand(n.kids[2], Assignment)
               \o P(":") \o Operand(n.kids[3], Assignment)
        [] n.kind = "ArrayExpression" -> In("[", WriteList(n.kids), "]")
        [] n.kind = "ListExpression" -> In("{", WriteList(n.kids), "}")
        [] n.kind = "LambdaExpression" ->
             In("[", WriteList(n.kids[1].kids), "]") \o In("(", WriteList(n.kids[2].kids), ")") \o Write(n.kids[3])
        [] OTHER -> Opt(n.toks[1])

\* An if statement that would take the else of the one it is the body of
RECURSIVE TakesElse(_)
TakesElse(n) == CASE n.kind = "IfStatement" -> IsNull(n.kids[3]) \/ TakesElse(n.kids[3])
                  [] n.kind \in {"WhileLoop", "ForLoop"} -> TakesElse(n.kids[Len(n.kids)])
                  [] OTHER -> FALSE

WriteStatement(n) ==
  LET Cond == In("(", Write(n.kids[1]), ")")
  IN  CASE n.kind = "ExpressionStatement" -> Write(n.kids[1]) \o P(";")
        [] n.kind = "CompoundStatement" -> In("{", WriteAll(n.kids), "}")
        [] n.kind = "IfStatement" ->
             P("if") \o Cond \o (IF IsNull(n.kids[3]) THEN Write(n.kids[2])
                                 ELSE (IF TakesElse(n.kids[2]) THEN In("{", Write(n.kids[2]), "}")
                                       ELSE Write(n.kids[2])) \o P("else") \o Write(n.kids[3]))
        [] n.kind = "WhileLoop" -> P("while") \o Cond \o Write(n.kids[2])
        [] n.kind = "ForLoop" ->
             P("for") \o In("(", (IF IsNull(n.kids[1]) THEN P(";") ELSE Write(n.kids[1]))
                                   \o Write(n.kids[2]) \o P(";") \o Write(n.kids[3]), ")") \o Write(n.kids[4])
        [] n.kind \in {"BreakStatement", "ContinueStatement"} -> <<n.toks[1]>> \o P(";")
        [] n.kind = "ReturnStatement" -> P("return") \o Write(n.kids[1]) \o P(";")
        [] OTHER -> P(";")

WriteFunction(n) ==
  LET params == In("(", WriteList(n.kids[Params].kids), ")")
      Tok(place) == Opt(n.toks[place])
      inits == n.kids[MemberInitializers].kids
      declarator ==
        CASE n.kind = "CastDecl" -> Tok(LeadingToken) \o Write(n.kids[ReturnType])
          [] n.kind = "DestructorDecl" -> Tok(LeadingToken) \o Write(n.kids[Name])
          [] OTHER -> Write(n.kids[ReturnType]) \o Write(n.kids[Name])
  IN  Write(n.kids[Attribute]) \o Tok(VirtualKeyword) \o Tok(StaticKeyword) \o Tok(ExplicitKeyword)
        \o declarator \o params \o Tok(ConstQualifier)
        \o (IF inits = <<>> THEN <<>> ELSE P(":") \o WriteList(inits))
        \o (IF IsNull(n.kids[Body])
            THEN Tok(EqualSign) \o Tok(DeleteKeyword) \o Tok(DefaultKeyword) \o Tok(VirtualPure) \o P(";")
            ELSE Write(n.kids[Body]))

WriteType(n) ==
  LET function == n.kids[2]
  IN  Opt(n.toks[1])
        \o (IF IsNull(function) THEN Write(n.kids[1])
            ELSE Write(function.kids[1]) \o In("(", WriteList(function.kids[2].kids), ")"))
        \o Opt(n.toks[2]) \o Opt(n.toks[3]) \o Opt(n.toks[4])

Valued(name, value) == name \o (IF IsNull(value) THEN <<>> ELSE P("=") \o Operand(value, Assignment))
WriteDeclaration(n) ==
  CASE n.kind = "AttributeDeclaration" -> In("[", In("[", Write(n.kids[1]), "]"), "]")
    [] n.kind = "EnumDeclaration" ->
         P("enum") \o Opt(n.toks[2]) \o WriteAll(SubSeq(n.kids, 1, 2)) \o In("{", WriteList(n.kids[3].kids), "}") \o P(";")
    [] n.kind = "EnumValueDeclaration" -> Valued(Write(n.kids[1]), n.kids[2])
    [] n.kind = "VariableDecl" -> Opt(n.toks[StaticSpecifier]) \o WriteAll(n.kids) \o P(";")
    [] n.kind = "ClassDecl" ->
         <<n.toks[1]>> \o WriteAll(SubSeq(n.kids, 1, 2)) \o Opt(n.toks[2]) \o Write(n.kids[3])
           \o In("{", WriteAll(n.kids[4].kids), "}") \o P(";")
    [] n.kind = "AccessSpecifier" -> <<n.toks[1]>> \o P(":")
    [] n.kind = "ConstructorInitialization" -> In("(", WriteList(n.kids), ")")
    [] n.kind = "BraceInitialization" -> In("{", WriteList(n.kids), "}")
    [] n.kind = "AssignmentInitialization" -> Valued(<<>>, n.kids[1])
    [] n.kind = "MemberInitialization" -> WriteAll(n.kids)
    [] n.kind = "FunctionParameter" -> Valued(Write(n.kids[1]) \o Opt(n.toks[1]), n.kids[2])
    [] n.kind = "LambdaCapture" -> Valued(Opt(n.toks[1]) \o Opt(n.toks[2]) \o Opt(n.toks[3]), n.kids[1])
    [] n.kind = "TypeNode" -> Write(n.kids[1])
    [] n.kind = "Typedef" -> P("typedef") \o WriteAll(n.kids) \o P(";")
    [] n.kind = "NamespaceDeclaration" ->
         P("namespace") \o Write(n.kids[1]) \o In("{", WriteAll(n.kids[2].kids), "}")
    [] n.kind = "ClassFriendDeclaration" -> P("friend") \o P("class") \o WriteAll(n.kids) \o P(";")
    [] n.kind = "UsingDeclaration" -> P("using") \o WriteAll(n.kids) \o P(";")
    [] n.kind = "UsingDirective" -> P("using") \o P("namespace") \o WriteAll(n.kids) \o P(";")
    [] n.kind = "NamespaceAliasDefinition" -> P("namespace") \o Valued(Write(n.kids[1]), n.kids[2]) \o P(";")
    [] n.kind = "TypeAliasDeclaration" -> P("using") \o Valued(Write(n.kids[1]), n.kids[2]) \o P(";")
    [] n.kind = "ImportDirective" -> Opt(n.toks[1]) \o P("import") \o Dotted(SubSeq(n.toks, 3, Len(n.toks))) \o P(";")
    [] n.kind = "TemplateParameter" ->
         <<n.toks[1], n.toks[2]>> \o (IF IsNull(n.kids[1]) THEN <<>>
                                      ELSE P("=") \o Operand(n.kids[1], Shift - 1))
    [] n.kind = "TemplateDeclaration" ->
         P("template") \o In("<", WriteList(n.kids[1].kids), ">") \o Write(n.kids[2])
    [] n.kind = "ScriptRootNode" -> WriteAll(n.kids)

Write(n) ==
  CASE n.kind = "Null" -> <<>>
    [] n.kind \in NameKinds \cup ExpressionKinds -> WriteExpression(n)
    [] n.kind \in StatementKinds -> WriteStatement(n)
    [] n.kind = "QualifiedType" -> WriteType(n)
    [] IsFunctionDecl(n) -> WriteFunction(n)
    [] OTHER -> WriteDeclaration(n)

-----------------------------------------------------------------------------
(* Two angles close two lists, whether they were written apart or together.    *)
Angles(words) == FlattenSeq([i \in DOMAIN words |-> IF words[i] = <<">", ">">> THEN P(">") \o P(">")
                                                    ELSE <<words[i]>>])
Words == [i \in DOMAIN tokens |-> TokenText(i)]

\* A program is read, whatever the memory after its last token shows, as the
\* tree that is written with its words: the operators bind, the elses attach,
\* and declarations are told from expressions as they are in C++.
ReadsWhatIsWritten ==
  status \notin {"lexing", "lexed"} /\ IsProgram(source) =>
    /\ status = "parsed"
    /\ Angles(Write(Shape(ScriptRootNode(root)))) = Angles(Words)

\* A text is never read as a program with a delimiter that is not closed, or
\* that is closed by another one, although each fragment is delimited by
\* counting alone and a parser may look past the end of its fragment.
Closing == [open \in {"(", "{", "["} |-> CASE open = "(" -> ")" [] open = "{" -> "}" [] open = "[" -> "]"]
Unclosed ==
  LET Awaited[i \in 0 .. Len(tokens)] ==
        IF i = 0 THEN <<>>
        ELSE LET before == Awaited[i - 1]
                 id == tokens[i].id
             IN  CASE id \in DOMAIN Closing -> <<Closing[id]>> \o before
                   [] id \notin DOMAIN Closing /\ before # <<>> /\ id = before[1] -> Tail(before)
                   [] OTHER -> IF id \in {")", "}", "]"} THEN <<"none">> \o before ELSE before
  IN  Awaited[Len(tokens)]
AcceptsOnlyTheClosed == status = "parsed" => Unclosed = <<>>

\* The source() of a node contains the sources of the nodes and the tokens that
\* a visitor is handed for it, so that a message or a breakpoint that shows a
\* statement shows all of it; and a visitor that recurses into every node is
\* handed no token twice, but those of which the parser makes two.
Inside(a, b) == a = <<>> \/ (b # <<>> /\ a[1] <= a[2] /\ b[1] <= a[1] /\ a[2] <= b[2])
SourcesNest ==
  \A i \in DOMAIN root :
    /\ \A n \in Visited(root[i]) :
         /\ \A c \in NodesSeen(n) : Inside(Source(c), Source(n))
         /\ \A t \in TokensSeen(n) : Inside(Text(t), Source(n))
    /\ LET seen == SelectSeq(Walk(root[i]), LAMBDA t : t # 0)
       IN  \A j, k \in DOMAIN seen : seen[j] = seen[k] /\ tokens[seen[j]].id \notin {"UserDefinedLiteral", ">>"} => j = k
=============================================================================
