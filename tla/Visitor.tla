------------------------------- MODULE Visitor -------------------------------
(* AstVisitor (include/script/ast/visitor.h, src/ast/visitor.cpp): what a      *)
(* visitor is handed for a node, in this order.  A token that the tree does    *)
(* not have is handed over as an invalid one (0) where it is not tested; what  *)
(* a child is called (AstVisitor::What) is left out.                           *)
EXTENDS SyntaxTree, SequencesExt

SeeToken(t) == <<[token |-> t, node |-> Null]>>
SeeNode(n) == <<[token |-> 0, node |-> n]>>
SeeValid(t) == IF t = 0 THEN <<>> ELSE SeeToken(t)              \* visit_token
SeeIf(n) == IF IsNull(n) THEN <<>> ELSE SeeNode(n)
SeeAll(nodes) == [i \in DOMAIN nodes |-> SeeNode(nodes[i])[1]]   \* recursive_visit
Each(nodes, See(_)) == FlattenSeq([i \in DOMAIN nodes |-> See(nodes[i])])

\* The parts of a function type are handed over in its place.
RECURSIVE SeeType(_)
SeeType(n) ==
  IF IsNull(n) THEN <<>>
  ELSE LET function == n.kids[2]
       IN  IF IsNull(n.kids[1]) /\ IsNull(function) THEN <<>>
           ELSE IF ~IsNull(function) THEN SeeType(function.kids[1]) \o Each(function.kids[2].kids, SeeType)
           ELSE SeeValid(n.toks[1]) \o SeeNode(n.kids[1]) \o SeeValid(n.toks[2])

SeeParameter(n) == SeeType(n.kids[1]) \o SeeValid(n.toks[1]) \o SeeIf(n.kids[2])
SeeEnumValue(n) == SeeNode(n.kids[1]) \o SeeIf(n.kids[2])
SeeCapture(n) == Each(n.toks, SeeValid) \o SeeIf(n.kids[1])
SeeTemplateParameter(n) ==
  SeeToken(n.toks[1]) \o SeeValid(n.toks[2]) \o SeeValid(n.toks[3]) \o SeeIf(n.kids[1])

SeeName(n) ==
  CASE n.kind = "TemplateIdentifier" ->
         SeeToken(n.toks[1]) \o SeeToken(n.toks[2]) \o SeeAll(n.kids) \o SeeToken(n.toks[3])
    [] n.kind = "ScopedIdentifier" ->            \* the :: is not kept
         SeeNode(n.kids[1]) \o SeeToken(0) \o SeeNode(n.kids[2])
    [] OTHER -> Each(n.toks, SeeToken)

SeeExpression(n) ==
  CASE n.kind \in {"FunctionCall", "BraceConstruction"} ->
         SeeNode(n.kids[1]) \o SeeToken(n.toks[1]) \o SeeAll(n.kids[2].kids) \o SeeToken(n.toks[2])
    [] n.kind = "ArraySubscript" ->
         SeeNode(n.kids[1]) \o SeeToken(n.toks[1]) \o SeeNode(n.kids[2]) \o SeeToken(n.toks[2])
    [] n.kind = "Operation" /\ ~IsNull(n.kids[2]) ->
         SeeNode(n.kids[1]) \o SeeToken(n.toks[1]) \o SeeNode(n.kids[2])
    [] n.kind = "Operation" /\ IsNull(n.kids[2]) ->
         IF Source(n.kids[1])[1] < n.toks[1] THEN SeeNode(n.kids[1]) \o SeeToken(n.toks[1])
         ELSE SeeToken(n.toks[1]) \o SeeNode(n.kids[1])
    [] n.kind = "ConditionalExpression" ->
         SeeNode(n.kids[1]) \o SeeToken(n.toks[1]) \o SeeNode(n.kids[2])
           \o SeeToken(n.toks[2]) \o SeeNode(n.kids[3])
    [] n.kind \in {"ArrayExpression", "ListExpression"} ->
         SeeToken(n.toks[1]) \o SeeAll(n.kids) \o SeeToken(n.toks[2])
    [] n.kind = "LambdaExpression" ->
         SeeToken(n.toks[1]) \o Each(n.kids[1].kids, SeeCapture) \o SeeToken(n.toks[2])
           \o SeeToken(n.toks[3]) \o Each(n.kids[2].kids, SeeParameter) \o SeeToken(n.toks[4])
           \o SeeNode(n.kids[3])

SeeStatement(n) ==
  CASE n.kind = "NullStatement" -> <<>>
    [] n.kind = "ExpressionStatement" -> SeeNode(n.kids[1]) \o SeeToken(n.toks[1])
    [] n.kind = "CompoundStatement" -> SeeToken(n.toks[1]) \o SeeAll(n.kids) \o SeeToken(n.toks[2])
    [] n.kind = "IfStatement" ->
         SeeToken(n.toks[1]) \o SeeNode(n.kids[1]) \o SeeNode(n.kids[2])
           \o (IF IsNull(n.kids[3]) THEN <<>> ELSE SeeToken(n.toks[2]) \o SeeNode(n.kids[3]))
    [] n.kind = "WhileLoop" -> SeeToken(n.toks[1]) \o SeeAll(n.kids)
    [] n.kind = "ForLoop" ->
         SeeToken(n.toks[1]) \o Each(SubSeq(n.kids, 1, 3), SeeIf) \o SeeNode(n.kids[4])
    [] n.kind = "ReturnStatement" -> SeeToken(n.toks[1]) \o SeeIf(n.kids[1])
    [] OTHER -> SeeToken(n.toks[1])              \* JumpStatement

\* What replaces a body; the = is handed over even if there is none
SeeSpecifiers(n, places) ==
  SeeToken(n.toks[EqualSign]) \o Each([i \in DOMAIN places |-> n.toks[places[i]]], SeeValid)

SeeFunction(n) ==
  SeeIf(n.kids[Attribute]) \o SeeValid(n.toks[ExplicitKeyword]) \o SeeValid(n.toks[StaticKeyword])
    \o SeeValid(n.toks[VirtualKeyword]) \o SeeType(n.kids[ReturnType]) \o SeeIf(n.kids[Name])
    \o Each(n.kids[Params].kids, SeeParameter)
    \o (IF IsNull(n.kids[Body]) THEN SeeSpecifiers(n, <<DefaultKeyword, DeleteKeyword, VirtualPure>>)
        ELSE SeeNode(n.kids[Body]))

SeeConstructor(n) ==
  SeeValid(n.toks[ExplicitKeyword]) \o SeeNode(n.kids[Name]) \o Each(n.kids[Params].kids, SeeParameter)
    \o (IF IsNull(n.kids[Body]) THEN SeeSpecifiers(n, <<DefaultKeyword, DeleteKeyword>>)
        ELSE Each(n.kids[MemberInitializers].kids, LAMBDA i : SeeAll(i.kids)) \o SeeNode(n.kids[Body]))

SeeCast(n) == SeeToken(n.toks[LeadingToken]) \o SeeFunction(n)

SeeEntity(n) ==
  CASE n.kind = "EnumDeclaration" ->
         SeeToken(n.toks[1]) \o SeeValid(n.toks[2]) \o SeeIf(n.kids[1]) \o SeeNode(n.kids[2])
           \o SeeToken(n.toks[3]) \o Each(n.kids[3].kids, SeeEnumValue) \o SeeToken(n.toks[4])
    [] n.kind = "VariableDecl" ->
         SeeValid(n.toks[StaticSpecifier]) \o SeeType(n.kids[1]) \o SeeNode(n.kids[2])
           \o SeeIf(n.kids[Init]) \o SeeToken(n.toks[EndSemicolon])
    [] n.kind = "ClassDecl" ->
         SeeToken(n.toks[1]) \o SeeIf(n.kids[1]) \o SeeNode(n.kids[2])
           \o (IF n.toks[2] = 0 THEN <<>> ELSE SeeToken(n.toks[2]) \o SeeNode(n.kids[3]))
           \o SeeToken(n.toks[3]) \o SeeAll(n.kids[4].kids) \o SeeToken(n.toks[4]) \o SeeToken(n.toks[5])

SeeDeclaration(n) ==
  CASE n.kind = "AccessSpecifier" -> Each(n.toks, SeeToken)
    [] n.kind \in {"AttributeDeclaration", "ConstructorInitialization", "BraceInitialization"} ->
         SeeToken(n.toks[1]) \o SeeAll(n.kids) \o SeeToken(n.toks[2])
    [] n.kind \in {"AssignmentInitialization", "ClassFriendDeclaration", "UsingDeclaration", "UsingDirective"} ->
         Each(n.toks, SeeToken) \o SeeNode(n.kids[1])
    [] n.kind = "Typedef" -> SeeToken(n.toks[1]) \o SeeType(n.kids[1]) \o SeeNode(n.kids[2])
    [] n.kind = "NamespaceDeclaration" ->
         SeeToken(n.toks[1]) \o SeeNode(n.kids[1]) \o SeeToken(n.toks[2]) \o SeeAll(n.kids[2].kids)
           \o SeeToken(n.toks[3])
    [] n.kind = "NamespaceAliasDefinition" ->
         SeeToken(n.toks[1]) \o SeeNode(n.kids[1]) \o SeeToken(n.toks[2]) \o SeeNode(n.kids[2])
    [] n.kind = "TypeAliasDeclaration" -> SeeToken(n.toks[1]) \o SeeAll(n.kids)
    [] n.kind = "ImportDirective" -> SeeValid(n.toks[1]) \o Each(Tail(n.toks), SeeToken)
    [] n.kind = "TemplateDeclaration" ->
         SeeToken(n.toks[1]) \o SeeToken(n.toks[2]) \o Each(n.kids[1].kids, SeeTemplateParameter)
           \o SeeToken(n.toks[3]) \o SeeNode(n.kids[2])
    [] n.kind = "ScriptRootNode" -> SeeAll(n.kids)

\* ast::visit, which dispatches on the type of the node
Dispatch(n) ==
  CASE n.kind \in NameKinds -> SeeName(n)
    [] n.kind \in ExpressionKinds -> SeeExpression(n)
    [] n.kind \in StatementKinds -> SeeStatement(n)
    [] n.kind = "TypeNode" -> SeeType(n.kids[1])
    [] n.kind \in {"FunctionDecl", "DestructorDecl", "OperatorOverloadDecl"} -> SeeFunction(n)
    [] n.kind = "ConstructorDecl" -> SeeConstructor(n)
    [] n.kind = "CastDecl" -> SeeCast(n)
    [] n.kind \in {"EnumDeclaration", "VariableDecl", "ClassDecl"} -> SeeEntity(n)
    [] OTHER -> SeeDeclaration(n)

\* The nodes that a visitor meets that recurses into every node, and the tokens
\* it is handed in this order
NodesSeen(n) == {Dispatch(n)[i].node : i \in {j \in DOMAIN Dispatch(n) : ~IsNull(Dispatch(n)[j].node)}}
TokensSeen(n) == {Dispatch(n)[i].token : i \in DOMAIN Dispatch(n)} \ {0}
RECURSIVE Visited(_), Walk(_)
Visited(n) == {n} \cup UNION {Visited(c) : c \in NodesSeen(n)}
Walk(n) == Each(Dispatch(n), LAMBDA given : IF IsNull(given.node) THEN <<given.token>> ELSE Walk(given.node))
=============================================================================
