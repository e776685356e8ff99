----------------------------- MODULE SyntaxTree -----------------------------
(* The syntax tree (include/script/ast/node.h, src/ast/node.cpp).  A node has  *)
(* a kind, its tokens (0 when the token is absent) and its children (Null when *)
(* the pointer is null).  One constructor per class of node; the members that  *)
(* are vectors become a node of kind List.                                     *)
EXTENDS Integers, Sequences

Node(kind, toks, kids) == [kind |-> kind, toks |-> toks, kids |-> kids]
Null == Node("Null", <<>>, <<>>)
List(nodes) == Node("List", <<>>, nodes)
IsNull(n) == n.kind = "Null"

(* Expressions                                                                 *)
Literal(kind, t) == Node(kind, <<t>>, <<>>)
SimpleIdentifier(t) == Node("SimpleIdentifier", <<t>>, <<>>)
TemplateIdentifier(t, left, args, right) == Node("TemplateIdentifier", <<t, left, right>>, args)
OperatorName(keyword, symbol) == Node("OperatorName", <<keyword, symbol>>, <<>>)
LiteralOperatorName(keyword, quotes, suffix) ==
  Node("LiteralOperatorName", <<keyword, quotes, suffix>>, <<>>)
QualifiedIdentifier(lhs, rhs) == Node("ScopedIdentifier", <<>>, <<lhs, rhs>>)
\* ScopedIdentifier::New: the last name under the scope made of the others
ScopedIdentifier(names) ==
  LET Scope[i \in 1 .. Len(names)] ==
        IF i = 1 THEN names[1] ELSE QualifiedIdentifier(Scope[i - 1], names[i])
  IN  Scope[Len(names)]
FunctionCall(callee, left, args, right) ==
  Node("FunctionCall", <<left, right>>, <<callee, List(args)>>)
BraceConstruction(type, left, args, right) ==
  Node("BraceConstruction", <<left, right>>, <<type, List(args)>>)
ArraySubscript(array, left, index, right) ==
  Node("ArraySubscript", <<left, right>>, <<array, index>>)
Operation(op, arg1, arg2) == Node("Operation", <<op>>, <<arg1, arg2>>)
ConditionalExpression(cond, question, onTrue, colon, onFalse) ==
  Node("ConditionalExpression", <<question, colon>>, <<cond, onTrue, onFalse>>)
ArrayExpression(left, elements, right) == Node("ArrayExpression", <<left, right>>, elements)
ListExpression(left, elements, right) == Node("ListExpression", <<left, right>>, elements)
LambdaCapture(reference, byValue, name, eq, value) ==
  Node("LambdaCapture", <<reference, byValue, name, eq>>, <<value>>)
LambdaExpression(left, captures, right, leftPar, params, rightPar, body) ==
  Node("LambdaExpression", <<left, right, leftPar, rightPar>>, <<List(captures), List(params), body>>)

(* Types and initializations                                                   *)
\* functionType is Null, or the node made by FunctionType (and type is Null)
QualifiedType(const, type, reference, functionType) ==
  Node("QualifiedType", <<const, reference>>, <<type, functionType>>)
FunctionType(returnType, params) == Node("FunctionType", <<>>, <<returnType, List(params)>>)
TypeNode(type) == Node("TypeNode", <<>>, <<type>>)
FunctionParameter(type, name, default) == Node("FunctionParameter", <<name>>, <<type, default>>)
ConstructorInitialization(left, args, right) ==
  Node("ConstructorInitialization", <<left, right>>, args)
BraceInitialization(left, args, right) == Node("BraceInitialization", <<left, right>>, args)
AssignmentInitialization(eq, value) == Node("AssignmentInitialization", <<eq>>, <<value>>)
MemberInitialization(name, init) == Node("MemberInitialization", <<>>, <<name, init>>)

(* Statements                                                                  *)
NullStatement(semicolon) == Node("NullStatement", <<semicolon>>, <<>>)
ExpressionStatement(expr, semicolon) == Node("ExpressionStatement", <<semicolon>>, <<expr>>)
CompoundStatement(left, statements, right) == Node("CompoundStatement", <<left, right>>, statements)
IfStatement(keyword, condition, body, else, elseClause) ==
  Node("IfStatement", <<keyword, else>>, <<condition, body, elseClause>>)
WhileLoop(keyword, condition, body) == Node("WhileLoop", <<keyword>>, <<condition, body>>)
ForLoop(keyword, init, condition, increment, body) ==
  Node("ForLoop", <<keyword>>, <<init, condition, increment, body>>)
BreakStatement(keyword) == Node("BreakStatement", <<keyword>>, <<>>)
ContinueStatement(keyword) == Node("ContinueStatement", <<keyword>>, <<>>)
ReturnStatement(keyword, value) == Node("ReturnStatement", <<keyword>>, <<value>>)

(* Declarations                                                                *)
AttributeDeclaration(left, attribute, right) ==
  Node("AttributeDeclaration", <<left, right>>, <<attribute>>)
EnumValueDeclaration(name, value) == Node("EnumValueDeclaration", <<>>, <<name, value>>)
EnumDeclaration(keyword, class, attribute, left, name, values, right) ==
  Node("EnumDeclaration", <<keyword, class, left, right>>, <<attribute, name, List(values)>>)
VariableDecl(type, name) == Node("VariableDecl", <<0, 0>>, <<type, name, Null>>)
StaticSpecifier == 1       \* places in the tokens of a VariableDecl
EndSemicolon == 2
Init == 3                  \* and in its children
ClassDecl(keyword, attribute, name, colon, parent, left, content, right, semicolon) ==
  Node("ClassDecl", <<keyword, colon, left, right, semicolon>>, <<attribute, name, parent, List(content)>>)
AccessSpecifier(visibility, colon) == Node("AccessSpecifier", <<visibility, colon>>, <<>>)

\* FunctionDecl and the classes derived from it, before anything but the name
\* is known; the last token is the destructor's `~' or the cast's `operator'.
FunctionDecl(kind, name) ==
  Node(kind, <<0, 0, 0, 0, 0, 0, 0, 0, 0>>, <<Null, Null, name, List(<<>>), Null, List(<<>>)>>)
ConstQualifier == 1
ExplicitKeyword == 2
StaticKeyword == 3
VirtualKeyword == 4
EqualSign == 5
DeleteKeyword == 6
DefaultKeyword == 7
VirtualPure == 8
LeadingToken == 9
Attribute == 1             \* places in its children
ReturnType == 2
Name == 3
Params == 4
Body == 5
MemberInitializers == 6
IsFunctionDecl(n) == n.kind \in {"FunctionDecl", "ConstructorDecl", "DestructorDecl",
                                 "OperatorOverloadDecl", "CastDecl"}

Typedef(keyword, type, name) == Node("Typedef", <<keyword>>, <<type, name>>)
NamespaceDeclaration(keyword, name, left, statements, right) ==
  Node("NamespaceDeclaration", <<keyword, left, right>>, <<name, List(statements)>>)
ClassFriendDeclaration(keyword, class, name) ==
  Node("ClassFriendDeclaration", <<keyword, class>>, <<name>>)
UsingDeclaration(keyword, name) == Node("UsingDeclaration", <<keyword>>, <<name>>)
UsingDirective(keyword, namespace, name) == Node("UsingDirective", <<keyword, namespace>>, <<name>>)
NamespaceAliasDefinition(keyword, name, eq, aliased) ==
  Node("NamespaceAliasDefinition", <<keyword, eq>>, <<name, aliased>>)
TypeAliasDeclaration(keyword, name, eq, aliased) ==
  Node("TypeAliasDeclaration", <<keyword, eq>>, <<name, aliased>>)
ImportDirective(export, keyword, names) == Node("ImportDirective", <<export, keyword>> \o names, <<>>)
TemplateParameter(kind, name, eq, default) == Node("TemplateParameter", <<kind, name, eq>>, <<default>>)
TemplateDeclaration(keyword, left, params, right, declaration) ==
  Node("TemplateDeclaration", <<keyword, left, right>>, <<List(params), declaration>>)
ScriptRootNode(statements) == Node("ScriptRootNode", <<>>, statements)

-----------------------------------------------------------------------------
(* source(): the first and the last token of a node, <<>> for an absent text   *)
Text(t) == IF t = 0 THEN <<>> ELSE <<t, t>>
Span(a, b) == <<a[1], b[2]>>                                   \* compute_source

\* As if the texts came in order
SpanInOrder(a, b) == IF a = <<>> THEN b ELSE IF b = <<>> THEN a ELSE Span(a, b)

\* compute_source_complex, for texts in an order that is not known
SpanComplex(a, b) ==
  CASE a = <<>> -> b
    [] a # <<>> /\ b = <<>> -> a
    [] a # <<>> /\ b # <<>> /\ a[1] < b[1] -> IF a[2] < b[2] THEN Span(a, b) ELSE a
    [] a # <<>> /\ b # <<>> /\ a[1] >= b[1] -> IF b[2] < a[2] THEN Span(b, a) ELSE a

RECURSIVE Source(_)

NameSource(n) ==
  CASE n.kind = "TemplateIdentifier" -> Span(Text(n.toks[1]), Text(n.toks[3]))
    [] n.kind = "OperatorName" -> Span(Text(n.toks[1]), Text(n.toks[2]))
    [] n.kind = "LiteralOperatorName" -> Span(Text(n.toks[1]), Text(n.toks[3]))
    [] n.kind = "ScopedIdentifier" -> Span(Source(n.kids[1]), Source(n.kids[2]))
    [] OTHER -> Text(n.toks[1])             \* literals and simple identifiers

OperationSource(n) ==
  LET op == Text(n.toks[1])
      arg1 == Source(n.kids[1])
  IN  IF ~IsNull(n.kids[2]) THEN Span(arg1, Source(n.kids[2]))
      ELSE IF op[1] < arg1[1] THEN Span(op, arg1) ELSE Span(arg1, op)

ListSource(n) == Span(Text(n.toks[1]), Text(n.toks[2]))
LambdaSource(n) == Span(Text(n.toks[1]), Source(n.kids[3]))

ExpressionSource(n) ==
  CASE n.kind \in {"FunctionCall", "BraceConstruction", "ArraySubscript"} ->
         Span(Source(n.kids[1]), Text(n.toks[2]))
    [] n.kind = "Operation" -> OperationSource(n)
    [] n.kind = "ConditionalExpression" -> Span(Source(n.kids[1]), Source(n.kids[3]))
    [] n.kind \in {"ArrayExpression", "ListExpression"} -> ListSource(n)
    [] n.kind = "LambdaExpression" -> LambdaSource(n)

\* break and continue have no value
JumpSource(n) ==
  IF n.kids = <<>> \/ IsNull(n.kids[1]) THEN Text(n.toks[1])
  ELSE Span(Text(n.toks[1]), Source(n.kids[1]))

StatementSource(n) ==
  CASE n.kind = "NullStatement" -> Text(n.toks[1])
    [] n.kind = "ExpressionStatement" -> Span(Source(n.kids[1]), Text(n.toks[1]))
    [] n.kind = "CompoundStatement" -> Span(Text(n.toks[1]), Text(n.toks[2]))
    [] n.kind = "IfStatement" ->
         Span(Text(n.toks[1]), Source(IF IsNull(n.kids[3]) THEN n.kids[2] ELSE n.kids[3]))
    [] n.kind \in {"WhileLoop", "ForLoop"} -> Span(Text(n.toks[1]), Source(n.kids[Len(n.kids)]))
    [] OTHER -> JumpSource(n)

TypeSource(n) ==
  LET function == n.kids[2]
      params == function.kids[2].kids
      returned == Source(function.kids[1])
      const == Text(n.toks[1])
      name == Source(n.kids[1])
      begin == IF const # <<>> /\ const[1] < name[1] THEN const ELSE name
      end == IF const # <<>> /\ const[1] > begin[1] THEN const
             ELSE IF n.toks[2] # 0 THEN Text(n.toks[2]) ELSE name
  IN  IF ~IsNull(function)
      THEN IF params = <<>> THEN returned ELSE Span(returned, Source(params[Len(params)]))
      ELSE Span(begin, end)

FunctionSource(n) ==
  LET parts == << Text(n.toks[ExplicitKeyword]), Text(n.toks[StaticKeyword]),
                  Text(n.toks[VirtualKeyword]), Text(n.toks[DeleteKeyword]),
                  Text(n.toks[DefaultKeyword]), Text(n.toks[VirtualPure]),
                  Source(n.kids[Body]), Source(n.kids[ReturnType]), Source(n.kids[Name]) >>
      Joined[i \in 1 .. 9] == IF i = 1 THEN parts[1] ELSE SpanComplex(Joined[i - 1], parts[i])
  IN  SpanComplex(Source(n.kids[Attribute]), Joined[9])

\* A destructor begins with its `~', a cast with `operator'.
LeadingSource(n) == SpanComplex(Text(n.toks[LeadingToken]), FunctionSource(n))

InitializationSource(n) ==
  IF n.kind = "AssignmentInitialization" THEN Span(Text(n.toks[1]), Source(n.kids[1]))
  ELSE Span(Text(n.toks[1]), Text(n.toks[2]))

VariableSource(n) ==
  Span(IF n.toks[StaticSpecifier] # 0 THEN Text(n.toks[StaticSpecifier]) ELSE Source(n.kids[1]),
       Text(n.toks[EndSemicolon]))

ImportSource(n) ==
  Span(Text(IF n.toks[1] # 0 THEN n.toks[1] ELSE n.toks[2]), Text(n.toks[Len(n.toks)]))

RootSource(n) == IF n.kids = <<>> THEN <<>> ELSE Span(Source(n.kids[1]), Source(n.kids[Len(n.kids)]))

DeclarationSource(n) ==
  CASE n.kind \in {"EnumDeclaration", "ClassDecl"} -> Span(Text(n.toks[1]), Text(n.toks[Len(n.toks)]))
    [] n.kind \in {"AccessSpecifier", "AttributeDeclaration"} -> Span(Text(n.toks[1]), Text(n.toks[2]))
    [] n.kind = "TypeNode" -> Source(n.kids[1])
    [] n.kind = "NamespaceDeclaration" -> Span(Text(n.toks[1]), Text(n.toks[3]))
    [] n.kind \in {"Typedef", "ClassFriendDeclaration", "UsingDeclaration", "UsingDirective",
                   "NamespaceAliasDefinition", "TypeAliasDeclaration", "TemplateDeclaration"} ->
         Span(Text(n.toks[1]), Source(n.kids[Len(n.kids)]))

NameKinds == {"SimpleIdentifier", "TemplateIdentifier", "OperatorName", "LiteralOperatorName",
  "ScopedIdentifier", "BoolLiteral", "IntegerLiteral", "FloatingPointLiteral", "StringLiteral",
  "UserDefinedLiteral"}
ExpressionKinds == {"FunctionCall", "BraceConstruction", "ArraySubscript", "Operation",
  "ConditionalExpression", "ArrayExpression", "ListExpression", "LambdaExpression"}
StatementKinds == {"NullStatement", "ExpressionStatement", "CompoundStatement", "IfStatement",
  "WhileLoop", "ForLoop", "BreakStatement", "ContinueStatement", "ReturnStatement"}
\* structures without a source() of their own
PartKinds == {"Null", "List", "LambdaCapture", "FunctionType", "FunctionParameter",
  "MemberInitialization", "EnumValueDeclaration", "TemplateParameter"}

Source(n) ==
  CASE n.kind \in PartKinds -> <<>>
    [] n.kind \in NameKinds -> NameSource(n)
    [] n.kind \in ExpressionKinds -> ExpressionSource(n)
    [] n.kind \in StatementKinds -> StatementSource(n)
    [] n.kind = "QualifiedType" -> IF IsNull(n.kids[1]) /\ IsNull(n.kids[2]) THEN <<>> ELSE TypeSource(n)
    [] n.kind \in {"DestructorDecl", "CastDecl"} -> LeadingSource(n)
    [] n.kind \in {"FunctionDecl", "ConstructorDecl", "OperatorOverloadDecl"} -> FunctionSource(n)
    [] n.kind \in {"ConstructorInitialization", "BraceInitialization", "AssignmentInitialization"} ->
         InitializationSource(n)
    [] n.kind = "VariableDecl" -> VariableSource(n)
    [] n.kind = "ImportDirective" -> ImportSource(n)
    [] n.kind = "ScriptRootNode" -> RootSource(n)
    [] OTHER -> DeclarationSource(n)
=============================================================================
