---------------------------- MODULE MCStatements ----------------------------
(* Statements for TLC: small bodies, every combination of two nested loops   *)
(* or branches with declarations and jumps.                                  *)
EXTENDS Statements, FiniteSets

Declare(static) == [type |-> "VariableDeclaration", staticSpecifier |-> static]
Use == [type |-> "ExpressionStatement"]
Null == [type |-> "NullStatement"]
Jump(type) == [type |-> type]
Block(list) == [type |-> "CompoundStatement", statements |-> list]
If(body, else) == [type |-> "IfStatement", body |-> body, elseClause |-> else]
While(body) == [type |-> "WhileLoop", body |-> body]
For(init, body) == [type |-> "ForLoop", initStatement |-> init, body |-> body]

\* Lists of at most two statements, the second a simple one.
Lists(S, T) == {<<>>} \cup {<<s>> : s \in S} \cup {<<s, t>> : s \in S, t \in T}

Return == Jump("ReturnStatement")
Break == Jump("BreakStatement")
Continue == Jump("ContinueStatement")

\* What a block outside any loop, and inside one, may hold.
Simple == {Declare(FALSE), Return}
InLoop == Simple \cup {Break, Continue}

\* Nested constructs, braced as the tests of the language write them, with an
\* unbraced branch only around a statement that declares nothing.
Nested(S) ==
  LET blocks == {Block(l) : l \in Lists(S, S \cap InLoop)} IN
  blocks \cup {If(b, Absent) : b \in blocks}
         \cup {If(j, Block(<<Declare(FALSE)>>)) : j \in S \ {Declare(FALSE)}}
Loops(S) ==
  LET blocks == {Block(l) : l \in Lists(S, S \cap InLoop)} IN
  {While(b) : b \in blocks} \cup {For(Declare(FALSE), b) : b \in blocks}
                            \cup {For(Use, b) : b \in blocks}

Inner == InLoop \cup Nested(InLoop) \cup Loops(InLoop)

MCBodies ==
  {<<Declare(TRUE), s, Declare(FALSE)>> : s \in Loops(Inner)}
    \cup {<<s, t, Use>> : s, t \in Simple \cup Nested(Simple)}

\* Bodies of loops and branches that are one statement without braces.
MCUnbraced ==
  {<<For(Declare(FALSE), Block(<<If(Declare(FALSE), Absent), Break>>))>>,
   <<For(Declare(FALSE), Block(<<While(Break)>>))>>}
MCDestructor == {<<Declare(FALSE), Use>>}
=============================================================================
