----------------------------- MODULE Statements -----------------------------
(***************************************************************************)
(* compiler::FunctionCompiler composed with the statement visitors of      *)
(* interpreter::Interpreter.  The compiler keeps a stack that predicts the *)
(* data stack: a variable is addressed by its index on it, and the pops of *)
(* a scope exit, of a break, a continue or a return are computed from it.  *)
(* The interpreter knows none of this: it pushes, pops and sets flags.     *)
(*                                                                         *)
(* A source statement is a record with the name of its node as `type'.     *)
(* Process and Generate compile it, as functions of the state of the       *)
(* compiler; a behaviour then runs one compiled body, any number of times, *)
(* one visit per step, every condition being true or false.  `todo' is the *)
(* C++ recursion of the visitor: what is left to do, innermost first.      *)
(***************************************************************************)
EXTENDS Integers, Sequences, SequencesExt

CONSTANTS
  Bodies,       \* the bodies to compile, sequences of source statements
  Kinds,        \* of functions: "function", "script", "destructor"
  Argc          \* prototype().count(), for a function or a destructor

VARIABLES
  kind,         \* what is compiled
  debug,        \* compile mode: is it Debug?
  unit,         \* the result of FunctionCompiler::compile
  todo,         \* what the visitor still has to do
  stack,        \* the slots of the call: result, arguments, locals
  flags,        \* FunctionCall.flags
  globals       \* ScriptImpl.globals

vars == <<kind, debug, unit, todo, stack, flags, globals>>

-----------------------------------------------------------------------------
(* The state of the compiler *)

\* A variable of compiler::Stack.  Its index is its position, from 0; `id'
\* tells the declarations apart (the result is 0, the arguments come next).
Variable(id) == [id |-> id, global |-> FALSE, is_static |-> FALSE]

Ids(mStack) == [i \in DOMAIN mStack |-> mStack[i].id]

AddVar(c, id) ==
  [c EXCEPT !.mStack = Append(@, Variable(id)),
            !.scopes[Len(c.scopes)].mSize = @ + 1]

Write(c, s) == [c EXCEPT !.mBuffer = Append(@, s)]
WriteAll(c, list) == [c EXCEPT !.mBuffer = @ \o list]

\* FunctionScope and enter_scope: a scope begins at the size of the stack.
Enter(c, category) ==
  LET scope == [mCategory |-> category, mSp |-> Len(c.mStack), mSize |-> 0] IN
  [c EXCEPT !.scopes = Append(@, scope),
            !.bodySp = IF category = "FunctionBody" THEN scope.mSp ELSE @]

\* Stack::destroy removes the variables of the innermost scope.
Leave(c) ==
  [c EXCEPT !.mStack = SubSeq(@, 1, Len(@) - Last(c.scopes).mSize),
            !.scopes = Front(@)]

\* A defect: the break of a for loop leaves the variable of
\* its init-scope.
CatchesBreakInBody == {"ForBody", "WhileBody"}

\* The scopes for which catch_break and catch_continue are true.
CatchesBreak == {"ForInit", "WhileBody"}
CatchesContinue == {"ForBody", "WhileBody"}

\* breakScope and continueScope climb to the nearest scope that catches.
Catching(c, categories) ==
  Last(SelectSeq(c.scopes, LAMBDA scope : scope.mCategory \in categories))

\* insertBreakpoint, with the debug information of the variables in `ids'.
Breakpoint(c, ids) ==
  IF c.debug THEN <<[type |-> "Breakpoint", debug_info |-> ids]>> ELSE <<>>

\* processVariableDestruction; i is a position on the stack.
Pop(c, i) == [type |-> "PopValue", id |-> c.mStack[i].id]

\* A defect: the exit breakpoint forgets the variable about to be destroyed.
LeftBelow(c, i) == SubSeq(Ids(c.mStack), 1, i - 1)

\* What is on the stack when the variable at position i is destroyed
\* (DebugInfoBlock::fetch, from the end of the list).
LeftAt(c, i) == SubSeq(Ids(c.mStack), 1, i)

\* A defect: the pops of a scope exit forget the first variable of the scope.
ExitScopeButFirst(c, sp) ==
  FlattenSeq([k \in 1 .. Len(c.mStack) - sp - 1 |->
    LET i == Len(c.mStack) + 1 - k IN Breakpoint(c, LeftAt(c, i)) \o <<Pop(c, i)>>])

\* processExitScope destroys, topmost first, what is above mSp, each with an exit
\* breakpoint before it.
ExitScope(c, sp) ==
  FlattenSeq([k \in 1 .. Len(c.mStack) - sp |->
    LET i == Len(c.mStack) + 1 - k IN Breakpoint(c, LeftAt(c, i)) \o <<Pop(c, i)>>])

Compound(list) == [type |-> "CompoundStatement", statements |-> list]

-----------------------------------------------------------------------------
(* The compiler: Process writes a statement to the buffer; the generators    *)
(* return one, leaving the buffer as it was                                  *)

RECURSIVE Process(_, _), ProcessAll(_, _)

ProcessAll(c, list) ==
  IF list = <<>> THEN c ELSE ProcessAll(Process(c, Head(list)), Tail(list))

Emptied(c, from) == [c EXCEPT !.mBuffer = from.mBuffer]
Written(c, from) == SubSeq(c.mBuffer, Len(from.mBuffer) + 1, Len(c.mBuffer))

\* processCompoundStatement
ProcessCompound(c, list, category) ==
  LET inner == ProcessAll(Enter(c, category), list)
  IN  Leave(WriteAll(inner, ExitScope(inner, Last(inner.scopes).mSp)))

\* generate, on one statement: a null statement, the statement, or a compound.
Generate(c, s) ==
  LET after == Process(c, s)
      list == Written(after, c)
  IN  [c |-> Emptied(after, c), s |-> IF Len(list) = 1 THEN list[1] ELSE Compound(list)]

GenerateCompound(c, s, category) ==
  LET after == ProcessCompound(c, s.statements, category)
  IN  [c |-> Emptied(after, c), s |-> Compound(Written(after, c))]

\* The body of an if or a loop has a scope only if it is a compound statement.
GenerateBranch(c, s, category) ==
  IF s.type = "CompoundStatement" THEN GenerateCompound(c, s, category)
  ELSE Generate(c, s)

\* A visited expression names variables by their indexes on this stack.
Locals(c) == Ids(c.mStack)

\* processVariableCreation.  The variables of a script's own body are its
\* globals, register_global giving each the next name.
ProcessVariable(c, is_static) ==
  LET declared == AddVar(c, c.next)
      index == Len(declared.mStack)
      written == Write([declared EXCEPT !.mStack[index].is_static = is_static,
                                        !.next = @ + 1],
                       [type |-> IF is_static THEN "PushStaticValue" ELSE "PushValue",
                        id |-> c.next, locals |-> Locals(c)])
  IN
  IF c.kind = "script" /\ Last(c.scopes).mCategory = "FunctionBody"
  THEN Write([written EXCEPT !.mStack[index].global = TRUE,
                             !.globalNames = Append(@, c.next)],
             [type |-> "PushGlobal", global_index |-> index])
  ELSE written

\* An if statement without an else clause.
Absent == [type |-> "Absent"]

ProcessIf(c, s) ==
  LET body == GenerateBranch(c, s.body, "IfBody")
      else == IF s.elseClause = Absent THEN [c |-> body.c, s |-> Compound(<<>>)]
              ELSE Generate(body.c, s.elseClause)
  IN  Write(else.c, [type |-> "IfStatement", locals |-> Locals(c),
                     body |-> body.s, elseClause |-> else.s])

ProcessWhile(c, s) ==
  LET body == GenerateBranch(c, s.body, "WhileBody")
  IN  Write(body.c, [type |-> "WhileLoop", locals |-> Locals(c), body |-> body.s])

\* processForLoop: a scope for the init statement around that of the body.
ProcessFor(c, s) ==
  LET init == Generate(Enter(c, "ForInit"), s.initStatement)
      body == GenerateBranch(init.c, s.body, "ForBody")
      destroy == Compound(ExitScope(body.c, Last(body.c.scopes).mSp))
  IN  Leave(Write(body.c, [type |-> "ForLoop", init |-> init.s,
                           locals |-> Locals(init.c), body |-> body.s,
                           destroy |-> destroy]))

\* processJumpStatement and processReturnStatement: the destruction part.
JumpSp(c, type) ==
  CASE type = "BreakStatement"    -> Catching(c, CatchesBreak).mSp
    [] type = "ContinueStatement" -> Catching(c, CatchesContinue).mSp
    [] type = "ReturnStatement"   -> c.bodySp

Process(c0, s) ==
  LET c == WriteAll(c0, Breakpoint(c0, Ids(c0.mStack))) IN
  CASE s.type = "NullStatement"       -> c
    [] s.type = "IfStatement"         -> ProcessIf(c, s)
    [] s.type = "WhileLoop"           -> ProcessWhile(c, s)
    [] s.type = "ForLoop"             -> ProcessFor(c, s)
    [] s.type = "CompoundStatement"   -> ProcessCompound(c, s.statements, s.type)
    [] s.type = "VariableDeclaration" -> ProcessVariable(c, s.staticSpecifier)
    [] s.type = "ExpressionStatement" ->
         Write(c, [type |-> s.type, locals |-> Locals(c)])
    [] OTHER ->
         Write(c, [type |-> s.type, destruction |-> ExitScope(c, JumpSp(c, s.type)),
                   locals |-> Locals(c)])

\* The slots that ExecutionContext::push gives any call: result and arguments.
Slots(k) == [i \in 1 .. 1 + (IF k = "script" THEN 0 ELSE Argc) |-> i - 1]

\* FunctionCompiler::compile.  A destructor gets no variable for its result.
Compile(k, dbg, body) ==
  LET params == SelectSeq(Slots(k), LAMBDA id : k = "destructor" => id # 0)
      empty == [kind |-> k, debug |-> dbg, mStack |-> <<>>, scopes |-> <<>>,
                mBuffer |-> <<>>, bodySp |-> 0, next |-> 100, globalNames |-> <<>>]
      result == IF k = "destructor" THEN empty
                ELSE [empty EXCEPT !.mStack = <<Variable(0)>>]
      arguments == FoldLeft(AddVar, Enter(result, "FunctionArguments"),
                            SelectSeq(params, LAMBDA id : id # 0))
      after == ProcessCompound(arguments, body, "FunctionBody")
  IN  [code |-> Compound(after.mBuffer), globalNames |-> after.globalNames]

-----------------------------------------------------------------------------
(* The interpreter *)

Exec(s) == [do |-> "exec", s |-> s]
ExecAll(list) == [i \in DOMAIN list |-> Exec(list[i])]

Init ==
  /\ kind \in Kinds /\ debug \in BOOLEAN
  /\ \E body \in Bodies : unit = Compile(kind, debug, body)
  /\ todo = <<Exec(unit.code)>>
  /\ stack = Slots(kind)
  /\ flags = "NoFlags" /\ globals = <<>>

\* The next thing to do is to visit a statement of one of these types, or to go
\* on with the loop or the compound statement around what was just done.
Visiting(types) == todo # <<>> /\ Head(todo).do = "exec" /\ Head(todo).s.type \in types
Doing(what) == todo # <<>> /\ Head(todo).do = what
This == Head(todo).s

\* What the visitor does instead of the head of `todo'.
Then(list) == todo' = list \o Tail(todo)

PushValue ==
  /\ Visiting({"PushValue", "PushStaticValue"})
  /\ stack' = Append(stack, This.id)
  /\ Then(<<>>)
  /\ UNCHANGED <<kind, debug, unit, flags, globals>>

PushGlobal ==
  /\ Visiting({"PushGlobal"})
  /\ globals' = Append(globals, stack[This.global_index])
  /\ Then(<<>>)
  /\ UNCHANGED <<kind, debug, unit, stack, flags>>

PopValue ==
  /\ Visiting({"PopValue"})
  /\ stack # <<>>
  /\ stack' = Front(stack)
  /\ Then(<<>>)
  /\ UNCHANGED <<kind, debug, unit, flags, globals>>

\* Neither an expression nor a breakpoint handler leaves anything on the stack.
Skip ==
  /\ Visiting({"ExpressionStatement", "Breakpoint"})
  /\ Then(<<>>)
  /\ UNCHANGED <<kind, debug, unit, stack, flags, globals>>

\* visit(CompoundStatement): after each statement, any flag ends the loop.
CompoundStatement ==
  /\ Visiting({"CompoundStatement"})
  /\ Then(IF This.statements = <<>> THEN <<>>
          ELSE <<Exec(Head(This.statements)),
                 [do |-> "rest", s |-> Compound(Tail(This.statements))]>>)
  /\ UNCHANGED <<kind, debug, unit, stack, flags, globals>>

Rest ==
  /\ Doing("rest")
  /\ Then(IF flags # "NoFlags" THEN <<>> ELSE <<Exec(This)>>)
  /\ UNCHANGED <<kind, debug, unit, stack, flags, globals>>

IfStatement ==
  /\ Visiting({"IfStatement"})
  /\ \E branch \in {This.body, This.elseClause} : Then(<<Exec(branch)>>)
  /\ UNCHANGED <<kind, debug, unit, stack, flags, globals>>

\* The destruction part, then the flag.
JumpStatement ==
  /\ Visiting({"BreakStatement", "ContinueStatement", "ReturnStatement"})
  /\ Then(ExecAll(This.destruction) \o <<[do |-> "flag", s |-> This]>>)
  /\ UNCHANGED <<kind, debug, unit, stack, flags, globals>>

SetFlag ==
  /\ Doing("flag")
  /\ flags' = CASE This.type = "BreakStatement"    -> "BreakFlag"
                [] This.type = "ContinueStatement" -> "ContinueFlag"
                [] This.type = "ReturnStatement"   -> "ReturnFlag"
  /\ Then(<<>>)
  /\ UNCHANGED <<kind, debug, unit, stack, globals>>

\* Each loop remembers the height of the stack when it began, for a property.
Loop(what) == [do |-> what, s |-> This,
               height |-> IF "height" \in DOMAIN Head(todo) THEN Head(todo).height
                          ELSE Len(stack)]

BeginLoop ==
  /\ Visiting({"WhileLoop", "ForLoop"})
  /\ Then((IF This.type = "ForLoop" THEN <<Exec(This.init)>> ELSE <<>>)
          \o <<Loop("condition")>>)
  /\ UNCHANGED <<kind, debug, unit, stack, flags, globals>>

Condition ==
  /\ Doing("condition")
  /\ \/ Then(<<Exec(This.body), Loop("loop")>>)
     \/ Then(IF This.type = "ForLoop" THEN <<Exec(This.destroy)>> ELSE <<>>)
  /\ UNCHANGED <<kind, debug, unit, stack, flags, globals>>

\* A loop passes a return on, and takes its own break and continue.
LoopPassesOn == flags = "ReturnFlag"

EndTurn ==
  /\ Doing("loop")
  /\ IF LoopPassesOn THEN Then(<<>>) /\ UNCHANGED flags
     ELSE /\ flags' = "NoFlags"
          /\ Then(IF flags = "BreakFlag" THEN <<>> ELSE <<Loop("condition")>>)
  /\ UNCHANGED <<kind, debug, unit, stack, globals>>

\* The body has returned and the call ends; Script::run, or a caller, starts it
\* again on new slots (Script::run empties the globals).
RunAgain ==
  /\ todo = <<>>
  /\ todo' = <<Exec(unit.code)>>
  /\ stack' = Slots(kind) /\ flags' = "NoFlags" /\ globals' = <<>>
  /\ UNCHANGED <<kind, debug, unit>>

Next ==
  \/ PushValue \/ PushGlobal \/ PopValue \/ Skip
  \/ CompoundStatement \/ Rest \/ IfStatement
  \/ JumpStatement \/ SetFlag
  \/ BeginLoop \/ Condition \/ EndTurn
  \/ RunAgain

Spec == Init /\ [][Next]_vars

-----------------------------------------------------------------------------
(* Properties *)

\* Wherever an expression is evaluated, each variable is in the slot that its
\* index names: the stack of the compiler predicts the data stack, through every
\* scope, jump and turn of a loop (FunctionCompiler; StackValue, PushValue).
StackIsAsCompiled ==
  /\ Visiting({"PushValue", "PushStaticValue", "ExpressionStatement", "IfStatement",
               "ReturnStatement"}) \/ Doing("condition")
  => stack = This.locals

\* Each PopValue, which carries the destructor of the variable it was compiled
\* for, finds that variable on top (processVariableDestruction; visit(PopValue)).
PopsItsVariable == Visiting({"PopValue"}) => Last(stack) = This.id

\* A body that ends, by any path, has destroyed its locals and nothing else, and
\* no break or continue is left pending: what Interpreter assumes of a body.
BodyLeavesNoLocals ==
  todo = <<>> => stack = Slots(kind) /\ flags \in {"NoFlags", "ReturnFlag"}

\* The globals of a script are in the order in which the compiler numbered them,
\* so that FetchGlobal finds each at its number (register_global; PushGlobal).
GlobalsAreWhereNamed ==
  /\ IsPrefix(globals, unit.globalNames)
  /\ todo = <<>> /\ flags = "NoFlags" => globals = unit.globalNames

\* What an expression names is where it is looked for: a local variable by its index
\* in the data stack, of which nothing is left at the end, a global one by its number.
NamesAreInPlace == StackIsAsCompiled /\ GlobalsAreWhereNamed /\ BodyLeavesNoLocals

\* At a breakpoint the debug information lists the variables of the call slot by
\* slot, also between the destructions of a scope exit (Workspace::valueAt).
BreakpointsShowTheStack == Visiting({"Breakpoint"}) => This.debug_info = stack

\* The comment of visit(ForLoop), "the break statement should have destroyed the
\* variable in the init-scope": a for loop left by a break leaves the stack as it
\* was when the loop began.
BreakDestroysInitScope ==
  Doing("loop") /\ This.type = "ForLoop" /\ flags = "BreakFlag"
  => Len(stack) = Head(todo).height

=============================================================================
