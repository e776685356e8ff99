---------------------------- MODULE Interpreter ----------------------------
(***************************************************************************)
(* The run-time half of libscript: interpreter::ExecutionContext (the data *)
(* stack, the callstack, the temporaries and the initializer-list buffer)  *)
(* driven by the recursive visitor interpreter::Interpreter.               *)
(*                                                                         *)
(* The visitor recurses on the C++ stack.  `act' is that recursion: one    *)
(* activation per running C++ call that owns part of the context, the      *)
(* innermost at `depth'.  The exception machinery of C++ is explicit,      *)
(* because the clean-up of the context hangs on it: ~Invoker restores the  *)
(* stacks only when std::uncaught_exceptions() says so.                    *)
(*                                                                         *)
(* What a compiled body does to the data stack is nondeterministic here,   *)
(* under the one discipline the compiler promises (a body has popped its   *)
(* locals when it returns); module Statements checks that promise.         *)
(***************************************************************************)
EXTENDS Integers

CONSTANTS
  Functions,          \* the functions a program calls
  Argc,               \* prototype().count() of each, `this' included
  Native,             \* those implemented by a C++ callback
  Constructors,       \* those that get a placeholder `this' (ConstructorCall)
  Destructors,        \* those Engine::destroy() invokes, on one value
  CallstackCapacity,  \* Callstack::capacity(), 256 in Engine::setup()
  MaxDepth,           \* bound: nested C++ activations
  MaxTemps,           \* bound: live entries of garbage_collector
  MaxBuffer,          \* bound: live entries of initializer_list_buffer
  MaxLocals,          \* bound: local variables of one body
  MaxElements,        \* bound: elements of one initializer list
  NestedLists         \* may an element hold a list of its own?

ASSUME FunctionsAssumption ==
  /\ Functions # {}
  /\ Argc \in [Functions -> Nat]
  /\ Native \subseteq Functions
  /\ Constructors \subseteq Functions
  /\ Destructors \subseteq Functions
  /\ \A f \in Constructors \cup Destructors : Argc[f] >= 1

ASSUME BoundsAssumption ==
  /\ CallstackCapacity \in Nat \ {0}
  /\ MaxDepth \in Nat \ {0}
  /\ MaxTemps \in Nat
  /\ MaxBuffer \in Nat
  /\ MaxLocals \in Nat
  /\ MaxElements \in Nat
  /\ NestedLists \in BOOLEAN

VARIABLES
  size,     \* Stack.size: the slots of the data stack in use
  mSize,    \* Callstack.mSize
  mData,    \* Callstack.mData: the frames, popped ones keep their content
  gc,       \* garbage_collector.size()
  ilist,    \* initializer_list_buffer.size()
  depth,    \* the number of activations
  act,      \* the activations
  mode,     \* does C++ run, or unwind its stack?
  exc,      \* std::uncaught_exceptions()
  caught    \* history: has an exception been caught inside an eval, or outside?

vars == <<size, mSize, mData, gc, ilist, depth, act, mode, exc, caught>>

NoFlags == 0
ReturnFlag == 4

\* What the C++ caller of an activation does with its result.  A node of an
\* expression is managed as a temporary, and is the next argument or element of
\* its parent or else an operand.  A statement pushes it as a local (PushValue),
\* as an argument of a base or delegate constructor, or as its own `this'
\* (ConstructionStatement), pops the local just destroyed (PopValue), or does
\* nothing; the loops of Interpreter::eval drop what they just destroyed.
NodeUses == {"operand", "argument"}
Uses == NodeUses \cup {"push", "delegate", "this", "pop", "nothing",
                      "dropTemp", "dropElement"}

Catchers == {"never", "inside", "outside"}

Kinds == {"none", "call", "eval", "list"}

\* `sp' and `base' are the sizes of the two stacks when the activation began.
\* Only Invoker keeps them at run time (`base' by the callstack it pushed on);
\* for the other kinds they are history, for the properties.
Activation == [kind : Kinds, use : Uses, sp : Nat, base : Nat,
               fn : Functions, running : BOOLEAN, pushed : Nat, locals : Nat,
               gcs : Nat, ils : Nat, done : BOOLEAN]

AnyFunction == CHOOSE f \in Functions : TRUE

Blank == [kind |-> "none", use |-> "nothing", sp |-> 0, base |-> 0,
          fn |-> AnyFunction, running |-> FALSE, pushed |-> 0, locals |-> 0,
          gcs |-> 0, ils |-> 0, done |-> FALSE]

Fresh(kind, use) == [kind |-> kind, use |-> use, sp |-> size, base |-> mSize,
          fn |-> AnyFunction, running |-> FALSE, pushed |-> 0, locals |-> 0,
          gcs |-> gc, ils |-> ilist, done |-> FALSE]

Top == act[depth]
Running == mode = "run"
CanEnter == Running /\ depth < MaxDepth

InNative == depth > 0 /\ Top.kind = "call" /\ Top.running /\ Top.fn \in Native
InScript == depth > 0 /\ Top.kind = "call" /\ Top.running /\ Top.fn \notin Native
Preparing == depth > 0 /\ Top.kind = "call" /\ ~Top.running
Evaluating == depth > 0 /\ Top.kind = "eval" /\ ~Top.done
Dropping == depth > 0 /\ Top.kind = "eval" /\ Top.done
InList == depth > 0 /\ Top.kind = "list"

Init ==
  /\ size = 0 /\ mSize = 0 /\ gc = 0 /\ ilist = 0
  /\ mData = [i \in 0 .. CallstackCapacity - 1 |->
                [mStackIndex |-> 0, mCallee |-> AnyFunction, flags |-> NoFlags]]
  /\ depth = 0
  /\ act = [i \in 1 .. MaxDepth |-> Blank]
  /\ mode = "run" /\ exc = 0 /\ caught = "never"

-----------------------------------------------------------------------------
(* The pieces of ExecutionContext *)

\* A defect: the slot keeps the flags of the call before.
PushFrameKeepingFlags(f, sp) ==
  /\ mData' = [mData EXCEPT ![mSize].mStackIndex = sp, ![mSize].mCallee = f]
  /\ mSize' = mSize + 1

\* Callstack::push on slot mSize.
PushFrame(f, sp) ==
  /\ mData' = [mData EXCEPT ![mSize] = [mStackIndex |-> sp, mCallee |-> f,
                                        flags |-> NoFlags]]
  /\ mSize' = mSize + 1

\* Defects of ~Invoker: it restores nothing, only a body that ran, or pops
\* no frame.
StackNeverRestored(sz) == sz
StackRestoredAfterBody(sz) ==
  IF exc > 0 /\ Top.running /\ sz > Top.sp THEN Top.sp ELSE sz
CallstackNeverPopped(m) == m

\* ~Invoker on stacks of sz slots and m frames: every invoker restores the
\* stacks whenever any exception is in flight, its own or not.
StackAfterInvoker(sz) == IF exc > 0 /\ sz > Top.sp THEN Top.sp ELSE sz
CallstackAfterInvoker(m) == IF exc > 0 /\ Top.running THEN m - 1 ELSE m

\* An exception leaves the innermost code; nothing below changes yet.
Raise ==
  /\ mode' = "unwind"
  /\ exc' = exc + 1
  /\ UNCHANGED <<size, mSize, mData, gc, ilist, depth, act, caught>>

\* A finished node hands its value to the node that asked for it: as an argument
\* it is pushed, as an element it goes to the list buffer, an operand just stays
\* where C++ has it.
Given(parent, use) == [act[parent] EXCEPT !.pushed = IF use = "argument" THEN @ + 1 ELSE @]
Slots(parent, use) ==
  IF use = "argument" /\ act[parent].kind = "call" THEN 1 ELSE 0
Elements(parent, use) ==
  IF use = "argument" /\ act[parent].kind = "list" THEN 1 ELSE 0
HasRoom(parent, use) ==
  gc < MaxTemps /\ ilist + Elements(parent, use) <= MaxBuffer

\* Leaving the innermost activation, its caller becoming p.
Leave(p) ==
  /\ depth' = depth - 1
  /\ act' = IF depth = 1 THEN [act EXCEPT ![depth] = Blank]
            ELSE [act EXCEPT ![depth] = Blank, ![depth - 1] = p]

Caller == IF depth = 1 THEN Blank ELSE act[depth - 1]

Enter(a) ==
  /\ depth' = depth + 1
  /\ act' = [act EXCEPT ![depth + 1] = a]

-----------------------------------------------------------------------------
(* Interpreter::invoke, the entry point of C++ code *)

InvokeWith(f, use) ==
  \/ /\ mSize < CallstackCapacity
     /\ PushFrame(f, size)
     /\ size' = size + 1 + Argc[f]
     /\ Enter([Fresh("call", use) EXCEPT !.fn = f, !.running = TRUE,
                                         !.pushed = Argc[f]])
     /\ UNCHANGED <<gc, ilist, mode, exc, caught>>
  \/ /\ mSize = CallstackCapacity
     /\ Raise

\* The embedding program, or a native callback, calls Function::invoke.
Invoke(f) ==
  /\ CanEnter
  /\ depth = 0 \/ InNative
  /\ InvokeWith(f, "nothing")

\* PopValue, ExpressionStatement and evalCondition destroy a value.
DestroyValue(f, use) ==
  /\ CanEnter /\ InScript
  /\ f \in Destructors
  /\ use = "pop" => Top.locals > 0
  /\ InvokeWith(f, use)

\* The two clean-up loops of Interpreter::eval destroy what only they hold.
DestroyTemporary(f) ==
  /\ CanEnter /\ Dropping
  /\ f \in Destructors
  /\ \/ gc > Top.gcs /\ InvokeWith(f, "dropTemp")
     \/ gc = Top.gcs /\ ilist > Top.ils /\ InvokeWith(f, "dropElement")

-----------------------------------------------------------------------------
(* Interpreter::eval and the expression visitors *)

\* A statement of a script body evaluates its expression; Engine::eval, called
\* by the embedding program or a native callback, does so without a statement.
BeginEval(use) ==
  /\ CanEnter
  /\ CASE use = "push"     -> InScript /\ Top.locals < MaxLocals
       [] use = "delegate" -> Preparing /\ Top.use = "this"
                              /\ Top.pushed < Argc[Top.fn]
       [] use = "nothing"  -> InScript \/ InNative \/ depth = 0
  /\ Enter(Fresh("eval", use))
  /\ UNCHANGED <<size, mSize, mData, gc, ilist, mode, exc, caught>>

\* The nodes visited next, by what they are for: the root of an eval, the next
\* argument of a call, the next element of a list, or an operand of those.
NodeExpected(use) ==
  \/ use = "operand" /\ (Evaluating \/ InList)
  \/ use = "argument" /\ InList /\ Top.pushed < MaxElements
  \/ Preparing /\ Top.use \in NodeUses /\ Top.pushed < Argc[Top.fn]

\* A literal, variable, member, ... : a node that calls nothing.
Leaf(use) ==
  /\ Running /\ NodeExpected(use) /\ HasRoom(depth, use)
  /\ gc' = gc + 1
  /\ size' = size + Slots(depth, use)
  /\ ilist' = ilist + Elements(depth, use)
  /\ act' = [act EXCEPT ![depth] = Given(depth, use)]
  /\ UNCHANGED <<mSize, mData, depth, mode, exc, caught>>

\* Engine::copy, for a Copy node whose operand has been visited, invokes a copy
\* constructor or the copy function of an enumeration.
Copy(f, use) ==
  /\ CanEnter /\ NodeExpected(use)
  /\ InvokeWith(f, use)

\* FunctionCall, FunctionVariableCall, ConstructorCall, VirtualCall: the slot of
\* the result is pushed first; n = 1 if that of `this' is then pushed too, empty
\* for a constructor, the object (an operand already visited) for a virtual call.
BeginCall(f, use, n) ==
  /\ CanEnter /\ NodeExpected(use)
  /\ n <= Argc[f] /\ (f \in Constructors => n = 1)
  /\ Enter([Fresh("call", use) EXCEPT !.fn = f, !.pushed = n])
  /\ size' = size + 1 + n
  /\ UNCHANGED <<mSize, mData, gc, ilist, mode, exc, caught>>

\* ConstructionStatement: a constructor calls the one of its base, or delegates;
\* each argument is an eval of its own.
BeginDelegate(f) ==
  /\ CanEnter /\ InScript
  /\ f \in Constructors
  /\ Enter([Fresh("call", "this") EXCEPT !.fn = f, !.pushed = 1])
  /\ size' = size + 2
  /\ UNCHANGED <<mSize, mData, gc, ilist, mode, exc, caught>>

\* All arguments are on the stack: Invoker::push, then the body.
EnterBody ==
  /\ Running /\ Preparing /\ Top.pushed = Argc[Top.fn]
  /\ \/ /\ mSize < CallstackCapacity
        /\ PushFrame(Top.fn, Top.sp)
        /\ act' = [act EXCEPT ![depth].running = TRUE]
        /\ UNCHANGED <<size, gc, ilist, depth, mode, exc, caught>>
     \/ /\ mSize = CallstackCapacity
        /\ Raise

\* Is the node part of an element of a list of the same expression?
InElement ==
  \E i \in 1 .. depth :
    /\ act[i].kind = "list"
    /\ \A j \in i + 1 .. depth : act[j].kind = "list" \/
                               (act[j].kind = "call" /\ ~act[j].running)

BeginList(use) ==
  /\ CanEnter /\ NodeExpected(use)
  /\ NestedLists \/ ~InElement
  /\ Enter(Fresh("list", use))
  /\ UNCHANGED <<size, mSize, mData, gc, ilist, mode, exc, caught>>

\* A defect of visit(InitializerList): it forgets old_size.
WholeBuffer == ilist

\* The list value spans the buffer from old_size to its end.
ListSpan == ilist - Top.ils

EndList ==
  /\ Running /\ InList /\ HasRoom(depth - 1, Top.use)
  /\ gc' = gc + 1
  /\ size' = size + Slots(depth - 1, Top.use)
  /\ ilist' = ilist + Elements(depth - 1, Top.use)
  /\ Leave(Given(depth - 1, Top.use))
  /\ UNCHANGED <<mSize, mData, mode, exc, caught>>

\* The root of the expression has its value: the clean-up loops begin.
FinishEval ==
  /\ Running /\ Evaluating /\ gc > Top.gcs
  /\ act' = [act EXCEPT ![depth].done = TRUE]
  /\ UNCHANGED <<size, mSize, mData, gc, ilist, depth, mode, exc, caught>>

\* A defect of the clean-up loops: they empty the buffers.
DropAll ==
  /\ Running /\ Dropping
  /\ \/ gc > 0 /\ gc' = gc - 1 /\ UNCHANGED ilist
     \/ gc = 0 /\ ilist > 0 /\ ilist' = ilist - 1 /\ UNCHANGED gc
  /\ UNCHANGED <<size, mSize, mData, depth, act, mode, exc, caught>>

\* One turn of a clean-up loop, on a value that is not destroyed.
Drop ==
  /\ Running /\ Dropping
  /\ \/ gc > Top.gcs /\ gc' = gc - 1 /\ UNCHANGED ilist
     \/ gc = Top.gcs /\ ilist > Top.ils /\ ilist' = ilist - 1 /\ UNCHANGED gc
  /\ UNCHANGED <<size, mSize, mData, depth, act, mode, exc, caught>>

\* Are both loops done?  The second one, in a defect, is forgotten.
TemporariesDropped == gc <= Top.gcs
Dropped == gc <= Top.gcs /\ ilist <= Top.ils

EndEval ==
  /\ Running /\ Dropping /\ Dropped
  /\ size' = IF Top.use = "nothing" THEN size ELSE size + 1
  /\ Leave(CASE Top.use = "push"     -> [Caller EXCEPT !.locals = @ + 1]
             [] Top.use = "delegate" -> [Caller EXCEPT !.pushed = @ + 1]
             [] Top.use = "nothing"  -> Caller)
  /\ UNCHANGED <<mSize, mData, gc, ilist, mode, exc, caught>>

-----------------------------------------------------------------------------
(* Statements of a body, and its end *)

\* PushStaticValue when the static variable has its value already.
PushStatic ==
  /\ Running /\ InScript /\ Top.locals < MaxLocals
  /\ size' = size + 1
  /\ act' = [act EXCEPT ![depth].locals = @ + 1]
  /\ UNCHANGED <<mSize, mData, gc, ilist, depth, mode, exc, caught>>

\* PopValue on a variable that needs no destructor.
PopLocal ==
  /\ Running /\ InScript /\ Top.locals > 0
  /\ size' = size - 1
  /\ act' = [act EXCEPT ![depth].locals = @ - 1]
  /\ UNCHANGED <<mSize, mData, gc, ilist, depth, mode, exc, caught>>

\* The body ends (returning a value sets ReturnFlag, falling off its end does
\* not), ExecutionContext::pop clears the frame, ~Invoker runs, and the C++
\* caller uses the value.
EndCall(flags) ==
  LET fc == mData[mSize - 1]
      sz == StackAfterInvoker(size - Argc[fc.mCallee] - 1)
  IN
  /\ Running
  /\ InNative \/ InScript
  /\ Top.locals = 0
  /\ InNative => flags = ReturnFlag
  /\ Top.use \in NodeUses => HasRoom(depth - 1, Top.use)
  /\ mData' = [mData EXCEPT ![mSize - 1].flags = flags]
  /\ mSize' = CallstackAfterInvoker(mSize - 1)
  /\ CASE Top.use \in NodeUses ->
            /\ gc' = gc + 1
            /\ size' = sz + Slots(depth - 1, Top.use)
            /\ ilist' = ilist + Elements(depth - 1, Top.use)
            /\ Leave(Given(depth - 1, Top.use))
       [] Top.use = "pop" ->
            /\ size' = sz - 1
            /\ Leave([Caller EXCEPT !.locals = @ - 1])
            /\ UNCHANGED <<gc, ilist>>
       [] Top.use = "dropTemp" ->
            /\ size' = sz /\ gc' = gc - 1 /\ Leave(Caller) /\ UNCHANGED ilist
       [] Top.use = "dropElement" ->
            /\ size' = sz /\ ilist' = ilist - 1 /\ Leave(Caller) /\ UNCHANGED gc
       [] OTHER ->
            /\ size' = sz /\ Leave(Caller) /\ UNCHANGED <<gc, ilist>>
  /\ UNCHANGED <<mode, exc, caught>>

-----------------------------------------------------------------------------
(* Exceptions *)

\* A native callback throws, or an expression node does (Engine::copy throws
\* CopyError, ScriptValue::at std::out_of_range).
Throw ==
  /\ Running
  /\ InNative \/ \E use \in NodeUses : NodeExpected(use)
  /\ Raise

\* The innermost activation is left by the exception.  Only Invoker restores
\* anything; eval and the list visitor leave the two buffers as they are.
Unwind ==
  /\ mode = "unwind" /\ depth > 0
  /\ IF Top.kind = "call"
     THEN /\ size' = StackAfterInvoker(size)
          /\ mSize' = CallstackAfterInvoker(mSize)
     ELSE UNCHANGED <<size, mSize>>
  /\ Leave(Caller)
  /\ UNCHANGED <<mData, gc, ilist, mode, exc, caught>>

InsideEval == \E i \in 1 .. depth : act[i].kind = "eval"

\* A native callback catches it, or else the embedding program does.
Catch ==
  /\ mode = "unwind"
  /\ depth = 0 \/ InNative
  /\ mode' = "run"
  /\ exc' = exc - 1
  /\ caught' = IF caught = "outside" \/ ~InsideEval THEN "outside" ELSE "inside"
  /\ UNCHANGED <<size, mSize, mData, gc, ilist, depth, act>>

-----------------------------------------------------------------------------
Next ==
  \/ \E f \in Functions :
       \/ Invoke(f)
       \/ DestroyTemporary(f)
       \/ BeginDelegate(f)
       \/ \E use \in NodeUses, n \in {0, 1} : BeginCall(f, use, n)
       \/ \E use \in {"nothing", "pop"} : DestroyValue(f, use)
       \/ \E use \in NodeUses : Copy(f, use)
  \/ \E use \in {"nothing", "push", "delegate"} : BeginEval(use)
  \/ \E flags \in {NoFlags, ReturnFlag} : EndCall(flags)
  \/ \E use \in NodeUses : Leaf(use) \/ BeginList(use)
  \/ EnterBody \/ EndList
  \/ FinishEval \/ Drop \/ EndEval
  \/ PushStatic \/ PopLocal
  \/ Throw \/ Unwind \/ Catch

Spec == Init /\ [][Next]_vars

-----------------------------------------------------------------------------
(* Properties *)

\* The types of the state (the sizes are size_t in the code; that they do not
\* wrap below zero is part of the claim).
TypeOK ==
  /\ size \in Nat
  /\ mSize \in 0 .. CallstackCapacity
  /\ mData \in [0 .. CallstackCapacity - 1 ->
                 [mStackIndex : Nat, mCallee : Functions,
                  flags : {NoFlags, ReturnFlag}]]
  /\ gc \in Nat /\ ilist \in Nat
  /\ depth \in 0 .. MaxDepth
  /\ act \in [1 .. MaxDepth -> Activation]
  /\ mode \in {"run", "unwind"}
  /\ exc \in Nat
  /\ caught \in Catchers

\* Whatever returned, threw or was caught in between, when no C++ code of the
\* interpreter runs both stacks are as empty as at the start (Invoker, pop).
StacksBalanced == depth = 0 => size = 0 /\ mSize = 0

\* The frames of the callstack own disjoint regions of the data stack, in
\* order, and the topmost lies inside it: StackValue and arg() of one call
\* never read a slot of another (FunctionCall::arg, Interpreter::visit).
FramesDisjoint ==
  /\ \A i \in 1 .. mSize - 1 :
       mData[i - 1].mStackIndex + Argc[mData[i - 1].mCallee] < mData[i].mStackIndex
  /\ mSize > 0 => mData[mSize - 1].mStackIndex + Argc[mData[mSize - 1].mCallee] < size

\* callstack.top() is the frame of the innermost body that runs, even while the
\* arguments of further calls are being pushed: it is why Invoker separates
\* `preparing' from push() (StackValue reads callstack.top()).
TopIsInnermostBody ==
  \A i \in 1 .. depth :
    /\ act[i].kind = "call" /\ act[i].running
    /\ \A j \in i + 1 .. depth : ~act[j].running
    => /\ mData[mSize - 1].mStackIndex = act[i].sp
       /\ mData[mSize - 1].mCallee = act[i].fn

\* A body never sees the flags of an earlier call whose slot of mData it reuses:
\* a stale ReturnFlag would end it after its first statement (Callstack::push).
NoStaleFlags ==
  \A i \in 1 .. depth :
    act[i].kind = "call" /\ act[i].running => mData[act[i].base].flags = NoFlags

\* A call reads and writes its own arguments, locals and flags, whatever is prepared,
\* runs or has run besides: the frames own what is theirs, callstack.top() is the
\* frame of the body that runs, and nothing of an earlier call is left in it.
FramesAreSound == FramesDisjoint /\ TopIsInnermostBody /\ NoStaleFlags

\* Each eval finds in the two buffers at least what was there when it began, so
\* its loops destroy its own temporaries only (Interpreter::eval).
BuffersOfOuterEvals ==
  \A i \in 1 .. depth :
    act[i].kind = "eval" => act[i].gcs <= gc /\ act[i].ils <= ilist

\* Whatever a callback catches within an expression, every temporary and every
\* list element is gone when the interpreter is idle: the eval around it takes
\* what the exception left.  Only one caught outside any eval leaves some behind
\* (the loops of Interpreter::eval).
TemporariesReclaimed ==
  depth = 0 /\ mode = "run" /\ caught # "outside" => gc = 0 /\ ilist = 0

\* An initializer list under construction spans exactly the elements evaluated
\* for it, whatever functions those evaluations called, as long as no callback
\* has caught an exception (visit(InitializerList); InitializerList::size).
ListHoldsItsElements ==
  Running /\ InList /\ caught = "never" => ListSpan = Top.pushed

\* A call is transparent: however it ends, the callstack is as when it began,
\* and an exception also leaves the data stack so.
CallsAreTransparent ==
  [][depth' < depth => /\ mSize' = Top.base
                       /\ mode = "unwind" => size' = Top.sp]_vars

Discipline == INSTANCE CallDiscipline WITH
  calls <- [i \in 1 .. mSize |-> [callee |-> mData[i - 1].mCallee,
                                  start |-> mData[i - 1].mStackIndex]]

\* The two stacks, through every call, return and exception, do what callers of
\* functions rely on (ExecutionContext, Invoker).
ImplementsCallDiscipline == Discipline!Spec
=============================================================================
