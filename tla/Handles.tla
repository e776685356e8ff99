------------------------------- MODULE Handles -------------------------------
(***************************************************************************)
(* Who holds a value, and who destroys it.                                 *)
(*                                                                         *)
(* A Value is a handle: it points to an IValue, which counts its handles   *)
(* and is deleted with the last.  To delete a value is not to destroy it:  *)
(* the destructor of an object runs when somebody says so, the program     *)
(* that embeds the engine (Engine::destroy), the destructor of an object   *)
(* for its members, or a Locals, for the values that it alone holds.       *)
(*                                                                         *)
(* A statement of that program is a list of tasks: what the functions it   *)
(* calls do, in their order.  A step is one of them.  The handles that a   *)
(* call makes of its arguments are left out: they go when it returns.      *)
(***************************************************************************)
EXTENDS Integers, Sequences, FiniteSets

CONSTANTS
  Values, Void,     \* the values that are ever made, and that of Value::Void
  Variables,        \* the variables of type Value of the program
  Lists,            \* its variables of type Locals
  Arguments,        \* the Locals of Engine::construct
  Static,           \* the place of Value::Void
  Null,             \* what a handle of no value points to
  MaxSlots,         \* bound on the size of a vector of handles
  Temporaries,      \* bound on the handles that calls keep: where they are
  MaxStatements     \* bound on the statements of the program

Buffers == Lists \union {Arguments}
Owners == Values \union Buffers
Slot(o, i) == <<o, i>>
Slots == Owners \X (1 .. MaxSlots)

\* Where a handle can be.
Places == {Static} \union Variables \union Temporaries \union Slots

ASSUME ConstantsAssumption ==
  /\ IsFiniteSet(Values) /\ IsFiniteSet(Variables) /\ IsFiniteSet(Lists)
  /\ IsFiniteSet(Temporaries)
  /\ Void \in Values /\ Null \notin Values
  /\ Arguments \notin Lists /\ Values \intersect Buffers = {}
  /\ MaxSlots \in Nat /\ MaxStatements \in Nat

VARIABLES
  at,           \* what each handle points to
  ref,          \* how many handles each value has, as it counts them
  kind,         \* what each value is: its type, if there is one
  size,         \* the sizes of the members of an object and of the vectors of Locals
  vector,       \* the vector of each Locals
  todo,         \* what the statement has still to do
  thrown,       \* a conversion has thrown
  destroyed,    \* how many times each value was destroyed
  statements    \* how many statements the program has begun

vars == <<at, ref, kind, size, vector, todo, thrown, destroyed, statements>>

\* An object of a class of a script, or of one of the program with members.
Objects == {"script", "native"}
Kinds == Objects \union {"int"}

Holders(v) == {p \in Places : at[p] = v}

\* There is no value here, or no more.
Free == {v \in Values : kind[v] \in {"none", "deleted"}}
HasFree(n) == Cardinality(Free) >= n

-----------------------------------------------------------------------------
(* Tasks *)

Task(op, from, to) == [op |-> op, from |-> from, to |-> to]

Make(k, p) == Task("make", k, p)
Copy(q, p) == Task("copy", q, p)
Release(p) == Task("release", p, p)
Push(q, o) == Task("push", q, o)
Pop(o, p) == Task("pop", o, p)
Destroy(p) == Task("destroy", p, p)

Current == Head(todo)
Is(op) == todo # <<>> /\ Current.op = op
From == Current.from
To == Current.to

Then(tasks) == todo' = tasks \o Tail(todo)
Done == Then(<<>>)

ReleaseEach(o) == [i \in 1 .. size[o] |-> Release(Slot(o, i))]

-----------------------------------------------------------------------------
(* Handles *)

CountedOnce(new, old) ==    \* a defect
  [v \in Values |-> ref[v] - (IF v = old THEN 1 ELSE 0)]

\* The counts when a handle of old becomes one of new.
Counted(new, old) ==
  [v \in Values |-> ref[v] + (IF v = new THEN 1 ELSE 0) - (IF v = old THEN 1 ELSE 0)]

IsLastBefore(new, old) == old # Null /\ ref[old] = 1    \* a defect

\* The old handle was the last: operator= counts the new one first.
IsLast(new, old) == old # Null /\ Counted(new, old)[old] = 0

\* A defect: the destructor of IValue is not virtual.
PointOnly(p, new) ==
  LET old == at[p] IN
  /\ at' = [at EXCEPT ![p] = new]
  /\ ref' = Counted(new, old)
  /\ kind' = IF IsLast(new, old) THEN [kind EXCEPT ![old] = "deleted"] ELSE kind
  /\ Done

\* The handle at p points to what is given from now on (Value::Value, Value::operator=,
\* Value::~Value).  With a value that is deleted, its members are released.
Point(p, new) ==
  LET old == at[p] IN
  /\ at' = [at EXCEPT ![p] = new]
  /\ ref' = Counted(new, old)
  /\ IF IsLast(new, old)
     THEN /\ kind' = [kind EXCEPT ![old] = "deleted"]
          /\ Then(ReleaseEach(old))
     ELSE Done /\ UNCHANGED kind

\* A value is made where there is no handle yet (Value::Value(IValue*)).
ExecMake ==
  /\ Is("make") /\ at[To] = Null
  /\ \E v \in Free :
       /\ kind' = [kind EXCEPT ![v] = From]
       /\ size' = [size EXCEPT ![v] = 0]
       /\ destroyed' = [destroyed EXCEPT ![v] = 0]
       /\ at' = [at EXCEPT ![To] = v]
       /\ ref' = Counted(v, Null)
  /\ Done
  /\ UNCHANGED <<vector, thrown>>

ExecCopy ==
  /\ Is("copy") /\ at[To] = Null
  /\ Point(To, at[From])
  /\ UNCHANGED <<size, vector, thrown, destroyed>>

ExecAssign ==
  /\ Is("assign")
  /\ Point(To, at[From])
  /\ UNCHANGED <<size, vector, thrown, destroyed>>

ExecRelease ==
  /\ Is("release")
  /\ Point(To, Null)
  /\ UNCHANGED <<size, vector, thrown, destroyed>>

\* std::vector::push_back.
ExecPush ==
  /\ Is("push") /\ size[To] < MaxSlots
  /\ at[Slot(To, size[To] + 1)] = Null
  /\ Point(Slot(To, size[To] + 1), at[From])
  /\ size' = [size EXCEPT ![To] = @ + 1]
  /\ UNCHANGED <<vector, thrown, destroyed>>

\* IValue::pop, Locals::take: the last handle is copied, then released.
ExecPop ==
  /\ Is("pop") /\ size[From] > 0
  /\ Then(<<Copy(Slot(From, size[From]), To), Release(Slot(From, size[From]))>>)
  /\ size' = [size EXCEPT ![From] = @ - 1]
  /\ UNCHANGED <<at, ref, kind, vector, thrown, destroyed>>

\* std::vector::clear.
ExecClear ==
  /\ Is("clear")
  /\ Then(ReleaseEach(To))
  /\ size' = [size EXCEPT ![To] = 0]
  /\ UNCHANGED <<at, ref, kind, vector, thrown, destroyed>>

-----------------------------------------------------------------------------
(* Destruction *)

FreeTemporary == CHOOSE t \in Temporaries : at[t] = Null
HasTemporary == \E t \in Temporaries : at[t] = Null

\* Engine::destroy.  Value::Void has no engine.
ExecDestroy ==
  /\ Is("destroy") /\ at[To] \notin {Null, Void}
  /\ IF kind[at[To]] \in Objects
     THEN /\ destroyed' = [destroyed EXCEPT ![at[To]] = @ + 1]
          /\ Then(<<Task("destructor", To, To)>>)
     ELSE Done /\ UNCHANGED destroyed
  /\ UNCHANGED <<at, ref, kind, size, vector, thrown>>

\* The destructor that is generated for a class takes its members one by one and destroys
\* them (visit(PopDataMember)); one of the program just takes them (ThisObject::destroy).
ExecDestructor ==
  /\ Is("destructor") /\ at[To] # Null
  /\ LET v == at[To] IN
     IF size[v] = 0 THEN Done
     ELSE /\ HasTemporary
          /\ Then(IF kind[v] = "script"
                  THEN <<Pop(v, FreeTemporary), Task("destroyMember", FreeTemporary, FreeTemporary),
                         Release(FreeTemporary), Current>>
                  ELSE <<Pop(v, FreeTemporary), Release(FreeTemporary), Current>>)
  /\ UNCHANGED <<at, ref, kind, size, vector, thrown, destroyed>>

\* EngineImpl::destroy: whoever else holds the member, it has no type and no engine any
\* more.
ExecDestroyMember ==
  /\ Is("destroyMember") /\ at[To] \notin {Null, Void}
  /\ IF kind[at[To]] \in Objects
     THEN /\ destroyed' = [destroyed EXCEPT ![at[To]] = @ + 1]
          /\ Then(<<Task("destructor", To, To), Task("zero", To, To)>>)
     ELSE Then(<<Task("zero", To, To)>>) /\ UNCHANGED destroyed
  /\ UNCHANGED <<at, ref, kind, size, vector, thrown>>

ExecZero ==
  /\ Is("zero") /\ at[To] # Null
  /\ kind' = [kind EXCEPT ![at[To]] = "zero"]
  /\ Done
  /\ UNCHANGED <<at, ref, size, vector, thrown, destroyed>>

-----------------------------------------------------------------------------
(* Locals *)

DestroyOwned(p) == Task("destroyOwned", p, p)
End(o) == Task("end", o, o)
DestroyEach(o) == [i \in 1 .. size[o] |-> DestroyOwned(Slot(o, i))]

\* A value that the Locals holds alone is destroyed.
ExecDestroyOwned ==
  /\ Is("destroyOwned") /\ at[To] # Null
  /\ Then(IF ref[at[To]] = 1 THEN <<Destroy(To)>> ELSE <<>>)
  /\ UNCHANGED <<at, ref, kind, size, vector, thrown, destroyed>>

\* Locals::destroy.
ExecEnd ==
  /\ Is("end")
  /\ Then(DestroyEach(To) \o <<Task("clear", To, To)>>)
  /\ UNCHANGED <<at, ref, kind, size, vector, thrown, destroyed>>

\* The Locals To takes the vector of another, which is left with an empty one.
ExecMoveVector ==
  /\ Is("moveVector")
  /\ vector' = [vector EXCEPT ![To] = vector[From], ![From] = vector[To]]
  /\ Done
  /\ UNCHANGED <<at, ref, kind, size, thrown, destroyed>>

\* std::vector::at.
IsAt(p) == p[2] <= size[p[1]]

\* LocalsProxy::operator=.  A handle is kept while the old value is destroyed.
ExecSet ==
  /\ Is("set") /\ IsAt(To) /\ at[To] # Null
  /\ IF ref[at[To]] = 1
     THEN /\ HasTemporary
          /\ Then(<<Copy(To, FreeTemporary), Destroy(FreeTemporary), Release(FreeTemporary),
                    Task("assign", From, To)>>)
     ELSE Then(<<Task("assign", From, To)>>)
  /\ UNCHANGED <<at, ref, kind, size, vector, thrown, destroyed>>

-----------------------------------------------------------------------------
(* Calls *)

Convert(p) == Task("convert", p, p)

\* An argument is converted (Function::call): it is the same value or a new one of
\* its kind, or the conversion throws.
ExecConvert ==
  /\ Is("convert") /\ IsAt(To) /\ ~thrown /\ HasTemporary
  /\ \/ /\ Then(<<Copy(To, FreeTemporary), Task("set", FreeTemporary, To), Release(FreeTemporary)>>)
        /\ UNCHANGED thrown
     \/ /\ kind[at[To]] \in Kinds
        /\ Then(<<Make(kind[at[To]], FreeTemporary), Task("set", FreeTemporary, To), Release(FreeTemporary)>>)
        /\ UNCHANGED thrown
     \/ /\ thrown' = TRUE
        /\ Done
  /\ UNCHANGED <<at, ref, kind, size, vector, destroyed>>

\* Function::invoke: a function returns a new value, or one of its arguments.
ExecInvoke ==
  /\ Is("invoke") /\ ~thrown
  /\ \/ \E k \in Kinds : Then(<<Make(k, To)>>)
     \/ \E i \in 1 .. size[From] : at[Slot(From, i)] # Void /\ Then(<<Copy(Slot(From, i), To)>>)
  /\ UNCHANGED <<at, ref, kind, size, vector, thrown, destroyed>>

\* What is left of the call is not done when a conversion has thrown.
Unwind ==
  /\ thrown
  /\ Is("convert") \/ Is("invoke")
  /\ Done
  /\ UNCHANGED <<at, ref, kind, size, vector, thrown, destroyed>>

ExecTask ==
  \/ ExecMake \/ ExecCopy \/ ExecAssign \/ ExecRelease \/ ExecPush \/ ExecPop \/ ExecClear
  \/ ExecDestroy \/ ExecDestructor \/ ExecDestroyMember \/ ExecZero
  \/ ExecDestroyOwned \/ ExecEnd \/ ExecMoveVector \/ ExecSet
  \/ ExecConvert \/ ExecInvoke \/ Unwind

-----------------------------------------------------------------------------
(* The program: it gives up a value it destroys and uses none that was      *)
(* destroyed, and an object gets its members before it is shared.           *)

IsUsable(p) == at[p] # Null /\ kind[at[p]] \in Kinds /\ destroyed[at[p]] = 0

InLists == {Slot(vector[l], i) : l \in Lists, i \in 1 .. MaxSlots}
Named == {p \in Variables \union InLists : IsUsable(p)}
IsThis(x) == IsUsable(x) /\ kind[at[x]] \in Objects

\* Object::at.
Members == {p \in Slots : \E x \in Variables : IsThis(x) /\ p[1] = at[x] /\ IsUsable(p)}

Begin(tasks) ==
  /\ todo = <<>> /\ statements < MaxStatements
  /\ todo' = tasks
  /\ thrown' = FALSE
  /\ statements' = statements + 1
  /\ UNCHANGED <<at, ref, kind, size, vector, destroyed>>

NewValue == \E x \in Variables, k \in Kinds : at[x] = Null /\ HasFree(1) /\ Begin(<<Make(k, x)>>)

Share == \E x \in Variables, q \in Named \union Members : at[x] = Null /\ Begin(<<Copy(q, x)>>)

AssignValue ==
  \E x \in Variables, q \in Named \union Members : at[x] # Null /\ Begin(<<Task("assign", q, x)>>)

Drop == \E x \in Variables : at[x] # Null /\ Begin(<<Release(x)>>)

DestroyValue ==
  \E x \in Variables : IsUsable(x) /\ ref[at[x]] = 1 /\ Begin(<<Destroy(x), Release(x)>>)

PushMember ==
  \E x \in Variables, q \in Named :
    /\ IsThis(x) /\ ref[at[x]] = 1 /\ q # x /\ size[at[x]] < MaxSlots
    /\ Begin(<<Push(q, at[x])>>)

PopMember ==
  \E x, y \in Variables :
    /\ IsThis(x) /\ size[at[x]] > 0 /\ at[y] = Null
    /\ Begin(<<Pop(at[x], y)>>)

PushLocal ==
  \E l \in Lists, q \in Named \union Members :
    size[vector[l]] < MaxSlots /\ Begin(<<Push(q, vector[l])>>)

TakeLocal ==
  \E l \in Lists, x \in Variables :
    size[vector[l]] > 0 /\ at[x] = Null /\ Begin(<<Pop(vector[l], x)>>)

PopLocal ==
  \E l \in Lists :
    /\ size[vector[l]] > 0 /\ HasTemporary
    /\ Begin(<<Pop(vector[l], FreeTemporary), DestroyOwned(FreeTemporary), Release(FreeTemporary)>>)

EndLocals == \E l \in Lists : Begin(<<End(vector[l])>>)

MoveLocals == \E l, m \in Lists : Begin(<<End(vector[l]), Task("moveVector", m, l)>>)

SetLocal ==
  \E l \in Lists, q \in Named : \E i \in 1 .. size[vector[l]] :
    Begin(<<Task("set", q, Slot(vector[l], i))>>)

\* Function::call, of a function with an implicit object or without: the arguments after
\* the first offset are converted.
ConvertFrom(o, offset) == [i \in 1 .. size[o] - offset |-> Convert(Slot(o, i + offset))]

Call ==
  \E l \in Lists, x \in Variables, offset \in {0, 1} :
    /\ at[x] = Null /\ size[vector[l]] >= offset /\ HasFree(1 + size[vector[l]] - offset)
    /\ Begin(ConvertFrom(vector[l], offset) \o <<Task("invoke", vector[l], x)>>)

\* Engine::construct, with one argument.
Construct ==
  \E x \in Variables, q \in Named :
    /\ at[x] = Null /\ MaxSlots > 1 /\ HasFree(2)
    /\ Begin(<<Push(Static, Arguments), Push(q, Arguments), Convert(Slot(Arguments, 2)),
               Task("invoke", Arguments, x), End(Arguments)>>)

Init ==
  /\ at = [p \in Places |-> IF p = Static THEN Void ELSE Null]
  /\ ref = [v \in Values |-> IF v = Void THEN 1 ELSE 0]
  /\ kind = [v \in Values |-> IF v = Void THEN "void" ELSE "none"]
  /\ size = [o \in Owners |-> 0]
  /\ vector = [l \in Lists |-> l]
  /\ todo = <<>>
  /\ thrown = FALSE
  /\ destroyed = [v \in Values |-> 0]
  /\ statements = 0

Statement ==
  \/ NewValue \/ Share \/ AssignValue \/ Drop \/ DestroyValue \/ PushMember \/ PopMember
  \/ PushLocal \/ TakeLocal \/ PopLocal \/ EndLocals \/ MoveLocals \/ SetLocal \/ Call \/ Construct

\* The program may stop between two statements, and a call never gets stuck.
Stop == todo = <<>> /\ UNCHANGED vars

Next ==
  \/ Statement
  \/ ExecTask /\ UNCHANGED statements
  \/ Stop

Spec == Init /\ [][Next]_vars

-----------------------------------------------------------------------------
(* Properties *)

OnHandles == {"copy", "assign", "release", "destroy", "destructor", "destroyMember", "zero",
              "destroyOwned", "set", "convert"}

Tasks ==
  [op : {"make"}, from : Kinds, to : Places] \union [op : OnHandles, from : Places, to : Places]
  \union [op : {"push"}, from : Places, to : Owners] \union [op : {"pop"}, from : Owners, to : Places]
  \union [op : {"clear", "end"}, from : Buffers, to : Buffers]
  \union [op : {"moveVector"}, from : Lists, to : Lists]
  \union [op : {"invoke"}, from : Buffers, to : Places]

\* Handles point to values, and each task is one on handles, or on the members of an object
\* or of a Locals.
TypeOK ==
  /\ at \in [Places -> Values \union {Null}]
  /\ ref \in [Values -> Int]
  /\ kind \in [Values -> Kinds \union {"none", "void", "zero", "deleted"}]
  /\ size \in [Owners -> 0 .. MaxSlots]
  /\ vector \in [Lists -> Lists]
  /\ todo \in Seq(Tasks)
  /\ thrown \in BOOLEAN
  /\ destroyed \in [Values -> Nat]
  /\ statements \in 0 .. MaxStatements

\* A value counts its handles: each of them, and no other (Value's copy constructor,
\* assignment and destructor).
CountsAreHandles == \A v \in Values : ref[v] = Cardinality(Holders(v))

\* A value that was made is deleted when no handle points to it, and not before: also
\* when a handle is assigned to itself, or to a member of the only value it holds.
LivesWhileHeld ==
  \A v \in Values : kind[v] # "none" => (kind[v] = "deleted" <=> Holders(v) = {})

Exists(p) ==
  \/ p \in Variables \union {Static}
  \/ p \in Slots /\ p[2] <= size[p[1]] /\ (p[1] \in Values => kind[p[1]] # "deleted")

\* Between two statements every handle is one that the program can reach.
NoHandleIsLost == todo = <<>> => \A p \in Places : at[p] # Null => Exists(p)

\* "By calling this function, you also implicitly transfer ownership of the value back
\* to the engine; this means that you shouldn't use the value any further"
\* (engine.cpp:542-543): a value is destroyed once.
DestroyedOnce == \A v \in Values : destroyed[v] <= 1
==============================================================================
