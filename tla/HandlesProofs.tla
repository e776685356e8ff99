---------------------------- MODULE HandlesProofs ----------------------------
(***************************************************************************)
(* What Handles promises, for any number of values, variables and Locals.  *)
(*                                                                         *)
(* The invariant relates the handles to the counts and kinds of the values *)
(* (HandleInv), and to what the statement has still to do (TodoInv): a     *)
(* handle that the program cannot reach is one of a call, or of a vector   *)
(* that is gone, and its release is still ahead.                           *)
(***************************************************************************)
EXTENDS Handles, FiniteSetTheorems, TLAPS

\* A value that was never made has no handles and no members.
Unmade == \A v \in Values : kind[v] = "none" => Holders(v) = {} /\ size[v] = 0

HandleInv == CountsAreHandles /\ LivesWhileHeld /\ Unmade

\* The handle at p is released after the first n tasks.
Dropped(p, n) == \E j \in DOMAIN todo : n < j /\ todo[j] = Release(p)

Kept == \A p \in Places : at[p] # Null => Exists(p) \/ Dropped(p, 0)

Shrinks(t) == t.op \in {"clear", "end"} \/ (t.op = "pop" /\ t.from \in Buffers)

IsOfBuffer(p) == p \in Slots /\ p[1] \in Buffers

\* What a task makes is reachable, or is dropped later.
MakesSoundly(k) ==
  todo[k].op \in {"make", "copy", "pop", "invoke"} => todo[k].to \in Variables \/ Dropped(todo[k].to, k)

\* What is assigned to is a variable, or is still in its Locals then.
AssignsSoundly(k) ==
  todo[k].op \in {"assign", "set"} =>
    \/ todo[k].to \in Variables
    \/ IsOfBuffer(todo[k].to) /\ IsAt(todo[k].to) /\ \A j \in 1 .. k - 1 : ~Shrinks(todo[j])

ConvertsSoundly(k) == todo[k].op = "convert" => IsOfBuffer(todo[k].to)

\* An object gets a member while it is there.
PushesSoundly(k) ==
  todo[k].op = "push" =>
    \/ todo[k].to \in Buffers
    \/ Len(todo) = 1 /\ kind[todo[k].to] \notin {"none", "deleted"}

Sound(k) == MakesSoundly(k) /\ AssignsSoundly(k) /\ ConvertsSoundly(k) /\ PushesSoundly(k)

TodoInv == \A k \in DOMAIN todo : Sound(k)

Inv == TypeOK /\ HandleInv /\ Kept /\ TodoInv

-----------------------------------------------------------------------------
(* Places and counts *)

\* There are finitely many places, so that the handles of a value can be counted.
LEMMA PlacesFinite == IsFiniteSet(Places)
<1>1. IsFiniteSet({Static}) /\ IsFiniteSet({Arguments})
  BY FS_Singleton
<1>2. IsFiniteSet(Buffers)
  BY <1>1, FS_Union, ConstantsAssumption DEF Buffers
<1>3. IsFiniteSet(Owners)
  BY <1>2, FS_Union, ConstantsAssumption DEF Owners
<1>4. IsFiniteSet(1 .. MaxSlots)
  BY FS_Interval, ConstantsAssumption
<1>5. IsFiniteSet(Slots)
  BY <1>3, <1>4, FS_Product DEF Slots
<1>6. IsFiniteSet({Static} \union Variables)
  BY <1>1, FS_Union, ConstantsAssumption
<1>7. IsFiniteSet(({Static} \union Variables) \union Temporaries)
  BY <1>6, FS_Union, ConstantsAssumption
<1> QED BY <1>5, <1>7, FS_Union DEF Places

LEMMA HoldersFinite ==
  ASSUME NEW v
  PROVE  IsFiniteSet(Holders(v)) /\ Cardinality(Holders(v)) \in Nat
<1>1. Holders(v) \in SUBSET Places
  BY DEF Holders
<1>2. IsFiniteSet(Holders(v))
  BY <1>1, PlacesFinite, FS_Subset
<1> QED BY <1>2, FS_CardinalityType

\* A count is zero when there are no handles.
LEMMA CountZero ==
  ASSUME CountsAreHandles, NEW v \in Values
  PROVE  ref[v] \in Nat /\ (ref[v] = 0 <=> Holders(v) = {})
BY HoldersFinite, FS_EmptySet DEF CountsAreHandles

\* One handle points elsewhere, and both counts follow.
LEMMA Recount ==
  ASSUME TypeOK, CountsAreHandles, NEW p \in Places, NEW new \in Values \union {Null},
         at' = [at EXCEPT ![p] = new], ref' = Counted(new, at[p])
  PROVE  CountsAreHandles'
<1>1. SUFFICES ASSUME NEW v \in Values PROVE ref'[v] = Cardinality(Holders(v)')
  BY DEF CountsAreHandles
<1>2. /\ at[p] \in Values \union {Null} /\ ref[v] = Cardinality(Holders(v)) /\ ref[v] \in Int
      /\ ref'[v] = ref[v] + (IF v = new THEN 1 ELSE 0) - (IF v = at[p] THEN 1 ELSE 0)
  BY DEF TypeOK, CountsAreHandles, Counted
<1>3. \A q \in Places : at'[q] = IF q = p THEN new ELSE at[q]
  BY DEF TypeOK
<1>4. IsFiniteSet(Holders(v))
  BY HoldersFinite
<1>5. CASE v = new /\ v = at[p]
  <2>1. Holders(v)' = Holders(v)
    BY <1>3, <1>5 DEF Holders
  <2> QED BY <1>2, <1>5, <2>1
<1>6. CASE v = new /\ v # at[p]
  <2>1. Holders(v)' = Holders(v) \cup {p} /\ p \notin Holders(v)
    BY <1>3, <1>6 DEF Holders
  <2>2. Cardinality(Holders(v)') = Cardinality(Holders(v)) + 1
    BY <1>4, <2>1, FS_AddElement
  <2> QED BY <1>2, <1>6, <2>2
<1>7. CASE v # new /\ v = at[p]
  <2>1. Holders(v)' = Holders(v) \ {p} /\ p \in Holders(v)
    BY <1>3, <1>7 DEF Holders
  <2>2. Cardinality(Holders(v)') = Cardinality(Holders(v)) - 1
    BY <1>4, <2>1, FS_RemoveElement
  <2> QED BY <1>2, <1>7, <2>2
<1>8. CASE v # new /\ v # at[p]
  <2>1. Holders(v)' = Holders(v)
    BY <1>3, <1>8 DEF Holders
  <2> QED BY <1>2, <1>8, <2>1
<1> QED BY <1>5, <1>6, <1>7, <1>8

\* A handle is set: the value it held is deleted if it has no other.
LEMMA PointHandles ==
  ASSUME TypeOK, HandleInv, NEW p \in Places, NEW new \in Values \union {Null}, Point(p, new),
         NEW old, old = at[p], new # Null => Holders(new) # {},
         \A v \in Values : kind[v] = "none" => size'[v] = size[v]
  PROVE  HandleInv'
<1>1. old \in Values \union {Null} /\ (old # Null => p \in Holders(old))
  BY DEF TypeOK, Holders
<1>2. at' = [at EXCEPT ![p] = new] /\ ref' = Counted(new, old)
  BY DEF Point
<1>3. CountsAreHandles'
  BY <1>2, Recount DEF HandleInv
<1>4. kind' = IF IsLast(new, old) THEN [kind EXCEPT ![old] = "deleted"] ELSE kind
  BY DEF Point
<1>5. ASSUME NEW v \in Values
      PROVE  /\ v # old => Holders(v) \subseteq Holders(v)'
             /\ v # new => Holders(v)' \subseteq Holders(v)
             /\ v = new => p \in Holders(v)'
  BY <1>2 DEF TypeOK, Holders
<1>6. ASSUME NEW v \in Values PROVE ref'[v] = 0 <=> Holders(v)' = {}
  <2>1. CountsAreHandles' => (ref'[v] = 0 <=> Holders(v)' = {})
    <3>1. /\ IsFiniteSet(Holders(v)')
      <4>1. Holders(v)' \in SUBSET Places
        BY DEF Holders
      <4> QED BY <4>1, PlacesFinite, FS_Subset
    <3> QED BY <3>1, FS_EmptySet DEF CountsAreHandles
  <2> QED BY <2>1, <1>3
<1>7. old # Null => (IsLast(new, old) <=> Holders(old)' = {})
  <2>1. old # Null => (IsLast(new, old) <=> ref'[old] = 0)
    BY <1>2 DEF IsLast
  <2> QED BY <2>1, <1>1, <1>6, ConstantsAssumption
<1>8. IsLast(new, old) => old # Null
  BY DEF IsLast
<1>9. ASSUME NEW v \in Values
      PROVE  kind'[v] = IF v = old /\ Holders(v)' = {} THEN "deleted" ELSE kind[v]
  BY <1>1, <1>4, <1>7, <1>8, ConstantsAssumption DEF TypeOK
<1>10. ASSUME NEW v \in Values, kind'[v] # "none"
       PROVE  kind'[v] = "deleted" <=> Holders(v)' = {}
  <2>1. CASE v = old /\ Holders(v)' = {}
    BY <2>1, <1>9
  <2>2. CASE v = old /\ Holders(v)' # {}
    <3>1. Holders(v) # {}
      BY <2>2, <1>1, ConstantsAssumption
    <3> QED BY <2>2, <3>1, <1>9, <1>10 DEF HandleInv, LivesWhileHeld
  <2>3. CASE v # old /\ v = new
    <3>1. Holders(v) # {} /\ Holders(v)' # {}
      BY <2>3, <1>5, ConstantsAssumption
    <3> QED BY <2>3, <3>1, <1>9, <1>10 DEF HandleInv, LivesWhileHeld
  <2>4. CASE v # old /\ v # new
    <3>1. Holders(v)' = Holders(v)
      BY <2>4, <1>5
    <3> QED BY <2>4, <3>1, <1>9, <1>10 DEF HandleInv, LivesWhileHeld
  <2> QED BY <2>1, <2>2, <2>3, <2>4
<1>11. ASSUME NEW v \in Values, kind'[v] = "none"
       PROVE  Holders(v)' = {} /\ size'[v] = 0
  <2>1. kind[v] = "none"
    BY <1>9, <1>11
  <2>2. Holders(v) = {} /\ size[v] = 0
    BY <2>1 DEF HandleInv, Unmade
  <2>3. v # new
    BY <2>2, ConstantsAssumption
  <2> QED BY <2>1, <2>2, <2>3, <1>5
<1> QED BY <1>3, <1>10, <1>11 DEF HandleInv, LivesWhileHeld, Unmade

-----------------------------------------------------------------------------
(* What is still to do *)

LEMMA TaskTypes ==
  /\ \A k \in Kinds, p \in Places : Make(k, p) \in Tasks
  /\ \A op \in OnHandles, q \in Places, p \in Places : Task(op, q, p) \in Tasks
  /\ \A q \in Places, o \in Owners : Push(q, o) \in Tasks
  /\ \A o \in Owners, p \in Places : Pop(o, p) \in Tasks
  /\ \A o \in Buffers : Task("clear", o, o) \in Tasks /\ End(o) \in Tasks
  /\ \A l \in Lists, m \in Lists : Task("moveVector", m, l) \in Tasks
  /\ \A o \in Buffers, p \in Places : Task("invoke", o, p) \in Tasks
BY DEF Tasks, Task, Make, Push, Pop, End

\* A task is one on what its kind asks for.
LEMMA TaskFields ==
  ASSUME NEW t \in Tasks
  PROVE  /\ t.op = "make" => t.from \in Kinds
         /\ t.op \in OnHandles \union {"push"} => t.from \in Places
         /\ t.op \in OnHandles \union {"make", "pop", "invoke"} => t.to \in Places
         /\ t.op = "push" => t.to \in Owners
         /\ t.op = "pop" => t.from \in Owners
         /\ t.op \in {"clear", "end"} => t.to \in Buffers
         /\ t.op = "moveVector" => t.from \in Lists /\ t.to \in Lists
         /\ t.op = "invoke" => t.from \in Buffers
BY DEF Tasks, OnHandles

LEMMA SlotPlaces ==
  /\ \A o \in Owners : \A i \in 1 .. MaxSlots : Slot(o, i) \in Places /\ Slot(o, i) \in Slots
  /\ \A o \in Owners : \A i \in 1 .. MaxSlots : Slot(o, i)[1] = o /\ Slot(o, i)[2] = i
  /\ \A t \in Temporaries : t \in Places
  /\ \A x \in Variables : x \in Places
  /\ Static \in Places
BY DEF Places, Slots, Slot

LEMMA FreeTemporaryType ==
  ASSUME HasTemporary
  PROVE  FreeTemporary \in Temporaries /\ FreeTemporary \in Places /\ at[FreeTemporary] = Null
BY DEF HasTemporary, FreeTemporary, Places

\* The members of an object, or of a Locals, one by one.
LEMMA EachTypes ==
  ASSUME TypeOK, NEW o \in Owners
  PROVE  /\ ReleaseEach(o) \in Seq(Tasks) /\ Len(ReleaseEach(o)) = size[o]
         /\ \A i \in 1 .. size[o] : ReleaseEach(o)[i] = Release(Slot(o, i))
         /\ DestroyEach(o) \in Seq(Tasks) /\ Len(DestroyEach(o)) = size[o]
         /\ \A i \in 1 .. size[o] : DestroyEach(o)[i] = DestroyOwned(Slot(o, i))
<1>1. size[o] \in Nat /\ \A i \in 1 .. size[o] : i \in 1 .. MaxSlots
  BY ConstantsAssumption DEF TypeOK
<1>2. \A i \in 1 .. size[o] : Release(Slot(o, i)) \in Tasks /\ DestroyOwned(Slot(o, i)) \in Tasks
  <2>1. \A p \in Places : Release(p) \in Tasks /\ DestroyOwned(p) \in Tasks
    BY TaskTypes DEF OnHandles, Release, DestroyOwned
  <2> QED BY <1>1, <2>1, SlotPlaces
<1> QED BY <1>1, <1>2 DEF ReleaseEach, DestroyEach

\* The tasks of a step come first, and the others follow as they were.
LEMMA ThenStep ==
  ASSUME TypeOK, todo # <<>>, NEW l \in Seq(Tasks), Then(l)
  PROVE  /\ todo' \in Seq(Tasks) /\ Len(todo') = Len(l) + Len(todo) - 1
         /\ Len(l) \in Nat /\ Len(todo) \in Nat /\ Len(todo) > 0
         /\ DOMAIN todo = 1 .. Len(todo) /\ DOMAIN todo' = 1 .. Len(todo')
         /\ Current = todo[1] /\ Current \in Tasks
         /\ \A k \in 1 .. Len(l) : k \in DOMAIN todo' /\ todo'[k] = l[k]
         /\ \A k \in DOMAIN todo' : k > Len(l) =>
              k - Len(l) + 1 \in DOMAIN todo /\ k - Len(l) + 1 > 1 /\ todo'[k] = todo[k - Len(l) + 1]
         /\ \A k \in DOMAIN todo : k > 1 =>
              k + Len(l) - 1 \in DOMAIN todo' /\ todo'[k + Len(l) - 1] = todo[k]
<1>1. todo \in Seq(Tasks)
  BY DEF TypeOK
<1>2. /\ Tail(todo) \in Seq(Tasks) /\ Len(Tail(todo)) = Len(todo) - 1 /\ Len(todo) \in Nat /\ Len(todo) > 0
      /\ \A k \in 1 .. Len(todo) - 1 : Tail(todo)[k] = todo[k + 1]
      /\ Head(todo) = todo[1] /\ todo[1] \in Tasks
  BY <1>1
<1>3. /\ todo' \in Seq(Tasks) /\ Len(todo') = Len(l) + Len(todo) - 1
      /\ \A k \in 1 .. Len(todo') : todo'[k] = IF k <= Len(l) THEN l[k] ELSE Tail(todo)[k - Len(l)]
  BY <1>2 DEF Then
<1>4. DOMAIN todo = 1 .. Len(todo) /\ DOMAIN todo' = 1 .. Len(todo') /\ Len(l) \in Nat
  BY <1>1, <1>3
<1>5. ASSUME NEW k \in DOMAIN todo', k > Len(l)
      PROVE  /\ k - Len(l) + 1 \in DOMAIN todo /\ k - Len(l) + 1 > 1
             /\ todo'[k] = todo[k - Len(l) + 1]
  <2>1. k - Len(l) \in 1 .. Len(todo) - 1 /\ todo'[k] = Tail(todo)[k - Len(l)]
    BY SMTT(30), <1>2, <1>3, <1>4, <1>5
  <2> QED BY <2>1, <1>2, <1>4
<1>6. ASSUME NEW k \in DOMAIN todo, k > 1
      PROVE  k + Len(l) - 1 \in DOMAIN todo' /\ todo'[k + Len(l) - 1] = todo[k]
  <2>1. k + Len(l) - 1 \in DOMAIN todo' /\ k + Len(l) - 1 > Len(l)
    BY <1>2, <1>3, <1>4, <1>6
  <2>2. (k + Len(l) - 1) - Len(l) + 1 = k
    BY <1>4
  <2> QED BY <2>1, <2>2, <1>5
<1> QED BY <1>2, <1>3, <1>4, <1>5, <1>6 DEF Current

\* What was dropped later still is.
LEMMA DroppedLater ==
  ASSUME TypeOK, todo # <<>>, NEW l \in Seq(Tasks), Then(l), NEW p
  PROVE  /\ \A n \in 1 .. Len(todo) : Dropped(p, n) => Dropped(p, n - 1 + Len(l))'
         /\ Dropped(p, 0) /\ Current # Release(p) => Dropped(p, 0)'
<1>1. ASSUME NEW n \in Nat, NEW j \in DOMAIN todo, n < j, j > 1, todo[j] = Release(p)
      PROVE  Dropped(p, n - 1 + Len(l))' /\ Dropped(p, 0)'
  <2>1. j + Len(l) - 1 \in DOMAIN todo' /\ todo'[j + Len(l) - 1] = Release(p)
    BY <1>1, ThenStep
  <2>2. j + Len(l) - 1 > n - 1 + Len(l) /\ j + Len(l) - 1 > 0
    BY <1>1, ThenStep
  <2> QED BY <2>1, <2>2 DEF Dropped, Release
<1>2. ASSUME NEW n \in 1 .. Len(todo), Dropped(p, n) PROVE Dropped(p, n - 1 + Len(l))'
  <2>1. PICK j \in DOMAIN todo : n < j /\ todo[j] = Release(p)
    BY <1>2 DEF Dropped
  <2>2. j > 1 /\ n \in Nat
    BY <2>1, ThenStep
  <2> QED BY <2>1, <2>2, <1>1
<1>3. ASSUME Dropped(p, 0), Current # Release(p) PROVE Dropped(p, 0)'
  <2>1. PICK j \in DOMAIN todo : 0 < j /\ todo[j] = Release(p)
    BY <1>3 DEF Dropped
  <2>2. j > 1
    BY <2>1, <1>3, ThenStep
  <2> QED BY <2>1, <2>2, <1>1
<1> QED BY <1>2, <1>3

\* The tasks of a step do what they should if they only shrink a Locals when the step
\* was meant to.
Fresh(l) ==
  \A k \in 1 .. Len(l) : Sound(k)' /\ (Shrinks(l[k]) => Shrinks(Current))

LEMMA TodoStep ==
  ASSUME TypeOK, TodoInv, todo # <<>>, NEW l \in Seq(Tasks), Then(l), Fresh(l),
         Shrinks(Current) \/ \A o \in Buffers : size[o] <= size'[o],
         size' \in [Owners -> 0 .. MaxSlots]
  PROVE  TodoInv'
<1>0. Len(l) \in Nat /\ Len(todo) \in Nat /\ Len(todo) > 0
  BY ThenStep
<1> SUFFICES ASSUME NEW k \in DOMAIN todo', k > Len(l)
             PROVE  Sound(k)'
  <2>1. \A k \in DOMAIN todo' : k \in 1 .. Len(l) \/ k > Len(l)
    BY ThenStep
  <2>2. \A k \in 1 .. Len(l) : Sound(k)'
    BY DEF Fresh
  <2> QED BY <2>1, <2>2 DEF TodoInv
<1>1. PICK i \in DOMAIN todo : i > 1 /\ todo'[k] = todo[i] /\ i \in 1 .. Len(todo) /\ i - 1 + Len(l) = k
  <2>1. k \in 1 .. Len(todo') /\ DOMAIN todo = 1 .. Len(todo)
    BY ThenStep
  <2>2. /\ k - Len(l) + 1 \in DOMAIN todo /\ k - Len(l) + 1 > 1
        /\ todo'[k] = todo[k - Len(l) + 1]
    BY ThenStep
  <2>3. k - Len(l) + 1 - 1 + Len(l) = k
    BY <1>0, <2>1
  <2> QED BY <2>1, <2>2, <2>3
<1>2. MakesSoundly(i) /\ AssignsSoundly(i) /\ ConvertsSoundly(i) /\ PushesSoundly(i)
  BY <1>1 DEF TodoInv, Sound
<1>3. MakesSoundly(k)'
  <2>1. ASSUME NEW p, p = todo[i].to, Dropped(p, i) PROVE Dropped(p, k)'
    BY <1>1, <2>1, DroppedLater
  <2> QED BY <1>1, <1>2, <2>1 DEF MakesSoundly
<1>4. AssignsSoundly(k)'
  <2>1. SUFFICES ASSUME todo[i].op \in {"assign", "set"}, todo[i].to \notin Variables
                 PROVE  /\ IsOfBuffer(todo[i].to) /\ todo[i].to[2] <= size'[todo[i].to[1]]
                        /\ \A j \in 1 .. k - 1 : ~Shrinks(todo'[j])
    BY <1>1 DEF AssignsSoundly, IsAt, IsOfBuffer, Shrinks
  <2>2. IsOfBuffer(todo[i].to) /\ IsAt(todo[i].to) /\ \A j \in 1 .. i - 1 : ~Shrinks(todo[j])
    BY <1>2, <2>1 DEF AssignsSoundly
  <2>3. ~Shrinks(Current)
    <3>1. 1 \in 1 .. i - 1
      BY <1>1
    <3>2. ~Shrinks(todo[1]) /\ Current = todo[1]
      BY <2>2, <3>1, ThenStep
    <3> QED BY <3>2
  <2>4. todo[i].to[2] <= size'[todo[i].to[1]]
    <3>1. ASSUME NEW o \in Buffers, NEW n \in 1 .. MaxSlots, n <= size[o] PROVE n <= size'[o]
      BY <2>3, <3>1, ConstantsAssumption DEF TypeOK, Owners
    <3>2. todo[i].to[1] \in Buffers /\ todo[i].to[2] \in 1 .. MaxSlots
      BY <2>2 DEF IsOfBuffer, Slots
    <3> QED BY <3>1, <3>2, <2>2 DEF IsAt
  <2>5. ASSUME NEW j \in 1 .. k - 1 PROVE ~Shrinks(todo'[j])
    <3>1. CASE j <= Len(l)
      <4>1. j \in 1 .. Len(l) /\ todo'[j] = l[j]
        BY <3>1, <1>0, ThenStep
      <4>2. Shrinks(l[j]) => Shrinks(Current)
        BY <4>1 DEF Fresh
      <4> QED BY <4>1, <4>2, <2>3
    <3>2. CASE j > Len(l)
      <4>0. k \in 1 .. Len(todo')
        BY ThenStep
      <4>1. j \in 1 .. Len(todo') /\ j - Len(l) + 1 \in 1 .. i - 1
        BY <3>2, <4>0, <1>0, <1>1
      <4>2. todo'[j] = todo[j - Len(l) + 1]
        BY <3>2, <4>1, ThenStep
      <4> QED BY <4>1, <4>2, <2>2
    <3> QED BY <3>1, <3>2, <1>0
  <2> QED BY <2>2, <2>4, <2>5
<1>5. ConvertsSoundly(k)'
  BY <1>1, <1>2 DEF ConvertsSoundly, IsOfBuffer
<1>6. PushesSoundly(k)'
  BY <1>0, <1>1, <1>2 DEF PushesSoundly
<1> QED BY <1>3, <1>4, <1>5, <1>6 DEF Sound

\* Tasks that make, assign, convert and push nothing.
LEMMA PlainTasks ==
  ASSUME TypeOK, todo # <<>>, NEW l \in Seq(Tasks), Then(l),
         \A k \in 1 .. Len(l) :
           /\ l[k].op \notin {"make", "copy", "pop", "invoke", "assign", "set", "convert", "push"}
           /\ Shrinks(l[k]) => Shrinks(Current)
  PROVE  Fresh(l)
BY ThenStep DEF Fresh, Sound, MakesSoundly, AssignsSoundly, ConvertsSoundly, PushesSoundly

LEMMA KeptStep ==
  ASSUME TypeOK, Kept, todo # <<>>, NEW l \in Seq(Tasks), Then(l),
         \A p \in Places : at'[p] # Null =>
           /\ Current # Release(p)
           /\ at[p] # Null /\ Exists(p) => Exists(p)' \/ Dropped(p, 0)'
           /\ at[p] = Null => Exists(p)' \/ Dropped(p, 0)'
  PROVE  Kept'
<1>1. SUFFICES ASSUME NEW p \in Places, at'[p] # Null PROVE Exists(p)' \/ Dropped(p, 0)'
  BY DEF Kept
<1>2. CASE at[p] # Null /\ ~Exists(p)
  <2>1. Dropped(p, 0)
    BY <1>2 DEF Kept
  <2> QED BY <2>1, <1>1, DroppedLater
<1> QED BY <1>1, <1>2

-----------------------------------------------------------------------------
(* Steps of one kind *)

LEMMA CurrentType ==
  ASSUME TypeOK, todo # <<>>
  PROVE  Current \in Tasks /\ Current = todo[1] /\ 1 \in DOMAIN todo /\ Len(todo) \in Nat
BY DEF TypeOK, Current

\* Handles do not change, and nothing that had no members gets one.
LEMMA SameHandles ==
  ASSUME HandleInv, UNCHANGED <<at, ref, kind>>,
         \A v \in Values : kind[v] = "none" => size'[v] = size[v]
  PROVE  HandleInv'
BY DEF HandleInv, CountsAreHandles, LivesWhileHeld, Unmade, Holders

\* A step that only changes what is to be done.
LEMMA QuietStep ==
  ASSUME Inv, todo # <<>>, NEW l \in Seq(Tasks), Then(l), Fresh(l), Current.op # "release",
         UNCHANGED <<at, ref, kind, size, statements>>,
         vector' \in [Lists -> Lists], thrown' \in BOOLEAN, destroyed' \in [Values -> Nat]
  PROVE  Inv'
<1>1. TypeOK /\ HandleInv /\ Kept /\ TodoInv
  BY DEF Inv
<1>2. TypeOK'
  BY <1>1, ThenStep DEF TypeOK
<1>3. HandleInv'
  BY <1>1, SameHandles
<1>4. Kept'
  <2>1. \A p \in Places : (Exists(p) => Exists(p)') /\ Current # Release(p)
    BY DEF Exists, Release, Task
  <2>2. \A p \in Places : at'[p] = at[p]
    OBVIOUS
  <2> QED BY <1>1, <2>1, <2>2, KeptStep
<1>5. TodoInv'
  <2>1. \A o \in Buffers : size[o] <= size'[o]
    BY <1>1, ConstantsAssumption DEF TypeOK, Owners
  <2>2. size' \in [Owners -> 0 .. MaxSlots]
    BY <1>2 DEF TypeOK
  <2> QED BY <1>1, <2>1, <2>2, TodoStep
<1> QED BY <1>2, <1>3, <1>4, <1>5 DEF Inv

\* What a value that is deleted leaves to do.
LEMMA PointTodo ==
  ASSUME TypeOK, NEW p \in Places, NEW new, NEW old, old = at[p], Point(p, new)
  PROVE  IF IsLast(new, old)
         THEN old \in Values /\ ReleaseEach(old) \in Seq(Tasks) /\ Then(ReleaseEach(old))
              /\ Len(ReleaseEach(old)) = size[old]
              /\ \A i \in 1 .. size[old] : ReleaseEach(old)[i] = Release(Slot(old, i))
         ELSE <<>> \in Seq(Tasks) /\ Then(<<>>) /\ UNCHANGED kind
<1>1. IsLast(new, old) => old \in Values
  BY DEF IsLast, TypeOK
<1>2. IsLast(new, old) => old \in Owners
  BY <1>1 DEF Owners
<1>3. IF IsLast(new, old) THEN Then(ReleaseEach(old)) ELSE Then(<<>>) /\ UNCHANGED kind
  BY DEF Point, Done
<1> QED BY <1>1, <1>2, <1>3, EachTypes

\* What p is, when it gets a handle: a variable, dropped later, or a member that is there.
HasPlace(p) ==
  \/ p \in Variables \/ Dropped(p, 1)
  \/ p \in Slots /\ p[2] <= size'[p[1]] /\ (p[1] \in Values => kind'[p[1]] # "deleted")

LEMMA PointStep ==
  ASSUME Inv, todo # <<>>, NEW p \in Places, NEW new \in Values \union {Null}, Point(p, new),
         NEW old, old = at[p],
         new # Null => Holders(new) # {} /\ HasPlace(p),
         \A q \in Places : Current = Release(q) => q = p /\ new = Null,
         size' \in [Owners -> 0 .. MaxSlots], \A o \in Owners : size[o] <= size'[o],
         \A v \in Values : kind[v] = "none" => size'[v] = size[v],
         UNCHANGED <<vector, thrown, destroyed, statements>>
  PROVE  Inv'
<1>1. TypeOK /\ HandleInv /\ Kept /\ TodoInv
  BY DEF Inv
<1>2. old \in Values \union {Null} /\ Null \notin Values
  BY <1>1, ConstantsAssumption DEF TypeOK
<1>3. PICK l \in Seq(Tasks) :
        /\ Then(l) /\ Len(l) \in Nat /\ (~IsLast(new, old) => UNCHANGED kind)
        /\ IsLast(new, old) => old \in Values /\ Len(l) = size[old]
        /\ \A i \in 1 .. Len(l) : IsLast(new, old) /\ l[i] = Release(Slot(old, i))
  <2>1. CASE IsLast(new, old)
    <3>1. size[old] \in Nat
      BY <1>1, <2>1, PointTodo, ConstantsAssumption DEF TypeOK, Owners
    <3> QED BY <1>1, <2>1, <3>1, PointTodo
  <2>2. CASE ~IsLast(new, old)
    <3>1. <<>> \in Seq(Tasks) /\ Then(<<>>) /\ UNCHANGED kind /\ Len(<<>>) = 0
      BY <1>1, <2>2, PointTodo
    <3>2. \A i \in 1 .. Len(<<>>) : FALSE
      BY <3>1
    <3> QED BY <2>2, <3>1, <3>2
  <2> QED BY <2>1, <2>2
<1>4. /\ at' = [at EXCEPT ![p] = new] /\ ref' = Counted(new, old)
      /\ kind' = IF IsLast(new, old) THEN [kind EXCEPT ![old] = "deleted"] ELSE kind
  BY <1>3 DEF Point
<1>5. TypeOK'
  <2>1. todo' \in Seq(Tasks)
    BY <1>1, <1>3, ThenStep
  <2>2. at' \in [Places -> Values \union {Null}] /\ ref' \in [Values -> Int]
    BY <1>1, <1>4 DEF TypeOK, Counted
  <2>3. kind' \in [Values -> Kinds \union {"none", "void", "zero", "deleted"}]
    BY <1>1, <1>4 DEF TypeOK
  <2> QED BY <1>1, <2>1, <2>2, <2>3 DEF TypeOK
<1>6. HandleInv'
  BY <1>1, PointHandles
<1>7. Fresh(l)
  <2>1. \A i \in 1 .. Len(l) : l[i].op = "release" /\ ~Shrinks(l[i])
    <3>1. \A q : Release(q).op = "release" /\ ~Shrinks(Release(q))
      BY DEF Release, Task, Shrinks
    <3> QED BY <1>3, <3>1
  <2> QED BY <1>1, <1>3, <2>1, PlainTasks
<1>8. TodoInv'
  <2>1. \A o \in Buffers : size[o] <= size'[o]
    BY DEF Owners
  <2> QED BY <1>1, <1>3, <1>7, <2>1, TodoStep
<1>9. Kept'
  <2> SUFFICES ASSUME NEW q \in Places, at'[q] # Null
               PROVE  /\ Current # Release(q)
                      /\ at[q] # Null /\ Exists(q) => Exists(q)' \/ Dropped(q, 0)'
                      /\ at[q] = Null => Exists(q)' \/ Dropped(q, 0)'
    BY <1>1, <1>3, KeptStep
  <2>1. at'[q] = IF q = p THEN new ELSE at[q]
    BY <1>1, <1>4 DEF TypeOK
  <2>2. Current # Release(q)
    BY <2>1
  <2>3. CASE q = p
    <3>1. HasPlace(q)
      BY <2>1, <2>3
    <3>2. Dropped(q, 1) => Dropped(q, 0)'
      <4>1. Dropped(q, 1) => Dropped(q, 0)
        <5>1. \A j \in DOMAIN todo : j > 1 => j > 0
          BY <1>1 DEF TypeOK
        <5> QED BY <5>1 DEF Dropped
      <4> QED BY <4>1, <1>1, <1>3, <2>2, DroppedLater
    <3>3. Exists(q)' \/ Dropped(q, 0)'
      BY <3>1, <3>2 DEF HasPlace, Exists
    <3> QED BY <2>2, <3>3
  <2>4. CASE q # p
    <3>1. at[q] # Null
      BY <2>1, <2>4
    <3>2. ASSUME Exists(q), ~Exists(q)' PROVE Dropped(q, 0)'
      <4>1. /\ q \in Slots /\ q[1] \in Owners /\ q[2] \in 1 .. MaxSlots /\ q = Slot(q[1], q[2])
            /\ q[2] <= size[q[1]] /\ (q[1] \in Values => kind[q[1]] # "deleted")
        BY <3>2 DEF Exists, Slots, Slot
      <4>2. q[2] <= size'[q[1]]
        <5>1. \A o \in Owners : \A i \in 1 .. MaxSlots : i <= size[o] => i <= size'[o]
          BY <1>1, ConstantsAssumption DEF TypeOK
        <5> QED BY <4>1, <5>1
      <4>3. q[1] \in Values /\ kind'[q[1]] = "deleted" /\ kind[q[1]] # "deleted"
        BY <3>2, <4>1, <4>2 DEF Exists
      <4>4. IsLast(new, old) /\ q[1] = old
        BY <1>1, <1>2, <1>4, <4>3 DEF TypeOK
      <4>5. q[2] \in 1 .. Len(l) /\ l[q[2]] = Release(q)
        BY <1>3, <4>1, <4>4
      <4>6. q[2] \in DOMAIN todo' /\ todo'[q[2]] = Release(q) /\ 0 < q[2]
        BY <1>1, <1>3, <4>1, <4>5, ThenStep
      <4> QED BY <4>6 DEF Dropped, Release
    <3> QED BY <2>2, <3>1, <3>2
  <2> QED BY <2>3, <2>4
<1> QED BY <1>5, <1>6, <1>8, <1>9 DEF Inv

-----------------------------------------------------------------------------
(* The tasks *)

\* A value that a handle points to is there.
LEMMA Held ==
  ASSUME TypeOK, HandleInv, NEW p \in Places, NEW v, v = at[p], v # Null
  PROVE  v \in Values /\ Holders(v) # {} /\ kind[v] \notin {"none", "deleted"}
BY DEF TypeOK, HandleInv, LivesWhileHeld, Unmade, Holders

\* What the task at hand does, it does soundly.
LEMMA CurrentSound ==
  ASSUME Inv, todo # <<>>, NEW p, p = To
  PROVE  /\ Current.op \in {"make", "copy", "pop", "invoke"} => p \in Variables \/ Dropped(p, 1)
         /\ Current.op \in {"assign", "set"} => p \in Variables \/ (IsOfBuffer(p) /\ IsAt(p))
         /\ Current.op = "convert" => IsOfBuffer(p)
         /\ Current.op = "push" =>
              p \in Buffers \/ (Len(todo) = 1 /\ kind[p] \notin {"none", "deleted"})
<1>1. Current = todo[1] /\ 1 \in DOMAIN todo
  BY CurrentType DEF Inv
<1>2. MakesSoundly(1) /\ AssignsSoundly(1) /\ ConvertsSoundly(1) /\ PushesSoundly(1)
  BY <1>1 DEF Inv, TodoInv, Sound
<1>3. todo[1].to = p /\ Current.op = todo[1].op
  BY <1>1 DEF To
<1>4. Current.op \in {"make", "copy", "pop", "invoke"} => p \in Variables \/ Dropped(p, 1)
  BY <1>2, <1>3 DEF MakesSoundly
<1>5. Current.op \in {"assign", "set"} => p \in Variables \/ (IsOfBuffer(p) /\ IsAt(p))
  BY <1>2, <1>3 DEF AssignsSoundly
<1> QED BY <1>2, <1>3, <1>4, <1>5 DEF ConvertsSoundly, PushesSoundly

LEMMA NoRelease ==
  ASSUME Current.op # "release", NEW p
  PROVE  Current # Release(p)
BY DEF Release, Task

LEMMA CopyStep ==
  ASSUME Inv, ExecCopy \/ ExecAssign, UNCHANGED statements
  PROVE  Inv'
<1>1. TypeOK /\ HandleInv /\ todo # <<>> /\ Current.op \in {"copy", "assign"}
  BY DEF Inv, ExecCopy, ExecAssign, Is
<1>2. From \in Places /\ To \in Places
  BY <1>1, CurrentType, TaskFields DEF From, To, OnHandles
<1>3. PICK p \in Places : p = To
  BY <1>2
<1>4. PICK new : new = at[From]
  OBVIOUS
<1>5. new \in Values \union {Null} /\ (new # Null => Holders(new) # {})
  BY <1>1, <1>2, <1>4, Held DEF TypeOK
<1>6. Point(p, new) /\ UNCHANGED <<size, vector, thrown, destroyed>>
  BY <1>3, <1>4 DEF ExecCopy, ExecAssign
<1>7. size' \in [Owners -> 0 .. MaxSlots] /\ \A o \in Owners : size[o] <= size'[o]
  BY <1>1, <1>6, ConstantsAssumption DEF TypeOK
<1>8. HasPlace(p)
  <2>1. p \in Variables \/ Dropped(p, 1) \/ (IsOfBuffer(p) /\ IsAt(p))
    BY <1>1, <1>3, CurrentSound
  <2> QED BY <2>1, <1>6, ConstantsAssumption DEF HasPlace, IsOfBuffer, IsAt
<1> QED BY <1>1, <1>5, <1>6, <1>7, <1>8, NoRelease, PointStep

LEMMA ReleaseStep ==
  ASSUME Inv, ExecRelease, UNCHANGED statements
  PROVE  Inv'
<1>1. TypeOK /\ todo # <<>> /\ Current.op = "release"
  BY DEF Inv, ExecRelease, Is
<1>2. PICK p \in Places : p = To
  BY <1>1, CurrentType, TaskFields DEF To, OnHandles
<1>3. Point(p, Null) /\ UNCHANGED <<size, vector, thrown, destroyed>>
  BY <1>2 DEF ExecRelease
<1>4. size' \in [Owners -> 0 .. MaxSlots] /\ \A o \in Owners : size[o] <= size'[o]
  BY <1>1, <1>3, ConstantsAssumption DEF TypeOK
<1>5. \A q \in Places : Current = Release(q) => q = p
  BY <1>2 DEF Release, Task, To
<1> QED BY <1>1, <1>3, <1>4, <1>5, PointStep

LEMMA PushStep ==
  ASSUME Inv, ExecPush, UNCHANGED statements
  PROVE  Inv'
<1>1. TypeOK /\ HandleInv /\ todo # <<>> /\ Current.op = "push"
  BY DEF Inv, ExecPush, Is
<1>2. From \in Places /\ To \in Owners
  BY <1>1, CurrentType, TaskFields DEF From, To, OnHandles
<1>3. PICK o \in Owners : o = To
  BY <1>2
<1>4. size[o] \in 0 .. MaxSlots - 1
  BY <1>1, <1>3, ConstantsAssumption DEF ExecPush, TypeOK
<1>5. PICK p \in Places : p = Slot(o, size[o] + 1) /\ p \in Slots /\ p[1] = o /\ p[2] = size[o] + 1
  BY <1>4, SlotPlaces, ConstantsAssumption
<1>6. PICK new : new = at[From]
  OBVIOUS
<1>7. new \in Values \union {Null} /\ (new # Null => Holders(new) # {})
  BY <1>1, <1>2, <1>6, Held DEF TypeOK
<1>8. Point(p, new) /\ at[p] = Null /\ size' = [size EXCEPT ![o] = @ + 1] /\ UNCHANGED <<vector, thrown, destroyed>>
  BY <1>3, <1>5, <1>6 DEF ExecPush
<1>9. size' \in [Owners -> 0 .. MaxSlots] /\ \A u \in Owners : size[u] <= size'[u]
  BY <1>1, <1>4, <1>8, ConstantsAssumption DEF TypeOK
<1>10. o \in Buffers \/ kind[o] \notin {"none", "deleted"}
  BY <1>1, <1>3, CurrentSound
<1>11. kind' = kind
  BY <1>8 DEF Point, IsLast
<1>12. HasPlace(p)
  BY <1>1, <1>4, <1>5, <1>8, <1>10, <1>11, ConstantsAssumption DEF HasPlace, TypeOK
<1>13. \A v \in Values : kind[v] = "none" => size'[v] = size[v]
  <2>1. \A v \in Values : kind[v] = "none" => v # o
    BY <1>10, ConstantsAssumption
  <2> QED BY <2>1, <1>1, <1>8 DEF TypeOK, Owners
<1> QED BY <1>1, <1>7, <1>8, <1>9, <1>12, <1>13, NoRelease, PointStep

LEMMA NothingNew ==
  ASSUME TypeOK, todo # <<>>
  PROVE  <<>> \in Seq(Tasks) /\ Len(<<>>) = 0 /\ (Then(<<>>) => Fresh(<<>>))
<1>1. <<>> \in Seq(Tasks) /\ Len(<<>>) = 0 /\ \A k \in 1 .. Len(<<>>) : FALSE
  OBVIOUS
<1> QED BY <1>1 DEF Fresh

LEMMA MakeStep ==
  ASSUME Inv, ExecMake, UNCHANGED statements
  PROVE  Inv'
<1>1. TypeOK /\ HandleInv /\ Kept /\ TodoInv /\ todo # <<>> /\ Current.op = "make"
  BY DEF Inv, ExecMake, Is
<1>2. From \in Kinds /\ To \in Places
  BY <1>1, CurrentType, TaskFields DEF From, To, OnHandles
<1>3. PICK p \in Places : p = To
  BY <1>2
<1>4. PICK k \in Kinds : k = From
  BY <1>2
<1>5. PICK v \in Free :
        /\ kind' = [kind EXCEPT ![v] = k] /\ size' = [size EXCEPT ![v] = 0]
        /\ destroyed' = [destroyed EXCEPT ![v] = 0]
        /\ at' = [at EXCEPT ![p] = v] /\ ref' = Counted(v, Null)
  BY <1>3, <1>4 DEF ExecMake
<1>6. at[p] = Null /\ Then(<<>>) /\ UNCHANGED <<vector, thrown>>
  BY <1>3 DEF ExecMake, Done
<1>7. v \in Values /\ v # Null /\ kind[v] \in {"none", "deleted"} /\ Holders(v) = {} /\ v \in Owners
      /\ v \notin Buffers
  BY <1>1, ConstantsAssumption DEF Free, HandleInv, LivesWhileHeld, Unmade, Owners
<1>8. k \notin {"none", "deleted"} /\ Null \notin Values
  BY ConstantsAssumption DEF Kinds, Objects
<1>9. TypeOK'
  <2>1. todo' \in Seq(Tasks)
    BY <1>1, <1>6, NothingNew, ThenStep
  <2>2. at' \in [Places -> Values \union {Null}] /\ ref' \in [Values -> Int]
    BY <1>1, <1>5, <1>7 DEF TypeOK, Counted
  <2>3. kind' \in [Values -> Kinds \union {"none", "void", "zero", "deleted"}]
        /\ size' \in [Owners -> 0 .. MaxSlots] /\ destroyed' \in [Values -> Nat]
    BY <1>1, <1>5, <1>7, ConstantsAssumption DEF TypeOK
  <2> QED BY <1>1, <1>6, <2>1, <2>2, <2>3 DEF TypeOK
<1>10. HandleInv'
  <2>1. CountsAreHandles'
    BY <1>1, <1>5, <1>6, <1>7, Recount DEF HandleInv
  <2>2. ASSUME NEW w \in Values
        PROVE  /\ w = v => p \in Holders(w)' /\ kind'[w] = k
               /\ w # v => Holders(w)' = Holders(w) /\ kind'[w] = kind[w] /\ size'[w] = size[w]
    <3>1. \A q \in Places : at'[q] = IF q = p THEN v ELSE at[q]
      BY <1>1, <1>5 DEF TypeOK
    <3>2. w = v => p \in Holders(w)'
      BY <3>1 DEF Holders
    <3>3. w # v => Holders(w)' = Holders(w)
      BY <3>1, <1>6, <1>8 DEF Holders
    <3> QED BY <3>2, <3>3, <1>1, <1>5 DEF TypeOK, Owners
  <2> QED BY <1>1, <1>8, <2>1, <2>2 DEF HandleInv, LivesWhileHeld, Unmade
<1>11. TodoInv'
  <2>1. \A o \in Buffers : size[o] <= size'[o]
    BY <1>1, <1>5, <1>7, ConstantsAssumption DEF TypeOK, Owners
  <2>2. size' \in [Owners -> 0 .. MaxSlots]
    BY <1>9 DEF TypeOK
  <2> QED BY <1>1, <1>6, <2>1, <2>2, NothingNew, TodoStep
<1>12. Kept'
  <2> SUFFICES ASSUME NEW q \in Places, at'[q] # Null
               PROVE  /\ at[q] # Null /\ Exists(q) => Exists(q)' \/ Dropped(q, 0)'
                      /\ at[q] = Null => Exists(q)' \/ Dropped(q, 0)'
    BY <1>1, <1>6, NothingNew, NoRelease, KeptStep
  <2>1. CASE q = p
    <3>1. q \in Variables \/ Dropped(q, 1)
      BY <2>1, <1>1, <1>3, CurrentSound
    <3>2. Dropped(q, 1) => Dropped(q, 0)'
      <4>1. Dropped(q, 1) => Dropped(q, 0)
        <5>1. \A j \in DOMAIN todo : j > 1 => j > 0
          BY <1>1 DEF TypeOK
        <5> QED BY <5>1 DEF Dropped
      <4> QED BY <4>1, <1>1, <1>6, NothingNew, NoRelease, DroppedLater
    <3>3. Exists(q)' \/ Dropped(q, 0)'
      BY <3>1, <3>2 DEF Exists
    <3> QED BY <3>3
  <2>2. CASE q # p
    <3>1. at[q] # Null
      BY <2>2, <1>1, <1>5 DEF TypeOK
    <3>2. ASSUME Exists(q) PROVE Exists(q)'
      <4>1. CASE q \in Variables \union {Static}
        BY <4>1 DEF Exists
      <4>2. CASE q \notin Variables \union {Static}
        <5>1. q \in Slots /\ q[1] \in Owners /\ q[2] \in 1 .. MaxSlots /\ q[2] <= size[q[1]]
              /\ (q[1] \in Values => kind[q[1]] # "deleted")
          BY <3>2, <4>2 DEF Exists, Slots
        <5>2. q[1] # v
          <6>1. ASSUME q[1] = v PROVE FALSE
            <7>1. kind[v] = "none"
              BY <6>1, <5>1, <1>7
            <7>2. size[v] = 0
              BY <7>1, <1>1, <1>7 DEF HandleInv, Unmade
            <7> QED BY <7>2, <5>1, <6>1, ConstantsAssumption
          <6> QED BY <6>1
        <5>3. size'[q[1]] = size[q[1]] /\ (q[1] \in Values => kind'[q[1]] = kind[q[1]])
          BY <5>1, <5>2, <1>1, <1>5 DEF TypeOK
        <5> QED BY <5>1, <5>3 DEF Exists
      <4> QED BY <4>1, <4>2
    <3> QED BY <3>1, <3>2
  <2> QED BY <2>1, <2>2
<1> QED BY <1>9, <1>10, <1>11, <1>12 DEF Inv

LEMMA ZeroStep ==
  ASSUME Inv, ExecZero, UNCHANGED statements
  PROVE  Inv'
<1>1. TypeOK /\ HandleInv /\ Kept /\ TodoInv /\ todo # <<>> /\ Current.op = "zero"
  BY DEF Inv, ExecZero, Is
<1>2. PICK p \in Places : p = To
  BY <1>1, CurrentType, TaskFields DEF To, OnHandles
<1>3. PICK v : v = at[p]
  OBVIOUS
<1>4. v \in Values /\ Holders(v) # {} /\ kind[v] \notin {"none", "deleted"}
  BY <1>1, <1>2, <1>3, Held DEF ExecZero
<1>5. kind' = [kind EXCEPT ![v] = "zero"] /\ Then(<<>>) /\ UNCHANGED <<at, ref, size, vector, thrown, destroyed>>
  BY <1>2, <1>3 DEF ExecZero, Done
<1>6. \A w \in Values : (kind'[w] = "deleted" <=> kind[w] = "deleted") /\ (kind'[w] = "none" <=> kind[w] = "none")
  BY <1>1, <1>4, <1>5 DEF TypeOK
<1>7. TypeOK'
  <2>1. todo' \in Seq(Tasks)
    BY <1>1, <1>5, NothingNew, ThenStep
  <2>2. kind' \in [Values -> Kinds \union {"none", "void", "zero", "deleted"}]
    BY <1>1, <1>5 DEF TypeOK
  <2> QED BY <1>1, <1>5, <2>1, <2>2 DEF TypeOK
<1>8. HandleInv'
  <2>1. \A w \in Values : Holders(w)' = Holders(w)
    BY <1>5 DEF Holders
  <2> QED BY <1>1, <1>5, <1>6, <2>1 DEF HandleInv, CountsAreHandles, LivesWhileHeld, Unmade
<1>9. TodoInv'
  <2>1. size' \in [Owners -> 0 .. MaxSlots] /\ \A o \in Buffers : size[o] <= size'[o]
    BY <1>1, <1>5, ConstantsAssumption DEF TypeOK, Owners
  <2> QED BY <1>1, <1>5, <2>1, NothingNew, TodoStep
<1>10. Kept'
  <2>1. \A q \in Places : Exists(q) => Exists(q)'
    BY <1>5, <1>6 DEF Exists
  <2>2. at' = at
    BY <1>5
  <2> QED BY <1>1, <1>5, <2>1, <2>2, NothingNew, NoRelease, KeptStep
<1> QED BY <1>7, <1>8, <1>9, <1>10 DEF Inv

\* Of the members or values of o, those from n on are given up.
LEMMA ShrinkKept ==
  ASSUME Inv, todo # <<>>, NEW l \in Seq(Tasks), Then(l), Current.op # "release",
         UNCHANGED <<at, kind>>, NEW o \in Owners, NEW n \in 0 .. MaxSlots,
         size' = [size EXCEPT ![o] = n],
         \A i \in 1 .. MaxSlots : n < i /\ i <= size[o] => \E j \in 1 .. Len(l) : l[j] = Release(Slot(o, i))
  PROVE  Kept'
<1>1. TypeOK /\ Kept
  BY DEF Inv
<1>2. ASSUME NEW q \in Places, Exists(q), ~Exists(q)' PROVE Dropped(q, 0)'
  <2>1. /\ q \in Slots /\ q[1] \in Owners /\ q[2] \in 1 .. MaxSlots /\ q = Slot(q[1], q[2])
        /\ q[2] <= size[q[1]] /\ (q[1] \in Values => kind[q[1]] # "deleted")
    BY <1>2 DEF Exists, Slots, Slot
  <2>2. ~(q[2] <= size'[q[1]])
    BY <1>2, <2>1 DEF Exists
  <2>3. size'[q[1]] = IF q[1] = o THEN n ELSE size[q[1]]
    BY <1>1, <2>1 DEF TypeOK
  <2>4. q[1] = o /\ n < q[2]
    BY <2>1, <2>2, <2>3, ConstantsAssumption
  <2>5. PICK j \in 1 .. Len(l) : l[j] = Release(q)
    BY <2>1, <2>4
  <2>6. j \in DOMAIN todo' /\ todo'[j] = Release(q) /\ 0 < j
    BY <1>1, <2>5, ThenStep
  <2> QED BY <2>6 DEF Dropped, Release
<1> QED BY <1>1, <1>2, NoRelease, KeptStep

LEMMA PopStep ==
  ASSUME Inv, ExecPop, UNCHANGED statements
  PROVE  Inv'
<1>1. TypeOK /\ HandleInv /\ Kept /\ TodoInv /\ todo # <<>> /\ Current.op = "pop"
  BY DEF Inv, ExecPop, Is
<1>2. PICK o \in Owners : o = From
  BY <1>1, CurrentType, TaskFields DEF From
<1>3. PICK p \in Places : p = To
  BY <1>1, CurrentType, TaskFields DEF To
<1>4. PICK n \in 1 .. MaxSlots : n = size[o]
  BY <1>1, <1>2, ConstantsAssumption DEF ExecPop, TypeOK
<1>5. PICK s \in Places : s = Slot(o, n)
  BY SlotPlaces
<1> DEFINE l == <<Copy(s, p), Release(s)>>
<1>6. Then(l) /\ size' = [size EXCEPT ![o] = n - 1] /\ UNCHANGED <<at, ref, kind, vector, thrown, destroyed>>
  BY <1>2, <1>3, <1>4, <1>5 DEF ExecPop
<1>7. l \in Seq(Tasks) /\ Len(l) = 2 /\ l[1] = Copy(s, p) /\ l[2] = Release(s)
  <2>1. Copy(s, p) \in Tasks /\ Release(s) \in Tasks
    BY TaskTypes DEF OnHandles, Copy, Release
  <2> QED BY <2>1
<1> HIDE DEF l
<1>8. n - 1 \in 0 .. MaxSlots /\ size' \in [Owners -> 0 .. MaxSlots]
  BY <1>1, <1>6, ConstantsAssumption DEF TypeOK
<1>9. TypeOK'
  <2>1. todo' \in Seq(Tasks)
    BY <1>1, <1>6, <1>7, ThenStep
  <2> QED BY <1>1, <1>6, <1>8, <2>1 DEF TypeOK
<1>10. HandleInv'
  <2>1. \A v \in Values : kind[v] = "none" => v # o
    BY <1>1, <1>4 DEF HandleInv, Unmade
  <2>2. \A v \in Values : kind[v] = "none" => size'[v] = size[v]
    BY <1>1, <1>6, <2>1 DEF TypeOK, Owners
  <2> QED BY <1>1, <1>6, <2>2, SameHandles
<1>11. Shrinks(Current) \/ \A u \in Buffers : size[u] <= size'[u]
  <2>1. CASE o \in Buffers
    BY <1>1, <1>2, <2>1 DEF Shrinks, From
  <2>2. CASE o \notin Buffers
    BY <1>1, <1>6, <2>2, ConstantsAssumption DEF TypeOK, Owners
  <2> QED BY <2>1, <2>2
<1>12. Fresh(l)
  <2>1. todo'[1] = l[1] /\ todo'[2] = l[2]
    BY <1>1, <1>6, <1>7, ThenStep
  <2>2. l[1].op = "copy" /\ l[1].to = p /\ l[2].op = "release"
    BY <1>7 DEF Copy, Release, Task
  <2>3. p \in Variables \/ Dropped(p, 1)'
    <3>1. p \in Variables \/ Dropped(p, 1)
      BY <1>1, <1>3, CurrentSound
    <3>2. Dropped(p, 1) => Dropped(p, 2)'
      <4>1. 1 \in 1 .. Len(todo) /\ 1 - 1 + Len(l) = 2
        BY <1>1, <1>6, <1>7, ThenStep
      <4> QED BY <4>1, <1>1, <1>6, <1>7, DroppedLater
    <3>3. Dropped(p, 2)' => Dropped(p, 1)'
      <4>1. \A j \in DOMAIN todo' : 2 < j => 1 < j
        BY <1>9 DEF TypeOK
      <4> QED BY <4>1 DEF Dropped
    <3> QED BY <3>1, <3>2, <3>3
  <2>4. MakesSoundly(1)' /\ MakesSoundly(2)'
    BY <2>1, <2>2, <2>3 DEF MakesSoundly
  <2>5. AssignsSoundly(1)' /\ AssignsSoundly(2)'
    BY <2>1, <2>2 DEF AssignsSoundly
  <2>6. ConvertsSoundly(1)' /\ ConvertsSoundly(2)' /\ PushesSoundly(1)' /\ PushesSoundly(2)'
    BY <2>1, <2>2 DEF ConvertsSoundly, PushesSoundly
  <2>7. ~Shrinks(l[1]) /\ ~Shrinks(l[2])
    BY <2>2 DEF Shrinks
  <2>8. \A k \in 1 .. Len(l) : k = 1 \/ k = 2
    BY <1>7
  <2> QED BY <2>4, <2>5, <2>6, <2>7, <2>8 DEF Fresh, Sound
<1>13. TodoInv'
  BY <1>1, <1>6, <1>7, <1>8, <1>11, <1>12, TodoStep
<1>14. Kept'
  <2>1. \A i \in 1 .. MaxSlots : n - 1 < i /\ i <= size[o] => \E j \in 1 .. Len(l) : l[j] = Release(Slot(o, i))
    BY <1>4, <1>5, <1>7, ConstantsAssumption
  <2> QED BY <1>1, <1>6, <1>7, <1>8, <2>1, ShrinkKept
<1> QED BY <1>9, <1>10, <1>13, <1>14 DEF Inv

LEMMA ClearStep ==
  ASSUME Inv, ExecClear, UNCHANGED statements
  PROVE  Inv'
<1>1. TypeOK /\ HandleInv /\ Kept /\ TodoInv /\ todo # <<>> /\ Current.op = "clear"
  BY DEF Inv, ExecClear, Is
<1>2. PICK o \in Buffers : o = To
  BY <1>1, CurrentType, TaskFields DEF To
<1>3. o \in Owners /\ o \notin Values
  BY ConstantsAssumption DEF Owners
<1>4. PICK l \in Seq(Tasks) :
        Len(l) = size[o] /\ Then(l) /\ \A i \in 1 .. size[o] : l[i] = Release(Slot(o, i))
  BY <1>1, <1>2, <1>3, EachTypes DEF ExecClear
<1>5. size' = [size EXCEPT ![o] = 0] /\ UNCHANGED <<at, ref, kind, vector, thrown, destroyed>>
  BY <1>2 DEF ExecClear
<1>6. 0 \in 0 .. MaxSlots /\ size' \in [Owners -> 0 .. MaxSlots]
  <2>1. 0 \in 0 .. MaxSlots
    BY ConstantsAssumption
  <2> QED BY <2>1, <1>1, <1>5 DEF TypeOK
<1>7. TypeOK'
  <2>1. todo' \in Seq(Tasks)
    BY <1>1, <1>4, ThenStep
  <2> QED BY <1>1, <1>5, <1>6, <2>1 DEF TypeOK
<1>8. HandleInv'
  <2>1. \A v \in Values : size'[v] = size[v]
    BY <1>1, <1>3, <1>5 DEF TypeOK, Owners
  <2> QED BY <1>1, <1>5, <2>1, SameHandles
<1>9. Fresh(l)
  <2>1. \A q : Release(q).op = "release" /\ ~Shrinks(Release(q))
    BY DEF Release, Task, Shrinks
  <2> QED BY <1>1, <1>4, <2>1, PlainTasks
<1>10. TodoInv'
  BY <1>1, <1>4, <1>6, <1>9, TodoStep DEF Shrinks
<1>11. Kept'
  <2>1. \A i \in 1 .. MaxSlots : 0 < i /\ i <= size[o] => \E j \in 1 .. Len(l) : l[j] = Release(Slot(o, i))
    BY <1>1, <1>3, <1>4, ConstantsAssumption DEF TypeOK
  <2> QED BY <1>1, <1>3, <1>4, <1>5, <1>6, <2>1, ShrinkKept
<1> QED BY <1>7, <1>8, <1>10, <1>11 DEF Inv

\* What the new tasks make is dropped by one of them or later, and they assign to what
\* is there.
LEMMA NewTasks ==
  ASSUME TypeOK, todo # <<>>, NEW l \in Seq(Tasks), Then(l), UNCHANGED size,
         \A k \in 1 .. Len(l) :
           /\ l[k].op # "push" /\ ~Shrinks(l[k])
           /\ l[k].op = "convert" => IsOfBuffer(l[k].to)
           /\ l[k].op \in {"assign", "set"} =>
                l[k].to \in Variables \/ (IsOfBuffer(l[k].to) /\ IsAt(l[k].to))
           /\ l[k].op \in {"make", "copy", "pop", "invoke"} =>
                \/ l[k].to \in Variables \/ Dropped(l[k].to, 1)
                \/ \E j \in 1 .. Len(l) : k < j /\ l[j] = Release(l[k].to)
  PROVE  Fresh(l)
<1> SUFFICES ASSUME NEW k \in 1 .. Len(l) PROVE Sound(k)' /\ ~Shrinks(l[k])
  BY DEF Fresh
<1>1. /\ Len(l) \in Nat /\ DOMAIN todo' = 1 .. Len(todo') /\ todo'[k] = l[k]
      /\ \A j \in 1 .. Len(l) : j \in DOMAIN todo' /\ todo'[j] = l[j]
  BY ThenStep
<1>2. PICK p : p = l[k].to
  OBVIOUS
<1>3. MakesSoundly(k)'
  <2>1. CASE l[k].op \notin {"make", "copy", "pop", "invoke"} \/ p \in Variables
    BY <2>1, <1>1, <1>2 DEF MakesSoundly
  <2>2. CASE Dropped(p, 1)
    <3>1. 1 \in 1 .. Len(todo) /\ 1 - 1 + Len(l) = Len(l)
      BY ThenStep
    <3>2. Dropped(p, Len(l))'
      BY <2>2, <3>1, DroppedLater
    <3>3. \A j \in DOMAIN todo' : Len(l) < j => k < j
      BY <1>1, ThenStep
    <3>4. Dropped(p, k)'
      BY <3>2, <3>3 DEF Dropped
    <3> QED BY <3>4, <1>1, <1>2 DEF MakesSoundly
  <2>3. CASE \E j \in 1 .. Len(l) : k < j /\ l[j] = Release(p)
    <3>1. PICK j \in 1 .. Len(l) : k < j /\ l[j] = Release(p)
      BY <2>3
    <3>2. j \in DOMAIN todo' /\ todo'[j] = Release(p)
      BY <3>1, <1>1
    <3>3. Dropped(p, k)'
      BY <3>1, <3>2 DEF Dropped, Release
    <3> QED BY <3>3, <1>1, <1>2 DEF MakesSoundly
  <2> QED BY <2>1, <2>2, <2>3, <1>2
<1>4. AssignsSoundly(k)'
  <2>1. \A j \in 1 .. k - 1 : ~Shrinks(todo'[j])
    <3>1. \A j \in 1 .. k - 1 : j \in 1 .. Len(l)
      BY <1>1
    <3>2. \A j \in 1 .. Len(l) : ~Shrinks(l[j])
      OBVIOUS
    <3> QED BY <3>1, <3>2, <1>1
  <2>2. l[k].op \in {"assign", "set"} => p \in Variables \/ (IsOfBuffer(p) /\ IsAt(p)')
    BY <1>2 DEF IsAt
  <2> QED BY <1>1, <1>2, <2>1, <2>2 DEF AssignsSoundly, IsAt, IsOfBuffer, Shrinks
<1>5. ConvertsSoundly(k)' /\ PushesSoundly(k)'
  BY <1>1 DEF ConvertsSoundly, PushesSoundly, IsOfBuffer
<1> QED BY <1>3, <1>4, <1>5 DEF Sound

\* The fields of the tasks that the steps make.
LEMMA FieldsOf ==
  ASSUME NEW q, NEW p, NEW op
  PROVE  /\ Task(op, q, p).op = op /\ Task(op, q, p).to = p /\ Task(op, q, p).from = q
         /\ Make(q, p) = Task("make", q, p) /\ Copy(q, p) = Task("copy", q, p)
         /\ Release(p) = Task("release", p, p) /\ Pop(q, p) = Task("pop", q, p)
         /\ Destroy(p) = Task("destroy", p, p) /\ DestroyOwned(p) = Task("destroyOwned", p, p)
BY DEF Task, Make, Copy, Release, Pop, Destroy, DestroyOwned

LEMMA OneTask ==
  ASSUME NEW t \in Tasks
  PROVE  <<t>> \in Seq(Tasks) /\ Len(<<t>>) = 1 /\ <<t>>[1] = t /\ \A k \in 1 .. 1 : k = 1
OBVIOUS

\* Steps that put off a destruction, or have nothing to do.
LEMMA DestroyStep ==
  ASSUME Inv, ExecDestroy \/ ExecDestroyMember \/ ExecDestroyOwned, UNCHANGED statements
  PROVE  Inv'
<1>1. /\ TypeOK /\ todo # <<>> /\ Current.op \in {"destroy", "destroyMember", "destroyOwned"}
      /\ at[To] # Null
  BY DEF Inv, ExecDestroy, ExecDestroyMember, ExecDestroyOwned, Is
<1>2. PICK p \in Places : p = To
  BY <1>1, CurrentType, TaskFields DEF To, OnHandles
<1>3. at[p] \in Values
  BY <1>1, <1>2 DEF TypeOK
<1>4. UNCHANGED <<at, ref, kind, size, vector, thrown>> /\ destroyed' \in [Values -> Nat]
  <2>1. /\ UNCHANGED <<at, ref, kind, size, vector, thrown>>
        /\ destroyed' = destroyed \/ destroyed' = [destroyed EXCEPT ![at[p]] = @ + 1]
    BY <1>2 DEF ExecDestroy, ExecDestroyMember, ExecDestroyOwned
  <2>2. destroyed \in [Values -> Nat]
    BY <1>1 DEF TypeOK
  <2>3. [destroyed EXCEPT ![at[p]] = @ + 1] \in [Values -> Nat]
    BY <1>3, <2>2
  <2> QED BY <2>1, <2>2, <2>3
<1>5. PICK l \in Seq(Tasks) :
        Then(l) /\ Len(l) \in Nat
        /\ \A k \in 1 .. Len(l) : l[k].op \in {"destructor", "zero", "destroy"}
  <2>1. Task("destructor", p, p) \in Tasks /\ Task("zero", p, p) \in Tasks /\ Destroy(p) \in Tasks
    BY TaskTypes DEF OnHandles, Destroy
  <2>2. \/ Then(<<>>) \/ Then(<<Task("destructor", p, p)>>) \/ Then(<<Task("zero", p, p)>>) \/ Then(<<Destroy(p)>>)
        \/ Then(<<Task("destructor", p, p), Task("zero", p, p)>>)
    BY <1>2 DEF ExecDestroy, ExecDestroyMember, ExecDestroyOwned, Done
  <2>3. CASE Then(<<>>)
    <3>1. <<>> \in Seq(Tasks) /\ Len(<<>>) = 0 /\ \A k \in 1 .. 0 : FALSE
      OBVIOUS
    <3> QED BY <2>3, <3>1
  <2>4. ASSUME NEW t \in {Task("destructor", p, p), Task("zero", p, p), Destroy(p)}, Then(<<t>>)
        PROVE  /\ <<t>> \in Seq(Tasks) /\ Len(<<t>>) \in Nat
               /\ \A k \in 1 .. Len(<<t>>) : <<t>>[k].op \in {"destructor", "zero", "destroy"}
    BY <2>1, <2>4, OneTask, FieldsOf
  <2>5. CASE Then(<<Task("destructor", p, p), Task("zero", p, p)>>)
    <3> DEFINE l == <<Task("destructor", p, p), Task("zero", p, p)>>
    <3>1. l \in Seq(Tasks) /\ Len(l) = 2 /\ \A k \in 1 .. 2 : k = 1 \/ k = 2
      BY <2>1
    <3>2. l[1].op = "destructor" /\ l[2].op = "zero"
      BY FieldsOf
    <3> QED BY <2>5, <3>1, <3>2
  <2> QED BY <2>2, <2>3, <2>4, <2>5
<1>6. Fresh(l)
  BY <1>1, <1>5, PlainTasks DEF Shrinks
<1> QED BY <1>1, <1>4, <1>5, <1>6, QuietStep DEF TypeOK

LEMMA DestructorStep ==
  ASSUME Inv, ExecDestructor, UNCHANGED statements
  PROVE  Inv'
<1>1. TypeOK /\ todo # <<>> /\ Current.op = "destructor" /\ at[To] # Null /\ Current \in Tasks
  BY CurrentType DEF Inv, ExecDestructor, Is
<1>2. PICK v : v = at[To]
  OBVIOUS
<1>3. v \in Values /\ v \in Owners /\ v \notin Buffers
  <2>1. To \in Places
    BY <1>1, CurrentType, TaskFields DEF To, OnHandles
  <2> QED BY <2>1, <1>1, <1>2, ConstantsAssumption DEF TypeOK, Owners
<1>4. UNCHANGED <<at, ref, kind, size, vector, thrown, destroyed>>
  BY DEF ExecDestructor
<1>5. CASE size[v] = 0
  <2>1. Then(<<>>)
    BY <1>2, <1>5 DEF ExecDestructor, Done
  <2> QED BY <1>1, <1>4, <2>1, NothingNew, QuietStep DEF TypeOK
<1>6. CASE size[v] # 0
  <2>1. HasTemporary
    BY <1>2, <1>6 DEF ExecDestructor
  <2>2. PICK t \in Places : t = FreeTemporary
    BY <2>1, FreeTemporaryType
  <2>3. PICK c \in Tasks : c = Current
    BY <1>1
  <2>4. Pop(v, t) \in Tasks /\ Release(t) \in Tasks /\ Task("destroyMember", t, t) \in Tasks
    BY <1>3, TaskTypes DEF OnHandles, Release
  <2>5. /\ Pop(v, t).op = "pop" /\ Pop(v, t).to = t /\ Pop(v, t).from = v
        /\ Release(t).op = "release" /\ Task("destroyMember", t, t).op = "destroyMember"
        /\ c.op = "destructor"
    BY <1>1, <2>3 DEF Pop, Release, Task
  <2>6. ~Shrinks(Pop(v, t)) /\ ~Shrinks(Release(t)) /\ ~Shrinks(c) /\ ~Shrinks(Task("destroyMember", t, t))
    BY <1>3, <2>5 DEF Shrinks
  <2>7. CASE kind[v] = "script"
    <3> DEFINE l == <<Pop(v, t), Task("destroyMember", t, t), Release(t), c>>
    <3>1. Then(l)
      BY <1>2, <1>6, <2>2, <2>3, <2>7 DEF ExecDestructor
    <3>2. l \in Seq(Tasks) /\ Len(l) = 4 /\ l[1] = Pop(v, t)
          /\ l[2] = Task("destroyMember", t, t) /\ l[3] = Release(t) /\ l[4] = c
      BY <2>4
    <3> HIDE DEF l
    <3>3. \A k \in 1 .. Len(l) : k = 1 \/ k = 2 \/ k = 3 \/ k = 4
      BY <3>2
    <3>4. 3 \in 1 .. Len(l)
      BY <3>2
    <3>5. Fresh(l)
      BY <1>1, <1>4, <2>5, <2>6, <3>1, <3>2, <3>3, <3>4, NewTasks
    <3> QED BY <1>1, <1>4, <3>1, <3>2, <3>5, QuietStep DEF TypeOK
  <2>8. CASE kind[v] # "script"
    <3> DEFINE l == <<Pop(v, t), Release(t), c>>
    <3>1. Then(l)
      BY <1>2, <1>6, <2>2, <2>3, <2>8 DEF ExecDestructor
    <3>2. l \in Seq(Tasks) /\ Len(l) = 3 /\ l[1] = Pop(v, t) /\ l[2] = Release(t) /\ l[3] = c
      BY <2>4
    <3> HIDE DEF l
    <3>3. \A k \in 1 .. Len(l) : k = 1 \/ k = 2 \/ k = 3
      BY <3>2
    <3>4. 2 \in 1 .. Len(l)
      BY <3>2
    <3>5. Fresh(l)
      BY <1>1, <1>4, <2>5, <2>6, <3>1, <3>2, <3>3, <3>4, NewTasks
    <3> QED BY <1>1, <1>4, <3>1, <3>2, <3>5, QuietStep DEF TypeOK
  <2> QED BY <2>7, <2>8
<1> QED BY <1>5, <1>6

LEMMA EndStep ==
  ASSUME Inv, ExecEnd \/ ExecMoveVector, UNCHANGED statements
  PROVE  Inv'
<1>1. TypeOK /\ todo # <<>> /\ Current.op \in {"end", "moveVector"}
  BY DEF Inv, ExecEnd, ExecMoveVector, Is
<1>2. CASE ExecEnd
  <2>1. Current.op = "end" /\ UNCHANGED <<at, ref, kind, size, vector, thrown, destroyed>>
    BY <1>2 DEF ExecEnd, Is
  <2>2. PICK o \in Buffers : o = To
    BY <1>1, <2>1, CurrentType, TaskFields DEF To
  <2>3. PICK e \in Seq(Tasks) :
          e = DestroyEach(o) /\ Len(e) \in Nat /\ \A i \in 1 .. Len(e) : e[i].op = "destroyOwned"
    <3>1. o \in Owners /\ size[o] \in Nat
      BY <1>1, ConstantsAssumption DEF TypeOK, Owners
    <3>2. \A i \in 1 .. size[o] : DestroyEach(o)[i].op = "destroyOwned"
      <4>1. \A p : DestroyOwned(p).op = "destroyOwned"
        BY DEF DestroyOwned, Task
      <4> QED BY <1>1, <3>1, <4>1, EachTypes
    <3> QED BY <1>1, <3>1, <3>2, EachTypes
  <2>4. PICK c \in Tasks : c = Task("clear", o, o) /\ c.op = "clear"
    BY TaskTypes, FieldsOf
  <2>5. PICK l \in Seq(Tasks) :
          l = e \o <<c>> /\ Len(l) = Len(e) + 1 /\ \A k \in 1 .. Len(l) : l[k].op \in {"destroyOwned", "clear"}
    <3>1. e \o <<c>> \in Seq(Tasks) /\ Len(e \o <<c>>) = Len(e) + 1
      OBVIOUS
    <3>2. \A k \in 1 .. Len(e) + 1 : (e \o <<c>>)[k] = IF k <= Len(e) THEN e[k] ELSE c
      OBVIOUS
    <3>3. \A k \in 1 .. Len(e) + 1 : (e \o <<c>>)[k].op \in {"destroyOwned", "clear"}
      BY <3>2, <2>3, <2>4
    <3> QED BY <3>1, <3>3
  <2>6. Then(l)
    BY <1>2, <2>2, <2>3, <2>4, <2>5 DEF ExecEnd
  <2>7. Fresh(l)
    <3>1. Shrinks(Current)
      BY <2>1 DEF Shrinks
    <3> QED BY <1>1, <2>5, <2>6, <3>1, PlainTasks
  <2> QED BY <1>1, <2>1, <2>6, <2>7, QuietStep DEF TypeOK
<1>3. CASE ExecMoveVector
  <2>1. Current.op = "moveVector" /\ Then(<<>>) /\ UNCHANGED <<at, ref, kind, size, thrown, destroyed>>
    BY <1>3 DEF ExecMoveVector, Is, Done
  <2>2. vector' \in [Lists -> Lists]
    <3>1. From \in Lists /\ To \in Lists
      BY <1>1, <2>1, CurrentType, TaskFields DEF To, From
    <3> QED BY <1>1, <1>3, <3>1 DEF ExecMoveVector, TypeOK
  <2> QED BY <1>1, <2>1, <2>2, NothingNew, QuietStep DEF TypeOK
<1> QED BY <1>2, <1>3

LEMMA SetStep ==
  ASSUME Inv, ExecSet, UNCHANGED statements
  PROVE  Inv'
<1>1. TypeOK /\ todo # <<>> /\ Current.op = "set"
  BY DEF Inv, ExecSet, Is
<1>2. PICK q \in Places, p \in Places : q = From /\ p = To
  BY <1>1, CurrentType, TaskFields DEF From, To, OnHandles
<1>3. p \in Variables \/ (IsOfBuffer(p) /\ IsAt(p))
  BY <1>1, <1>2, CurrentSound
<1>4. UNCHANGED <<at, ref, kind, size, vector, thrown, destroyed>>
  BY DEF ExecSet
<1>5. PICK a \in Tasks : a = Task("assign", q, p) /\ a.op = "assign" /\ a.to = p /\ ~Shrinks(a)
  BY TaskTypes DEF OnHandles, Task, Shrinks
<1>6. CASE ref[at[p]] = 1
  <2>1. HasTemporary
    BY <1>2, <1>6 DEF ExecSet
  <2>2. PICK t \in Places : t = FreeTemporary
    BY <2>1, FreeTemporaryType
  <2>3. Copy(p, t) \in Tasks /\ Destroy(t) \in Tasks /\ Release(t) \in Tasks
    BY TaskTypes DEF OnHandles, Copy, Destroy, Release
  <2>4. /\ Copy(p, t).op = "copy" /\ Copy(p, t).to = t
        /\ Destroy(t).op = "destroy" /\ Release(t).op = "release"
    BY DEF Copy, Destroy, Release, Task
  <2>5. ~Shrinks(Copy(p, t)) /\ ~Shrinks(Destroy(t)) /\ ~Shrinks(Release(t))
    BY <2>4 DEF Shrinks
  <2> DEFINE l == <<Copy(p, t), Destroy(t), Release(t), a>>
  <2>6. Then(l)
    BY <1>2, <1>5, <1>6, <2>2 DEF ExecSet
  <2>7. l \in Seq(Tasks) /\ Len(l) = 4 /\ l[1] = Copy(p, t) /\ l[2] = Destroy(t) /\ l[3] = Release(t) /\ l[4] = a
    BY <2>3
  <2> HIDE DEF l
  <2>8. 3 \in 1 .. Len(l) /\ \A k \in 1 .. Len(l) : k = 1 \/ k = 2 \/ k = 3 \/ k = 4
    BY <2>7
  <2>9. Fresh(l)
    BY <1>1, <1>3, <1>4, <1>5, <2>4, <2>5, <2>6, <2>7, <2>8, NewTasks
  <2> QED BY <1>1, <1>4, <2>6, <2>7, <2>9, QuietStep DEF TypeOK
<1>7. CASE ref[at[p]] # 1
  <2> DEFINE l == <<a>>
  <2>1. Then(l)
    BY <1>2, <1>5, <1>7 DEF ExecSet
  <2>2. l \in Seq(Tasks) /\ Len(l) = 1 /\ l[1] = a
    OBVIOUS
  <2> HIDE DEF l
  <2>3. \A k \in 1 .. Len(l) : k = 1
    BY <2>2
  <2>4. Fresh(l)
    BY <1>1, <1>3, <1>4, <1>5, <2>1, <2>2, <2>3, NewTasks
  <2> QED BY <1>1, <1>4, <2>1, <2>2, <2>4, QuietStep DEF TypeOK
<1> QED BY <1>6, <1>7

LEMMA ConvertStep ==
  ASSUME Inv, ExecConvert, UNCHANGED statements
  PROVE  Inv'
<1>1. TypeOK /\ todo # <<>> /\ Current.op = "convert" /\ HasTemporary
  BY DEF Inv, ExecConvert, Is
<1>2. PICK p \in Places : p = To
  BY <1>1, CurrentType, TaskFields DEF To, OnHandles
<1>3. IsOfBuffer(p) /\ IsAt(p)
  BY <1>1, <1>2, CurrentSound DEF ExecConvert
<1>4. PICK t \in Places : t = FreeTemporary
  BY <1>1, FreeTemporaryType
<1>5. UNCHANGED <<at, ref, kind, size, vector, destroyed>> /\ thrown' \in BOOLEAN
  BY <1>1 DEF ExecConvert, TypeOK
<1>6. CASE Then(<<>>)
  BY <1>1, <1>5, <1>6, NothingNew, QuietStep DEF TypeOK
<1>7. ASSUME NEW c \in Tasks, c.op \in {"copy", "make"}, c.to = t,
             Then(<<c, Task("set", t, p), Release(t)>>)
      PROVE  Inv'
  <2> DEFINE l == <<c, Task("set", t, p), Release(t)>>
  <2>1. Task("set", t, p) \in Tasks /\ Release(t) \in Tasks
    BY TaskTypes DEF OnHandles, Release
  <2>2. l \in Seq(Tasks) /\ Len(l) = 3 /\ l[1] = c /\ l[2] = Task("set", t, p) /\ l[3] = Release(t)
    BY <2>1
  <2>3. Then(l)
    BY <1>7
  <2> HIDE DEF l
  <2>4. 3 \in 1 .. Len(l) /\ \A k \in 1 .. Len(l) : k = 1 \/ k = 2 \/ k = 3
    BY <2>2
  <2>5. /\ Task("set", t, p).op = "set" /\ Task("set", t, p).to = p
        /\ Release(t).op = "release"
    BY DEF Release, Task
  <2>6. ~Shrinks(c) /\ ~Shrinks(Task("set", t, p)) /\ ~Shrinks(Release(t))
    BY <1>7, <2>5 DEF Shrinks
  <2>7. Fresh(l)
    BY <1>1, <1>3, <1>5, <1>7, <2>2, <2>3, <2>4, <2>5, <2>6, NewTasks
  <2> QED BY <1>1, <1>5, <2>2, <2>3, <2>7, QuietStep DEF TypeOK
<1>8. Copy(p, t) \in Tasks /\ Copy(p, t).op = "copy" /\ Copy(p, t).to = t
  <2>1. Copy(p, t) \in Tasks
    BY TaskTypes DEF OnHandles, Copy
  <2> QED BY <2>1 DEF Copy, Task
<1>9. ASSUME NEW k \in Kinds PROVE Make(k, t) \in Tasks /\ Make(k, t).op = "make" /\ Make(k, t).to = t
  <2>1. Make(k, t) \in Tasks
    BY TaskTypes
  <2> QED BY <2>1 DEF Make, Task
<1>10. \/ Then(<<Copy(p, t), Task("set", t, p), Release(t)>>)
       \/ kind[at[p]] \in Kinds /\ Then(<<Make(kind[at[p]], t), Task("set", t, p), Release(t)>>)
       \/ Then(<<>>)
  BY <1>2, <1>4 DEF ExecConvert, Done
<1>11. CASE kind[at[p]] \in Kinds /\ Then(<<Make(kind[at[p]], t), Task("set", t, p), Release(t)>>)
  <2>1. PICK k \in Kinds : k = kind[at[p]]
    BY <1>11
  <2> QED BY <1>7, <1>9, <1>11, <2>1
<1> QED BY <1>6, <1>7, <1>8, <1>10, <1>11

LEMMA InvokeStep ==
  ASSUME Inv, ExecInvoke \/ Unwind, UNCHANGED statements
  PROVE  Inv'
<1>1. TypeOK /\ todo # <<>> /\ Current.op \in {"invoke", "convert"}
  BY DEF Inv, ExecInvoke, Unwind, Is
<1>2. UNCHANGED <<at, ref, kind, size, vector, thrown, destroyed>>
  BY DEF ExecInvoke, Unwind
<1>3. CASE Unwind
  <2>1. Then(<<>>)
    BY <1>3 DEF Unwind, Done
  <2> QED BY <1>1, <1>2, <2>1, NothingNew, QuietStep DEF TypeOK
<1>4. CASE ExecInvoke
  <2>1. Current.op = "invoke"
    BY <1>4 DEF ExecInvoke, Is
  <2>2. PICK p \in Places : p = To
    BY <1>1, <2>1, CurrentType, TaskFields DEF To
  <2>3. PICK o \in Buffers : o = From
    BY <1>1, <2>1, CurrentType, TaskFields DEF From
  <2>4. p \in Variables \/ Dropped(p, 1)
    BY <1>1, <2>1, <2>2, CurrentSound
  <2>5. PICK c \in Tasks : c.op \in {"make", "copy"} /\ c.to = p /\ Then(<<c>>)
    <3>1. CASE \E k \in Kinds : Then(<<Make(k, p)>>)
      <4>1. PICK k \in Kinds : Then(<<Make(k, p)>>)
        BY <3>1
      <4>2. Make(k, p) \in Tasks
        BY TaskTypes
      <4>3. Make(k, p).op = "make" /\ Make(k, p).to = p
        BY DEF Make, Task
      <4> QED BY <4>1, <4>2, <4>3
    <3>2. CASE \E i \in 1 .. size[o] : Then(<<Copy(Slot(o, i), p)>>)
      <4>1. PICK i \in 1 .. size[o] : Then(<<Copy(Slot(o, i), p)>>)
        BY <3>2
      <4>2. o \in Owners /\ i \in 1 .. MaxSlots
        BY <1>1, ConstantsAssumption DEF TypeOK, Owners
      <4>3. PICK s \in Places : s = Slot(o, i)
        BY <4>2, SlotPlaces
      <4>4. Copy(s, p) \in Tasks
        BY TaskTypes DEF OnHandles, Copy
      <4>5. Copy(s, p).op = "copy" /\ Copy(s, p).to = p
        BY DEF Copy, Task
      <4> QED BY <4>1, <4>3, <4>4, <4>5
    <3> QED BY <1>4, <2>2, <2>3, <3>1, <3>2 DEF ExecInvoke
  <2> DEFINE l == <<c>>
  <2>6. l \in Seq(Tasks) /\ Len(l) = 1 /\ l[1] = c /\ Then(l)
    BY <2>5
  <2> HIDE DEF l
  <2>7. \A k \in 1 .. Len(l) : k = 1
    BY <2>6
  <2>8. ~Shrinks(c)
    BY <2>5 DEF Shrinks
  <2>9. Fresh(l)
    BY <1>1, <1>2, <2>4, <2>5, <2>6, <2>7, <2>8, NewTasks
  <2> QED BY <1>1, <1>2, <2>6, <2>9, QuietStep DEF TypeOK
<1> QED BY <1>3, <1>4

\* Each task keeps the invariant.
LEMMA TaskStep ==
  ASSUME Inv, ExecTask, UNCHANGED statements
  PROVE  Inv'
BY CopyStep, ReleaseStep, PushStep, MakeStep, ZeroStep, PopStep, ClearStep, DestroyStep,
   DestructorStep, EndStep, SetStep, ConvertStep, InvokeStep DEF ExecTask

-----------------------------------------------------------------------------
(* The statements *)

LEMMA BeginStep ==
  ASSUME Inv, NEW l \in Seq(Tasks), Begin(l),
         \A k \in 1 .. Len(l) :
           /\ l[k].op = "convert" => IsOfBuffer(l[k].to)
           /\ l[k].op = "push" =>
                l[k].to \in Buffers \/ (Len(l) = 1 /\ kind[l[k].to] \notin {"none", "deleted"})
           /\ l[k].op \in {"assign", "set"} =>
                \/ l[k].to \in Variables
                \/ IsOfBuffer(l[k].to) /\ IsAt(l[k].to) /\ \A j \in 1 .. k - 1 : ~Shrinks(l[j])
           /\ l[k].op \in {"make", "copy", "pop", "invoke"} =>
                \/ l[k].to \in Variables
                \/ \E j \in 1 .. Len(l) : k < j /\ l[j] = Release(l[k].to)
  PROVE  Inv'
<1>1. TypeOK /\ HandleInv /\ Kept /\ TodoInv
  BY DEF Inv
<1>2. /\ todo = <<>> /\ todo' = l /\ UNCHANGED <<at, ref, kind, size, vector, destroyed>>
      /\ thrown' = FALSE /\ statements' \in 0 .. MaxStatements
  BY <1>1, ConstantsAssumption DEF Begin, TypeOK
<1>3. TypeOK'
  BY <1>1, <1>2 DEF TypeOK
<1>4. HandleInv'
  BY <1>1, <1>2, SameHandles
<1>5. Kept'
  <2>1. \A q \in Places : Exists(q) => Exists(q)'
    BY <1>2 DEF Exists
  <2>2. \A q \in Places : ~Dropped(q, 0)
    BY <1>2 DEF Dropped
  <2> QED BY <1>1, <1>2, <2>1, <2>2 DEF Kept
<1>6. TodoInv'
  <2>1. SUFFICES ASSUME NEW k \in 1 .. Len(l) PROVE Sound(k)'
    BY <1>2 DEF TodoInv
  <2>2. PICK p : p = l[k].to
    OBVIOUS
  <2>3. MakesSoundly(k)'
    <3>1. ASSUME NEW j \in 1 .. Len(l), k < j, l[j] = Release(p) PROVE Dropped(p, k)'
      BY <1>2, <3>1 DEF Dropped, Release
    <3> QED BY <1>2, <2>2, <3>1 DEF MakesSoundly
  <2>4. AssignsSoundly(k)'
    BY <1>2 DEF AssignsSoundly, IsAt, IsOfBuffer, Shrinks
  <2>5. ConvertsSoundly(k)' /\ PushesSoundly(k)'
    BY <1>2 DEF ConvertsSoundly, PushesSoundly, IsOfBuffer
  <2> QED BY <2>3, <2>4, <2>5 DEF Sound
<1> QED BY <1>3, <1>4, <1>5, <1>6 DEF Inv

\* A statement of one call.
LEMMA BeginOne ==
  ASSUME Inv, NEW t \in Tasks, Begin(<<t>>), t.op # "convert",
         t.op = "push" => t.to \in Buffers \/ kind[t.to] \notin {"none", "deleted"},
         t.op \in {"assign", "set"} => t.to \in Variables \/ (IsOfBuffer(t.to) /\ IsAt(t.to)),
         t.op \in {"make", "copy", "pop", "invoke"} => t.to \in Variables
  PROVE  Inv'
<1> DEFINE l == <<t>>
<1>1. l \in Seq(Tasks) /\ Len(l) = 1 /\ l[1] = t /\ Begin(l)
  OBVIOUS
<1> HIDE DEF l
<1>2. \A k \in 1 .. Len(l) : k = 1 /\ \A j \in 1 .. k - 1 : FALSE
  BY <1>1
<1> QED BY <1>1, <1>2, BeginStep

LEMMA NamedPlaces ==
  ASSUME TypeOK
  PROVE  /\ Named \subseteq Places /\ Members \subseteq Places
         /\ \A l \in Lists : vector[l] \in Lists /\ vector[l] \in Buffers /\ vector[l] \in Owners
         /\ Arguments \in Buffers /\ Arguments \in Owners
<1>1. /\ \A l \in Lists : vector[l] \in Lists /\ vector[l] \in Buffers /\ vector[l] \in Owners
      /\ Arguments \in Buffers /\ Arguments \in Owners
  BY DEF TypeOK, Buffers, Owners
<1>2. InLists \subseteq Places
  BY <1>1, SlotPlaces DEF InLists
<1>3. Named \subseteq Places
  BY <1>2, SlotPlaces DEF Named
<1>4. Members \subseteq Places
  BY DEF Members, Places
<1> QED BY <1>1, <1>3, <1>4

\* What the program uses is there.
LEMMA Usable ==
  ASSUME TypeOK, HandleInv, NEW p \in Places, IsUsable(p)
  PROVE  at[p] \in Values /\ at[p] \in Owners /\ kind[at[p]] \notin {"none", "deleted"}
BY Held DEF IsUsable, Owners

LEMMA HandleStatement ==
  ASSUME Inv, NewValue \/ Share \/ AssignValue \/ Drop
  PROVE  Inv'
<1>1. TypeOK
  BY DEF Inv
<1>2. PICK x \in Variables, t \in Tasks :
        Begin(<<t>>) /\ t.op \in {"make", "copy", "assign", "release"} /\ t.to = x
  <2>1. CASE NewValue
    <3>1. PICK x \in Variables, k \in Kinds : Begin(<<Make(k, x)>>)
      BY <2>1 DEF NewValue
    <3>2. Make(k, x) \in Tasks /\ Make(k, x).op = "make" /\ Make(k, x).to = x
      BY TaskTypes, SlotPlaces DEF Make, Task
    <3> QED BY <3>1, <3>2
  <2>2. CASE Share
    <3>1. PICK x \in Variables, q \in Named \union Members : Begin(<<Copy(q, x)>>)
      BY <2>2 DEF Share
    <3>2. q \in Places /\ x \in Places
      BY <1>1, NamedPlaces, SlotPlaces
    <3>3. Copy(q, x) \in Tasks
      BY <3>2, TaskTypes DEF OnHandles, Copy
    <3>4. Copy(q, x).op = "copy" /\ Copy(q, x).to = x
      BY DEF Copy, Task
    <3> QED BY <3>1, <3>3, <3>4
  <2>3. CASE AssignValue
    <3>1. PICK x \in Variables, q \in Named \union Members : Begin(<<Task("assign", q, x)>>)
      BY <2>3 DEF AssignValue
    <3>2. q \in Places /\ x \in Places
      BY <1>1, NamedPlaces, SlotPlaces
    <3>3. Task("assign", q, x) \in Tasks
      BY <3>2, TaskTypes DEF OnHandles
    <3>4. Task("assign", q, x).op = "assign" /\ Task("assign", q, x).to = x
      BY DEF Task
    <3> QED BY <3>1, <3>3, <3>4
  <2>4. CASE Drop
    <3>1. PICK x \in Variables : Begin(<<Release(x)>>)
      BY <2>4 DEF Drop
    <3>2. Release(x) \in Tasks
      BY TaskTypes, SlotPlaces DEF OnHandles, Release
    <3>3. Release(x).op = "release" /\ Release(x).to = x
      BY DEF Release, Task
    <3> QED BY <3>1, <3>2, <3>3
  <2> QED BY <2>1, <2>2, <2>3, <2>4
<1> QED BY <1>2, BeginOne

LEMMA DestroyStatement ==
  ASSUME Inv, DestroyValue
  PROVE  Inv'
<1>1. PICK x \in Variables : Begin(<<Destroy(x), Release(x)>>)
  BY DEF DestroyValue
<1>2. Destroy(x) \in Tasks /\ Release(x) \in Tasks
  BY TaskTypes, SlotPlaces DEF OnHandles, Destroy, Release
<1>3. Destroy(x).op = "destroy" /\ Release(x).op = "release"
  BY DEF Destroy, Release, Task
<1> DEFINE l == <<Destroy(x), Release(x)>>
<1>4. l \in Seq(Tasks) /\ Len(l) = 2 /\ l[1] = Destroy(x) /\ l[2] = Release(x) /\ Begin(l)
  BY <1>1, <1>2
<1> HIDE DEF l
<1>5. \A k \in 1 .. Len(l) : l[k].op \in {"destroy", "release"}
  BY <1>3, <1>4
<1> QED BY <1>4, <1>5, BeginStep

LEMMA MemberStatement ==
  ASSUME Inv, PushMember \/ PopMember \/ PushLocal \/ TakeLocal
  PROVE  Inv'
<1>1. TypeOK /\ HandleInv
  BY DEF Inv
<1>2. CASE PushMember \/ PushLocal
  <2>1. PICK q \in Named \union Members, o \in Owners :
          Begin(<<Push(q, o)>>) /\ (o \in Buffers \/ kind[o] \notin {"none", "deleted"})
    <3>1. CASE PushMember
      <4>1. PICK x \in Variables, q \in Named : IsThis(x) /\ Begin(<<Push(q, at[x])>>)
        BY <3>1 DEF PushMember
      <4>2. at[x] \in Owners /\ kind[at[x]] \notin {"none", "deleted"}
        BY <1>1, <4>1, Usable, SlotPlaces DEF IsThis
      <4> QED BY <4>1, <4>2
    <3>2. CASE PushLocal
      <4>1. PICK l \in Lists, q \in Named \union Members : Begin(<<Push(q, vector[l])>>)
        BY <3>2 DEF PushLocal
      <4> QED BY <1>1, <4>1, NamedPlaces
    <3> QED BY <1>2, <3>1, <3>2
  <2>2. Push(q, o) \in Tasks
    BY <1>1, NamedPlaces, TaskTypes
  <2>3. Push(q, o).op = "push" /\ Push(q, o).to = o
    BY DEF Push, Task
  <2> QED BY <2>1, <2>2, <2>3, BeginOne
<1>3. CASE PopMember \/ TakeLocal
  <2>1. PICK o \in Owners, y \in Variables : Begin(<<Pop(o, y)>>)
    <3>1. CASE PopMember
      <4>1. PICK x \in Variables, y \in Variables : IsThis(x) /\ Begin(<<Pop(at[x], y)>>)
        BY <3>1 DEF PopMember
      <4>2. at[x] \in Owners
        BY <1>1, <4>1, Usable, SlotPlaces DEF IsThis
      <4> QED BY <4>1, <4>2
    <3>2. CASE TakeLocal
      <4>1. PICK l \in Lists, x \in Variables : Begin(<<Pop(vector[l], x)>>)
        BY <3>2 DEF TakeLocal
      <4> QED BY <1>1, <4>1, NamedPlaces
    <3> QED BY <1>3, <3>1, <3>2
  <2>2. Pop(o, y) \in Tasks
    BY TaskTypes, SlotPlaces
  <2>3. Pop(o, y).op = "pop" /\ Pop(o, y).to = y
    BY DEF Pop, Task
  <2> QED BY <2>1, <2>2, <2>3, BeginOne
<1> QED BY <1>2, <1>3

LEMMA ListStatement ==
  ASSUME Inv, PopLocal \/ EndLocals \/ MoveLocals
  PROVE  Inv'
<1>1. TypeOK
  BY DEF Inv
<1>2. CASE PopLocal
  <2>1. PICK u \in Lists : HasTemporary /\ Begin(<<Pop(vector[u], FreeTemporary), DestroyOwned(FreeTemporary), Release(FreeTemporary)>>)
    BY <1>2 DEF PopLocal
  <2>2. PICK t \in Places : t = FreeTemporary
    BY <2>1, FreeTemporaryType
  <2>3. PICK o \in Owners : o = vector[u]
    BY <1>1, NamedPlaces
  <2> DEFINE l == <<Pop(o, t), DestroyOwned(t), Release(t)>>
  <2>4. Pop(o, t) \in Tasks /\ DestroyOwned(t) \in Tasks /\ Release(t) \in Tasks
    BY TaskTypes DEF OnHandles, DestroyOwned, Release
  <2>5. l \in Seq(Tasks) /\ Len(l) = 3 /\ l[1] = Pop(o, t) /\ l[2] = DestroyOwned(t) /\ l[3] = Release(t)
    BY <2>4
  <2>6. Begin(l)
    BY <2>1, <2>2, <2>3
  <2> HIDE DEF l
  <2>7. 3 \in 1 .. Len(l) /\ \A k \in 1 .. Len(l) : k = 1 \/ k = 2 \/ k = 3
    BY <2>5
  <2>8. Pop(o, t).op = "pop" /\ Pop(o, t).to = t /\ DestroyOwned(t).op = "destroyOwned" /\ Release(t).op = "release"
    BY DEF Pop, DestroyOwned, Release, Task
  <2> QED BY <2>5, <2>6, <2>7, <2>8, BeginStep
<1>3. CASE EndLocals
  <2>1. PICK o \in Buffers : Begin(<<End(o)>>)
    BY <1>1, <1>3, NamedPlaces DEF EndLocals
  <2>2. End(o) \in Tasks
    BY TaskTypes
  <2>3. End(o).op = "end"
    BY DEF End, Task
  <2> QED BY <2>1, <2>2, <2>3, BeginOne
<1>4. CASE MoveLocals
  <2>1. PICK u \in Lists, m \in Lists : Begin(<<End(vector[u]), Task("moveVector", m, u)>>)
    BY <1>4 DEF MoveLocals
  <2>2. PICK o \in Buffers : o = vector[u]
    BY <1>1, NamedPlaces
  <2> DEFINE l == <<End(o), Task("moveVector", m, u)>>
  <2>3. End(o) \in Tasks /\ Task("moveVector", m, u) \in Tasks
    BY TaskTypes
  <2>4. l \in Seq(Tasks) /\ Len(l) = 2 /\ l[1] = End(o) /\ l[2] = Task("moveVector", m, u)
    BY <2>3
  <2>5. Begin(l)
    BY <2>1, <2>2
  <2> HIDE DEF l
  <2>6. End(o).op = "end" /\ Task("moveVector", m, u).op = "moveVector"
    BY DEF End, Task
  <2>7. \A k \in 1 .. Len(l) : l[k].op \in {"end", "moveVector"}
    BY <2>4, <2>6
  <2> QED BY <2>4, <2>5, <2>7, BeginStep
<1> QED BY <1>2, <1>3, <1>4

LEMMA SetStatement ==
  ASSUME Inv, SetLocal
  PROVE  Inv'
<1>1. TypeOK
  BY DEF Inv
<1>2. PICK u \in Lists, q \in Named : \E i \in 1 .. size[vector[u]] : Begin(<<Task("set", q, Slot(vector[u], i))>>)
  BY DEF SetLocal
<1>3. PICK o \in Buffers : o = vector[u] /\ o \in Owners
  BY <1>1, NamedPlaces
<1>4. PICK i \in 1 .. size[o] : Begin(<<Task("set", q, Slot(o, i))>>)
  BY <1>2, <1>3
<1>5. i \in 1 .. MaxSlots
  BY <1>1, <1>3, ConstantsAssumption DEF TypeOK
<1>6. PICK p \in Places : p = Slot(o, i) /\ IsOfBuffer(p) /\ IsAt(p)
  <2>1. Slot(o, i) \in Places /\ Slot(o, i) \in Slots /\ Slot(o, i)[1] = o /\ Slot(o, i)[2] = i
    BY <1>3, <1>5, SlotPlaces
  <2> QED BY <2>1 DEF IsOfBuffer, IsAt
<1>7. Task("set", q, p) \in Tasks
  BY <1>1, NamedPlaces, TaskTypes DEF OnHandles
<1>8. Task("set", q, p).op = "set" /\ Task("set", q, p).to = p
  BY DEF Task
<1> QED BY <1>4, <1>6, <1>7, <1>8, BeginOne

LEMMA CallStatement ==
  ASSUME Inv, Call
  PROVE  Inv'
<1>1. TypeOK
  BY DEF Inv
<1>2. PICK u \in Lists, x \in Variables, offset \in {0, 1} :
        size[vector[u]] >= offset /\ Begin(ConvertFrom(vector[u], offset) \o <<Task("invoke", vector[u], x)>>)
  BY DEF Call
<1>3. PICK o \in Buffers : o = vector[u] /\ o \in Owners
  BY <1>1, NamedPlaces
<1>4. size[o] - offset \in Nat /\ \A i \in 1 .. size[o] - offset : i + offset \in 1 .. MaxSlots
  BY <1>1, <1>2, <1>3, ConstantsAssumption DEF TypeOK
<1>5. \A p \in Places : Convert(p) \in Tasks /\ Convert(p).op = "convert" /\ Convert(p).to = p
  <2>1. \A p \in Places : Convert(p) \in Tasks
    BY TaskTypes DEF OnHandles, Convert
  <2> QED BY <2>1 DEF Convert, Task
<1>6. \A i \in 1 .. MaxSlots : Slot(o, i) \in Places /\ IsOfBuffer(Slot(o, i))
  BY <1>3, SlotPlaces DEF IsOfBuffer
<1>7. PICK e \in Seq(Tasks) :
        /\ e = ConvertFrom(o, offset) /\ Len(e) \in Nat
        /\ \A i \in 1 .. Len(e) : e[i].op = "convert" /\ IsOfBuffer(e[i].to)
  <2>1. \A i \in 1 .. size[o] - offset : Convert(Slot(o, i + offset)) \in Tasks
    BY <1>4, <1>5, <1>6
  <2>2. ConvertFrom(o, offset) \in Seq(Tasks) /\ Len(ConvertFrom(o, offset)) = size[o] - offset
    BY <1>4, <2>1 DEF ConvertFrom
  <2>3. \A i \in 1 .. size[o] - offset : ConvertFrom(o, offset)[i] = Convert(Slot(o, i + offset))
    BY DEF ConvertFrom
  <2>4. \A i \in 1 .. size[o] - offset :
          ConvertFrom(o, offset)[i].op = "convert" /\ IsOfBuffer(ConvertFrom(o, offset)[i].to)
    BY <1>4, <1>5, <1>6, <2>3
  <2> QED BY <1>4, <2>2, <2>4
<1>8. PICK c \in Tasks : c = Task("invoke", o, x) /\ c.op = "invoke" /\ c.to = x
  BY TaskTypes, SlotPlaces DEF Task
<1>9. PICK l \in Seq(Tasks) :
        /\ l = e \o <<c>> /\ Len(l) = Len(e) + 1
        /\ \A k \in 1 .. Len(l) : \/ l[k].op = "convert" /\ IsOfBuffer(l[k].to)
                                  \/ l[k].op = "invoke" /\ l[k].to = x
  <2>1. e \o <<c>> \in Seq(Tasks) /\ Len(e \o <<c>>) = Len(e) + 1
    OBVIOUS
  <2>2. \A k \in 1 .. Len(e) + 1 : (e \o <<c>>)[k] = IF k <= Len(e) THEN e[k] ELSE c
    OBVIOUS
  <2>3. \A k \in 1 .. Len(e) + 1 :
          \/ (e \o <<c>>)[k].op = "convert" /\ IsOfBuffer((e \o <<c>>)[k].to)
          \/ (e \o <<c>>)[k].op = "invoke" /\ (e \o <<c>>)[k].to = x
    BY <2>2, <1>7, <1>8
  <2> QED BY <2>1, <2>3
<1>10. Begin(l)
  BY <1>2, <1>3, <1>7, <1>8, <1>9
<1> QED BY <1>9, <1>10, BeginStep

LEMMA ConstructStatement ==
  ASSUME Inv, Construct
  PROVE  Inv'
<1>1. TypeOK
  BY DEF Inv
<1>2. PICK x \in Variables, q \in Named :
        MaxSlots > 1 /\ Begin(<<Push(Static, Arguments), Push(q, Arguments), Convert(Slot(Arguments, 2)),
                                Task("invoke", Arguments, x), End(Arguments)>>)
  BY DEF Construct
<1>3. x \in Places /\ q \in Places /\ Static \in Places /\ Arguments \in Buffers /\ Arguments \in Owners
  BY <1>1, NamedPlaces, SlotPlaces
<1>4. PICK p \in Places : p = Slot(Arguments, 2) /\ IsOfBuffer(p)
  <2>1. 2 \in 1 .. MaxSlots
    BY <1>2, ConstantsAssumption
  <2> QED BY <1>3, <2>1, SlotPlaces DEF IsOfBuffer
<1> DEFINE l == <<Push(Static, Arguments), Push(q, Arguments), Convert(p), Task("invoke", Arguments, x),
                  End(Arguments)>>
<1>5. /\ Push(Static, Arguments) \in Tasks /\ Push(q, Arguments) \in Tasks /\ Convert(p) \in Tasks
      /\ Task("invoke", Arguments, x) \in Tasks /\ End(Arguments) \in Tasks
  BY <1>3, TaskTypes DEF OnHandles, Convert
<1>6. /\ l \in Seq(Tasks) /\ Len(l) = 5 /\ l[1] = Push(Static, Arguments) /\ l[2] = Push(q, Arguments)
      /\ l[3] = Convert(p) /\ l[4] = Task("invoke", Arguments, x) /\ l[5] = End(Arguments)
  BY <1>5
<1>7. Begin(l)
  BY <1>2, <1>4
<1> HIDE DEF l
<1>8. /\ Push(Static, Arguments).op = "push" /\ Push(Static, Arguments).to = Arguments
      /\ Push(q, Arguments).op = "push" /\ Push(q, Arguments).to = Arguments
      /\ Convert(p).op = "convert" /\ Convert(p).to = p
      /\ Task("invoke", Arguments, x).op = "invoke" /\ Task("invoke", Arguments, x).to = x
      /\ End(Arguments).op = "end"
  BY DEF Push, Convert, End, Task
<1>9. \A k \in 1 .. Len(l) : k = 1 \/ k = 2 \/ k = 3 \/ k = 4 \/ k = 5
  BY <1>6
<1> QED BY <1>3, <1>4, <1>6, <1>7, <1>8, <1>9, BeginStep

-----------------------------------------------------------------------------
(* Theorems *)

LEMMA InitInv == Init => Inv
<1> SUFFICES ASSUME Init PROVE Inv
  OBVIOUS
<1>1. TypeOK
  <2>1. at \in [Places -> Values \union {Null}]
    BY ConstantsAssumption DEF Init
  <2>2. ref \in [Values -> Int] /\ destroyed \in [Values -> Nat]
    <3>1. ref = [v \in Values |-> IF v = Void THEN 1 ELSE 0] /\ destroyed = [v \in Values |-> 0]
      BY DEF Init
    <3> QED BY <3>1
  <2>3. kind \in [Values -> Kinds \union {"none", "void", "zero", "deleted"}] /\ vector \in [Lists -> Lists]
    BY DEF Init
  <2>4. size \in [Owners -> 0 .. MaxSlots] /\ statements \in 0 .. MaxStatements
    BY ConstantsAssumption DEF Init
  <2>5. todo \in Seq(Tasks)
    BY DEF Init
  <2>6. thrown \in BOOLEAN
    BY DEF Init
  <2> QED BY <2>1, <2>2, <2>3, <2>4, <2>5, <2>6 DEF TypeOK
<1>2. \A v \in Values : Holders(v) = IF v = Void THEN {Static} ELSE {}
  BY ConstantsAssumption DEF Init, Holders, Places
<1>3. CountsAreHandles
  BY <1>2, FS_Singleton, FS_EmptySet DEF Init, CountsAreHandles
<1>4. LivesWhileHeld /\ Unmade
  BY <1>2 DEF Init, LivesWhileHeld, Unmade, Owners
<1>5. Kept
  BY DEF Init, Kept, Exists
<1>6. TodoInv
  BY DEF Init, TodoInv
<1> QED BY <1>1, <1>3, <1>4, <1>5, <1>6 DEF Inv, HandleInv

LEMMA NextInv == Inv /\ [Next]_vars => Inv'
<1> SUFFICES ASSUME Inv, [Next]_vars PROVE Inv'
  OBVIOUS
<1>1. CASE Statement
  BY <1>1, HandleStatement, DestroyStatement, MemberStatement, ListStatement, SetStatement,
     CallStatement, ConstructStatement DEF Statement
<1>2. CASE ExecTask /\ UNCHANGED statements
  BY <1>2, TaskStep
<1>3. CASE UNCHANGED vars
  BY <1>3 DEF vars, Inv, TypeOK, HandleInv, CountsAreHandles, LivesWhileHeld, Unmade, Holders, Kept,
     Exists, Dropped, TodoInv, Sound, MakesSoundly, AssignsSoundly, ConvertsSoundly, PushesSoundly,
     Shrinks, IsAt, IsOfBuffer
<1> QED BY <1>1, <1>2, <1>3 DEF Next, Stop

LEMMA Invariance == Spec => []Inv
BY InitInv, NextInv, PTL DEF Spec

\* Handles point to values, and what a statement has still to do is on handles, or on the
\* members of an object or of a Locals (Value, IValue, Locals).
THEOREM TypeCorrect == Spec => []TypeOK
<1>1. Inv => TypeOK
  BY DEF Inv
<1> QED BY <1>1, Invariance, PTL

\* The counts are right: no handle is forgotten or counted twice, whatever is copied,
\* assigned, moved, popped and thrown (Value, IValue::ref).
THEOREM CountsRight == Spec => []CountsAreHandles
<1>1. Inv => CountsAreHandles
  BY DEF Inv, HandleInv
<1> QED BY <1>1, Invariance, PTL

\* A value is deleted with its last handle and never before (Value::~Value,
\* Value::operator=).
THEOREM NeverDangling == Spec => []LivesWhileHeld
<1>1. Inv => LivesWhileHeld
  BY DEF Inv, HandleInv
<1> QED BY <1>1, Invariance, PTL

\* When a statement of the program ends, also by an exception, no handle is left in a
\* call or in a vector that is gone (Locals, Function::call, Engine::construct).
THEOREM NothingLost == Spec => []NoHandleIsLost
<1>1. Inv => NoHandleIsLost
  BY DEF Inv, Kept, Dropped, NoHandleIsLost
<1> QED BY <1>1, Invariance, PTL
==============================================================================
