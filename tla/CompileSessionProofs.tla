-------------------------- MODULE CompileSessionProofs --------------------------
(***************************************************************************)
(* Proofs about CompileSession: the table of scripts is right, sessions    *)
(* are separate and a compilation is all or nothing.  What holds in every  *)
(* state is mostly about the calls in progress: which may be above which.  *)
(***************************************************************************)
EXTENDS CompileSession, TLAPS, SequenceTheorems

-----------------------------------------------------------------------------
(* The calls in progress *)

\* The calls that were in progress when the session began, and those that a session
\* makes while it is active.
Outer == {"runModule", "loaded"}
Session == {"endCompile", "destroy"}
Inner == {"add", "finalize", "processAll", "reprocess", "compileFunctions", "declare",
          "unresolved", "import", "load", "added", "endAdd", "failTemplate"}

\* Only a module that is being loaded is under the call that began its session; only
\* the scripts to destroy are above the call that ends a session that failed; a session
\* in progress is active; to compile or to load is the innermost call.
Nested ==
  \A i, j \in DOMAIN todo : i < j =>
    /\ todo[i].call \in Session \cup {"compile"} => todo[j].call \in Outer
    /\ todo[j].call = "destroy" => todo[i].call \in {"clear", "destroyScript"}
    /\ todo[j].call = "endCompile" /\ todo[i].call \in Inner => Active
    /\ todo[j].call \notin {"compile", "load"}

\* What follows what, from the innermost call outwards.
Follows(inner, outer) ==
  /\ inner.call \in {"finalize", "compileFunctions"} => outer.call = "endCompile"
  /\ outer.call = "loaded" => inner.call \in {"endAdd", "runModule"}
  /\ outer.call = "runModule" => inner.call \in Session \cup {"compile"}

Linked ==
  /\ \A i \in 2 .. Len(todo) : Follows(todo[i - 1], todo[i])
  /\ \A i \in DOMAIN todo : todo[i].call \in {"finalize", "compileFunctions"} => i < Len(todo)

\* Any other call is one of a session, but for the load of a module by the program.
Based ==
  \A i \in DOMAIN todo : todo[i].call \notin Outer \cup Session \cup {"compile"} =>
    \/ todo[i].call = "load" /\ Len(todo) = 1
    \/ \E j \in DOMAIN todo : i < j /\ todo[j].call \in Session

\* The script of the session, in its frames.
Topmost == \A i \in DOMAIN todo : todo[i].call \in Session => todo[i].on = top

\* An active session is that of a call in progress.
Attended == Active => \E i \in DOMAIN todo : todo[i].call \in Session

\* Where an exception can be.
Raised ==
  todo # <<>> /\ thrown # "none" =>
    /\ \A i \in DOMAIN todo : todo[i].call \notin {"compile", "load", "destroy"}
    /\ thrown = "CompilationFailure" => Head(todo).call \notin Outer

\* compileFunctions runs in the second part of a session only.
Staged ==
  \A i \in DOMAIN todo : todo[i].call = "compileFunctions" => state = "CompilingFunctions"

StackInv == Nested /\ Linked /\ Based /\ Topmost /\ Attended /\ Raised /\ Staged

-----------------------------------------------------------------------------
(* The scripts *)

\* A script that was compiled has an id, a module always has one.
Numbered ==
  /\ \A m \in Modules : id[m] # 0
  /\ top # Null => id[top] # 0
  /\ \A i \in DOMAIN todo : todo[i].call = "compile" => id[todo[i].on] # 0

-----------------------------------------------------------------------------
(* The modules of a session *)

\* The modules that a module imports, directly or through others.
Under(p, x) ==
  {y \in Modules : \A order \in StrictOrders : Needs(p) \subseteq order => <<x, y>> \in order}

\* What the declarations of a script may load.
Reached(p, s) == IF s \in Modules THEN Under(p, s) ELSE Modules

\* The modules that a call may load, or has loaded.
Loads(p, frame) ==
  IF frame.call = "import" THEN ToSet(frame.on)
  ELSE IF frame.call \in {"load", "loaded"} THEN {frame.on}
  ELSE IF frame.call = "add" THEN Reached(p, frame.on)
  ELSE IF frame.call = "declare" THEN Reached(p, frame.on.script)
  ELSE {}

\* Within a session, what is loaded is imported by each module that is being loaded.
Chained ==
  \A i, j, k \in DOMAIN todo :
    i < j /\ j < k /\ todo[j].call = "loaded" /\ todo[k].call = "endCompile" =>
      Loads(source, todo[i]) \subseteq Under(source, todo[j].on)

\* A module of the session is loaded, or is being loaded.
Joined ==
  \A k \in DOMAIN todo :
    todo[k].call = "endCompile" /\ thrown \in {"none", "CompilationFailure"} =>
      \A m \in ToSet(generated) :
        m \in loaded \/ \E j \in 1 .. k - 1 : todo[j] = CallOn("loaded", m)

\* A module that is being loaded was not loaded.
Fresh == todo # <<>> /\ Head(todo).call = "load" => On \notin loaded

JoinInv == Chained /\ Joined /\ Fresh /\ JoinsOnce

-----------------------------------------------------------------------------
(* The modules that were destroyed *)

\* What is destroyed has joined the session.
Doomed ==
  \A i \in DOMAIN todo :
    /\ todo[i].call = "clear" => ToSet(todo[i].on) \subseteq ToSet(generated)
    /\ todo[i].call = "destroyScript" => todo[i].on \in ToSet(generated)

\* No other script has the place of a module of the session: as long as a session has
\* not ended, no script is made.
Placed ==
  (\E k \in DOMAIN todo : todo[k].call \in Session) =>
    \A m \in ToSet(generated) :
      id[m] \in DOMAIN scripts => scripts[id[m]] \in {m, Null}

\* The load of a module, in a session.
Loading(i) ==
  todo[i].call = "loaded" /\ \E k \in DOMAIN todo : i < k /\ todo[k].call = "endCompile"

\* A module that was destroyed does not join another session: it is loaded, or will be
\* before its session ends.
Gone ==
  /\ \A m \in destroyed : m \in loaded \/ \E i \in DOMAIN todo : Loading(i) /\ todo[i].on = m
  /\ (\E k \in DOMAIN todo : todo[k].call = "destroy") => ToSet(generated) \subseteq loaded

\* The calls whose exceptions no handler of a session stops: no module is being loaded
\* then, in that session.
Fatal == {"runModule", "failTemplate", "run"}

Spared ==
  /\ thrown \notin {"none", "CompilationFailure"} => \A i \in DOMAIN todo : ~Loading(i)
  /\ \A i, j \in DOMAIN todo : i < j /\ todo[i].call \in Fatal => ~Loading(j)

GoneInv == Doomed /\ Placed /\ Gone /\ Spared

-----------------------------------------------------------------------------
(* What a session undoes *)

\* When a session is undone, each module of it that exists is still to be destroyed.
Undone ==
  \A k \in DOMAIN todo : todo[k].call = "destroy" =>
    \A m \in ToSet(generated) \cap alive : \E i \in 1 .. k - 1 :
      \/ todo[i].call = "clear" /\ m \in ToSet(todo[i].on)
      \/ todo[i].call = "destroyScript" /\ m = todo[i].on

\* After a failure nothing of the session is there, and nothing is compiled.
Failed ==
  result = "failed" =>
    /\ \A i \in DOMAIN todo : todo[i].call \in Outer
    /\ top # Null /\ (ToSet(generated) \cup {top}) \cap alive = {}

UndoInv == Undone /\ Failed

-----------------------------------------------------------------------------
(* What a session completes *)

Clean == thrown = "none" /\ ~error /\ \A i \in DOMAIN todo : todo[i].call # "failTemplate"

\* What is in the queues or about to be there.
Queued(t) ==
  \/ t \in ToSet(incomplete) \/ t \in ToSet(collected)
  \/ t \in ToSet(tasks) \/ t \in ToSet(uninitialized)
  \/ \E i \in DOMAIN todo : todo[i] = CallOn("unresolved", t)

Declared(s, n) ==
  \/ Task(s, n) \in done \/ Queued(Task(s, n))
  \/ \E i \in DOMAIN todo : todo[i].call = "declare" /\ todo[i].on.script = s /\ todo[i].on.at <= n

Members == {top} \cup ToSet(generated)

\* Each declaration of the session is done, or queued, or is to come.
Followed ==
  Clean /\ (\E k \in DOMAIN todo : todo[k].call = "endCompile") =>
    \A s \in Members :
      \/ \E i \in DOMAIN todo : todo[i] = CallOn("add", s)
      \/ Parsed(s) /\ \A n \in DOMAIN source[s] : source[s][n].is = "import" \/ Declared(s, n)

Settles == {"added", "processAll"}
Unsettled == {"add", "declare", "unresolved", "reprocess"}

\* What adds to the queues of declarations is followed by what empties them.
Settled ==
  \A k \in DOMAIN todo : todo[k].call = "compileFunctions" =>
    /\ \A i \in 1 .. k - 1 : todo[i].call \in Unsettled =>
         \E j \in i + 1 .. k - 1 : todo[j].call \in Settles
    /\ Clean /\ (incomplete # <<>> \/ collected # <<>>) =>
         \E j \in 1 .. k - 1 : todo[j].call \in Settles

QueuesEmpty == incomplete = <<>> /\ collected = <<>> /\ tasks = <<>> /\ uninitialized = <<>>

\* The session ends when the queues are empty.
Emptied ==
  Clean => \A k \in DOMAIN todo : todo[k].call = "endCompile" =>
    \/ k > 1 /\ todo[k - 1].call \in {"finalize", "compileFunctions"}
    \/ QueuesEmpty /\ \A i \in 1 .. k - 1 : todo[i].call = "run"

Succeeded ==
  result = "compiled" =>
    /\ \A i \in DOMAIN todo : todo[i].call \in Outer
    /\ QueuesEmpty
    /\ \A s \in Members :
         Parsed(s) /\ \A n \in DOMAIN source[s] :
           source[s][n].is # "import" => Task(s, n) \in done

CompleteInv == Followed /\ Settled /\ Emptied /\ Succeeded

IInv ==
  TypeOK /\ source \in Programs /\ StackInv /\ TableIsRight /\ Numbered /\ JoinInv /\ GoneInv
  /\ UndoInv /\ CompleteInv

-----------------------------------------------------------------------------
(* Sequences and frames *)

LEMMA FrameFields ==
  ASSUME TypeOK, NEW i \in DOMAIN todo
  PROVE  /\ todo[i] \in Frames
         /\ todo[i].call \in {"compile", "add", "endCompile", "destroy"} => todo[i].on \in Scripts
         /\ todo[i].call \in {"load", "endAdd", "runModule", "loaded", "destroyScript"} =>
              todo[i].on \in Modules
         /\ todo[i].call \in {"declare", "unresolved"} => todo[i].on \in Tasks
         /\ todo[i].call \in {"import", "clear", "run"} => todo[i].on \in Seq(Modules)
<1>1. todo[i] \in Frames
  BY DEF TypeOK
<1>2. QED
  BY <1>1 DEF Frames

\* The new calls are those of l, then the old ones but for the first d.
Stacks(l, d) ==
  /\ todo' \in Seq(Frames) /\ Len(todo') = Len(l) + Len(todo) - d
  /\ \A i \in DOMAIN todo' : todo'[i] = IF i <= Len(l) THEN l[i] ELSE todo[i - Len(l) + d]

LEMMA Thens ==
  ASSUME todo \in Seq(Frames), todo # <<>>, NEW l \in Seq(Frames), Then(l)
  PROVE  Stacks(l, 1)
<1>1. Tail(todo) \in Seq(Frames) /\ Len(Tail(todo)) = Len(todo) - 1
      /\ \A i \in 1 .. Len(todo) - 1 : Tail(todo)[i] = todo[i + 1]
  OBVIOUS
<1>2. todo' = l \o Tail(todo)
  BY DEF Then
<1>3. todo' \in Seq(Frames) /\ Len(todo') = Len(l) + Len(Tail(todo))
      /\ \A i \in 1 .. Len(todo') :
           todo'[i] = IF i <= Len(l) THEN l[i] ELSE Tail(todo)[i - Len(l)]
  BY <1>1, <1>2, ConcatProperties
<1>4. QED
  BY <1>1, <1>3 DEF Stacks

LEMMA Pops ==
  ASSUME todo \in Seq(Frames), todo # <<>>, todo' = Tail(todo)
  PROVE  Stacks(<<>>, 1)
BY DEF Stacks

LEMMA Adds ==
  ASSUME todo \in Seq(Frames), NEW l \in Seq(Frames), todo' = l \o todo
  PROVE  Stacks(l, 0)
BY ConcatProperties DEF Stacks

LEMMA Stays ==
  ASSUME todo \in Seq(Frames), UNCHANGED todo
  PROVE  \E l \in Seq(Frames) : Stacks(l, 0) /\ DOMAIN l = {}
<1>1. Len(<<>>) = 0 /\ <<>> \in Seq(Frames) /\ DOMAIN <<>> = {}
  OBVIOUS
<1>2. Stacks(<<>>, 0)
  BY <1>1 DEF Stacks
<1>3. QED BY <1>1, <1>2

LEMMA Stacked ==
  ASSUME todo \in Seq(Frames), todo # <<>>, NEW l \in Seq(Frames), NEW d \in {0, 1}, Stacks(l, d)
  PROVE  /\ Len(l) \in Nat /\ Len(todo) \in Nat /\ Len(todo) >= 1 /\ Len(todo') \in Nat
         /\ DOMAIN todo = 1 .. Len(todo) /\ DOMAIN l = 1 .. Len(l) /\ DOMAIN todo' = 1 .. Len(todo')
         /\ Head(todo) = todo[1] /\ Len(todo') = Len(l) + Len(todo) - d
         /\ (l # <<>> <=> Len(l) > 0)
         /\ \A i \in DOMAIN todo' :
              \/ i \in DOMAIN l /\ todo'[i] = l[i]
              \/ i > Len(l) /\ i - Len(l) + d \in DOMAIN todo /\ todo'[i] = todo[i - Len(l) + d]
         /\ \A i \in DOMAIN l : i \in DOMAIN todo' /\ todo'[i] = l[i]
         /\ \A i \in DOMAIN todo : i > d =>
              i + Len(l) - d \in DOMAIN todo' /\ todo'[i + Len(l) - d] = todo[i]
<1> DEFINE n == Len(l)
<1>a. todo \in Seq(Frames) /\ todo' \in Seq(Frames)
  BY DEF Stacks
<1>b. Len(todo) >= 1 /\ Head(todo) = todo[1]
  BY <1>a
<1>c. Len(todo') = n + Len(todo) - d
      /\ \A i \in DOMAIN todo' : todo'[i] = IF i <= n THEN l[i] ELSE todo[i - n + d]
  BY DEF Stacks
<1>d. n \in Nat /\ DOMAIN l = 1 .. n /\ (l # <<>> <=> n > 0) /\ n = Len(l)
  OBVIOUS
<1> HIDE DEF n
<1>0. /\ n \in Nat /\ Len(todo) \in Nat /\ Len(todo) >= 1 /\ Len(todo') \in Nat
      /\ DOMAIN todo = 1 .. Len(todo) /\ DOMAIN l = 1 .. n /\ DOMAIN todo' = 1 .. Len(todo')
      /\ Head(todo) = todo[1] /\ Len(todo') = n + Len(todo) - d
  BY <1>a, <1>b, <1>c, <1>d
<1>1. \A i \in DOMAIN todo' :
        \/ i \in DOMAIN l /\ todo'[i] = l[i]
        \/ i > n /\ i - n + d \in DOMAIN todo /\ todo'[i] = todo[i - n + d]
  BY <1>0, <1>c
<1>2. \A i \in DOMAIN l : i \in DOMAIN todo' /\ todo'[i] = l[i]
  BY <1>0, <1>c
<1>3. \A i \in DOMAIN todo : i > d => i + n - d \in DOMAIN todo' /\ todo'[i + n - d] = todo[i]
  <2> SUFFICES ASSUME NEW i \in DOMAIN todo, i > d
               PROVE  i + n - d \in DOMAIN todo' /\ todo'[i + n - d] = todo[i]
    OBVIOUS
  <2> DEFINE k == i + n - d
  <2>1. k \in DOMAIN todo' /\ k > n /\ k - n + d = i
    BY <1>0
  <2> QED BY <2>1, <1>c, <1>0
<1>4. QED BY <1>0, <1>1, <1>2, <1>3, <1>d

-----------------------------------------------------------------------------
(* The calls in progress stay in order *)

\* What most steps replace the innermost call by.
Light == {"clear", "destroyScript", "declare", "unresolved", "import", "processAll", "reprocess",
          "failTemplate", "add", "added", "run", "load", "endAdd", "loaded"}

LEMMA LightStack ==
  ASSUME TypeOK, StackInv, todo # <<>>, thrown = "none", UNCHANGED <<state, top, thrown>>,
         NEW l \in Seq(Frames), NEW d \in {0, 1}, Stacks(l, d),
         \A i \in DOMAIN l : l[i].call \in Light /\ (l[i].call = "load" => i = 1),
         \A i \in 2 .. Len(l) : Follows(l[i - 1], l[i]),
         \A i \in DOMAIN l : l[i].call \in Inner => Head(todo).call \in Inner,
         Head(todo).call \in {"clear", "destroyScript"} =>
           \A i \in DOMAIN l : l[i].call \in {"clear", "destroyScript"},
         Head(todo).call \notin Session \cup {"compile"},
         l # <<>> => Head(todo).call \notin Outer \cup {"endAdd"},
         Head(todo).call = "load" => d = 1 /\ (l = <<>> \/ Active)
  PROVE  StackInv'
<1> DEFINE n == Len(l)
<1>t. todo \in Seq(Frames)
  BY DEF TypeOK
<1>0. /\ n \in Nat /\ Len(todo) \in Nat /\ Len(todo) >= 1 /\ Len(todo') \in Nat
      /\ DOMAIN todo = 1 .. Len(todo) /\ DOMAIN l = 1 .. n /\ DOMAIN todo' = 1 .. Len(todo')
      /\ Head(todo) = todo[1] /\ Len(todo') = n + Len(todo) - d /\ (l # <<>> <=> n > 0)
  BY Stacked, <1>t
<1>1. \A i \in DOMAIN todo' :
        \/ i \in DOMAIN l /\ todo'[i] = l[i]
        \/ i > n /\ i - n + d \in DOMAIN todo /\ todo'[i] = todo[i - n + d]
  BY Stacked, <1>t
<1>c. \A i \in DOMAIN l : i \in DOMAIN todo' /\ todo'[i] = l[i]
  BY Stacked, <1>t
<1>2. \A i \in DOMAIN todo : i > d => i + n - d \in DOMAIN todo' /\ todo'[i + n - d] = todo[i]
  BY Stacked, <1>t
<1> HIDE DEF n
<1>d. Nested /\ Linked /\ Based /\ Topmost /\ Attended /\ Staged
  BY DEF StackInv
<1>3. Nested'
  <2> SUFFICES ASSUME NEW i \in DOMAIN todo', NEW j \in DOMAIN todo', i < j
               PROVE  /\ todo'[i].call \in Session \cup {"compile"} => todo'[j].call \in Outer
                      /\ todo'[j].call = "destroy" => todo'[i].call \in {"clear", "destroyScript"}
                      /\ todo'[j].call = "endCompile" /\ todo'[i].call \in Inner => Active
                      /\ todo'[j].call \notin {"compile", "load"}
    BY DEF Nested, Active
  <2>1. CASE i \in DOMAIN l /\ todo'[i] = l[i] /\ j \in DOMAIN l /\ todo'[j] = l[j]
    <3>1. l[i].call \in Light /\ l[j].call \in Light /\ (l[j].call = "load" => j = 1) /\ 1 <= i
      BY <2>1, <1>0
    <3> QED BY <3>1, <2>1 DEF Light, Session
  <2>2. CASE i \in DOMAIN l /\ todo'[i] = l[i]
             /\ j > n /\ j - n + d \in DOMAIN todo /\ todo'[j] = todo[j - n + d]
    <3> DEFINE k == j - n + d
    <3>1. k \in DOMAIN todo /\ todo'[j] = todo[k] /\ (k = 1 \/ 1 < k) /\ 1 \in DOMAIN todo
          /\ (k = 1 => d = 0)
      BY <2>2, <1>0
    <3> HIDE DEF k
    <3>2. l[i].call \in Light /\ l[i].call \notin Session \cup {"compile"}
      BY <2>2 DEF Light, Session
    <3>3. CASE k = 1
      BY <3>1, <3>2, <3>3, <2>2, <1>0 DEF Session
    <3>4. CASE 1 < k
      <4>1. /\ todo[k].call = "destroy" => todo[1].call \in {"clear", "destroyScript"}
            /\ todo[k].call = "endCompile" /\ todo[1].call \in Inner => Active
            /\ todo[k].call \notin {"compile", "load"}
        BY <3>1, <3>4, <1>d DEF Nested
      <4> QED BY <4>1, <3>1, <3>2, <2>2, <1>0
    <3> QED BY <3>1, <3>3, <3>4
  <2>3. CASE /\ i > n /\ i - n + d \in DOMAIN todo /\ todo'[i] = todo[i - n + d]
             /\ j > n /\ j - n + d \in DOMAIN todo /\ todo'[j] = todo[j - n + d]
    <3>1. i - n + d < j - n + d
      BY <1>0
    <3> QED BY <2>3, <3>1, <1>d DEF Nested
  <2>4. QED BY <1>0, <1>1, <2>1, <2>2, <2>3
<1>4. Linked'
  <2>1. ASSUME NEW i \in 2 .. Len(todo') PROVE Follows(todo'[i - 1], todo'[i])
    <3>1. CASE i \in DOMAIN l
      <4>1. todo'[i] = l[i] /\ todo'[i - 1] = l[i - 1]
        BY <3>1, <1>0, <1>c
      <4> QED BY <4>1, <3>1, <1>0
    <3>2. CASE i = n + 1
      <4>1. todo'[i - 1] = l[n] /\ l # <<>> /\ n \in DOMAIN l
        BY <3>2, <1>0, <1>c
      <4>2. l[n].call \in Light /\ Head(todo).call \notin Outer \cup {"endAdd"}
        BY <4>1
      <4>3. d = 0 => todo'[i] = todo[1]
        BY <3>2, <1>0, <1>1
      <4>4. d = 1 => 2 \in 2 .. Len(todo) /\ todo'[i] = todo[2]
        BY <3>2, <1>0, <1>1
      <4>5. d = 1 => Follows(todo[1], todo[2])
        BY <4>4, <1>d DEF Linked
      <4> QED BY <4>1, <4>2, <4>3, <4>4, <4>5, <1>0 DEF Follows, Light, Outer, Session
    <3>3. CASE i > n + 1
      <4> DEFINE k == i - n + d
      <4>1. i - 1 \in DOMAIN todo' /\ i - 1 > n /\ (i - 1) - n + d = k - 1 /\ k \in 2 .. Len(todo)
        BY <3>3, <1>0
      <4>2. todo'[i] = todo[k]
        BY <3>3, <1>0, <1>1
      <4>3. todo'[i - 1] = todo[k - 1]
        BY <4>1, <1>0, <1>1
      <4>4. Follows(todo[k - 1], todo[k])
        BY <4>1, <1>d DEF Linked
      <4> HIDE DEF k
      <4> QED BY <4>2, <4>3, <4>4
    <3> QED BY <3>1, <3>2, <3>3, <1>0
  <2>2. ASSUME NEW i \in DOMAIN todo', todo'[i].call \in {"finalize", "compileFunctions"}
        PROVE  i < Len(todo')
    <3>1. CASE i \in DOMAIN l /\ todo'[i] = l[i]
      BY <3>1, <2>2 DEF Light
    <3>2. CASE i > n /\ i - n + d \in DOMAIN todo /\ todo'[i] = todo[i - n + d]
      <4>1. i - n + d < Len(todo)
        BY <3>2, <2>2, <1>d DEF Linked
      <4> QED BY <4>1, <1>0
    <3> QED BY <3>1, <3>2, <1>1
  <2>3. QED BY <2>1, <2>2 DEF Linked, Follows
<1>e. Based'
  <2> SUFFICES ASSUME NEW i \in DOMAIN todo',
                      todo'[i].call \notin Outer \cup Session \cup {"compile"}
               PROVE  \/ todo'[i].call = "load" /\ Len(todo') = 1
                      \/ \E j \in DOMAIN todo' : i < j /\ todo'[j].call \in Session
    BY DEF Based
  <2>1. CASE i \in DOMAIN l
    <3>1. PICK j \in DOMAIN todo : 1 < j /\ todo[j].call \in Session
      <4>1. CASE Head(todo).call = "load"
        BY <4>1, <2>1, <1>0, <1>d DEF Attended, Active, Session
      <4>2. CASE Head(todo).call # "load"
        BY <4>2, <2>1, <1>0, <1>d DEF Based
      <4> QED BY <4>1, <4>2
    <3>2. j + n - d \in DOMAIN todo' /\ todo'[j + n - d].call \in Session /\ i < j + n - d
      BY <3>1, <2>1, <1>0, <1>2
    <3> QED BY <3>2
  <2>2. CASE i > n /\ i - n + d \in DOMAIN todo /\ todo'[i] = todo[i - n + d]
    <3> DEFINE k == i - n + d
    <3>1. k \in DOMAIN todo /\ todo'[i] = todo[k] /\ k + n - d = i
      BY <2>2, <1>0
    <3>2. CASE todo[k].call = "load" /\ Len(todo) = 1
      <4>1. k = 1
        BY <3>1, <3>2, <1>0
      <4>2. d = 1
        BY <4>1, <3>2, <1>0
      <4> QED BY <4>1, <4>2, <3>1, <2>2, <1>0
    <3>3. ASSUME NEW j \in DOMAIN todo, k < j, todo[j].call \in Session
          PROVE  \E m \in DOMAIN todo' : i < m /\ todo'[m].call \in Session
      <4>1. j > d /\ i < j + n - d
        BY <3>1, <3>3, <2>2, <1>0, SMTT(60)
      <4> QED BY <4>1, <3>3, <1>2
    <3> HIDE DEF k
    <3> QED BY <3>1, <3>2, <3>3, <1>d DEF Based
  <2> QED BY <2>1, <2>2, <1>1
<1>5. Topmost'
  <2> SUFFICES ASSUME NEW i \in DOMAIN todo', todo'[i].call \in Session
               PROVE  todo'[i].on = top
    BY DEF Topmost
  <2>1. i \notin DOMAIN l
    BY <1>1, <1>0, <1>c DEF Light, Session
  <2> QED BY <2>1, <1>1, <1>d DEF Topmost
<1>6. Attended'
  BY <1>0, <1>2, <1>d DEF Attended, Active, Session
<1>7. Raised'
  BY DEF Raised
<1>8. Staged'
  BY <1>0, <1>1, <1>d DEF Staged, Light
<1>9. QED BY <1>3, <1>4, <1>e, <1>5, <1>6, <1>7, <1>8 DEF StackInv
\* The innermost call ends, or is left.
LEMMA PopStack ==
  ASSUME TypeOK, StackInv, todo # <<>>, Stacks(<<>>, 1), UNCHANGED <<state, top>>
  PROVE  Nested' /\ Linked' /\ Based' /\ Topmost' /\ Staged'
<1>a. todo \in Seq(Frames) /\ <<>> \in Seq(Frames) /\ Len(<<>>) = 0
  BY DEF TypeOK
<1>0. /\ Len(todo) \in Nat /\ Len(todo) >= 1 /\ Len(todo') = Len(todo) - 1
      /\ DOMAIN todo = 1 .. Len(todo) /\ DOMAIN todo' = 1 .. Len(todo')
      /\ \A i \in DOMAIN todo' : i + 1 \in DOMAIN todo /\ todo'[i] = todo[i + 1]
  <2>1. /\ Len(todo) \in Nat /\ Len(todo) >= 1 /\ Len(todo') = 0 + Len(todo) - 1
        /\ DOMAIN todo = 1 .. Len(todo) /\ DOMAIN todo' = 1 .. Len(todo')
        /\ \A i \in DOMAIN todo' :
             \/ i \in DOMAIN <<>> /\ todo'[i] = <<>>[i]
             \/ i > Len(<<>>) /\ i - Len(<<>>) + 1 \in DOMAIN todo /\ todo'[i] = todo[i - Len(<<>>) + 1]
    BY <1>a, Stacked
  <2> QED BY <2>1, <1>a
<1>d. Nested /\ Linked /\ Based /\ Topmost /\ Attended /\ Staged
  BY DEF StackInv
<1>1. Nested'
  BY <1>0, <1>d DEF Nested, Active
<1>2. Linked'
  <2>1. ASSUME NEW i \in 2 .. Len(todo') PROVE Follows(todo'[i - 1], todo'[i])
    <3>1. todo'[i] = todo[i + 1] /\ todo'[i - 1] = todo[i] /\ i + 1 \in 2 .. Len(todo)
      BY <1>0
    <3> QED BY <3>1, <1>d DEF Linked
  <2>2. ASSUME NEW i \in DOMAIN todo', todo'[i].call \in {"finalize", "compileFunctions"}
        PROVE  i < Len(todo')
    BY <2>2, <1>0, <1>d DEF Linked
  <2>3. QED BY <2>1, <2>2 DEF Linked, Follows
<1>3. Based'
  <2> SUFFICES ASSUME NEW i \in DOMAIN todo',
                      todo'[i].call \notin Outer \cup Session \cup {"compile"}
               PROVE  \E j \in DOMAIN todo' : i < j /\ todo'[j].call \in Session
    BY DEF Based
  <2>1. PICK j \in DOMAIN todo : i + 1 < j /\ todo[j].call \in Session
    BY <1>0, <1>d DEF Based
  <2>2. j - 1 \in DOMAIN todo' /\ todo'[j - 1] = todo[j]
    BY <2>1, <1>0
  <2> QED BY <2>1, <2>2, <1>0
<1>4. Topmost' /\ Staged'
  BY <1>0, <1>d DEF Topmost, Staged
<1>5. QED BY <1>1, <1>2, <1>3, <1>4

LEMMA ThrowStack ==
  ASSUME TypeOK, StackInv, todo # <<>>, thrown = "none", UNCHANGED <<state, top>>,
         NEW what, Throw(what),
         Head(todo).call \notin Session \cup {"clear", "destroyScript"},
         what = "CompilationFailure" => Head(todo).call \notin {"compile", "endAdd", "runModule"}
  PROVE  StackInv'
<1>0. /\ Len(todo) \in Nat /\ Len(todo) >= 1 /\ Len(todo') = Len(todo) - 1
      /\ DOMAIN todo = 1 .. Len(todo) /\ DOMAIN todo' = 1 .. Len(todo') /\ Head(todo) = todo[1]
      /\ \A i \in DOMAIN todo' : i + 1 \in DOMAIN todo /\ todo'[i] = todo[i + 1]
      /\ todo' # <<>> => Head(todo') = todo'[1] /\ 1 \in DOMAIN todo'
  BY DEF TypeOK, Throw
<1>1. Stacks(<<>>, 1)
  BY Pops DEF TypeOK, Throw
<1>2. Nested' /\ Linked' /\ Based' /\ Topmost' /\ Staged'
  BY <1>1, PopStack
<1>3. Attended'
  <2> SUFFICES ASSUME Active PROVE \E i \in DOMAIN todo' : todo'[i].call \in Session
    BY DEF Attended, Active
  <2>1. PICK i \in DOMAIN todo : todo[i].call \in Session
    BY DEF StackInv, Attended
  <2>2. i > 1 /\ i - 1 \in DOMAIN todo'
    BY <2>1, <1>0
  <2> QED BY <2>1, <2>2, <1>0
<1>4. Raised'
  <2>1. ASSUME NEW i \in DOMAIN todo'
        PROVE  todo'[i].call \notin {"compile", "load", "destroy"}
    <3>1. i + 1 \in DOMAIN todo /\ 1 \in DOMAIN todo /\ 1 < i + 1 /\ todo'[i] = todo[i + 1]
      BY <1>0
    <3> QED BY <3>1, <1>0 DEF StackInv, Nested
  <2>2. ASSUME todo' # <<>>, what = "CompilationFailure"
        PROVE  Head(todo').call \notin Outer
    <3>1. 2 \in 2 .. Len(todo) /\ Head(todo') = todo[2]
      BY <2>2, <1>0
    <3>2. Follows(todo[1], todo[2])
      BY <3>1 DEF StackInv, Linked
    <3> QED BY <3>1, <3>2, <2>2, <1>0 DEF Follows, Outer
  <2>3. QED BY <2>1, <2>2 DEF Raised, Throw
<1>5. QED BY <1>2, <1>3, <1>4 DEF StackInv

\* The call that began a session, or that ends it, gives way to the calls of a session.
LEMMA BaseStack ==
  ASSUME TypeOK, StackInv, todo # <<>>, thrown = "none", UNCHANGED thrown,
         Head(todo).call \in Session \cup {"compile"},
         NEW l \in Seq(Frames), Stacks(l, 1), l # <<>>,
         \A i \in 1 .. Len(l) - 1 :
           l[i].call \in {"add", "finalize", "clear"} /\ (l[Len(l)].call = "destroy" => l[i].call = "clear"),
         \A i \in 2 .. Len(l) : Follows(l[i - 1], l[i]),
         l[Len(l)].call \in Session, l[Len(l)].on = top',
         l[Len(l)].call = "endCompile" => state' # "Finished"
  PROVE  StackInv'
<1> DEFINE n == Len(l)
<1>0. /\ n \in Nat /\ n > 0 /\ Len(todo) \in Nat /\ Len(todo) >= 1 /\ Len(todo') \in Nat
      /\ DOMAIN todo = 1 .. Len(todo) /\ DOMAIN l = 1 .. n /\ DOMAIN todo' = 1 .. Len(todo')
      /\ Head(todo) = todo[1] /\ Len(todo') = n + Len(todo) - 1
      /\ \A i \in DOMAIN todo' :
           \/ i \in DOMAIN l /\ todo'[i] = l[i]
           \/ i > n /\ i - n + 1 \in DOMAIN todo /\ todo'[i] = todo[i - n + 1]
      /\ \A i \in DOMAIN l : i \in DOMAIN todo' /\ todo'[i] = l[i]
  BY Stacked DEF TypeOK
<1>1. l[n].call \in Session /\ l[n].on = top' /\ (l[n].call = "endCompile" => Active')
      /\ \A i \in 1 .. n - 1 : l[i].call \in {"add", "finalize", "clear"}
                               /\ (l[n].call = "destroy" => l[i].call = "clear")
  BY DEF Active
<1> HIDE DEF n
<1>2. \A i \in DOMAIN todo' : i > n => todo'[i].call \in Outer
  <2> SUFFICES ASSUME NEW i \in DOMAIN todo', i > n PROVE todo'[i].call \in Outer
    OBVIOUS
  <2> DEFINE k == i - n + 1
  <2>1. k \in DOMAIN todo /\ todo'[i] = todo[k] /\ 1 \in DOMAIN todo /\ 1 < k
    BY <1>0
  <2> HIDE DEF k
  <2>2. todo[1].call \in Session \cup {"compile"}
    BY <1>0
  <2> QED BY <2>1, <2>2 DEF StackInv, Nested
<1>3. n \in DOMAIN todo' /\ todo'[n] = l[n] /\ \A i \in 1 .. n - 1 : todo'[i] = l[i]
  <2>1. n \in DOMAIN l /\ \A i \in 1 .. n - 1 : i \in DOMAIN l
    BY <1>0
  <2> QED BY <2>1, <1>0
<1>x. \A i \in 1 .. n - 1 : todo'[i].call \in {"add", "finalize", "clear"}
                          /\ (todo'[n].call = "destroy" => todo'[i].call = "clear")
  BY <1>1, <1>3
<1>y. todo'[n].call \in Session /\ todo'[n].on = top' /\ (todo'[n].call = "endCompile" => Active')
  BY <1>1, <1>3
<1>4. Nested'
  <2> SUFFICES ASSUME NEW i \in DOMAIN todo', NEW j \in DOMAIN todo', i < j
               PROVE  /\ todo'[i].call \in Session \cup {"compile"} => todo'[j].call \in Outer
                      /\ todo'[j].call = "destroy" => todo'[i].call \in {"clear", "destroyScript"}
                      /\ todo'[j].call = "endCompile" /\ todo'[i].call \in Inner => Active'
                      /\ todo'[j].call \notin {"compile", "load"}
    BY DEF Nested
  <2>1. CASE j > n
    BY <2>1, <1>2 DEF Outer
  <2>2. CASE j = n
    <3>1. i \in 1 .. n - 1
      BY <2>2, <1>0
    <3> QED BY <2>2, <3>1, <1>x, <1>y DEF Session
  <2>3. CASE j < n
    <3>1. i \in 1 .. n - 1 /\ j \in 1 .. n - 1
      BY <2>3, <1>0
    <3> QED BY <3>1, <1>x DEF Session
  <2> QED BY <2>1, <2>2, <2>3, <1>0
<1>5. Linked'
  <2>1. ASSUME NEW i \in 2 .. Len(todo') PROVE Follows(todo'[i - 1], todo'[i])
    <3>1. CASE i <= n
      <4>1. todo'[i] = l[i] /\ todo'[i - 1] = l[i - 1] /\ i \in 2 .. n
        BY <3>1, <1>0, <1>3
      <4> QED BY <4>1 DEF n
    <3>2. CASE i = n + 1
      <4>1. 2 \in 2 .. Len(todo) /\ todo'[i] = todo[2] /\ todo'[i - 1] = l[n]
        BY <3>2, <1>0, <1>3
      <4>2. Follows(todo[1], todo[2])
        BY <4>1 DEF StackInv, Linked
      <4> QED BY <4>1, <4>2, <1>0, <1>1 DEF Follows, Session
    <3>3. CASE i > n + 1
      <4> DEFINE k == i - n + 1
      <4>1. k \in 2 .. Len(todo) /\ todo'[i] = todo[k]
        BY <3>3, <1>0
      <4>2. i - 1 \in DOMAIN todo' /\ i - 1 > n /\ (i - 1) - n + 1 = k - 1
        BY <3>3, <1>0
      <4>3. todo'[i - 1] = todo[k - 1]
        BY <4>2, <1>0, SMTT(60)
      <4>4. Follows(todo[k - 1], todo[k])
        BY <4>1 DEF StackInv, Linked
      <4> HIDE DEF k
      <4> QED BY <4>1, <4>3, <4>4
    <3> QED BY <3>1, <3>2, <3>3, <1>0
  <2>2. ASSUME NEW i \in DOMAIN todo', todo'[i].call \in {"finalize", "compileFunctions"}
        PROVE  i < Len(todo')
    <3>1. i \in 1 .. n - 1 \/ i = n \/ i > n
      BY <1>0
    <3>2. i \in 1 .. n - 1
      BY <3>1, <2>2, <1>y, <1>2 DEF Session, Outer
    <3> QED BY <3>2, <1>0
  <2>3. QED BY <2>1, <2>2 DEF Linked, Follows
<1>z. \A i \in DOMAIN todo' : i \in 1 .. n - 1 \/ i = n \/ i > n
  BY <1>0
<1>6. Based'
  <2> SUFFICES ASSUME NEW i \in DOMAIN todo',
                      todo'[i].call \notin Outer \cup Session \cup {"compile"}
               PROVE  i < n
    BY <1>3, <1>y DEF Based
  <2>1. i \in 1 .. n - 1
    BY <1>z, <1>2, <1>y
  <2> QED BY <2>1, <1>0
<1>7. Topmost'
  <2> SUFFICES ASSUME NEW i \in DOMAIN todo', todo'[i].call \in Session PROVE i = n
    BY <1>y DEF Topmost
  <2> QED BY <1>z, <1>2, <1>x DEF Session, Outer
<1>8. Attended' /\ Raised'
  <2>1. Attended'
    BY <1>3, <1>y DEF Attended
  <2>2. Raised'
    BY DEF Raised
  <2> QED BY <2>1, <2>2
<1>9. Staged'
  BY <1>z, <1>2, <1>x, <1>y DEF Staged, Session, Outer
<1>10. QED BY <1>4, <1>5, <1>6, <1>7, <1>8, <1>9 DEF StackInv
-----------------------------------------------------------------------------
(* What each step does to the calls in progress *)

LEMMA FrameKinds ==
  /\ \A c \in {"finalize", "added", "processAll", "reprocess", "compileFunctions", "failTemplate"} :
       Call(c) \in Frames /\ Call(c).call = c
  /\ \A c \in {"compile", "add", "endCompile", "destroy"}, s \in Scripts : CallOn(c, s) \in Frames
  /\ \A c \in {"load", "endAdd", "runModule", "loaded", "destroyScript"}, m \in Modules :
       CallOn(c, m) \in Frames
  /\ \A c \in {"declare", "unresolved"}, t \in Tasks : CallOn(c, t) \in Frames
  /\ \A c \in {"import", "clear", "run"}, ms \in Seq(Modules) : CallOn(c, ms) \in Frames
BY DEF Frames, Call, CallOn

LEMMA OnType ==
  ASSUME TypeOK, todo # <<>>
  PROVE  /\ 1 \in DOMAIN todo /\ Head(todo) = todo[1] /\ On = todo[1].on
         /\ Head(todo).call \in {"compile", "add", "endCompile", "destroy"} => On \in Scripts
         /\ Head(todo).call \in {"load", "endAdd", "runModule", "loaded", "destroyScript"} =>
              On \in Modules
         /\ Head(todo).call \in {"declare", "unresolved"} => On \in Tasks
         /\ Head(todo).call \in {"import", "clear", "run"} => On \in Seq(Modules)
<1>1. 1 \in DOMAIN todo /\ Head(todo) = todo[1]
  BY DEF TypeOK
<1>2. QED
  BY <1>1, FrameFields DEF On

LEMMA SourceSame ==
  ASSUME [Next]_vars
  PROVE  source' = source
BY DEF Next, vars, Step, NewScript, Compile, LoadModule, StartSession, EndCompile, Clear,
       DestroyScript, DestroyNamespace, Add, Declare, Unresolved, Import, Load, Added, EndAdd, Loaded,
       RunModule, Finalize, ProcessAll, Reprocess, CompileFunction, FailTemplate, EndFunctions, Run,
       Handle, Leave, Escape

LEMMA Modular == Modules \subseteq Scripts
BY ScriptsAssumption

LEMMA FromSeq ==
  ASSUME TypeOK, NEW t \in Tasks
  PROVE  /\ From(t) \in Seq(Frames)
         /\ \A i \in DOMAIN From(t) : From(t)[i] = CallOn("declare", Task(t.script, t.at + 1))
         /\ Len(From(t)) = (IF t.at < Len(source[t.script]) THEN 1 ELSE 0)
         /\ t.at < Len(source[t.script]) => Task(t.script, t.at + 1) \in Tasks
<1>1. t.script \in Scripts /\ t.at \in Nat /\ Len(source[t.script]) \in Nat
  BY DEF Tasks, TypeOK
<1>2. t.at < Len(source[t.script]) => Task(t.script, t.at + 1) \in Tasks
  BY <1>1 DEF Tasks, Task
<1>3. QED
  BY <1>1, <1>2, FrameKinds DEF From

LEMMA Pairing ==
  ASSUME NEW F, NEW a \in F, NEW b \in F
  PROVE  <<a>> \o <<b>> = <<a, b>> /\ <<>> \o <<b>> = <<b>> /\ <<a, b>> \in Seq(F) /\ <<b>> \in Seq(F)
<1>1. <<a>> \in Seq(F) /\ <<b>> \in Seq(F) /\ <<a, b>> \in Seq(F)
  OBVIOUS
<1>2. /\ <<a>> \o <<b>> \in Seq(F) /\ Len(<<a>> \o <<b>>) = 2
      /\ \A i \in 1 .. 2 : (<<a>> \o <<b>>)[i] = IF i <= 1 THEN <<a>>[i] ELSE <<b>>[i - 1]
  BY <1>1, ConcatProperties
<1>3. \A i \in 1 .. 2 : (<<a>> \o <<b>>)[i] = <<a, b>>[i]
  <2>1. (<<a>> \o <<b>>)[1] = a /\ (<<a>> \o <<b>>)[2] = b
    BY <1>2
  <2>2. \A i \in 1 .. 2 : i = 1 \/ i = 2
    OBVIOUS
  <2> QED BY <2>1, <2>2
<1>4. <<a>> \o <<b>> = <<a, b>>
  BY <1>1, <1>2, <1>3, SeqEqual
<1>5. QED BY <1>1, <1>4, ConcatEmptySeq

LEMMA ResolveSeq ==
  ASSUME TypeOK, NEW t \in Tasks
  PROVE  /\ Resolve(t) \in Seq(Frames) /\ Len(Resolve(t)) > 0
         /\ \A i \in DOMAIN Resolve(t) :
              Resolve(t)[i] \in {CallOn("clear", generated), CallOn("unresolved", t)}
         /\ Resolve(t)[Len(Resolve(t))] = CallOn("unresolved", t)
<1>1. CallOn("clear", generated) \in Frames /\ CallOn("unresolved", t) \in Frames
  BY FrameKinds DEF TypeOK
<1>2. CASE Is(t) = "badInstance"
  <2>1. Resolve(t) = <<CallOn("clear", generated)>> \o <<CallOn("unresolved", t)>>
    BY <1>2 DEF Resolve
  <2> DEFINE a == CallOn("clear", generated)
             b == CallOn("unresolved", t)
  <2> HIDE DEF a, b
  <2>2. a \in Frames /\ b \in Frames /\ Resolve(t) = <<a>> \o <<b>>
    BY <1>1, <2>1 DEF a, b
  <2>3. Resolve(t) = <<a, b>>
    BY <2>2, Pairing
  <2>4. /\ Resolve(t) \in Seq(Frames) /\ Len(Resolve(t)) = 2 /\ Resolve(t)[2] = b
        /\ \A i \in DOMAIN Resolve(t) : Resolve(t)[i] \in {a, b}
    BY <2>2, <2>3
  <2> QED BY <2>4 DEF a, b
<1>3. CASE Is(t) # "badInstance"
  <2>1. Resolve(t) = <<>> \o <<CallOn("unresolved", t)>>
    BY <1>3 DEF Resolve
  <2>2. Resolve(t) = <<CallOn("unresolved", t)>>
    BY <1>1, <2>1, Pairing
  <2> QED BY <1>1, <2>2
<1>4. QED BY <1>2, <1>3

\* The elements of a sequence that grows, or shrinks.
LEMMA Appended ==
  ASSUME NEW F, NEW q \in Seq(F), NEW x \in F
  PROVE  ToSet(q) \subseteq ToSet(Append(q, x)) /\ x \in ToSet(Append(q, x))
BY AppendProperties DEF ToSet

LEMMA Shortened ==
  ASSUME NEW F, NEW q \in Seq(F), q # <<>>, NEW x \in ToSet(q)
  PROVE  x = Head(q) \/ x \in ToSet(Tail(q))
<1>1. PICK i \in DOMAIN q : q[i] = x
  BY DEF ToSet
<1>2. CASE i = 1
  BY <1>1, <1>2
<1>3. CASE i # 1
  <2>1. i - 1 \in DOMAIN Tail(q) /\ Tail(q)[i - 1] = q[i]
    BY <1>1, <1>3
  <2> QED BY <1>1, <2>1 DEF ToSet
<1>4. QED BY <1>2, <1>3

\* The elements of two sequences in a row.
LEMMA Joining ==
  ASSUME NEW F, NEW x \in Seq(F), NEW y \in Seq(F)
  PROVE  /\ x \o y \in Seq(F) /\ Len(x \o y) = Len(x) + Len(y)
         /\ \A i \in DOMAIN (x \o y) :
              \/ i \in DOMAIN x /\ (x \o y)[i] = x[i]
              \/ i - Len(x) \in DOMAIN y /\ (x \o y)[i] = y[i - Len(x)]
         /\ \A i \in DOMAIN x : i \in DOMAIN (x \o y) /\ (x \o y)[i] = x[i]
         /\ \A i \in DOMAIN y : i + Len(x) \in DOMAIN (x \o y) /\ (x \o y)[i + Len(x)] = y[i]
<1>1. x \o y \in Seq(F) /\ Len(x \o y) = Len(x) + Len(y)
      /\ \A i \in 1 .. Len(x) + Len(y) : (x \o y)[i] = IF i <= Len(x) THEN x[i] ELSE y[i - Len(x)]
  BY ConcatProperties
<1>2. DOMAIN x = 1 .. Len(x) /\ DOMAIN y = 1 .. Len(y) /\ DOMAIN (x \o y) = 1 .. Len(x) + Len(y)
      /\ Len(x) \in Nat /\ Len(y) \in Nat
  BY <1>1
<1>3. \A i \in DOMAIN y : i + Len(x) \in DOMAIN (x \o y) /\ (x \o y)[i + Len(x)] = y[i]
  <2> SUFFICES ASSUME NEW i \in DOMAIN y
               PROVE  i + Len(x) \in DOMAIN (x \o y) /\ (x \o y)[i + Len(x)] = y[i]
    OBVIOUS
  <2> DEFINE k == i + Len(x)
  <2>1. k \in 1 .. Len(x) + Len(y) /\ k > Len(x) /\ k - Len(x) = i
    BY <1>2
  <2> HIDE DEF k
  <2>2. (x \o y)[k] = y[i]
    BY <2>1, <1>1, <1>2
  <2> QED BY <2>1, <2>2, <1>2 DEF k
<1>4. QED BY <1>1, <1>2, <1>3

\* What each element of either sequence is, an element of both in a row is.
LEMMA JoinedElements ==
  ASSUME NEW F, NEW x \in Seq(F), NEW y \in Seq(F), NEW Z,
         \A i \in DOMAIN x : x[i] \in Z, \A i \in DOMAIN y : y[i] \in Z
  PROVE  /\ x \o y \in Seq(F)
         /\ \A i \in DOMAIN (x \o y) : (x \o y)[i] \in Z
         /\ \A i \in DOMAIN x : \E j \in DOMAIN (x \o y) : (x \o y)[j] = x[i]
         /\ \A i \in DOMAIN y : \E j \in DOMAIN (x \o y) : (x \o y)[j] = y[i]
<1>1. /\ x \o y \in Seq(F)
      /\ \A i \in DOMAIN (x \o y) :
              \/ i \in DOMAIN x /\ (x \o y)[i] = x[i]
              \/ i - Len(x) \in DOMAIN y /\ (x \o y)[i] = y[i - Len(x)]
  BY Joining
<1>2. \A i \in DOMAIN x : i \in DOMAIN (x \o y) /\ (x \o y)[i] = x[i]
  BY Joining
<1>3. \A i \in DOMAIN y : i + Len(x) \in DOMAIN (x \o y) /\ (x \o y)[i + Len(x)] = y[i]
  BY Joining
<1>4. QED BY <1>1, <1>2, <1>3

LEMMA TaskFields ==
  ASSUME TypeOK, NEW t \in Tasks
  PROVE  /\ t.script \in Scripts /\ t.at \in Nat /\ t = Task(t.script, t.at)
         /\ t.at # 0 => t.at \in DOMAIN source[t.script]
         /\ \A n \in DOMAIN source[t.script] : source[t.script][n].modules \in Seq(Modules)
<1>1. t.script \in Scripts /\ t.at \in Nat /\ t.at <= Len(source[t.script])
      /\ t = [script |-> t.script, at |-> t.at]
  BY DEF Tasks
<1>2. source[t.script] \in Seq(Declarations)
  BY <1>1 DEF TypeOK
<1>3. \A n \in DOMAIN source[t.script] : source[t.script][n] \in Declarations
  BY <1>2
<1>4. QED BY <1>1, <1>2, <1>3 DEF Task, Declarations

LEMMA ImportsSeq ==
  ASSUME TypeOK, NEW t \in Tasks
  PROVE  LET l == [n \in DOMAIN Imports(t) |-> CallOn("import", Imports(t)[n])]
         IN  l \in Seq(Frames) /\ \A i \in DOMAIN l : l[i].call = "import"
<1> DEFINE l == [n \in DOMAIN Imports(t) |-> CallOn("import", Imports(t)[n])]
<1>1. Imports(t) \in Seq(Seq(Modules))
  <2>1. CASE t.at = 0
    <3>1. source[t.script] \in Seq(Declarations)
      BY TaskFields DEF TypeOK
    <3>2. DOMAIN source[t.script] = 1 .. Len(source[t.script]) /\ Len(source[t.script]) \in Nat
      BY <3>1
    <3>3. \A n \in DOMAIN source[t.script] :
            (IF source[t.script][n].is = "import" THEN source[t.script][n].modules ELSE <<>>)
              \in Seq(Modules)
      BY TaskFields
    <3> QED BY <2>1, <3>2, <3>3, IsASeq DEF Imports
  <2>2. CASE t.at # 0
    BY <2>2, TaskFields DEF Imports
  <2> QED BY <2>1, <2>2
<1>2. DOMAIN l = 1 .. Len(Imports(t)) /\ Len(Imports(t)) \in Nat
  BY <1>1
<1>3. \A i \in DOMAIN l : l[i] = CallOn("import", Imports(t)[i]) /\ Imports(t)[i] \in Seq(Modules)
  BY <1>1
<1>4. \A i \in DOMAIN l : l[i] \in Frames /\ l[i].call = "import"
  BY <1>3, FrameKinds DEF CallOn
<1>5. l \in Seq(Frames)
  BY <1>2, <1>4, IsASeq
<1>6. QED BY <1>4, <1>5
\* What the steps that are not obvious replace the innermost call by.

LEMMA AddStep ==
  ASSUME TypeOK, Add
  PROVE  \E l \in Seq(Frames) :
           /\ Stacks(l, 1)
           /\ l = IF Parsed(On) THEN From(Task(On, 0)) ELSE <<>>
           /\ \A i \in DOMAIN l : l[i] = CallOn("declare", Task(On, 1))
           /\ Parsed(On) /\ Len(source[On]) > 0 => Len(l) = 1
<1>1. todo # <<>> /\ todo \in Seq(Frames) /\ On \in Scripts
  BY OnType DEF Add, Doing, TypeOK
<1> DEFINE t == Task(On, 0)
           l == IF Parsed(On) THEN From(t) ELSE <<>>
<1>2. t \in Tasks /\ t.script = On /\ t.at = 0
  BY <1>1 DEF Tasks, Task, TypeOK
<1>3. /\ From(t) \in Seq(Frames)
      /\ \A i \in DOMAIN From(t) : From(t)[i] = CallOn("declare", Task(On, 1))
      /\ Len(source[On]) > 0 => Len(From(t)) = 1
  BY <1>2, FromSeq
<1>4. l \in Seq(Frames) /\ Then(l)
  BY <1>3 DEF Add
<1>5. Stacks(l, 1)
  BY <1>1, <1>4, Thens
<1>6. /\ \A i \in DOMAIN l : l[i] = CallOn("declare", Task(On, 1))
      /\ Parsed(On) /\ Len(source[On]) > 0 => Len(l) = 1
  BY <1>3
<1>7. QED BY <1>4, <1>5, <1>6

\* The calls that a declaration makes.
DeclareCalls(t) ==
  {CallOn("clear", generated), CallOn("unresolved", t), CallOn("declare", Task(t.script, t.at + 1)),
   CallOn("import", source[t.script][t.at].modules)}

NoImport(t) == {f \in DeclareCalls(t) : f.call # "import"}

LEMMA DeclareStep ==
  ASSUME TypeOK, Declare, thrown' = "none"
  PROVE  \E l \in Seq(Frames) :
           /\ Stacks(l, 1)
           /\ \A i \in DOMAIN l : l[i] \in DeclareCalls(On)
           /\ \A i \in DOMAIN l : l[i].call = "import" => Is(On) = "import"
           /\ Is(On) \in {"late", "unknown", "badInstance"} =>
                \E i \in DOMAIN l : l[i] = CallOn("unresolved", On)
           /\ On.at < Len(source[On.script]) =>
                \E i \in DOMAIN l : l[i] = CallOn("declare", Task(On.script, On.at + 1))
<1> DEFINE next == CallOn("declare", Task(On.script, On.at + 1))
<1>1. todo # <<>> /\ todo \in Seq(Frames) /\ On \in Tasks /\ thrown = "none"
  BY OnType DEF Declare, Doing, TypeOK
<1>2. /\ From(On) \in Seq(Frames) /\ \A i \in DOMAIN From(On) : From(On)[i] = next
      /\ On.at < Len(source[On.script]) => 1 \in DOMAIN From(On)
  BY <1>1, FromSeq
<1>3. CASE Then(From(On)) /\ Is(On) \notin {"late", "unknown", "badInstance"}
  <2>1. Stacks(From(On), 1)
    BY <1>1, <1>2, <1>3, Thens
  <2>2. \A i \in DOMAIN From(On) : From(On)[i] \in DeclareCalls(On) /\ From(On)[i].call = "declare"
    BY <1>2 DEF DeclareCalls, CallOn
  <2> QED BY <1>2, <1>3, <2>1, <2>2
<1>4. CASE Then(Resolve(On) \o From(On)) /\ Is(On) \in {"late", "unknown", "badInstance"}
  <2> DEFINE x == Resolve(On)
             y == From(On)
             l == x \o y
  <2>1. /\ x \in Seq(Frames) /\ Len(x) \in DOMAIN x /\ x[Len(x)] = CallOn("unresolved", On)
        /\ \A i \in DOMAIN x : x[i] \in NoImport(On)
    BY <1>1, ResolveSeq DEF NoImport, DeclareCalls, CallOn
  <2>2. /\ y \in Seq(Frames)
        /\ On.at < Len(source[On.script]) => 1 \in DOMAIN y
        /\ \A i \in DOMAIN y : y[i] = next /\ y[i] \in NoImport(On)
    <3>1. next \in NoImport(On)
      BY DEF NoImport, DeclareCalls, CallOn
    <3> HIDE DEF next
    <3> QED BY <1>2, <3>1
  <2>3. Then(l)
    BY <1>4
  <2> HIDE DEF x, y
  <2>4. /\ l \in Seq(Frames) /\ \A i \in DOMAIN l : l[i] \in NoImport(On)
        /\ \A i \in DOMAIN x : \E j \in DOMAIN l : l[j] = x[i]
        /\ \A i \in DOMAIN y : \E j \in DOMAIN l : l[j] = y[i]
    <3>1. x \in Seq(Frames) /\ \A i \in DOMAIN x : x[i] \in NoImport(On)
      BY <2>1
    <3>2. y \in Seq(Frames) /\ \A i \in DOMAIN y : y[i] \in NoImport(On)
      BY <2>2
    <3>3. l \in Seq(Frames) /\ \A i \in DOMAIN l : l[i] \in NoImport(On)
      BY <3>1, <3>2, JoinedElements
    <3>4. \A i \in DOMAIN x : \E j \in DOMAIN l : l[j] = x[i]
      BY <3>1, <3>2, JoinedElements
    <3>5. \A i \in DOMAIN y : \E j \in DOMAIN l : l[j] = y[i]
      <4>1. x \in Seq(Frames) /\ y \in Seq(Frames)
        BY <3>1, <3>2
      <4>2. \A i \in DOMAIN y : i + Len(x) \in DOMAIN l /\ l[i + Len(x)] = y[i]
        BY <4>1, Joining
      <4> QED BY <4>2
    <3> QED BY <3>3, <3>4, <3>5
  <2> HIDE DEF l
  <2>5. Stacks(l, 1)
    BY <1>1, <2>3, <2>4, Thens
  <2>6. \A i \in DOMAIN l : l[i] \in DeclareCalls(On) /\ l[i].call # "import"
    BY <2>4 DEF NoImport
  <2> HIDE DEF next
  <2>7. \E j \in DOMAIN l : l[j] = CallOn("unresolved", On)
    BY <2>1, <2>4
  <2>8. On.at < Len(source[On.script]) => \E j \in DOMAIN l : l[j] = next
    BY <2>2, <2>4
  <2> QED BY <2>4, <2>5, <2>6, <2>7, <2>8 DEF next
<1>5. CASE /\ Then(<<CallOn("import", source[On.script][On.at].modules)>> \o From(On))
           /\ Is(On) = "import"
  <2> DEFINE x == <<CallOn("import", source[On.script][On.at].modules)>>
             y == From(On)
             l == x \o y
  <2>1. x \in Seq(Frames) /\ \A i \in DOMAIN x : x[i] \in DeclareCalls(On)
    <3>1. On.at # 0
      BY <1>5 DEF Is
    <3>2. source[On.script][On.at].modules \in Seq(Modules)
      BY <1>1, <3>1, TaskFields
    <3>3. CallOn("import", source[On.script][On.at].modules) \in Frames
      BY <3>2, FrameKinds
    <3> QED BY <3>3 DEF DeclareCalls
  <2>2. /\ y \in Seq(Frames)
        /\ On.at < Len(source[On.script]) => 1 \in DOMAIN y
        /\ \A i \in DOMAIN y : y[i] = next /\ y[i] \in DeclareCalls(On)
    BY <1>2 DEF DeclareCalls
  <2>3. Then(l)
    BY <1>5
  <2> HIDE DEF x, y
  <2>4. /\ l \in Seq(Frames) /\ \A i \in DOMAIN l : l[i] \in DeclareCalls(On)
        /\ \A i \in DOMAIN y : \E j \in DOMAIN l : l[j] = y[i]
    BY <2>1, <2>2, JoinedElements
  <2> HIDE DEF l
  <2>5. Stacks(l, 1)
    BY <1>1, <2>3, <2>4, Thens
  <2> HIDE DEF next
  <2>6. On.at < Len(source[On.script]) => \E j \in DOMAIN l : l[j] = next
    BY <2>2, <2>4
  <2> QED BY <1>5, <2>4, <2>5, <2>6 DEF next
<1>6. QED
  BY <1>1, <1>3, <1>4, <1>5 DEF Declare, Functions, Throw

LEMMA ImportStep ==
  ASSUME TypeOK, Import
  PROVE  \E l \in Seq(Frames) :
           /\ Stacks(l, 1)
           /\ \A i \in DOMAIN l :
                \/ /\ i = 1 /\ On # <<>> /\ l[i] = CallOn("load", Head(On)) /\ Head(On) \notin loaded
                \/ On # <<>> /\ l[i] = CallOn("import", Tail(On))
<1>1. todo # <<>> /\ todo \in Seq(Frames) /\ On \in Seq(Modules)
  BY OnType DEF Import, Doing, TypeOK
<1>2. CASE On = <<>>
  <2>1. Then(<<>>) /\ <<>> \in Seq(Frames)
    BY <1>2 DEF Import
  <2>2. Stacks(<<>>, 1)
    BY <1>1, <2>1, Thens
  <2>3. DOMAIN <<>> = {}
    OBVIOUS
  <2> QED BY <2>1, <2>2, <2>3
<1>3. CASE On # <<>>
  <2> DEFINE a == CallOn("load", Head(On))
             b == CallOn("import", Tail(On))
  <2>1. a \in Frames /\ b \in Frames
    <3>1. Head(On) \in Modules /\ Tail(On) \in Seq(Modules)
      BY <1>1, <1>3
    <3> QED BY <3>1, FrameKinds
  <2>2. CASE Wanted(Head(On))
    <3>1. Then(<<a>> \o <<b>>)
      BY <1>3, <2>2 DEF Import
    <3> HIDE DEF a, b
    <3>2. <<a>> \o <<b>> = <<a, b>> /\ <<a, b>> \in Seq(Frames)
      BY <2>1, Pairing
    <3>3. Stacks(<<a, b>>, 1)
      BY <1>1, <3>1, <3>2, Thens
    <3>4. \A i \in DOMAIN <<a, b>> : (i = 1 /\ <<a, b>>[i] = a) \/ <<a, b>>[i] = b
      OBVIOUS
    <3> QED BY <3>2, <3>3, <3>4, <1>3, <2>2 DEF a, b, Wanted
  <2>3. CASE ~Wanted(Head(On))
    <3>1. Then(<<>> \o <<b>>)
      BY <1>3, <2>3 DEF Import
    <3> HIDE DEF b
    <3>2. <<>> \o <<b>> = <<b>> /\ <<b>> \in Seq(Frames)
      BY <2>1, Pairing
    <3>3. Stacks(<<b>>, 1)
      BY <1>1, <3>1, <3>2, Thens
    <3>4. \A i \in DOMAIN <<b>> : <<b>>[i] = b
      OBVIOUS
    <3> QED BY <3>2, <3>3, <3>4, <1>3 DEF b
  <2> QED BY <2>2, <2>3
<1>4. QED BY <1>2, <1>3
LEMMA ClearStep ==
  ASSUME TypeOK, Clear
  PROVE  \E l \in Seq(Frames) :
           /\ Stacks(l, 1)
           /\ \/ On = <<>> /\ l = <<>>
              \/ On # <<>> /\ l = <<CallOn("destroyScript", Head(On)), CallOn("clear", Tail(On))>>
<1>1. todo # <<>> /\ todo \in Seq(Frames) /\ On \in Seq(Modules)
  BY OnType DEF Clear, Doing, TypeOK
<1>2. CASE On = <<>>
  <2>1. Then(<<>>) /\ <<>> \in Seq(Frames)
    BY <1>2 DEF Clear
  <2>2. Stacks(<<>>, 1)
    BY <1>1, <2>1, Thens
  <2> QED BY <1>2, <2>1, <2>2
<1>3. CASE On # <<>>
  <2> DEFINE l == <<CallOn("destroyScript", Head(On)), CallOn("clear", Tail(On))>>
  <2>1. l \in Seq(Frames)
    <3>1. Head(On) \in Modules /\ Tail(On) \in Seq(Modules)
      BY <1>1, <1>3
    <3>2. CallOn("destroyScript", Head(On)) \in Frames /\ CallOn("clear", Tail(On)) \in Frames
      BY <3>1, FrameKinds
    <3> QED BY <3>2
  <2>2. Then(l)
    BY <1>3 DEF Clear
  <2> HIDE DEF l
  <2>3. Stacks(l, 1)
    BY <1>1, <2>1, <2>2, Thens
  <2> QED BY <1>3, <2>1, <2>3 DEF l
<1>4. QED BY <1>2, <1>3

LEMMA LoadStep ==
  ASSUME TypeOK, Load
  PROVE  \E l \in Seq(Frames) :
           /\ Stacks(l, 1)
           /\ \/ /\ Active
                 /\ l = <<CallOn("add", On), Call("added"), CallOn("endAdd", On), CallOn("loaded", On)>>
              \/ ~Active /\ l = <<CallOn("compile", On), CallOn("runModule", On), CallOn("loaded", On)>>
<1>1. todo # <<>> /\ todo \in Seq(Frames) /\ On \in Modules /\ On \in Scripts
  BY OnType, Modular DEF Load, Doing, TypeOK
<1>2. CASE Active
  <2> DEFINE l == <<CallOn("add", On), Call("added"), CallOn("endAdd", On), CallOn("loaded", On)>>
  <2>1. l \in Seq(Frames)
    BY <1>1, FrameKinds
  <2>2. Then(l)
    BY <1>2 DEF Load
  <2> HIDE DEF l
  <2>3. Stacks(l, 1)
    BY <1>1, <2>1, <2>2, Thens
  <2> QED BY <1>2, <2>1, <2>3 DEF l
<1>3. CASE ~Active
  <2> DEFINE l == <<CallOn("compile", On), CallOn("runModule", On), CallOn("loaded", On)>>
  <2>1. l \in Seq(Frames)
    BY <1>1, FrameKinds
  <2>2. Then(l)
    BY <1>3 DEF Load
  <2> HIDE DEF l
  <2>3. Stacks(l, 1)
    BY <1>1, <2>1, <2>2, Thens
  <2> QED BY <1>3, <2>1, <2>3 DEF l
<1>4. QED BY <1>2, <1>3

LEMMA ReprocessStep ==
  ASSUME TypeOK, Reprocess
  PROVE  \/ /\ incomplete # <<>> /\ UNCHANGED todo /\ tasks' = Append(tasks, Head(incomplete))
            /\ incomplete' = Tail(incomplete) /\ UNCHANGED reprocessing
         \/ /\ incomplete # <<>> /\ UNCHANGED tasks /\ incomplete' = Tail(incomplete)
            /\ UNCHANGED reprocessing
            /\ \E l \in Seq(Frames) :
                 /\ Stacks(l, 0)
                 /\ \A i \in DOMAIN l :
                      l[i] \in {CallOn("clear", generated), CallOn("unresolved", Head(incomplete))}
                 /\ \E i \in DOMAIN l : l[i] = CallOn("unresolved", Head(incomplete))
         \/ /\ incomplete = <<>> /\ UNCHANGED <<incomplete, tasks>> /\ Stacks(<<>>, 1)
            /\ reprocessing' = FALSE
<1>1. todo # <<>> /\ todo \in Seq(Frames)
  BY DEF Reprocess, Doing, TypeOK
<1>2. CASE incomplete # <<>> /\ Is(Head(incomplete)) # "late"
  <2> DEFINE t == Head(incomplete)
             l == Resolve(t)
  <2>1. t \in Tasks
    BY <1>2 DEF TypeOK
  <2>2. /\ l \in Seq(Frames) /\ Len(l) \in DOMAIN l /\ l[Len(l)] = CallOn("unresolved", t)
        /\ \A i \in DOMAIN l : l[i] \in {CallOn("clear", generated), CallOn("unresolved", t)}
    BY <2>1, ResolveSeq
  <2>3. todo' = l \o todo /\ incomplete' = Tail(incomplete) /\ UNCHANGED <<tasks, reprocessing>>
    BY <1>2 DEF Reprocess
  <2> HIDE DEF l
  <2>4. Stacks(l, 0)
    BY <1>1, <2>2, <2>3, Adds
  <2> QED BY <1>2, <2>2, <2>3, <2>4
<1>3. CASE incomplete = <<>>
  <2>1. Then(<<>>) /\ <<>> \in Seq(Frames) /\ reprocessing' = FALSE /\ UNCHANGED <<incomplete, tasks>>
    BY <1>3 DEF Reprocess
  <2>2. Stacks(<<>>, 1)
    BY <1>1, <2>1, Thens
  <2> QED BY <1>3, <2>1, <2>2
<1>4. CASE incomplete # <<>> /\ Is(Head(incomplete)) = "late"
  BY <1>4 DEF Reprocess
<1>5. QED BY <1>2, <1>3, <1>4

LEMMA CompileFunctionStep ==
  ASSUME TypeOK, CompileFunction
  PROVE  LET t == Head(tasks) IN
         /\ tasks # <<>> /\ tasks' = Tail(tasks) /\ t \in Tasks
         /\ \/ /\ done' = done \cup {t} /\ UNCHANGED thrown
               /\ \E l \in Seq(Frames) : Stacks(l, 0) /\ \A i \in DOMAIN l : l[i].call = "import"
            \/ Throw("CompilationFailure") /\ UNCHANGED done
            \/ /\ Stacks(<<CallOn("clear", generated), Call("failTemplate")>>, 1)
               /\ <<CallOn("clear", generated), Call("failTemplate")>> \in Seq(Frames)
               /\ UNCHANGED <<done, thrown>>
<1> DEFINE t == Head(tasks)
<1>1. todo # <<>> /\ todo \in Seq(Frames) /\ tasks # <<>> /\ tasks' = Tail(tasks) /\ t \in Tasks
  BY DEF CompileFunction, Doing, TypeOK
<1>2. CASE /\ done' = done \cup {t} /\ UNCHANGED thrown
           /\ todo' = [n \in DOMAIN Imports(t) |-> CallOn("import", Imports(t)[n])] \o todo
  <2> DEFINE l == [n \in DOMAIN Imports(t) |-> CallOn("import", Imports(t)[n])]
  <2>1. l \in Seq(Frames) /\ \A i \in DOMAIN l : l[i].call = "import"
    BY <1>1, ImportsSeq
  <2>2. todo' = l \o todo
    BY <1>2
  <2> HIDE DEF l
  <2>3. Stacks(l, 0)
    BY <1>1, <2>1, <2>2, Adds
  <2> QED BY <1>1, <1>2, <2>1, <2>3
<1>3. CASE Throw("CompilationFailure") /\ UNCHANGED done
  BY <1>1, <1>3
<1>4. CASE /\ Then(<<CallOn("clear", generated), Call("failTemplate")>>)
           /\ UNCHANGED <<done, thrown>>
  <2> DEFINE l == <<CallOn("clear", generated), Call("failTemplate")>>
  <2>1. l \in Seq(Frames)
    BY FrameKinds DEF TypeOK
  <2>2. Then(l)
    BY <1>4
  <2> HIDE DEF l
  <2>3. Stacks(l, 1)
    BY <1>1, <2>1, <2>2, Thens
  <2> QED BY <1>1, <1>4, <2>1, <2>3 DEF l
<1>5. QED
  BY <1>1, <1>2, <1>3, <1>4 DEF CompileFunction

\* The other steps replace the innermost call by a list that is written out.
LEMMA ListStep ==
  ASSUME TypeOK, todo # <<>>, NEW l \in Seq(Frames), Then(l)
  PROVE  Stacks(l, 1)
BY Thens DEF TypeOK

-----------------------------------------------------------------------------
(* The types *)

Outcome ==
  thrown \in {"none"} \cup Exceptions /\ result \in {"none", "compiled", "failed"} \cup Exceptions

LEMMA OutcomeInv ==
  ASSUME TypeOK, [Next]_vars
  PROVE  Outcome'
<1> USE DEF Outcome, Exceptions
<1>1. Outcome
  BY DEF TypeOK
<1>2. ASSUME NEW x \in Scripts, NewScript(x) \/ Compile(x) PROVE Outcome'
  BY <1>1, <1>2 DEF NewScript, Compile, history
<1>3. ASSUME NEW m \in Modules, LoadModule(m) PROVE Outcome'
  BY <1>1, <1>3 DEF LoadModule
<1>4. CASE StartSession \/ EndCompile \/ Clear \/ DestroyScript \/ DestroyNamespace
  BY <1>1, <1>4 DEF StartSession, EndCompile, Clear, DestroyScript, DestroyNamespace, history
<1>5. CASE Add \/ Declare \/ Unresolved \/ Import \/ Load \/ Added \/ EndAdd \/ Loaded \/ RunModule
  BY <1>1, <1>5 DEF Add, Declare, Unresolved, Import, Load, Added, EndAdd, Loaded, RunModule, Throw, history
<1>6. CASE Finalize \/ ProcessAll \/ Reprocess \/ CompileFunction \/ FailTemplate \/ EndFunctions \/ Run
  BY <1>1, <1>6
     DEF Finalize, ProcessAll, Reprocess, CompileFunction, FailTemplate, EndFunctions, Run, Throw, history
<1>7. CASE Handle \/ Leave \/ Escape \/ UNCHANGED vars
  BY <1>1, <1>7 DEF Handle, Leave, Escape, vars, history
<1>8. QED
  BY <1>2, <1>3, <1>4, <1>5, <1>6, <1>7 DEF Next, Step

LEMMA TypeInv ==
  ASSUME TypeOK, [Next]_vars
  PROVE  TypeOK'
<1>s. source' = source /\ Tasks' = Tasks /\ Frames' = Frames
  BY SourceSame DEF Tasks, Frames
<1>o. /\ thrown' \in {"none"} \cup Exceptions
      /\ result' \in {"none", "compiled", "failed"} \cup Exceptions
  BY OutcomeInv DEF Outcome
<1>t. \A l, d : Stacks(l, d) => todo' \in Seq(Frames)
  BY DEF Stacks
<1>u. \A l \in Seq(Frames) : todo # <<>> /\ Then(l) => todo' \in Seq(Frames)
  BY <1>t, ListStep
<1>v. \A S, x, e : x \in Seq(S) /\ e \in S => Append(x, e) \in Seq(S)
  BY AppendProperties
<1>e. <<>> \in Seq(Frames)
  OBVIOUS
<1>p. \A what : todo # <<>> /\ Throw(what) => todo' \in Seq(Frames)
  BY DEF Throw, TypeOK
<1>q. todo # <<>> /\ Then(<<>>) => todo' \in Seq(Frames)
  BY <1>e, <1>u
<1>1. ASSUME NEW x \in Scripts, NewScript(x) PROVE TypeOK'
  <2>1. scripts' \in Seq(Scripts \cup {Null}) /\ id' \in [Scripts -> Nat]
    BY <1>1 DEF NewScript, TypeOK, NextId
  <2> QED BY <1>1, <1>s, <1>o, <2>1 DEF NewScript, TypeOK, session, queues, history
<1>2. ASSUME NEW x \in Scripts, Compile(x) PROVE TypeOK'
  <2>1. todo' \in Seq(Frames)
    BY <1>2, FrameKinds DEF Compile
  <2> QED BY <1>2, <1>s, <1>o, <2>1 DEF Compile, TypeOK, session, queues, engine
<1>3. ASSUME NEW m \in Modules, LoadModule(m) PROVE TypeOK'
  <2>1. todo' \in Seq(Frames)
    BY <1>3, FrameKinds DEF LoadModule
  <2> QED BY <1>3, <1>s, <1>o, <2>1 DEF LoadModule, TypeOK, session, queues, engine
<1>4. CASE StartSession
  <2> DEFINE l == <<CallOn("add", On), Call("finalize"), CallOn("endCompile", On)>>
  <2>1. On \in Scripts /\ todo # <<>> /\ Then(l)
    BY <1>4, OnType DEF StartSession, Doing
  <2>2. l \in Seq(Frames)
    <3>1. CallOn("add", On) \in Frames /\ Call("finalize") \in Frames /\ CallOn("endCompile", On) \in Frames
      BY <2>1, FrameKinds
    <3> QED BY <3>1
  <2> HIDE DEF l
  <2>3. todo' \in Seq(Frames)
    BY <2>1, <2>2, <1>u
  <2>4. /\ state' = "ProcessingDeclarations" /\ top' = On /\ generated' = <<>> /\ error' = FALSE
        /\ done' = {} /\ UNCHANGED <<source, engine, queues, thrown, result, calls, undefined>>
    BY <1>4 DEF StartSession
  <2> HIDE DEF l
  <2>5. top' \in Scripts \cup {Null} /\ error' \in BOOLEAN
    BY <2>1, <2>4
  <2>6. done' \subseteq Tasks /\ generated' \in Seq(Modules)
    BY <2>4
  <2>7. state' \in {"Finished", "ProcessingDeclarations", "CompilingFunctions"}
    BY <2>4
  <2> QED BY <1>s, <1>o, <2>3, <2>4, <2>5, <2>6, <2>7 DEF TypeOK, queues, engine
<1>5. CASE EndCompile
  <2> DEFINE l == <<CallOn("clear", generated), CallOn("destroy", On)>>
  <2>1. On \in Scripts /\ todo # <<>> /\ (Then(l) \/ Then(<<>>))
    BY <1>5, OnType DEF EndCompile, Doing
  <2>2. l \in Seq(Frames)
    BY <2>1, FrameKinds DEF TypeOK
  <2>3. todo' \in Seq(Frames)
    BY <2>1, <2>2, <1>t, <1>q, ListStep
  <2> QED BY <1>5, <1>s, <1>o, <2>3 DEF EndCompile, TypeOK, queues, engine
<1>6. CASE Clear
  BY <1>6, <1>s, <1>o, <1>t, ClearStep DEF Clear, TypeOK, session, queues, engine, history
<1>7. CASE DestroyScript
  <2>1. todo' \in Seq(Frames)
    BY <1>7, <1>q DEF DestroyScript, Doing, TypeOK
  <2>2. scripts' \in Seq(Scripts \cup {Null})
    <3>1. ASSUME scripts' \in Trimmed([scripts EXCEPT ![id[On]] = Null]), id[On] \in DOMAIN scripts
          PROVE  scripts' \in Seq(Scripts \cup {Null})
      <4> DEFINE list == [scripts EXCEPT ![id[On]] = Null]
      <4>0. scripts \in Seq(Scripts \cup {Null}) /\ Null \in Scripts \cup {Null}
        BY DEF TypeOK
      <4>1. list \in Seq(Scripts \cup {Null})
        BY <4>0, <3>1, ExceptSeq
      <4>2. PICK n \in 0 .. Len(list) : scripts' = SubSeq(list, 1, n)
        BY <3>1 DEF Trimmed
      <4> QED BY <4>1, <4>2
    <3>2. QED BY <3>1, <1>7 DEF DestroyScript, TypeOK
  <2>3. destroyed' \subseteq Modules
    BY <1>7, OnType DEF DestroyScript, Doing, TypeOK
  <2> QED BY <1>7, <1>s, <1>o, <2>1, <2>2, <2>3 DEF DestroyScript, TypeOK, session, queues
<1>8. CASE DestroyNamespace
  BY <1>8, <1>s, <1>o, <1>q DEF DestroyNamespace, TypeOK, queues, Doing
<1>9. CASE Add
  <2>1. On \in Scripts /\ todo' \in Seq(Frames)
    <3>1. On \in Scripts
      BY <1>9, OnType DEF Add, Doing
    <3>2. todo' \in Seq(Frames)
      BY <1>9, <1>t, AddStep
    <3> QED BY <3>1, <3>2
  <2>2. Task(On, 0) \in Tasks
    BY <2>1 DEF Task, Tasks, TypeOK
  <2>3. ready' \subseteq Scripts /\ alive' \subseteq Scripts /\ tasks' \in Seq(Tasks) /\ error' \in BOOLEAN
    <3>1. Append(tasks, Task(On, 0)) \in Seq(Tasks)
      BY <1>v, <2>2 DEF TypeOK
    <3> QED BY <1>9, <2>1, <3>1 DEF Add, TypeOK
  <2>4. UNCHANGED <<source, id, scripts, loaded, destroyed, state, top, generated, incomplete,
                    reprocessing, collected, uninitialized, history>>
    BY <1>9 DEF Add
  <2> QED BY <1>s, <1>o, <2>1, <2>3, <2>4 DEF TypeOK, history
<1>10. CASE Declare
  <2>1. On \in Tasks
    BY <1>10, OnType DEF Declare, Doing
  <2>2. todo' \in Seq(Frames)
    <3>1. CASE thrown' = "none"
      BY <1>10, <3>1, <1>t, DeclareStep
    <3>2. CASE thrown' # "none"
      BY <1>10, <3>2, <1>p DEF Declare, Doing
    <3> QED BY <3>1, <3>2
  <2>3. tasks' \in Seq(Tasks) /\ incomplete' \in Seq(Tasks) /\ collected' \in Seq(Tasks)
    <3>1. tasks \in Seq(Tasks) /\ incomplete \in Seq(Tasks) /\ collected \in Seq(Tasks)
      BY DEF TypeOK
    <3>2. /\ tasks' = Append(tasks, On) \/ tasks' = tasks
          /\ collected' = Append(collected, On) \/ collected' = collected
          /\ incomplete' = incomplete
      BY <1>10 DEF Declare
    <3>3. Append(tasks, On) \in Seq(Tasks) /\ Append(collected, On) \in Seq(Tasks)
      BY <2>1, <3>1
    <3> QED BY <3>1, <3>2, <3>3
  <2>4. UNCHANGED <<source, engine, session, reprocessing, uninitialized, history>>
    BY <1>10 DEF Declare
  <2> QED BY <1>s, <1>o, <2>2, <2>3, <2>4 DEF TypeOK, session, engine, history
<1>11. CASE Unresolved
  <2>1. On \in Tasks
    BY <1>11, OnType DEF Unresolved, Doing
  <2>2. todo' \in Seq(Frames)
    <3>1. todo # <<>> /\ (Then(<<>>) \/ Throw("CompilationFailure"))
      BY <1>11 DEF Unresolved, Doing
    <3> QED BY <3>1, <1>p, <1>q
  <2>3. incomplete' \in Seq(Tasks)
    BY <1>11, <1>v, <2>1 DEF Unresolved, TypeOK
  <2>4. UNCHANGED <<source, engine, session, reprocessing, collected, tasks, uninitialized, history>>
    BY <1>11 DEF Unresolved
  <2> QED BY <1>s, <1>o, <2>2, <2>3, <2>4 DEF TypeOK, session, engine, history
<1>12. CASE Import
  BY <1>12, <1>s, <1>o, <1>t, ImportStep DEF Import, TypeOK, session, queues, engine, history
<1>13. CASE Load
  <2>1. On \in Modules /\ todo' \in Seq(Frames)
    <3>1. On \in Modules
      BY <1>13, OnType DEF Load, Doing
    <3>2. todo' \in Seq(Frames)
      BY <1>13, <1>t, LoadStep
    <3> QED BY <3>1, <3>2
  <2>2. generated' \in Seq(Modules)
    <3>1. generated \in Seq(Modules)
      BY DEF TypeOK
    <3>2. generated' = Append(generated, On) \/ generated' = generated
      BY <1>13 DEF Load
    <3> QED BY <1>v, <2>1, <3>1, <3>2
  <2>3. UNCHANGED <<source, engine, state, top, error, queues, history>>
    BY <1>13 DEF Load
  <2> QED BY <1>s, <1>o, <2>1, <2>2, <2>3 DEF TypeOK, queues, engine, history
<1>14. CASE Added
  <2>1. <<Call("processAll")>> \in Seq(Frames)
    BY FrameKinds
  <2>2. todo' \in Seq(Frames)
    BY <1>14, <2>1, <1>q, <1>u DEF Added, Doing
  <2> QED BY <1>14, <1>s, <1>o, <2>2 DEF Added, TypeOK, session, queues, engine, history
<1>15. CASE EndAdd
  BY <1>15, <1>s, <1>o, <1>q DEF EndAdd, Doing, TypeOK, session, queues, engine, history
<1>16. CASE Loaded
  <2>1. On \in Modules
    BY <1>16, OnType DEF Loaded, Doing
  <2> QED BY <1>16, <1>s, <1>o, <1>q, <2>1 DEF Loaded, Doing, TypeOK, session, queues, history
<1>17. CASE RunModule
  BY <1>17, <1>s, <1>o, <1>p, <1>q DEF RunModule, Doing, TypeOK, session, queues, engine, history
<1>18. CASE Finalize
  <2>1. <<Call("processAll"), Call("compileFunctions")>> \in Seq(Frames)
    BY FrameKinds
  <2>2. todo' \in Seq(Frames)
    BY <1>18, <2>1, <1>u DEF Finalize, Doing
  <2> QED BY <1>18, <1>s, <1>o, <2>2 DEF Finalize, TypeOK, queues, engine, history
<1>19. CASE ProcessAll
  <2>1. <<Call("reprocess"), Call("processAll")>> \in Seq(Frames)
    BY FrameKinds
  <2>2. todo' \in Seq(Frames)
    <3>1. todo # <<>> /\ todo \in Seq(Frames)
      BY <1>19 DEF ProcessAll, Doing, TypeOK
    <3>2. \/ Then(<<>>) \/ Throw("CompilationFailure") \/ UNCHANGED todo
          \/ Then(<<Call("reprocess"), Call("processAll")>>)
      BY <1>19 DEF ProcessAll
    <3> QED BY <3>1, <3>2, <2>1, <1>p, <1>q, <1>u
  <2>3. collected' \in Seq(Tasks) /\ uninitialized' \in Seq(Tasks)
    <3>1. collected # <<>> => Head(collected) \in Tasks /\ Tail(collected) \in Seq(Tasks)
      BY DEF TypeOK
    <3> QED BY <1>19, <1>v, <3>1 DEF ProcessAll, TypeOK
  <2>4. UNCHANGED <<source, engine, session, incomplete, tasks, history>> /\ reprocessing' \in BOOLEAN
    BY <1>19 DEF ProcessAll, TypeOK
  <2> QED BY <1>s, <1>o, <2>2, <2>3, <2>4 DEF TypeOK, session, engine, history
<1>20. CASE Reprocess
  <2>1. todo' \in Seq(Frames)
    BY <1>20, <1>t, ReprocessStep DEF TypeOK
  <2>2. incomplete' \in Seq(Tasks) /\ tasks' \in Seq(Tasks) /\ reprocessing' \in BOOLEAN
    <3>1. incomplete \in Seq(Tasks) /\ tasks \in Seq(Tasks) /\ reprocessing \in BOOLEAN
      BY DEF TypeOK
    <3>2. incomplete # <<>> => Head(incomplete) \in Tasks /\ Tail(incomplete) \in Seq(Tasks)
      BY <3>1
    <3> QED BY <1>20, <1>v, <3>1, <3>2, ReprocessStep
  <2>3. UNCHANGED <<source, engine, session, collected, uninitialized, history>>
    BY <1>20 DEF Reprocess
  <2> QED BY <1>s, <1>o, <2>1, <2>2, <2>3 DEF TypeOK, session, engine, history
<1>21. CASE CompileFunction
  <2>1. todo # <<>>
    BY <1>21 DEF CompileFunction, Doing
  <2>2. todo' \in Seq(Frames) /\ tasks' \in Seq(Tasks) /\ done' \subseteq Tasks
    <3>1. tasks \in Seq(Tasks) /\ done \subseteq Tasks
      BY DEF TypeOK
    <3> QED BY <1>21, <2>1, <3>1, <1>t, <1>p, CompileFunctionStep, SMTT(60)
  <2> QED BY <1>21, <1>s, <1>o, <2>2 DEF CompileFunction, TypeOK, session, engine
<1>22. CASE FailTemplate
  BY <1>22, <1>s, <1>o, <1>p DEF FailTemplate, Doing, TypeOK, session, queues, engine, history
<1>23. CASE EndFunctions
  <2>1. <<Call("processAll"), Call("compileFunctions")>> \in Seq(Frames)
        /\ <<CallOn("run", generated)>> \in Seq(Frames)
    BY FrameKinds DEF TypeOK
  <2>2. todo' \in Seq(Frames)
    BY <1>23, <2>1, <1>p, <1>u DEF EndFunctions, Doing
  <2>3. ToSet(uninitialized) \subseteq Tasks
    BY DEF ToSet, TypeOK
  <2> QED BY <1>23, <1>s, <1>o, <2>2, <2>3 DEF EndFunctions, TypeOK, engine
<1>24. CASE Run
  <2>1. On \in Seq(Modules) /\ todo # <<>>
    BY <1>24, OnType DEF Run, Doing
  <2>2. On # <<>> => <<CallOn("run", Tail(On))>> \in Seq(Frames)
    <3>1. On # <<>> => Tail(On) \in Seq(Modules)
      BY <2>1
    <3>2. On # <<>> => CallOn("run", Tail(On)) \in Frames
      BY <3>1, FrameKinds
    <3> QED BY <3>2
  <2>3. todo' \in Seq(Frames)
    BY <1>24, <2>1, <2>2, <1>p, <1>q, <1>u DEF Run
  <2> QED BY <1>24, <1>s, <1>o, <2>3 DEF Run, TypeOK, session, queues, engine, history
<1>25. CASE Handle
  BY <1>25, <1>s, <1>o DEF Handle, TypeOK, queues, engine, history
<1>26. CASE Leave
  BY <1>26, <1>s, <1>o DEF Leave, Unwinding, StateAfter, TypeOK, queues, engine, history
<1>27. CASE Escape
  BY <1>27, <1>s, <1>o DEF Escape, TypeOK, session, queues, engine
<1>28. CASE UNCHANGED vars
  BY <1>28, <1>s, <1>o DEF vars, TypeOK, session, queues, engine, history
<1>29. QED
  BY <1>1, <1>2, <1>3, <1>4, <1>5, <1>6, <1>7, <1>8, <1>9, <1>10, <1>11, <1>12, <1>13, <1>14,
     <1>15, <1>16, <1>17, <1>18, <1>19, <1>20, <1>21, <1>22, <1>23, <1>24, <1>25, <1>26, <1>27,
     <1>28 DEF Next, Step

-----------------------------------------------------------------------------
(* The calls in progress stay in order, step by step *)

\* Above the last call of a session, in a session that compiles its functions.
LEMMA FunctionsFrames ==
  ASSUME TypeOK, StackInv, todo # <<>>, Head(todo).call \in {"finalize", "compileFunctions"},
         Then(<<Call("processAll"), Call("compileFunctions")>>)
  PROVE  /\ Len(todo) \in Nat /\ DOMAIN todo = 1 .. Len(todo) /\ DOMAIN todo' = 1 .. Len(todo')
         /\ Head(todo) = todo[1] /\ 1 \in DOMAIN todo /\ Len(todo') = Len(todo) + 1
         /\ \A i \in DOMAIN todo' : i > 2 => todo'[i] = todo[i - 1]
         /\ Len(todo) > 1 /\ todo[2].call = "endCompile"
         /\ \A k \in DOMAIN todo : k > 2 => todo[k].call \in Outer
         /\ todo'[1].call = "processAll" /\ todo'[2].call = "compileFunctions" /\ todo'[3] = todo[2]
         /\ todo'[3].call = "endCompile" /\ 3 \in DOMAIN todo'
         /\ \A i \in DOMAIN todo' : i > 3 => todo'[i].call \in Outer
         /\ \A i \in DOMAIN todo' : i = 1 \/ i = 2 \/ i = 3 \/ i > 3
<1> DEFINE l == <<Call("processAll"), Call("compileFunctions")>>
<1>1. l \in Seq(Frames) /\ Len(l) = 2 /\ l[1].call = "processAll" /\ l[2].call = "compileFunctions"
  BY FrameKinds
<1>2. Then(l)
  OBVIOUS
<1> HIDE DEF l
<1>3. Stacks(l, 1)
  BY <1>1, <1>2, ListStep
<1>4. /\ Len(todo) \in Nat /\ DOMAIN todo = 1 .. Len(todo) /\ DOMAIN todo' = 1 .. Len(todo')
      /\ Head(todo) = todo[1] /\ 1 \in DOMAIN todo /\ Len(todo') = Len(todo) + 1
      /\ \A i \in DOMAIN todo' : todo'[i] = IF i <= 2 THEN l[i] ELSE todo[i - 1]
  BY <1>1, <1>3, SMTT(60) DEF Stacks, TypeOK
<1>5. Len(todo) > 1 /\ todo[2].call = "endCompile"
  <2>1. 1 < Len(todo)
    BY <1>4 DEF StackInv, Linked
  <2>2. 2 \in 2 .. Len(todo)
    BY <2>1, <1>4
  <2> QED BY <2>1, <2>2, <1>4 DEF StackInv, Linked, Follows
<1>6. \A k \in DOMAIN todo : k > 2 => todo[k].call \in Outer
  BY <1>4, <1>5 DEF StackInv, Nested, Session
<1>7. /\ todo'[1].call = "processAll" /\ todo'[2].call = "compileFunctions" /\ todo'[3] = todo[2]
      /\ todo'[3].call = "endCompile" /\ 3 \in DOMAIN todo'
      /\ \A i \in DOMAIN todo' : i > 3 => todo'[i].call \in Outer
      /\ \A i \in DOMAIN todo' : i = 1 \/ i = 2 \/ i = 3 \/ i > 3
  BY <1>1, <1>4, <1>5, <1>6, SMTT(60)
<1>8. \A i \in DOMAIN todo' : i > 2 => todo'[i] = todo[i - 1]
  BY <1>4
<1>9. QED BY <1>4, <1>5, <1>6, <1>7, <1>8

LEMMA FunctionsStack ==
  ASSUME TypeOK, StackInv, todo # <<>>, thrown = "none", UNCHANGED <<thrown, top>>,
         Head(todo).call \in {"finalize", "compileFunctions"}, state' = "CompilingFunctions",
         Then(<<Call("processAll"), Call("compileFunctions")>>)
  PROVE  StackInv'
<1>4. /\ Len(todo) \in Nat /\ DOMAIN todo = 1 .. Len(todo) /\ DOMAIN todo' = 1 .. Len(todo')
      /\ Head(todo) = todo[1] /\ 1 \in DOMAIN todo /\ Len(todo') = Len(todo) + 1
      /\ \A i \in DOMAIN todo' : i > 2 => todo'[i] = todo[i - 1]
  BY FunctionsFrames
<1>5. /\ Len(todo) > 1 /\ todo[2].call = "endCompile"
      /\ \A k \in DOMAIN todo : k > 2 => todo[k].call \in Outer
  BY FunctionsFrames
<1>7. /\ todo'[1].call = "processAll" /\ todo'[2].call = "compileFunctions" /\ todo'[3] = todo[2]
      /\ todo'[3].call = "endCompile" /\ 3 \in DOMAIN todo'
      /\ \A i \in DOMAIN todo' : i > 3 => todo'[i].call \in Outer
      /\ \A i \in DOMAIN todo' : i = 1 \/ i = 2 \/ i = 3 \/ i > 3
  BY FunctionsFrames
<1>8. Nested'
  BY <1>4, <1>7 DEF Nested, Session, Outer, Inner, Active
<1>9. Linked'
  <2>1. ASSUME NEW i \in 2 .. Len(todo') PROVE Follows(todo'[i - 1], todo'[i])
    <3>1. CASE i = 2 \/ i = 3
      BY <3>1, <1>7 DEF Follows
    <3>2. CASE i > 3
      <4>1. i - 1 \in 2 .. Len(todo) /\ todo'[i] = todo[i - 1] /\ todo'[i - 1] = todo[(i - 1) - 1]
        <5>1. i - 1 \in DOMAIN todo' /\ i \in DOMAIN todo' /\ i - 1 > 2 /\ i > 2
          BY <3>2, <1>4
        <5> QED BY <5>1, <1>4
      <4> QED BY <4>1 DEF StackInv, Linked
    <3> QED BY <3>1, <3>2
  <2>2. ASSUME NEW i \in DOMAIN todo', todo'[i].call \in {"finalize", "compileFunctions"}
        PROVE  i < Len(todo')
    BY <2>2, <1>4, <1>5, <1>7 DEF Outer
  <2> QED BY <2>1, <2>2 DEF Linked, Follows
<1>10. Based' /\ Attended'
  BY <1>7 DEF Based, Attended, Session, Outer
<1>11. Topmost'
  <2>1. todo[2].on = top
    BY <1>4, <1>5 DEF StackInv, Topmost, Session
  <2> QED BY <2>1, <1>7 DEF Topmost, Session, Outer
<1>12. Raised' /\ Staged'
  BY DEF Raised, Staged
<1>13. QED BY <1>8, <1>9, <1>10, <1>11, <1>12 DEF StackInv

\* The session is over when its scripts run.
LEMMA RunFrames ==
  ASSUME TypeOK, StackInv, todo # <<>>, Head(todo).call = "compileFunctions",
         Then(<<CallOn("run", generated)>>)
  PROVE  /\ Len(todo) \in Nat /\ DOMAIN todo = 1 .. Len(todo) /\ DOMAIN todo' = 1 .. Len(todo')
         /\ Head(todo) = todo[1] /\ 1 \in DOMAIN todo /\ Len(todo') = Len(todo)
         /\ todo'[1].call = "run" /\ \A i \in DOMAIN todo' : i > 1 => todo'[i] = todo[i]
         /\ Len(todo) > 1 /\ todo[2].call = "endCompile"
         /\ todo'[2] = todo[2] /\ 2 \in DOMAIN todo'
         /\ \A i \in DOMAIN todo' : i > 2 => todo'[i].call \in Outer
         /\ \A i \in DOMAIN todo' : i = 1 \/ i = 2 \/ i > 2
<1> DEFINE l == <<CallOn("run", generated)>>
<1>1. l \in Seq(Frames) /\ Len(l) = 1 /\ l[1].call = "run"
  BY FrameKinds DEF TypeOK, CallOn
<1>2. Then(l)
  OBVIOUS
<1> HIDE DEF l
<1>3. Stacks(l, 1)
  BY <1>1, <1>2, ListStep
<1>4. /\ Len(todo) \in Nat /\ DOMAIN todo = 1 .. Len(todo) /\ DOMAIN todo' = 1 .. Len(todo')
      /\ Head(todo) = todo[1] /\ 1 \in DOMAIN todo /\ Len(todo') = Len(todo)
      /\ todo'[1].call = "run" /\ \A i \in DOMAIN todo' : i > 1 => todo'[i] = todo[i]
  <2>1. /\ Len(todo) \in Nat /\ DOMAIN todo = 1 .. Len(todo) /\ DOMAIN todo' = 1 .. Len(todo')
        /\ Head(todo) = todo[1] /\ 1 \in DOMAIN todo /\ Len(todo') = Len(todo)
        /\ \A i \in DOMAIN todo' : todo'[i] = IF i <= 1 THEN l[i] ELSE todo[i - 1 + 1]
    BY <1>1, <1>3 DEF Stacks, TypeOK
  <2>2. \A i \in DOMAIN todo' : i > 1 => ~(i <= 1) /\ i - 1 + 1 = i
    BY <2>1
  <2> QED BY <2>1, <2>2, <1>1
<1>5. Len(todo) > 1 /\ todo[2].call = "endCompile"
  <2>1. 1 < Len(todo)
    BY <1>4 DEF StackInv, Linked
  <2>2. 2 \in 2 .. Len(todo)
    BY <2>1, <1>4
  <2> QED BY <2>1, <2>2, <1>4 DEF StackInv, Linked, Follows
<1>6. \A k \in DOMAIN todo : k > 2 => todo[k].call \in Outer
  BY <1>4, <1>5 DEF StackInv, Nested, Session
<1>7. /\ todo'[2] = todo[2] /\ 2 \in DOMAIN todo'
      /\ \A i \in DOMAIN todo' : i > 2 => todo'[i].call \in Outer
      /\ \A i \in DOMAIN todo' : i = 1 \/ i = 2 \/ i > 2
  BY <1>4, <1>5, <1>6
<1>8. QED BY <1>4, <1>5, <1>6, <1>7

LEMMA RunStack ==
  ASSUME TypeOK, StackInv, todo # <<>>, thrown = "none", UNCHANGED <<thrown, top>>,
         Head(todo).call = "compileFunctions", state' = "Finished", Then(<<CallOn("run", generated)>>)
  PROVE  StackInv'
<1>4. /\ Len(todo) \in Nat /\ DOMAIN todo = 1 .. Len(todo) /\ DOMAIN todo' = 1 .. Len(todo')
      /\ Head(todo) = todo[1] /\ 1 \in DOMAIN todo /\ Len(todo') = Len(todo)
      /\ todo'[1].call = "run" /\ \A i \in DOMAIN todo' : i > 1 => todo'[i] = todo[i]
  BY RunFrames
<1>5. Len(todo) > 1 /\ todo[2].call = "endCompile"
  BY RunFrames
<1>7. /\ todo'[2] = todo[2] /\ 2 \in DOMAIN todo'
      /\ \A i \in DOMAIN todo' : i > 2 => todo'[i].call \in Outer
      /\ \A i \in DOMAIN todo' : i = 1 \/ i = 2 \/ i > 2
  BY RunFrames
<1>8. Nested'
  BY <1>4, <1>5, <1>7 DEF Nested, Session, Outer, Inner
<1>9. Linked'
  <2>1. ASSUME NEW i \in 2 .. Len(todo') PROVE Follows(todo'[i - 1], todo'[i])
    <3>1. CASE i = 2
      BY <3>1, <1>4, <1>5, <1>7 DEF Follows
    <3>2. CASE i > 2
      <4>1. i \in 2 .. Len(todo) /\ todo'[i] = todo[i] /\ todo'[i - 1] = todo[i - 1]
        <5>1. i - 1 \in DOMAIN todo' /\ i \in DOMAIN todo' /\ i - 1 > 1
          BY <3>2, <1>4
        <5> QED BY <5>1, <1>4
      <4> QED BY <4>1 DEF StackInv, Linked
    <3> QED BY <3>1, <3>2
  <2>2. ASSUME NEW i \in DOMAIN todo', todo'[i].call \in {"finalize", "compileFunctions"}
        PROVE  i < Len(todo')
    BY <2>2, <1>4, <1>5, <1>7 DEF Outer
  <2> QED BY <2>1, <2>2 DEF Linked, Follows
<1>10. Based' /\ Attended'
  BY <1>4, <1>5, <1>7 DEF Based, Attended, Session, Outer
<1>11. Topmost'
  <2>1. todo[2].on = top
    BY <1>4, <1>5 DEF StackInv, Topmost, Session
  <2> QED BY <2>1, <1>4, <1>5, <1>7 DEF Topmost, Session, Outer
<1>12. Raised' /\ Staged'
  BY <1>4, <1>5, <1>7 DEF Raised, Staged, Outer
<1>13. QED BY <1>8, <1>9, <1>10, <1>11, <1>12 DEF StackInv

\* The last call of a session ends, or is left: what remains loads a module.
LEMMA LastStack ==
  ASSUME TypeOK, StackInv, todo # <<>>, Head(todo).call \in Session, state' = "Finished",
         todo' = Tail(todo), UNCHANGED thrown, Handles(Head(todo)) => thrown = "none"
  PROVE  StackInv' /\ \A i \in DOMAIN todo' : todo'[i].call \in Outer
<1>1. /\ Len(todo) \in Nat /\ DOMAIN todo = 1 .. Len(todo) /\ DOMAIN todo' = 1 .. Len(todo')
      /\ Head(todo) = todo[1] /\ 1 \in DOMAIN todo /\ Len(todo') = Len(todo) - 1
      /\ \A i \in DOMAIN todo' : i + 1 \in DOMAIN todo /\ 1 < i + 1 /\ todo'[i] = todo[i + 1]
      /\ todo' # <<>> => 1 \in DOMAIN todo' /\ Head(todo') = todo'[1]
  BY SMTT(60) DEF TypeOK
<1>2. \A i \in DOMAIN todo' : todo'[i].call \in Outer
  BY <1>1 DEF StackInv, Nested
<1>3. Nested' /\ Based' /\ Topmost' /\ Staged'
  BY <1>2 DEF Nested, Based, Topmost, Staged, Outer, Session
<1>4. Linked'
  <2>1. ASSUME NEW i \in 2 .. Len(todo') PROVE Follows(todo'[i - 1], todo'[i])
    <3>1. i + 1 \in 2 .. Len(todo) /\ todo'[i] = todo[i + 1] /\ todo'[i - 1] = todo[(i + 1) - 1]
      BY <1>1
    <3> QED BY <3>1 DEF StackInv, Linked
  <2> QED BY <2>1, <1>2 DEF Linked, Follows, Outer
<1>5. Attended'
  BY DEF Attended, Active
<1>6. Raised'
  <2>1. ASSUME todo' # <<>>, thrown # "none" PROVE thrown # "CompilationFailure"
    <3>1. Head(todo).call # "destroy"
      BY <2>1, <1>1 DEF StackInv, Raised
    <3> QED BY <2>1, <3>1 DEF Handles, Session
  <2> QED BY <2>1, <1>2 DEF Raised, Outer
<1>7. QED BY <1>2, <1>3, <1>4, <1>5, <1>6 DEF StackInv

\* The program loads a module, which begins a session.
LEMMA LoadStack ==
  ASSUME TypeOK, StackInv, Load
  PROVE  StackInv'
<1>0. /\ todo # <<>> /\ Head(todo).call = "load" /\ thrown = "none" /\ todo \in Seq(Frames)
      /\ UNCHANGED <<state, top, thrown>>
  BY DEF Load, Doing, TypeOK
<1>1. PICK l \in Seq(Frames) :
        /\ Stacks(l, 1)
        /\ \/ /\ Active
              /\ l = <<CallOn("add", On), Call("added"), CallOn("endAdd", On), CallOn("loaded", On)>>
           \/ ~Active /\ l = <<CallOn("compile", On), CallOn("runModule", On), CallOn("loaded", On)>>
  BY LoadStep
<1>2. CASE Active
  <2>1. /\ Len(l) = 4 /\ l[1].call = "add" /\ l[2].call = "added" /\ l[3].call = "endAdd"
        /\ l[4].call = "loaded"
    BY <1>1, <1>2 DEF Call, CallOn
  <2>2. DOMAIN l = 1 .. 4 /\ \A i \in 1 .. 4 : i = 1 \/ i = 2 \/ i = 3 \/ i = 4
    BY <2>1
  <2>3. \A i \in DOMAIN l : l[i].call \in Light /\ l[i].call # "load"
    BY <2>1, <2>2 DEF Light
  <2>4. \A i \in 2 .. Len(l) : Follows(l[i - 1], l[i])
    <3> SUFFICES ASSUME NEW i \in 2 .. 4 PROVE Follows(l[i - 1], l[i])
      BY <2>1
    <3>1. CASE i = 2
      BY <3>1, <2>1 DEF Follows
    <3>2. CASE i = 3
      BY <3>2, <2>1 DEF Follows
    <3>3. CASE i = 4
      BY <3>3, <2>1 DEF Follows
    <3> QED BY <3>1, <3>2, <3>3
  <2>5. Head(todo).call \in Inner /\ Head(todo).call \notin Outer \cup Session
    BY <1>0 DEF Inner, Outer, Session
  <2> HIDE DEF Light, Inner, Outer, Session
  <2>6. 1 \in {0, 1}
    OBVIOUS
  <2> QED BY <1>0, <1>1, <1>2, <2>3, <2>4, <2>5, <2>6, LightStack
<1>3. CASE ~Active
  <2>1. /\ Len(todo) \in Nat /\ DOMAIN todo = 1 .. Len(todo) /\ DOMAIN todo' = 1 .. Len(todo')
        /\ Head(todo) = todo[1] /\ 1 \in DOMAIN todo
    BY <1>0, <1>1 DEF Stacks
  <2>2. ASSUME NEW j \in DOMAIN todo, 1 < j, todo[j].call \in Session PROVE FALSE
    BY <2>1, <2>2, <1>0, <1>3 DEF StackInv, Nested, Session, Inner
  <2>3. Len(todo) = 1
    BY <2>1, <2>2, <1>0 DEF StackInv, Based, Outer, Session
  <2>4. /\ Len(todo') = 3 /\ todo'[1].call = "compile" /\ todo'[2].call = "runModule"
        /\ todo'[3].call = "loaded"
    <3>1. /\ Len(l) = 3 /\ l[1].call = "compile" /\ l[2].call = "runModule" /\ l[3].call = "loaded"
      BY <1>1, <1>3 DEF CallOn
    <3>2. /\ Len(todo') = 3
          /\ \A i \in DOMAIN todo' : todo'[i] = IF i <= 3 THEN l[i] ELSE todo[i - 3 + 1]
      BY <1>1, <3>1, <2>3 DEF Stacks
    <3>3. todo'[1] = l[1] /\ todo'[2] = l[2] /\ todo'[3] = l[3]
      BY <2>1, <3>2
    <3> QED BY <3>1, <3>2, <3>3
  <2>5. DOMAIN todo' = 1 .. 3 /\ \A i \in 1 .. 3 : i = 1 \/ i = 2 \/ i = 3
    BY <2>1, <2>4
  <2>6. Nested' /\ Based' /\ Topmost' /\ Attended' /\ Raised' /\ Staged'
    BY <1>0, <1>3, <2>4, <2>5
       DEF Nested, Based, Topmost, Attended, Raised, Staged, Session, Outer, Inner, Active
  <2>7. Linked'
    <3>1. ASSUME NEW i \in 2 .. 3 PROVE Follows(todo'[i - 1], todo'[i])
      <4>1. CASE i = 2
        BY <4>1, <2>4 DEF Follows
      <4>2. CASE i = 3
        BY <4>2, <2>4 DEF Follows
      <4> QED BY <4>1, <4>2
    <3> QED BY <3>1, <2>4, <2>5 DEF Linked, Follows
  <2> QED BY <2>6, <2>7 DEF StackInv
<1>4. QED BY <1>2, <1>3

\* The innermost call ends, or makes calls of the kinds that most steps make.
LEMMA DoingStack ==
  ASSUME TypeOK, StackInv, NEW c, Doing(c), UNCHANGED <<state, top, thrown>>,
         NEW l \in Seq(Frames), NEW d \in {0, 1}, Stacks(l, d),
         c \notin Session \cup {"compile", "load"}, l # <<>> => c \notin Outer \cup {"endAdd"},
         \A i \in DOMAIN l : l[i].call \in Light /\ (l[i].call = "load" => i = 1),
         \A i \in DOMAIN l : l[i].call \notin {"endAdd", "loaded"},
         \A i \in DOMAIN l : l[i].call \in Inner => c \in Inner,
         c \in {"clear", "destroyScript"} =>
           \A i \in DOMAIN l : l[i].call \in {"clear", "destroyScript"}
  PROVE  StackInv'
<1>1. todo # <<>> /\ thrown = "none" /\ Head(todo).call = c
  BY DEF Doing
<1>2. ASSUME NEW i \in 2 .. Len(l) PROVE Follows(l[i - 1], l[i])
  <2>1. i \in DOMAIN l /\ i - 1 \in DOMAIN l
    OBVIOUS
  <2> QED BY <2>1 DEF Follows, Light
<1> HIDE DEF Light, Inner, Outer, Session
<1>3. QED BY <1>1, <1>2, LightStack

\* It ends.
LEMMA EndStack ==
  ASSUME TypeOK, StackInv, NEW c, Doing(c), UNCHANGED <<state, top, thrown>>, Then(<<>>),
         c \notin Session \cup {"compile", "load"}
  PROVE  StackInv'
<1>1. todo # <<>> /\ <<>> \in Seq(Frames) /\ 1 \in {0, 1} /\ DOMAIN <<>> = {}
  BY DEF Doing
<1>2. Stacks(<<>>, 1)
  BY <1>1, ListStep
<1> HIDE DEF Light, Inner, Outer, Session
<1>3. QED BY <1>1, <1>2, DoingStack

\* Nothing is replaced.
LEMMA SameStack ==
  ASSUME StackInv, UNCHANGED <<todo, state, top>>, thrown' = thrown \/ thrown' = "none"
  PROVE  StackInv'
<1>1. Nested' /\ Linked' /\ Based' /\ Topmost' /\ Attended'
  BY DEF StackInv, Nested, Linked, Follows, Based, Topmost, Attended, Active
<1>2. Raised' /\ Staged'
  BY DEF StackInv, Raised, Staged
<1>3. QED BY <1>1, <1>2 DEF StackInv

LEMMA StackStep ==
  ASSUME TypeOK, StackInv, [Next]_vars
  PROVE  StackInv'
<1> USE DEF Call, CallOn
<1>0. 0 \in {0, 1} /\ 1 \in {0, 1} /\ <<>> \in Seq(Frames) /\ DOMAIN <<>> = {}
  OBVIOUS
<1>1. ASSUME NEW s \in Scripts, NewScript(s) PROVE StackInv'
  BY <1>1, SameStack DEF NewScript, session
<1>b. ASSUME NEW f \in Frames, f.call \in {"compile", "load"}, todo' = <<f>>, Idle, UNCHANGED <<session, thrown>>
      PROVE  StackInv'
  <2>1. ~Active
    BY <1>b DEF Idle, StackInv, Attended
  <2>2. Len(todo') = 1 /\ DOMAIN todo' = {1} /\ todo'[1] = f
    BY <1>b
  <2>3. Nested' /\ Linked' /\ Based'
    BY <1>b, <2>2 DEF Nested, Linked, Follows, Based, Session, Outer
  <2>4. Topmost' /\ Attended' /\ Raised' /\ Staged'
    BY <1>b, <2>1, <2>2 DEF session, Idle, Topmost, Attended, Raised, Staged, Active, Session, Outer
  <2> QED BY <2>3, <2>4 DEF StackInv
<1>2. ASSUME NEW s \in Scripts, Compile(s) PROVE StackInv'
  BY <1>2, <1>b, FrameKinds DEF Compile
<1>3. ASSUME NEW m \in Modules, LoadModule(m) PROVE StackInv'
  BY <1>3, <1>b, FrameKinds DEF LoadModule
<1>4. CASE StartSession
  <2> DEFINE l == <<CallOn("add", On), Call("finalize"), CallOn("endCompile", On)>>
  <2>1. On \in Scripts /\ todo # <<>> /\ Then(l)
    BY <1>4, OnType DEF StartSession, Doing
  <2>2. l \in Seq(Frames) /\ Len(l) = 3
    <3>1. CallOn("add", On) \in Frames /\ Call("finalize") \in Frames /\ CallOn("endCompile", On) \in Frames
      BY <2>1, FrameKinds
    <3> QED BY <3>1
  <2>3. \A i \in 1 .. 2 : l[i].call \in {"add", "finalize", "clear"}
    <3>1. \A i \in 1 .. 2 : i = 1 \/ i = 2
      OBVIOUS
    <3>2. l[1].call = "add" /\ l[2].call = "finalize"
      OBVIOUS
    <3> QED BY <3>1, <3>2
  <2>4. \A i \in 2 .. 3 : Follows(l[i - 1], l[i])
    <3>1. \A i \in 2 .. 3 : i = 2 \/ i = 3
      OBVIOUS
    <3>2. l[1].call = "add" /\ l[2].call = "finalize" /\ l[3].call = "endCompile"
      OBVIOUS
    <3>3. Follows(l[1], l[2]) /\ Follows(l[2], l[3])
      BY <3>2 DEF Follows
    <3> HIDE DEF l
    <3>4. ASSUME NEW i \in 2 .. 3 PROVE Follows(l[i - 1], l[i])
      BY <3>1, <3>3
    <3> QED BY <3>4
  <2>5. l[3].call = "endCompile" /\ l[3].on = On
    OBVIOUS
  <2> HIDE DEF l
  <2>6. Stacks(l, 1)
    BY <2>1, <2>2, ListStep
  <2>7. /\ thrown = "none" /\ UNCHANGED thrown /\ Head(todo).call \in Session \cup {"compile"}
        /\ top' = On /\ state' # "Finished"
    BY <1>4 DEF StartSession, Doing
  <2>8. /\ \A i \in 1 .. Len(l) - 1 :
             l[i].call \in {"add", "finalize", "clear"} /\ (l[Len(l)].call = "destroy" => l[i].call = "clear")
        /\ \A i \in 2 .. Len(l) : Follows(l[i - 1], l[i])
        /\ l[Len(l)].call \in Session /\ l[Len(l)].on = top' /\ l # <<>>
        /\ l[Len(l)].call = "endCompile" => state' # "Finished"
    BY <2>2, <2>3, <2>4, <2>5, <2>7 DEF Session
  <2> HIDE DEF Session
  <2> QED BY <2>1, <2>2, <2>6, <2>7, <2>8, BaseStack
<1>5. CASE EndCompile
  <2>1. CASE error
    <3> DEFINE l == <<CallOn("clear", generated), CallOn("destroy", On)>>
    <3>1. On \in Scripts /\ todo # <<>> /\ Then(l)
      BY <1>5, <2>1, OnType DEF EndCompile, Doing
    <3>2. l \in Seq(Frames) /\ Len(l) = 2 /\ l[1].call = "clear" /\ l[2].call = "destroy" /\ l[2].on = On
      BY <3>1, FrameKinds DEF TypeOK
    <3> HIDE DEF l
    <3>3. Stacks(l, 1)
      BY <3>1, <3>2, ListStep
    <3>4. thrown = "none" /\ Head(todo).call = "endCompile" /\ UNCHANGED <<top, thrown>>
      BY <1>5 DEF EndCompile, Doing
    <3>5. top = On
      BY <3>1, <3>4, OnType DEF StackInv, Topmost, Session
    <3>6. \A i \in 1 .. 1 : l[i].call = "clear"
      BY <3>2
    <3>7. \A i \in 2 .. 2 : Follows(l[i - 1], l[i])
      <4>1. Follows(l[1], l[2])
        BY <3>2 DEF Follows
      <4>2. \A i \in 2 .. 2 : i = 2
        OBVIOUS
      <4> QED BY <4>1, <4>2
    <3>8. l # <<>> /\ Head(todo).call \in Session /\ l[2].call \in Session
      BY <3>2, <3>4 DEF Session
    <3>9. /\ \A i \in 1 .. Len(l) - 1 :
               l[i].call \in {"add", "finalize", "clear"}
               /\ (l[Len(l)].call = "destroy" => l[i].call = "clear")
          /\ \A i \in 2 .. Len(l) : Follows(l[i - 1], l[i])
          /\ l[Len(l)].call \in Session /\ l[Len(l)].on = top' /\ l # <<>>
          /\ l[Len(l)].call = "endCompile" => state' # "Finished"
      BY <3>2, <3>4, <3>5, <3>6, <3>7, <3>8
    <3> HIDE DEF Session
    <3> QED BY <3>1, <3>2, <3>3, <3>4, <3>8, <3>9, BaseStack
  <2>2. CASE ~error
    <3>1. /\ todo # <<>> /\ Head(todo).call \in Session /\ state' = "Finished" /\ Then(<<>>)
          /\ UNCHANGED thrown /\ thrown = "none"
      BY <1>5, <2>2 DEF EndCompile, Doing, Session
    <3>2. todo' = Tail(todo)
      BY <3>1 DEF Then, TypeOK
    <3> QED BY <3>1, <3>2, LastStack
  <2> QED BY <2>1, <2>2
<1>6. CASE Clear
  <2>1. PICK l \in Seq(Frames) :
           /\ Stacks(l, 1)
           /\ \/ On = <<>> /\ l = <<>>
              \/ On # <<>> /\ l = <<CallOn("destroyScript", Head(On)), CallOn("clear", Tail(On))>>
    BY <1>6, ClearStep
  <2>2. \A i \in DOMAIN l : l[i].call \in {"clear", "destroyScript"}
    BY <2>1
  <2>3. \A i \in DOMAIN l : l[i].call \in Light \ ({"endAdd", "loaded", "load"} \cup Inner)
    BY <2>2 DEF Light, Inner
  <2>4. Doing("clear") /\ UNCHANGED <<state, top, thrown>>
    BY <1>6 DEF Clear, session
  <2>5. "clear" \notin Session \cup Outer \cup {"endAdd", "compile", "load"}
    BY DEF Session, Outer
  <2> HIDE DEF Light, Inner, Session, Outer
  <2> QED BY <1>0, <2>1, <2>2, <2>3, <2>4, <2>5, DoingStack
<1>7. CASE DestroyScript
  <2>1. CASE UNCHANGED todo
    BY <1>7, <2>1, SameStack DEF DestroyScript, session
  <2>2. CASE Then(<<>>)
    BY <1>7, <2>2, EndStack DEF DestroyScript, session, Session
  <2> QED BY <1>7, <2>1, <2>2 DEF DestroyScript
<1>8. CASE DestroyNamespace
  <2>1. /\ todo # <<>> /\ Head(todo).call \in Session /\ state' = "Finished" /\ Then(<<>>)
        /\ UNCHANGED thrown /\ thrown = "none"
    BY <1>8 DEF DestroyNamespace, Doing, Session
  <2>2. todo' = Tail(todo)
    BY <2>1 DEF Then, TypeOK
  <2> QED BY <2>1, <2>2, LastStack
<1>9. CASE Add
  <2>1. PICK l \in Seq(Frames) : Stacks(l, 1) /\ \A i \in DOMAIN l : l[i].call = "declare"
    BY <1>9, AddStep
  <2>2. Doing("add") /\ UNCHANGED <<state, top, thrown>>
    BY <1>9 DEF Add
  <2>3. /\ \A i \in DOMAIN l : l[i].call \in Light \ {"endAdd", "loaded", "load"}
        /\ "add" \notin Session \cup Outer \cup {"endAdd", "compile", "load"} /\ "add" \in Inner
    BY <2>1 DEF Light, Inner, Session, Outer
  <2> HIDE DEF Light, Inner, Session, Outer
  <2> QED BY <1>0, <2>1, <2>2, <2>3, DoingStack
<1>10. CASE Declare
  <2>a. Doing("declare") /\ UNCHANGED <<state, top>> /\ thrown = "none" /\ todo # <<>>
    BY <1>10 DEF Declare, session, Doing
  <2>1. CASE thrown' = "none"
    <3>1. PICK l \in Seq(Frames) : Stacks(l, 1) /\ \A i \in DOMAIN l : l[i] \in DeclareCalls(On)
      BY <1>10, <2>1, DeclareStep
    <3>2. /\ \A i \in DOMAIN l : l[i].call \in Light \ {"endAdd", "loaded", "load"}
          /\ "declare" \notin Session \cup Outer \cup {"endAdd", "compile", "load"} /\ "declare" \in Inner
      BY <3>1 DEF DeclareCalls, Light, Inner, Session, Outer
    <3> HIDE DEF Light, Inner, Session, Outer
    <3> QED BY <1>0, <2>a, <2>1, <3>1, <3>2, DoingStack
  <2>2. CASE thrown' # "none"
    <3>1. Throw("CompilationFailure")
      BY <1>10, <2>a, <2>2 DEF Declare
    <3> QED BY <2>a, <3>1, ThrowStack DEF Doing, Session
  <2> QED BY <2>1, <2>2
<1>11. CASE Unresolved
  <2>1. CASE Then(<<>>) /\ UNCHANGED thrown
    BY <1>11, <2>1, EndStack DEF Unresolved, session, Session
  <2>2. CASE Throw("CompilationFailure")
    BY <1>11, <2>2, ThrowStack DEF Unresolved, session, Session, Doing
  <2> QED BY <1>11, <2>1, <2>2 DEF Unresolved
<1>12. CASE Import
  <2>1. PICK l \in Seq(Frames) :
           /\ Stacks(l, 1)
           /\ \A i \in DOMAIN l :
                \/ /\ i = 1 /\ On # <<>> /\ l[i] = CallOn("load", Head(On)) /\ Head(On) \notin loaded
                \/ On # <<>> /\ l[i] = CallOn("import", Tail(On))
    BY <1>12, ImportStep
  <2>2. Doing("import") /\ UNCHANGED <<state, top, thrown>>
    BY <1>12 DEF Import, session
  <2>3. /\ \A i \in DOMAIN l : l[i].call \in Light \ {"endAdd", "loaded"} /\ (l[i].call = "load" => i = 1)
        /\ "import" \notin Session \cup Outer \cup {"endAdd", "compile", "load"} /\ "import" \in Inner
    BY <2>1 DEF Light, Inner, Session, Outer
  <2> HIDE DEF Light, Inner, Session, Outer
  <2> QED BY <1>0, <2>1, <2>2, <2>3, DoingStack
<1>13. CASE Load
  BY <1>13, LoadStack
<1>14. CASE Added
  <2> DEFINE l == <<Call("processAll")>>
  <2>1. CASE Then(<<>>)
    BY <1>14, <2>1, EndStack DEF Added, session, Session
  <2>2. CASE Then(l)
    <3>1. l \in Seq(Frames) /\ \A i \in DOMAIN l : l[i].call = "processAll"
      BY FrameKinds
    <3>2. Then(l) /\ Doing("added") /\ UNCHANGED <<state, top, thrown>> /\ todo # <<>>
      BY <1>14, <2>2 DEF Added, session, Doing
    <3> HIDE DEF l
    <3>3. Stacks(l, 1)
      BY <3>1, <3>2, ListStep
    <3>4. /\ \A i \in DOMAIN l : l[i].call \in Light \ {"endAdd", "loaded", "load"}
          /\ "added" \notin Session \cup Outer \cup {"endAdd", "compile", "load"} /\ "added" \in Inner
      BY <3>1 DEF Light, Inner, Session, Outer
    <3> HIDE DEF Light, Inner, Session, Outer
    <3> QED BY <1>0, <3>1, <3>2, <3>3, <3>4, DoingStack
  <2> QED BY <1>14, <2>1, <2>2 DEF Added
<1>15. CASE EndAdd
  BY <1>15, EndStack DEF EndAdd, session, Session
<1>16. CASE Loaded
  BY <1>16, EndStack DEF Loaded, session, Session
<1>17. CASE RunModule
  <2>1. CASE Then(<<>>) /\ UNCHANGED thrown
    BY <1>17, <2>1, EndStack DEF RunModule, session, Session
  <2>2. CASE Throw("ModuleLoadingError")
    BY <1>17, <2>2, ThrowStack DEF RunModule, session, Session, Doing
  <2> QED BY <1>17, <2>1, <2>2 DEF RunModule
<1>18. CASE Finalize
  <2>1. /\ todo # <<>> /\ thrown = "none" /\ UNCHANGED <<thrown, top>> /\ state' = "CompilingFunctions"
        /\ Head(todo).call = "finalize" /\ Then(<<Call("processAll"), Call("compileFunctions")>>)
    BY <1>18 DEF Finalize, Doing
  <2> HIDE DEF Call
  <2> QED BY <2>1, FunctionsStack
<1>19. CASE ProcessAll
  <2> DEFINE l == <<Call("reprocess"), Call("processAll")>>
  <2>a. Doing("processAll") /\ UNCHANGED <<state, top>> /\ thrown = "none" /\ todo # <<>>
    BY <1>19 DEF ProcessAll, session, Doing
  <2>1. CASE Then(<<>>) /\ UNCHANGED thrown
    BY <2>1, <2>a, EndStack DEF Session
  <2>2. CASE Throw("CompilationFailure")
    BY <2>2, <2>a, ThrowStack DEF Session, Doing
  <2>3. CASE UNCHANGED <<todo, thrown>>
    BY <2>3, <2>a, SameStack
  <2>4. CASE Then(l) /\ UNCHANGED thrown
    <3>1. l \in Seq(Frames) /\ \A i \in DOMAIN l : l[i].call \in {"reprocess", "processAll"}
      BY FrameKinds
    <3>2. Then(l)
      BY <2>4
    <3> HIDE DEF l
    <3>3. Stacks(l, 1)
      BY <2>a, <3>1, <3>2, ListStep
    <3>4. /\ \A i \in DOMAIN l : l[i].call \in Light \ {"endAdd", "loaded", "load"}
          /\ "processAll" \notin Session \cup Outer \cup {"endAdd", "compile", "load"}
          /\ "processAll" \in Inner
      BY <3>1 DEF Light, Inner, Session, Outer
    <3> HIDE DEF Light, Inner, Session, Outer
    <3> QED BY <1>0, <2>a, <2>4, <3>1, <3>3, <3>4, DoingStack
  <2>5. \/ Then(<<>>) /\ UNCHANGED thrown
        \/ Throw("CompilationFailure")
        \/ UNCHANGED <<todo, thrown>>
        \/ Then(l) /\ UNCHANGED thrown
    BY <1>19 DEF ProcessAll
  <2> QED BY <2>1, <2>2, <2>3, <2>4, <2>5
<1>20. CASE Reprocess
  <2>a. Doing("reprocess") /\ UNCHANGED <<state, top, thrown>> /\ todo # <<>>
    BY <1>20 DEF Reprocess, session, Doing
  <2>1. CASE UNCHANGED todo
    BY <2>a, <2>1, SameStack
  <2>2. ASSUME NEW l \in Seq(Frames), Stacks(l, 0),
               \A i \in DOMAIN l :
                 l[i] \in {CallOn("clear", generated), CallOn("unresolved", Head(incomplete))}
        PROVE  StackInv'
    <3>1. /\ \A i \in DOMAIN l : l[i].call \in Light \ {"endAdd", "loaded", "load"}
          /\ "reprocess" \notin Session \cup Outer \cup {"endAdd", "compile", "load", "clear", "destroyScript"}
          /\ "reprocess" \in Inner
      BY <2>2 DEF Light, Inner, Session, Outer
    <3> HIDE DEF Light, Inner, Session, Outer
    <3> QED BY <1>0, <2>a, <2>2, <3>1, DoingStack
  <2>3. CASE Stacks(<<>>, 1)
    <3>1. "reprocess" \notin Session \cup {"compile", "load"}
      BY DEF Session
    <3> HIDE DEF Light, Inner, Session, Outer
    <3> QED BY <1>0, <2>a, <2>3, <3>1, DoingStack
  <2> QED BY <1>20, <2>1, <2>2, <2>3, ReprocessStep
<1>21. CASE CompileFunction
  <2>a. Doing("compileFunctions") /\ UNCHANGED <<state, top>> /\ todo # <<>> /\ thrown = "none"
    BY <1>21 DEF CompileFunction, session, Doing
  <2>b. /\ "compileFunctions" \notin Session \cup Outer \cup {"endAdd", "compile", "load"}
        /\ "compileFunctions" \in Inner
    BY DEF Light, Inner, Session, Outer
  <2>1. ASSUME NEW l \in Seq(Frames), Stacks(l, 0), \A i \in DOMAIN l : l[i].call = "import",
               UNCHANGED thrown
        PROVE  StackInv'
    <3>1. /\ \A i \in DOMAIN l : l[i].call \in Light \ {"endAdd", "loaded", "load"}
      BY <2>1 DEF Light
    <3> HIDE DEF Light, Inner, Session, Outer
    <3> QED BY <1>0, <2>a, <2>b, <2>1, <3>1, DoingStack
  <2>2. CASE Throw("CompilationFailure")
    BY <2>2, <2>a, ThrowStack DEF Session, Doing
  <2>3. CASE /\ Stacks(<<CallOn("clear", generated), Call("failTemplate")>>, 1)
             /\ <<CallOn("clear", generated), Call("failTemplate")>> \in Seq(Frames)
             /\ UNCHANGED thrown
    <3> DEFINE l == <<CallOn("clear", generated), Call("failTemplate")>>
    <3>1. \A i \in DOMAIN l : l[i].call \in {"clear", "failTemplate"}
      OBVIOUS
    <3>2. l \in Seq(Frames) /\ Stacks(l, 1) /\ UNCHANGED thrown
      BY <2>3
    <3> HIDE DEF l
    <3>3. \A i \in DOMAIN l : l[i].call \in Light \ {"endAdd", "loaded", "load"}
      BY <3>1 DEF Light
    <3> HIDE DEF Light, Inner, Session, Outer
    <3> QED BY <1>0, <2>a, <2>b, <3>2, <3>3, DoingStack
  <2> QED BY <1>21, <2>1, <2>2, <2>3, CompileFunctionStep
<1>22. CASE FailTemplate
  BY <1>22, ThrowStack DEF FailTemplate, Doing, session, Session
<1>23. CASE EndFunctions
  <2>a. /\ Head(todo).call = "compileFunctions" /\ UNCHANGED top /\ todo # <<>> /\ thrown = "none"
        /\ Doing("compileFunctions")
    BY <1>23 DEF EndFunctions, Doing
  <2>1. CASE state' = "Finished" /\ Then(<<CallOn("run", generated)>>) /\ UNCHANGED thrown
    <3> HIDE DEF CallOn
    <3> QED BY <2>a, <2>1, RunStack
  <2>2. CASE UNCHANGED <<state, thrown>> /\ Then(<<Call("processAll"), Call("compileFunctions")>>)
    <3>1. state = "CompilingFunctions"
      BY <2>a, OnType DEF StackInv, Staged
    <3> HIDE DEF Call
    <3> QED BY <2>a, <2>2, <3>1, FunctionsStack
  <2>3. CASE UNCHANGED state /\ Throw("CompilationFailure")
    BY <2>3, <2>a, ThrowStack DEF Session
  <2> HIDE DEF Call, CallOn
  <2> QED BY <1>23, <2>1, <2>2, <2>3 DEF EndFunctions
<1>24. CASE Run
  <2>a. Doing("run") /\ UNCHANGED <<state, top>> /\ todo # <<>> /\ thrown = "none"
    BY <1>24 DEF Run, session, Doing
  <2>1. CASE Then(<<>>) /\ UNCHANGED thrown
    BY <2>1, <2>a, EndStack DEF Session
  <2>2. CASE On # <<>> /\ Then(<<CallOn("run", Tail(On))>>) /\ UNCHANGED thrown
    <3> DEFINE l == <<CallOn("run", Tail(On))>>
    <3>1. l \in Seq(Frames) /\ \A i \in DOMAIN l : l[i].call = "run"
      <4>1. On \in Seq(Modules)
        BY <2>a, OnType DEF Doing
      <4>2. Tail(On) \in Seq(Modules)
        BY <2>2, <4>1
      <4>3. CallOn("run", Tail(On)) \in Frames /\ CallOn("run", Tail(On)).call = "run"
        BY <4>2, FrameKinds
      <4> HIDE DEF CallOn
      <4> QED BY <4>3
    <3>2. Then(l)
      BY <2>2
    <3> HIDE DEF l
    <3>3. Stacks(l, 1)
      BY <2>a, <3>1, <3>2, ListStep
    <3>4. /\ \A i \in DOMAIN l : l[i].call \in Light \ ({"endAdd", "loaded", "load"} \cup Inner)
          /\ "run" \notin Session \cup Outer \cup {"endAdd", "compile", "load"}
      BY <3>1 DEF Light, Inner, Session, Outer
    <3> HIDE DEF Light, Inner, Session, Outer
    <3> QED BY <1>0, <2>a, <2>2, <3>1, <3>3, <3>4, DoingStack
  <2>3. ASSUME NEW what \in {"RuntimeError", "runtime_error"}, Throw(what) PROVE StackInv'
    BY <2>3, <2>a, ThrowStack DEF Session, Doing
  <2> QED BY <1>24, <2>1, <2>2, <2>3 DEF Run
<1>25. CASE Handle
  BY <1>25, SameStack DEF Handle
<1>26. CASE Leave
  <2>a. /\ todo # <<>> /\ thrown # "none" /\ ~Handles(Head(todo)) /\ todo' = Tail(todo)
        /\ UNCHANGED <<top, thrown>> /\ Head(todo) = todo[1] /\ 1 \in DOMAIN todo
    BY <1>26, OnType DEF Leave, Unwinding
  <2>1. CASE Head(todo).call = "endCompile"
    BY <2>a, <2>1, <1>26, LastStack DEF Leave, StateAfter, Session
  <2>2. CASE Head(todo).call # "endCompile"
    <3>1. state' = state
      BY <1>26, <2>2 DEF Leave, StateAfter
    <3>2. Head(todo).call \notin Session
      BY <2>a, <2>2 DEF StackInv, Raised, Session
    <3>3. Stacks(<<>>, 1)
      BY <2>a, Pops DEF TypeOK
    <3>4. Nested' /\ Linked' /\ Based' /\ Topmost' /\ Staged'
      BY <2>a, <3>1, <3>3, PopStack
    <3>5. /\ Len(todo) \in Nat /\ DOMAIN todo = 1 .. Len(todo) /\ DOMAIN todo' = 1 .. Len(todo')
          /\ Len(todo') = Len(todo) - 1
          /\ \A i \in DOMAIN todo' : i + 1 \in DOMAIN todo /\ todo'[i] = todo[i + 1]
          /\ \A i \in DOMAIN todo : i = 1 \/ (i - 1 \in DOMAIN todo' /\ todo'[i - 1] = todo[i])
          /\ todo' # <<>> => Head(todo') = todo'[1] /\ 1 \in DOMAIN todo' /\ 2 \in 2 .. Len(todo)
      BY <2>a DEF TypeOK
    <3>6. Attended'
      BY <2>a, <3>1, <3>2, <3>5 DEF StackInv, Attended, Active
    <3>7. Raised'
      <4>1. ASSUME todo' # <<>>, thrown = "CompilationFailure" PROVE Head(todo').call \notin Outer
        <5>1. Follows(todo[1], todo[2]) /\ Head(todo') = todo[2]
          BY <4>1, <3>5 DEF StackInv, Linked
        <5>2. todo[1].call \notin {"endAdd", "compile", "runModule"} \cup Session
          BY <4>1, <2>a, <3>2 DEF Handles, StackInv, Raised, Outer
        <5> QED BY <5>1, <5>2 DEF Follows, Outer
      <4> QED BY <2>a, <3>5, <4>1 DEF Raised, StackInv
    <3> QED BY <3>4, <3>6, <3>7 DEF StackInv
  <2> QED BY <2>1, <2>2
<1>27. CASE Escape
  BY <1>27, SameStack DEF Escape, session
<1>28. CASE UNCHANGED vars
  BY <1>28, SameStack DEF vars, session
<1>29. QED
  BY <1>1, <1>2, <1>3, <1>4, <1>5, <1>6, <1>7, <1>8, <1>9, <1>10, <1>11, <1>12, <1>13, <1>14,
     <1>15, <1>16, <1>17, <1>18, <1>19, <1>20, <1>21, <1>22, <1>23, <1>24, <1>25, <1>26, <1>27,
     <1>28 DEF Next, Step

-----------------------------------------------------------------------------
(* The scripts that are compiled *)

\* What makes a call: the innermost call, unless the program does.
Comes(f) ==
  LET maker == Head(todo).call IN
  /\ f.call = "compile" => maker = "load" /\ f.on \in Modules
  /\ f.call = "endCompile" => StartSession
  /\ f.call = "destroy" => EndCompile
  /\ f.call = "clear" =>
       \/ maker # "compile" /\ ToSet(f.on) \subseteq ToSet(generated)
       \/ maker = "clear" /\ ToSet(f.on) \subseteq ToSet(On)
  /\ f.call = "destroyScript" => maker = "clear" /\ f.on \in ToSet(On)
  /\ f.call = "failTemplate" => maker = "compileFunctions"
  /\ f.call = "run" => maker \in {"compileFunctions", "run"}
  /\ f.call = "runModule" => maker = "load" /\ ~Active
  /\ f.call = "loaded" => maker = "load"

Plain == {"add", "finalize", "declare", "unresolved", "import", "load", "added", "endAdd", "processAll",
          "reprocess", "compileFunctions"}

LEMMA NewCalls ==
  ASSUME TypeOK, Step, todo # <<>>
  PROVE  \E l \in Seq(Frames), d \in {0, 1} : Stacks(l, d) /\ \A i \in DOMAIN l : Comes(l[i])
<1> DEFINE Goal == \E l \in Seq(Frames), d \in {0, 1} : Stacks(l, d) /\ \A i \in DOMAIN l : Comes(l[i])
<1>0. 0 \in {0, 1} /\ 1 \in {0, 1} /\ <<>> \in Seq(Frames) /\ DOMAIN <<>> = {} /\ todo \in Seq(Frames)
  BY DEF TypeOK
<1>a. ASSUME NEW l \in Seq(Frames), NEW d \in {0, 1}, Stacks(l, d), \A i \in DOMAIN l : Comes(l[i])
      PROVE  Goal
  BY <1>a
<1> HIDE DEF Goal
<1> SUFFICES Goal
  BY DEF Goal
<1>b. ASSUME NEW l \in Seq(Frames), Then(l), \A i \in DOMAIN l : Comes(l[i])
      PROVE  Goal
  BY <1>0, <1>a, <1>b, ListStep
<1>c. CASE UNCHANGED todo
  BY <1>0, <1>a, <1>c, Stays
<1>d. CASE todo' = Tail(todo)
  BY <1>0, <1>a, <1>d, Pops
<1>e. CASE Then(<<>>)
  BY <1>0, <1>b, <1>e
<1>f. \A f : f.call \in Plain => Comes(f)
  BY DEF Plain, Comes
<1>g. Head(todo).call # "compile" => Comes(CallOn("clear", generated))
  BY DEF Comes, CallOn
<1>h. ASSUME NEW what, Throw(what) PROVE Goal
  BY <1>d, <1>h DEF Throw
<1>k. \A x : \A c \in Plain : Call(c).call \in Plain /\ CallOn(c, x).call \in Plain
  BY DEF Call, CallOn
<1> HIDE DEF Plain
<1>4. CASE StartSession
  <2> DEFINE l == <<CallOn("add", On), Call("finalize"), CallOn("endCompile", On)>>
  <2>1. On \in Scripts /\ Then(l) /\ Head(todo).call = "compile"
    BY <1>4, OnType DEF StartSession, Doing
  <2>2. CallOn("add", On) \in Frames /\ Call("finalize") \in Frames /\ CallOn("endCompile", On) \in Frames
    BY <2>1, FrameKinds
  <2>3. Comes(CallOn("add", On)) /\ Comes(Call("finalize")) /\ Comes(CallOn("endCompile", On))
    BY <1>4, <2>1 DEF Comes, Call, CallOn
  <2>4. l \in Seq(Frames) /\ \A i \in DOMAIN l : Comes(l[i])
    BY <2>2, <2>3
  <2> HIDE DEF l
  <2> QED BY <2>1, <2>4, <1>b
<1>5. CASE EndCompile
  <2>1. CASE Then(<<CallOn("clear", generated), CallOn("destroy", On)>>)
    <3> DEFINE l == <<CallOn("clear", generated), CallOn("destroy", On)>>
    <3>1. CallOn("clear", generated) \in Frames /\ CallOn("destroy", On) \in Frames
      BY <1>5, OnType, FrameKinds DEF EndCompile, Doing, TypeOK
    <3>2. Comes(CallOn("destroy", On))
      BY <1>5 DEF EndCompile, Doing, Comes, CallOn
    <3>3. l \in Seq(Frames) /\ \A i \in DOMAIN l : Comes(l[i])
      BY <3>1, <3>2, <1>g, <1>5 DEF EndCompile, Doing
    <3> HIDE DEF l
    <3> QED BY <2>1, <3>3, <1>b DEF l
  <2> QED BY <1>5, <2>1, <1>e DEF EndCompile
<1>6. CASE Clear
  <2>1. PICK l \in Seq(Frames) :
           /\ Stacks(l, 1)
           /\ \/ On = <<>> /\ l = <<>>
              \/ On # <<>> /\ l = <<CallOn("destroyScript", Head(On)), CallOn("clear", Tail(On))>>
    BY <1>6, ClearStep
  <2>2. On \in Seq(Modules) /\ Head(todo).call = "clear"
    BY <1>6, OnType DEF Clear, Doing
  <2>3. On # <<>> => Head(On) \in ToSet(On) /\ ToSet(Tail(On)) \subseteq ToSet(On)
    <3>1. ASSUME On # <<>> PROVE Head(On) = On[1] /\ 1 \in DOMAIN On
                                 /\ \A i \in DOMAIN Tail(On) : Tail(On)[i] = On[i + 1] /\ i + 1 \in DOMAIN On
      BY <2>2, <3>1
    <3> QED BY <3>1 DEF ToSet
  <2>4. On # <<>> => Comes(CallOn("destroyScript", Head(On))) /\ Comes(CallOn("clear", Tail(On)))
    BY <2>2, <2>3 DEF Comes, CallOn
  <2>5. \A i \in DOMAIN l : Comes(l[i])
    BY <2>1, <2>4
  <2> QED BY <2>1, <2>5, <1>0, <1>a
<1>9. CASE Add
  <2>1. PICK l \in Seq(Frames) : Stacks(l, 1) /\ \A n \in DOMAIN l : l[n].call = "declare"
    BY <1>9, AddStep DEF CallOn
  <2> QED BY <2>1, <1>0, <1>a, <1>f DEF Plain
<1>10. CASE Declare
  <2>1. CASE thrown' = "none"
    <3>1. PICK l \in Seq(Frames) : Stacks(l, 1) /\ \A n \in DOMAIN l : l[n] \in DeclareCalls(On)
      BY <1>10, <2>1, DeclareStep
    <3>2. \A f \in DeclareCalls(On) : f = CallOn("clear", generated) \/ f.call \in Plain
      BY <1>k DEF DeclareCalls, Plain
    <3>3. \A n \in DOMAIN l : Comes(l[n])
      BY <3>1, <3>2, <1>f, <1>g, <1>10 DEF Declare, Doing
    <3> QED BY <3>1, <3>3, <1>0, <1>a
  <2> QED BY <1>10, <2>1, <1>h DEF Declare, Doing
<1>11. CASE Unresolved
  BY <1>11, <1>e, <1>h DEF Unresolved
<1>12. CASE Import
  <2>1. PICK l \in Seq(Frames) : Stacks(l, 1) /\ \A n \in DOMAIN l : l[n].call \in {"load", "import"}
    BY <1>12, ImportStep DEF CallOn
  <2> QED BY <2>1, <1>0, <1>a, <1>f DEF Plain
<1>13. CASE Load
  <2>1. PICK l \in Seq(Frames) :
           /\ Stacks(l, 1)
           /\ \/ /\ Active
                 /\ l = <<CallOn("add", On), Call("added"), CallOn("endAdd", On), CallOn("loaded", On)>>
              \/ ~Active /\ l = <<CallOn("compile", On), CallOn("runModule", On), CallOn("loaded", On)>>
    BY <1>13, LoadStep
  <2>2. On \in Modules /\ Head(todo).call = "load"
    BY <1>13, OnType DEF Load, Doing
  <2>3. /\ Comes(CallOn("add", On)) /\ Comes(Call("added")) /\ Comes(CallOn("endAdd", On))
        /\ Comes(CallOn("loaded", On)) /\ Comes(CallOn("compile", On))
        /\ ~Active => Comes(CallOn("runModule", On))
    BY <2>2 DEF Comes, Call, CallOn
  <2>4. \A i \in DOMAIN l : Comes(l[i])
    BY <2>1, <2>3
  <2> QED BY <2>1, <2>4, <1>0, <1>a
<1>14. CASE Added
  <2>1. <<Call("processAll")>> \in Seq(Frames) /\ Comes(Call("processAll"))
    BY FrameKinds DEF Comes, Call
  <2>2. \A i \in DOMAIN <<Call("processAll")>> : Comes(<<Call("processAll")>>[i])
    BY <2>1
  <2> QED BY <1>14, <2>1, <2>2, <1>b, <1>e DEF Added
<1>18. CASE Finalize \/ EndFunctions
  <2> DEFINE l == <<Call("processAll"), Call("compileFunctions")>>
             r == <<CallOn("run", generated)>>
  <2>1. Call("processAll") \in Frames /\ Call("compileFunctions") \in Frames /\ CallOn("run", generated) \in Frames
    BY FrameKinds DEF TypeOK
  <2>2. Comes(Call("processAll")) /\ Comes(Call("compileFunctions"))
    BY DEF Comes, Call
  <2>3. EndFunctions => Comes(CallOn("run", generated))
    BY DEF Comes, CallOn, EndFunctions, Doing
  <2>4. /\ l \in Seq(Frames) /\ r \in Seq(Frames) /\ \A i \in DOMAIN l : Comes(l[i])
        /\ EndFunctions => \A i \in DOMAIN r : Comes(r[i])
    BY <2>1, <2>2, <2>3
  <2>5. Then(l) \/ (EndFunctions /\ Then(r)) \/ Throw("CompilationFailure")
    BY <1>18 DEF Finalize, EndFunctions
  <2> HIDE DEF l, r
  <2> QED BY <2>4, <2>5, <1>b, <1>h
<1>19. CASE ProcessAll
  <2> DEFINE l == <<Call("reprocess"), Call("processAll")>>
  <2>1. Call("processAll") \in Frames /\ Call("reprocess") \in Frames
    BY FrameKinds
  <2>2. Comes(Call("processAll")) /\ Comes(Call("reprocess"))
    BY DEF Comes, Call
  <2>3. l \in Seq(Frames) /\ \A i \in DOMAIN l : Comes(l[i])
    BY <2>1, <2>2
  <2>4. Then(l) \/ Then(<<>>) \/ Throw("CompilationFailure") \/ UNCHANGED todo
    BY <1>19 DEF ProcessAll
  <2> HIDE DEF l
  <2> QED BY <2>3, <2>4, <1>b, <1>c, <1>e, <1>h
<1>20. CASE Reprocess
  <2>1. ASSUME NEW l \in Seq(Frames), Stacks(l, 0),
               \A n \in DOMAIN l :
                 l[n] \in {CallOn("clear", generated), CallOn("unresolved", Head(incomplete))}
        PROVE  Goal
    <3>1. Comes(CallOn("unresolved", Head(incomplete)))
      BY DEF Comes, CallOn
    <3>2. \A n \in DOMAIN l : Comes(l[n])
      BY <2>1, <3>1, <1>g, <1>20 DEF Reprocess, Doing
    <3> QED BY <2>1, <3>2, <1>0, <1>a
  <2>2. CASE Stacks(<<>>, 1)
    BY <2>2, <1>0, <1>a
  <2> QED BY <1>20, <2>1, <2>2, <1>c, ReprocessStep
<1>21. CASE CompileFunction
  <2>1. CASE Stacks(<<CallOn("clear", generated), Call("failTemplate")>>, 1)
             /\ <<CallOn("clear", generated), Call("failTemplate")>> \in Seq(Frames)
    <3> DEFINE l == <<CallOn("clear", generated), Call("failTemplate")>>
    <3>1. Comes(Call("failTemplate"))
      BY <1>21 DEF Comes, Call, CompileFunction, Doing
    <3>2. Stacks(l, 1) /\ l \in Seq(Frames) /\ \A n \in DOMAIN l : Comes(l[n])
      BY <2>1, <3>1, <1>g, <1>21 DEF CompileFunction, Doing
    <3> HIDE DEF l
    <3> QED BY <3>2, <1>0, <1>a
  <2>2. ASSUME NEW l \in Seq(Frames), Stacks(l, 0), \A n \in DOMAIN l : l[n].call = "import"
        PROVE  Goal
    BY <2>2, <1>0, <1>a, <1>f DEF Plain
  <2> QED BY <1>21, <2>1, <2>2, <1>h, CompileFunctionStep
<1>24. CASE Run
  <2>1. On \in Seq(Modules) /\ Head(todo).call = "run"
    BY <1>24, OnType DEF Run, Doing
  <2>2. CASE On # <<>> /\ Then(<<CallOn("run", Tail(On))>>)
    <3> DEFINE f == CallOn("run", Tail(On))
    <3>1. f \in Frames
      <4>1. Tail(On) \in Seq(Modules)
        BY <2>1, <2>2
      <4> QED BY <4>1, FrameKinds
    <3>2. Comes(f)
      BY <2>1 DEF Comes, CallOn
    <3>3. Then(<<f>>)
      BY <2>2
    <3> HIDE DEF f
    <3>4. <<f>> \in Seq(Frames) /\ \A n \in DOMAIN <<f>> : Comes(<<f>>[n])
      BY <3>1, <3>2
    <3> QED BY <3>3, <3>4, <1>b
  <2> QED BY <1>24, <2>2, <1>e, <1>h DEF Run
<1>25. CASE DestroyScript \/ DestroyNamespace \/ EndAdd \/ Loaded
  BY <1>25, <1>c, <1>e DEF DestroyScript, DestroyNamespace, EndAdd, Loaded
<1>26. CASE RunModule \/ FailTemplate
  BY <1>26, <1>e, <1>h DEF RunModule, FailTemplate
<1>27. CASE Handle \/ Leave \/ Escape
  BY <1>27, <1>c, <1>d DEF Handle, Leave, Escape
<1>28. QED
  BY <1>4, <1>5, <1>6, <1>9, <1>10, <1>11, <1>12, <1>13, <1>14, <1>18, <1>19, <1>20, <1>21, <1>24,
     <1>25, <1>26, <1>27 DEF Step

\* A call to compile is one of the program, or of the load of a module.
LEMMA Compiling ==
  ASSUME TypeOK, [Next]_vars, NEW i \in DOMAIN todo', todo'[i].call = "compile"
  PROVE  \/ \E j \in DOMAIN todo : todo'[i] = todo[j]
         \/ todo'[i].on \in Modules
         \/ \E s \in Scripts : Compile(s) /\ todo'[i].on = s
<1>1. CASE Step
  <2>1. todo # <<>>
    <3>1. todo = <<>> => DOMAIN todo' = {}
      BY <1>1 DEF Step, Escape, StartSession, EndCompile, Clear, DestroyScript, DestroyNamespace, Add, Declare,
           Unresolved, Import, Load, Added, EndAdd, Loaded, RunModule, Finalize, ProcessAll, Reprocess,
           CompileFunction, FailTemplate, EndFunctions, Run, Handle, Leave, Doing, Unwinding
    <3> QED BY <3>1
  <2>2. PICK l \in Seq(Frames), d \in {0, 1} : Stacks(l, d) /\ \A n \in DOMAIN l : Comes(l[n])
    BY <1>1, <2>1, NewCalls
  <2>3. \/ i \in DOMAIN l /\ todo'[i] = l[i]
        \/ i > Len(l) /\ i - Len(l) + d \in DOMAIN todo /\ todo'[i] = todo[i - Len(l) + d]
    BY <2>1, <2>2, Stacked DEF TypeOK
  <2> QED BY <2>2, <2>3 DEF Comes
<1>2. ASSUME NEW s \in Scripts, NewScript(s) PROVE todo'[i] = todo[i] /\ i \in DOMAIN todo
  BY <1>2 DEF NewScript
<1>3. ASSUME NEW s \in Scripts, Compile(s) PROVE todo'[i].on = s
  BY <1>3 DEF Compile, CallOn
<1>4. ASSUME NEW m \in Modules, LoadModule(m) PROVE FALSE
  BY <1>4 DEF LoadModule, CallOn
<1>5. CASE UNCHANGED vars
  BY <1>5 DEF vars
<1>6. QED
  BY <1>1, <1>2, <1>3, <1>4, <1>5 DEF Next

LEMMA NumberedStep ==
  ASSUME TypeOK, Numbered, [Next]_vars
  PROVE  Numbered'
<1>0. id \in [Scripts -> Nat] /\ scripts \in Seq(Scripts \cup {Null}) /\ Modules \subseteq Scripts
      /\ top \in Scripts \cup {Null}
  BY Modular DEF TypeOK
<1>1. \A s \in Scripts : id[s] # 0 => id'[s] # 0
  <2>1. ASSUME NEW x \in Scripts, NewScript(x) PROVE \A s \in Scripts : id[s] # 0 => id'[s] # 0
    BY <1>0, <2>1 DEF NewScript, NextId
  <2>2. ASSUME [Next]_vars, ~(\E x \in Scripts : NewScript(x)) PROVE UNCHANGED id
    BY <2>2 DEF Next, Step, vars, Compile, LoadModule, StartSession, EndCompile, Clear, DestroyScript,
         DestroyNamespace, Add, Declare, Unresolved, Import, Load, Added, EndAdd, Loaded, RunModule,
         Finalize, ProcessAll, Reprocess, CompileFunction, FailTemplate, EndFunctions, Run, Handle, Leave,
         Escape, engine
  <2> QED BY <2>1, <2>2
<1>2. top' # Null => id'[top'] # 0
  <2>1. CASE StartSession
    <3>1. top' = On /\ On \in Scripts /\ On = todo[1].on /\ 1 \in DOMAIN todo /\ todo[1].call = "compile"
      BY <2>1, OnType DEF StartSession, Doing
    <3> QED BY <3>1, <1>1 DEF Numbered
  <2>2. CASE UNCHANGED top
    BY <2>2, <1>0, <1>1 DEF Numbered
  <2>3. ASSUME [Next]_vars, ~StartSession PROVE UNCHANGED top
    BY <2>3 DEF Next, Step, vars, NewScript, Compile, LoadModule, EndCompile, Clear, DestroyScript,
         DestroyNamespace, Add, Declare, Unresolved, Import, Load, Added, EndAdd, Loaded, RunModule,
         Finalize, ProcessAll, Reprocess, CompileFunction, FailTemplate, EndFunctions, Run, Handle, Leave,
         Escape, session
  <2> QED BY <2>1, <2>2, <2>3
<1>3. ASSUME NEW i \in DOMAIN todo', todo'[i].call = "compile" PROVE id'[todo'[i].on] # 0
  <2>1. ASSUME NEW j \in DOMAIN todo, todo'[i] = todo[j] PROVE id'[todo'[i].on] # 0
    <3>1. todo[j].on \in Scripts /\ todo[j].call = "compile"
      BY <1>3, <2>1, FrameFields
    <3> QED BY <2>1, <3>1, <1>1 DEF Numbered
  <2>2. CASE todo'[i].on \in Modules
    BY <2>2, <1>0, <1>1 DEF Numbered
  <2>3. ASSUME NEW s \in Scripts, Compile(s), todo'[i].on = s PROVE id'[todo'[i].on] # 0
    BY <2>3, <1>1 DEF Compile
  <2> QED BY <1>3, <2>1, <2>2, <2>3, Compiling
<1>4. \A m \in Modules : id'[m] # 0
  BY <1>0, <1>1 DEF Numbered
<1>5. QED BY <1>2, <1>3, <1>4 DEF Numbered

-----------------------------------------------------------------------------
(* The modules of a session *)

LEMMA UnderFacts ==
  ASSUME TypeOK, source \in Programs
  PROVE  /\ \A x : Under(source, x) \subseteq Modules /\ x \notin Under(source, x)
         /\ \A x, y, z \in Modules :
              y \in Under(source, x) /\ z \in Under(source, y) => z \in Under(source, x)
         /\ \A s \in Scripts : \A n \in DOMAIN source[s] :
              source[s][n].is = "import" => ToSet(source[s][n].modules) \subseteq Reached(source, s)
<1>1. PICK order \in StrictOrders : Needs(source) \subseteq order
  BY AcyclicAssumption
<1>2. ASSUME NEW x PROVE x \notin Under(source, x)
  BY <1>1 DEF Under, StrictOrders
<1>3. ASSUME NEW x \in Modules, NEW y \in Modules, NEW z \in Modules,
             y \in Under(source, x), z \in Under(source, y)
      PROVE  z \in Under(source, x)
  BY <1>3 DEF Under, StrictOrders
<1>4. ASSUME NEW s \in Scripts, NEW n \in DOMAIN source[s], source[s][n].is = "import",
             NEW m \in ToSet(source[s][n].modules)
      PROVE  m \in Reached(source, s)
  <2>1. m \in Modules
    <3>1. source[s] \in Seq(Declarations) /\ source[s][n] \in Declarations
      BY DEF TypeOK
    <3>2. source[s][n].modules \in Seq(Modules)
      BY <3>1 DEF Declarations
    <3> QED BY <3>2, <1>4 DEF ToSet
  <2>2. CASE s \in Modules
    <3>1. <<s, m>> \in Needs(source)
      BY <1>4, <2>1, <2>2 DEF Needs
    <3> QED BY <3>1, <2>1, <2>2 DEF Under, Reached
  <2> QED BY <2>1, <2>2 DEF Reached
<1>5. \A x : Under(source, x) \subseteq Modules
  BY DEF Under
<1>6. QED BY <1>2, <1>3, <1>4, <1>5

\* Most steps load what the innermost call would load, or begin to.
LEMMA JoinLight ==
  ASSUME TypeOK, StackInv, JoinInv, todo # <<>>, UNCHANGED <<source, generated, loaded>>,
         thrown' \in {"none", "CompilationFailure"} => thrown \in {"none", "CompilationFailure"},
         NEW l \in Seq(Frames), NEW d \in {0, 1}, Stacks(l, d),
         \A i \in DOMAIN l : l[i].call \notin {"loaded", "endCompile"},
         \A i \in DOMAIN l : \/ Loads(source, l[i]) \subseteq Loads(source, Head(todo))
                             \/ Head(todo).call = "compileFunctions",
         \A i \in DOMAIN l : l[i].call = "load" => l[i].on \notin loaded,
         Head(todo).call = "loaded" => d = 1 /\ thrown' \notin {"none", "CompilationFailure"},
         l = <<>> => d = 1
  PROVE  JoinInv'
<1> DEFINE n == Len(l)
<1>0. /\ n \in Nat /\ Len(todo) \in Nat /\ Len(todo) >= 1 /\ Len(todo') \in Nat
      /\ DOMAIN todo = 1 .. Len(todo) /\ DOMAIN l = 1 .. n /\ DOMAIN todo' = 1 .. Len(todo')
      /\ Head(todo) = todo[1] /\ Len(todo') = n + Len(todo) - d /\ (l # <<>> <=> n > 0)
      /\ \A i \in DOMAIN todo' :
           \/ i \in DOMAIN l /\ todo'[i] = l[i]
           \/ i > n /\ i - n + d \in DOMAIN todo /\ todo'[i] = todo[i - n + d]
      /\ \A i \in DOMAIN l : i \in DOMAIN todo' /\ todo'[i] = l[i]
      /\ \A i \in DOMAIN todo : i > d => i + n - d \in DOMAIN todo' /\ todo'[i + n - d] = todo[i]
  <2>1. todo \in Seq(Frames)
    BY DEF TypeOK
  <2>2. /\ n \in Nat /\ Len(todo) \in Nat /\ Len(todo) >= 1 /\ Len(todo') \in Nat
        /\ DOMAIN todo = 1 .. Len(todo) /\ DOMAIN l = 1 .. n /\ DOMAIN todo' = 1 .. Len(todo')
        /\ Head(todo) = todo[1] /\ Len(todo') = n + Len(todo) - d /\ (l # <<>> <=> n > 0)
    BY <2>1, Stacked
  <2>3. \A i \in DOMAIN todo' :
           \/ i \in DOMAIN l /\ todo'[i] = l[i]
           \/ i > n /\ i - n + d \in DOMAIN todo /\ todo'[i] = todo[i - n + d]
    BY <2>1, Stacked
  <2>4. \A i \in DOMAIN l : i \in DOMAIN todo' /\ todo'[i] = l[i]
    BY <2>1, Stacked
  <2>5. \A i \in DOMAIN todo : i > d => i + n - d \in DOMAIN todo' /\ todo'[i + n - d] = todo[i]
    BY <2>1, Stacked
  <2> QED BY <2>2, <2>3, <2>4, <2>5
<1> HIDE DEF n
<1>1. Nested /\ Linked /\ Chained /\ Joined /\ Fresh /\ JoinsOnce
  BY DEF StackInv, JoinInv
<1>2. Chained'
  <2> SUFFICES ASSUME NEW i \in DOMAIN todo', NEW j \in DOMAIN todo', NEW k \in DOMAIN todo',
                      i < j, j < k, todo'[j].call = "loaded", todo'[k].call = "endCompile"
               PROVE  Loads(source, todo'[i]) \subseteq Under(source, todo'[j].on)
    BY DEF Chained, Loads, Reached, Under
  <2> DEFINE jj == j - n + d
             kk == k - n + d
  <2>1. j > n /\ jj \in DOMAIN todo /\ todo'[j] = todo[jj]
    BY <1>0
  <2>2. k > n /\ kk \in DOMAIN todo /\ todo'[k] = todo[kk] /\ jj < kk
    BY <1>0
  <2>3. CASE i > n /\ i - n + d \in DOMAIN todo /\ todo'[i] = todo[i - n + d]
    <3>1. i - n + d < jj
      BY <1>0, <2>1
    <3> HIDE DEF jj, kk
    <3> QED BY <2>1, <2>2, <2>3, <3>1, <1>1 DEF Chained
  <2>4. CASE i \in DOMAIN l /\ todo'[i] = l[i]
    <3>1. jj # 1
      BY <2>1, <1>0
    <3>2. 1 \in DOMAIN todo /\ 1 < jj
      BY <3>1, <2>1, <1>0
    <3> HIDE DEF jj, kk
    <3>3. CASE todo[1].call = "compileFunctions"
      <4>1. 2 \in 2 .. Len(todo) /\ 2 \in DOMAIN todo /\ 2 < kk
        BY <3>2, <2>1, <2>2, <1>0
      <4>2. todo[2].call = "endCompile"
        BY <4>1, <3>3, <1>1 DEF Linked, Follows
      <4> QED BY <4>1, <4>2, <2>2, <1>1 DEF Nested, Session, Outer
    <3>4. CASE todo[1].call # "compileFunctions"
      <4>1. Loads(source, l[i]) \subseteq Loads(source, todo[1])
        BY <2>4, <3>4, <1>0
      <4>2. Loads(source, todo[1]) \subseteq Under(source, todo[jj].on)
        BY <3>2, <2>1, <2>2, <1>1 DEF Chained
      <4> QED BY <4>1, <4>2, <2>1, <2>4
    <3> QED BY <3>3, <3>4
  <2> HIDE DEF jj, kk
  <2> QED BY <1>0, <2>3, <2>4
<1>3. Joined'
  <2> SUFFICES ASSUME NEW k \in DOMAIN todo', todo'[k].call = "endCompile",
                      thrown' \in {"none", "CompilationFailure"}, NEW m \in ToSet(generated), m \notin loaded
               PROVE  \E j \in 1 .. k - 1 : todo'[j] = CallOn("loaded", m)
    BY DEF Joined
  <2> DEFINE kk == k - n + d
  <2>1. k > n /\ kk \in DOMAIN todo /\ todo'[k] = todo[kk]
    BY <1>0
  <2>2. PICK j \in 1 .. kk - 1 : todo[j] = CallOn("loaded", m)
    <3> HIDE DEF kk
    <3> QED BY <2>1, <1>1 DEF Joined
  <2>3. j \in DOMAIN todo /\ todo[j].call = "loaded" /\ j # 1 /\ j > 1
    BY <2>1, <2>2, <1>0 DEF CallOn
  <2>4. j + n - d \in DOMAIN todo' /\ todo'[j + n - d] = todo[j]
    BY <2>3, <1>0
  <2>5. j + n - d \in 1 .. k - 1
    BY SMTT(30), <2>1, <2>2, <2>3, <1>0
  <2> HIDE DEF kk
  <2> QED BY <2>2, <2>4, <2>5
<1>4. Fresh'
  <2> SUFFICES ASSUME todo' # <<>>, Head(todo').call = "load" PROVE Head(todo').on \notin loaded
    BY DEF Fresh, On
  <2>1. 1 \in DOMAIN todo' /\ Head(todo') = todo'[1]
    BY DEF Stacks
  <2>2. CASE 1 \in DOMAIN l
    BY <2>1, <2>2, <1>0
  <2>3. CASE 1 \notin DOMAIN l
    <3>1. 2 \in DOMAIN todo /\ todo'[1] = todo[2] /\ 1 \in DOMAIN todo /\ 1 < 2
      <4>1. n = 0 /\ d = 1
        BY <2>3, <1>0
      <4>2. 1 - n + d = 2
        BY <4>1
      <4> QED BY <2>1, <4>1, <4>2, <1>0
    <3> QED BY <3>1, <2>1, <1>1 DEF Nested
  <2> QED BY <2>2, <2>3
<1>5. JoinsOnce'
  BY <1>1 DEF JoinsOnce, IsInjective
<1>6. QED BY <1>2, <1>3, <1>4, <1>5 DEF JoinInv

\* The innermost call ends, or is left.
LEMMA JoinPop ==
  ASSUME TypeOK, StackInv, JoinInv, todo # <<>>, UNCHANGED <<source, generated, loaded>>,
         thrown' \in {"none", "CompilationFailure"} => thrown \in {"none", "CompilationFailure"},
         todo' = Tail(todo), Head(todo).call = "loaded" => thrown' \notin {"none", "CompilationFailure"}
  PROVE  JoinInv'
<1>1. <<>> \in Seq(Frames) /\ DOMAIN <<>> = {} /\ 1 \in {0, 1}
  OBVIOUS
<1>2. Stacks(<<>>, 1)
  BY Pops DEF TypeOK
<1>3. QED BY <1>1, <1>2, JoinLight

LEMMA JoinSame ==
  ASSUME JoinInv, UNCHANGED <<source, generated, loaded, todo>>,
         thrown' \in {"none", "CompilationFailure"} => thrown \in {"none", "CompilationFailure"}
  PROVE  JoinInv'
<1>1. Chained'
  BY DEF JoinInv, Chained, Loads, Reached, Under
<1>2. Joined' /\ Fresh' /\ JoinsOnce'
  BY DEF JoinInv, Joined, Fresh, JoinsOnce, IsInjective, On
<1>3. QED BY <1>1, <1>2 DEF JoinInv

\* The load of a module has ended.
LEMMA JoinLoaded ==
  ASSUME TypeOK, StackInv, JoinInv, Loaded
  PROVE  JoinInv'
<1>1. /\ todo # <<>> /\ todo \in Seq(Frames) /\ UNCHANGED <<source, generated, thrown>>
      /\ loaded' = loaded \cup {On} /\ todo' = Tail(todo) /\ Head(todo).call = "loaded"
  BY DEF Loaded, Doing, session, TypeOK, Then
<1>2. /\ DOMAIN todo = 1 .. Len(todo) /\ Head(todo) = todo[1] /\ 1 \in DOMAIN todo /\ On = todo[1].on
      /\ DOMAIN todo' = 1 .. Len(todo) - 1 /\ Len(todo) \in Nat
      /\ \A i \in DOMAIN todo' : i + 1 \in DOMAIN todo /\ todo'[i] = todo[i + 1]
      /\ todo' # <<>> => 1 \in DOMAIN todo' /\ Head(todo') = todo'[1]
  BY <1>1 DEF On
<1>3. Chained'
  <2> SUFFICES ASSUME NEW i \in DOMAIN todo', NEW j \in DOMAIN todo', NEW k \in DOMAIN todo',
                      i < j, j < k, todo'[j].call = "loaded", todo'[k].call = "endCompile"
               PROVE  Loads(source, todo'[i]) \subseteq Under(source, todo'[j].on)
    BY <1>1 DEF Chained, Loads, Reached, Under
  <2>1. i + 1 < j + 1 /\ j + 1 < k + 1
    BY <1>2
  <2> QED BY <1>2, <2>1 DEF JoinInv, Chained
<1>4. Joined'
  <2> SUFFICES ASSUME NEW k \in DOMAIN todo', todo'[k].call = "endCompile",
                      thrown \in {"none", "CompilationFailure"}, NEW m \in ToSet(generated), m \notin loaded'
               PROVE  \E j \in 1 .. k - 1 : todo'[j] = CallOn("loaded", m)
    BY <1>1 DEF Joined
  <2>1. k + 1 \in DOMAIN todo /\ todo'[k] = todo[k + 1]
    BY <1>2
  <2>2. m \notin loaded /\ m # On
    BY <1>1
  <2>3. PICK j \in 1 .. (k + 1) - 1 : todo[j] = CallOn("loaded", m)
    BY <2>1, <2>2 DEF JoinInv, Joined
  <2>4. j # 1
    BY <2>2, <2>3, <1>2 DEF CallOn
  <2>5. j - 1 \in 1 .. k - 1 /\ j - 1 \in DOMAIN todo' /\ (j - 1) + 1 = j
    BY <2>1, <2>3, <2>4, <1>2
  <2>6. todo'[j - 1] = todo[j]
    BY <2>5, <1>2
  <2> QED BY <2>3, <2>5, <2>6
<1>5. Fresh'
  BY <1>2 DEF Fresh, On, StackInv, Nested
<1>6. JoinsOnce'
  BY <1>1 DEF JoinInv, JoinsOnce, IsInjective
<1>7. QED BY <1>3, <1>4, <1>5, <1>6 DEF JoinInv

\* A module joins the session: it is not there yet, since what is being loaded does
\* not import itself.
LEMMA JoinLoad ==
  ASSUME TypeOK, source \in Programs, StackInv, JoinInv, Load
  PROVE  JoinInv'
<1>1. /\ todo # <<>> /\ todo \in Seq(Frames) /\ UNCHANGED <<source, loaded, thrown>> /\ thrown = "none"
      /\ Head(todo).call = "load" /\ On \in Modules /\ Head(todo) = todo[1] /\ 1 \in DOMAIN todo
      /\ On = todo[1].on
  BY OnType DEF Load, Doing, engine, TypeOK, On
<1>2. PICK l \in Seq(Frames) :
        /\ Stacks(l, 1)
        /\ \/ /\ Active
              /\ l = <<CallOn("add", On), Call("added"), CallOn("endAdd", On), CallOn("loaded", On)>>
           \/ ~Active /\ l = <<CallOn("compile", On), CallOn("runModule", On), CallOn("loaded", On)>>
  BY LoadStep
<1>3. /\ Len(todo) \in Nat /\ Len(l) \in Nat /\ Len(l) > 0
      /\ DOMAIN todo = 1 .. Len(todo) /\ DOMAIN l = 1 .. Len(l) /\ DOMAIN todo' = 1 .. Len(todo')
      /\ \A i \in DOMAIN todo' :
           \/ i \in DOMAIN l /\ todo'[i] = l[i]
           \/ i > Len(l) /\ i - Len(l) + 1 \in DOMAIN todo /\ todo'[i] = todo[i - Len(l) + 1]
      /\ \A i \in DOMAIN l : i \in DOMAIN todo' /\ todo'[i] = l[i]
      /\ \A i \in DOMAIN todo : i > 1 => i + Len(l) - 1 \in DOMAIN todo' /\ todo'[i + Len(l) - 1] = todo[i]
      /\ Head(todo') = todo'[1] /\ 1 \in DOMAIN todo' /\ 1 \in DOMAIN l
  <2>1. Len(l) > 0
    <3>1. l = <<CallOn("add", On), Call("added"), CallOn("endAdd", On), CallOn("loaded", On)>> => l # <<>>
      OBVIOUS
    <3>2. l = <<CallOn("compile", On), CallOn("runModule", On), CallOn("loaded", On)>> => l # <<>>
      OBVIOUS
    <3>3. l # <<>>
      <4> HIDE DEF Call, CallOn
      <4> QED BY <3>1, <3>2, <1>2, Zenon
    <3> QED BY <3>3
  <2>2. /\ Len(l) \in Nat /\ Len(todo) \in Nat /\ Len(todo') \in Nat
        /\ DOMAIN todo = 1 .. Len(todo) /\ DOMAIN l = 1 .. Len(l) /\ DOMAIN todo' = 1 .. Len(todo')
        /\ \A i \in DOMAIN todo' :
             \/ i \in DOMAIN l /\ todo'[i] = l[i]
             \/ i > Len(l) /\ i - Len(l) + 1 \in DOMAIN todo /\ todo'[i] = todo[i - Len(l) + 1]
        /\ \A i \in DOMAIN l : i \in DOMAIN todo' /\ todo'[i] = l[i]
        /\ \A i \in DOMAIN todo : i > 1 => i + Len(l) - 1 \in DOMAIN todo' /\ todo'[i + Len(l) - 1] = todo[i]
    BY <1>1, <1>2, Stacked
  <2>3. todo' \in Seq(Frames)
    BY <1>2 DEF Stacks
  <2> QED BY <2>1, <2>2, <2>3
<1>4. Fresh'
  <2>1. todo'[1].call # "load"
    BY <1>2, <1>3 DEF CallOn
  <2> QED BY <2>1, <1>3 DEF Fresh
<1>5. CASE ~Active
  <2>1. /\ UNCHANGED generated /\ Len(l) = 3
        /\ \A i \in DOMAIN l : l[i].call # "endCompile"
    BY <1>2, <1>5 DEF Load, CallOn
  <2>2. ASSUME NEW k \in DOMAIN todo, k > 1 PROVE todo[k].call # "endCompile"
    BY <2>2, <1>1, <1>3, <1>5 DEF StackInv, Nested, Inner
  <2>3. \A k \in DOMAIN todo' : todo'[k].call # "endCompile"
    BY <2>1, <2>2, <1>3
  <2>4. Chained' /\ Joined' /\ JoinsOnce'
    BY <2>1, <2>3 DEF Chained, Joined, JoinInv, JoinsOnce, IsInjective
  <2> QED BY <1>4, <2>4 DEF JoinInv
<1>6. CASE Active
  <2>1. /\ generated' = Append(generated, On) /\ Len(l) = 4 /\ l[1] = CallOn("add", On)
        /\ l[2].call = "added" /\ l[3].call = "endAdd" /\ l[4] = CallOn("loaded", On)
    BY <1>2, <1>6 DEF Load, CallOn, Call
  <2>2. /\ todo'[1] = CallOn("add", On) /\ todo'[2].call = "added" /\ todo'[3].call = "endAdd"
        /\ todo'[4] = CallOn("loaded", On) /\ 4 \in DOMAIN todo'
        /\ \A i \in DOMAIN todo' : i \in 1 .. 4 \/ (i > 4 /\ i - 3 \in DOMAIN todo /\ i - 3 > 1 /\ todo'[i] = todo[i - 3])
        /\ \A i \in 1 .. 4 : i = 1 \/ i = 2 \/ i = 3 \/ i = 4
        /\ \A i \in DOMAIN todo : i > 1 => i + 3 \in DOMAIN todo' /\ todo'[i + 3] = todo[i]
    <3>1. 1 \in DOMAIN l /\ 2 \in DOMAIN l /\ 3 \in DOMAIN l /\ 4 \in DOMAIN l
      BY <2>1, <1>3
    <3>2. \A i \in 1 .. 4 : i = 1 \/ i = 2 \/ i = 3 \/ i = 4
      OBVIOUS
    <3>3. ASSUME NEW i \in DOMAIN todo', i \notin 1 .. 4
          PROVE  i > 4 /\ i - 3 \in DOMAIN todo /\ i - 3 > 1 /\ todo'[i] = todo[i - 3]
      <4>1. i > 4 /\ i - 4 + 1 \in DOMAIN todo /\ todo'[i] = todo[i - 4 + 1]
        BY <3>3, <2>1, <1>3
      <4>2. i - 4 + 1 = i - 3
        BY <4>1, <1>3
      <4> QED BY <4>1, <4>2, <1>3
    <3>4. ASSUME NEW i \in DOMAIN todo, i > 1 PROVE i + 3 \in DOMAIN todo' /\ todo'[i + 3] = todo[i]
      <4>1. i + 4 - 1 \in DOMAIN todo' /\ todo'[i + 4 - 1] = todo[i]
        BY <3>4, <2>1, <1>3
      <4>2. i + 4 - 1 = i + 3
        BY <1>3
      <4> QED BY <4>1, <4>2
    <3> QED BY <3>1, <3>2, <3>3, <3>4, <2>1, <1>3
  <2>3. /\ Loads(source, todo[1]) = {On} /\ Loads(source, todo'[1]) = Under(source, On)
        /\ Loads(source, todo'[2]) = {} /\ Loads(source, todo'[3]) = {} /\ Loads(source, todo'[4]) = {On}
    BY <1>1, <2>2 DEF Loads, CallOn, Reached
  <2>c. /\ todo'[1].call = "add" /\ todo'[2].call = "added" /\ todo'[3].call = "endAdd"
        /\ todo'[4].call = "loaded"
    BY <2>2 DEF CallOn
  <2>d. \A i \in DOMAIN todo' : i \in 1 .. 4 => todo'[i].call # "endCompile"
    BY <2>2, <2>c
  <2>e. \A i \in DOMAIN todo' : i \in 1 .. 4 /\ todo'[i].call = "loaded" => i = 4
    BY <2>2, <2>c
  <2>4. Chained'
    <3> SUFFICES ASSUME NEW i \in DOMAIN todo', NEW j \in DOMAIN todo', NEW k \in DOMAIN todo',
                        i < j, j < k, todo'[j].call = "loaded", todo'[k].call = "endCompile"
                 PROVE  Loads(source, todo'[i]) \subseteq Under(source, todo'[j].on)
      BY <1>1 DEF Chained, Loads, Reached, Under
    <3>1. k > 4 /\ k - 3 \in DOMAIN todo /\ todo'[k] = todo[k - 3]
      BY <2>2, <2>d
    <3>2. CASE j = 4
      <4>1. i = 1 \/ i = 2 \/ i = 3
        BY <3>2, <2>2, <1>3
      <4>2. todo'[j].on = On
        BY <3>2, <2>2 DEF CallOn
      <4> QED BY <4>1, <4>2, <2>3
    <3>3. CASE j > 4
      <4> DEFINE jj == j - 3
                 kk == k - 3
      <4>1. jj \in DOMAIN todo /\ jj > 1 /\ todo'[j] = todo[jj] /\ jj < kk /\ kk \in DOMAIN todo
            /\ todo[kk].call = "endCompile"
        BY SMTT(30), <3>1, <3>3, <2>2, <1>3
      <4> HIDE DEF jj, kk
      <4>2. ASSUME NEW e \in DOMAIN todo, e < jj
            PROVE  Loads(source, todo[e]) \subseteq Under(source, todo[jj].on)
        BY <4>1, <4>2 DEF JoinInv, Chained
      <4>3. On \in Under(source, todo[jj].on) /\ todo[jj].on \in Modules
        <5>1. todo[jj].on \in Modules
          BY <4>1, FrameFields
        <5> QED BY <5>1, <4>1, <4>2, <2>3, <1>1
      <4>4. Under(source, On) \subseteq Under(source, todo[jj].on)
        BY <4>3, <1>1, UnderFacts
      <4>5. CASE i \in 1 .. 4
        BY <4>1, <4>3, <4>4, <4>5, <2>2, <2>3
      <4>6. CASE i \notin 1 .. 4
        <5>1. i - 3 \in DOMAIN todo /\ todo'[i] = todo[i - 3]
          BY <4>6, <2>2
        <5>2. i - 3 < jj
          BY <1>3 DEF jj
        <5> QED BY <5>1, <5>2, <4>1, <4>2
      <4> QED BY <4>5, <4>6
    <3>4. j = 4 \/ j > 4
      BY <2>2, <2>e
    <3> QED BY <3>2, <3>3, <3>4
  <2>5. Joined'
    <3> SUFFICES ASSUME NEW k \in DOMAIN todo', todo'[k].call = "endCompile",
                        NEW m \in ToSet(generated'), m \notin loaded
                 PROVE  \E j \in 1 .. k - 1 : todo'[j] = CallOn("loaded", m)
      BY <1>1 DEF Joined
    <3>1. k > 4 /\ k - 3 \in DOMAIN todo /\ todo'[k] = todo[k - 3]
      BY <2>2, <2>d
    <3>2. CASE m = On
      <4>1. 4 \in 1 .. k - 1
        BY <3>1, <1>3
      <4> QED BY <4>1, <3>2, <2>2
    <3>3. CASE m \in ToSet(generated)
      <4>1. PICK j \in 1 .. (k - 3) - 1 : todo[j] = CallOn("loaded", m)
        BY <3>1, <3>3, <1>1 DEF JoinInv, Joined
      <4>2. j > 1 /\ j \in DOMAIN todo
        <5>1. j # 1
          BY <4>1, <1>1 DEF CallOn
        <5> QED BY <4>1, <5>1, <3>1, <1>3
      <4>3. j + 3 \in 1 .. k - 1 /\ todo'[j + 3] = todo[j]
        BY <4>1, <4>2, <2>2, <3>1, <1>3, SMTT(60)
      <4> QED BY <4>1, <4>3
    <3>4. m = On \/ m \in ToSet(generated)
      <4>1. generated \in Seq(Modules)
        BY DEF TypeOK
      <4> QED BY <2>1, <4>1, <1>1, AppendProperties DEF ToSet
    <3> QED BY <3>2, <3>3, <3>4
  <2>6. On \notin ToSet(generated)
    <3>1. PICK k \in DOMAIN todo : k > 1 /\ todo[k].call = "endCompile"
      <4>1. PICK k \in DOMAIN todo : todo[k].call \in Session
        BY <1>6 DEF StackInv, Attended
      <4>2. k > 1
        BY <4>1, <1>1, <1>3 DEF Session
      <4>3. todo[k].call # "destroy"
        BY <4>1, <4>2, <1>1 DEF StackInv, Nested
      <4> QED BY <4>1, <4>2, <4>3 DEF Session
    <3>2. ASSUME On \in ToSet(generated) PROVE FALSE
      <4>1. On \notin loaded
        BY <1>1 DEF JoinInv, Fresh
      <4>2. PICK j \in 1 .. k - 1 : todo[j] = CallOn("loaded", On)
        BY <3>1, <3>2, <4>1, <1>1 DEF JoinInv, Joined
      <4>3. j > 1 /\ j \in DOMAIN todo /\ j < k
        <5>1. j # 1
          BY <4>2, <1>1 DEF CallOn
        <5> QED BY <4>2, <5>1, <3>1, <1>3
      <4>4. Loads(source, todo[1]) \subseteq Under(source, On)
        BY <3>1, <4>2, <4>3, <1>1 DEF JoinInv, Chained, CallOn
      <4> QED BY <4>4, <2>3, UnderFacts
    <3> QED BY <3>2
  <2>7. JoinsOnce'
    <3>1. generated \in Seq(Modules) /\ IsInjective(generated)
      BY DEF TypeOK, JoinInv, JoinsOnce
    <3>2. /\ DOMAIN generated = 1 .. Len(generated) /\ Len(generated) \in Nat
          /\ DOMAIN generated' = 1 .. Len(generated) + 1 /\ generated'[Len(generated) + 1] = On
          /\ \A i \in 1 .. Len(generated) : generated'[i] = generated[i]
      BY <3>1, <2>1, <1>1, AppendProperties
    <3>3. \A i \in DOMAIN generated : generated[i] # On
      BY <2>6 DEF ToSet
    <3>4. \A i, j \in DOMAIN generated : generated[i] = generated[j] => i = j
      BY <3>1 DEF IsInjective
    <3>5. ASSUME NEW i \in DOMAIN generated', NEW j \in DOMAIN generated', generated'[i] = generated'[j]
          PROVE  i = j
      <4>1. i = Len(generated) + 1 \/ i \in DOMAIN generated
        BY <3>2
      <4>2. j = Len(generated) + 1 \/ j \in DOMAIN generated
        BY <3>2
      <4> QED BY <4>1, <4>2, <3>2, <3>3, <3>4, <3>5
    <3> QED BY <3>5 DEF JoinsOnce, IsInjective
  <2> QED BY <1>4, <2>4, <2>5, <2>7 DEF JoinInv
<1>7. QED BY <1>5, <1>6

\* A session starts: what was in progress was in progress outside of it.
LEMMA StartFrames ==
  ASSUME TypeOK, StackInv, StartSession
  PROVE  /\ On \in Scripts /\ Len(todo') \in Nat /\ DOMAIN todo' = 1 .. Len(todo') /\ todo' \in Seq(Frames)
         /\ 1 \in DOMAIN todo' /\ 2 \in DOMAIN todo' /\ 3 \in DOMAIN todo' /\ Head(todo') = todo'[1]
         /\ todo'[1] = CallOn("add", On) /\ todo'[1].call = "add" /\ todo'[2].call = "finalize"
         /\ todo'[3].call = "endCompile"
         /\ \A i \in DOMAIN todo' : i > 3 => todo'[i].call \in Outer
         /\ \A i \in DOMAIN todo' : i = 1 \/ i = 2 \/ i = 3 \/ i > 3
<1> DEFINE l == <<CallOn("add", On), Call("finalize"), CallOn("endCompile", On)>>
<1>1. /\ On \in Scripts /\ todo # <<>> /\ Then(l) /\ Head(todo) = todo[1] /\ 1 \in DOMAIN todo
      /\ Head(todo).call = "compile"
  BY OnType DEF StartSession, Doing
<1>2. l \in Seq(Frames) /\ Len(l) = 3
  <2>1. CallOn("add", On) \in Frames /\ Call("finalize") \in Frames /\ CallOn("endCompile", On) \in Frames
    BY <1>1, FrameKinds
  <2> QED BY <2>1
<1>3. l[1] = CallOn("add", On) /\ l[1].call = "add" /\ l[2].call = "finalize" /\ l[3].call = "endCompile"
  BY DEF Call, CallOn
<1> HIDE DEF l
<1>4. Stacks(l, 1)
  BY <1>1, <1>2, ListStep
<1>5. /\ DOMAIN todo = 1 .. Len(todo) /\ Len(todo) \in Nat /\ Len(todo') = Len(todo) + 2
      /\ DOMAIN todo' = 1 .. Len(todo') /\ todo' \in Seq(Frames)
      /\ \A i \in DOMAIN todo' : todo'[i] = IF i <= 3 THEN l[i] ELSE todo[i - 3 + 1]
  BY <1>2, <1>4 DEF Stacks, TypeOK
<1>6. ASSUME NEW i \in DOMAIN todo', i > 3 PROVE todo'[i].call \in Outer
  <2>1. i - 3 + 1 \in DOMAIN todo /\ i - 3 + 1 > 1 /\ todo'[i] = todo[i - 3 + 1]
    BY <1>5, <1>6
  <2> QED BY <2>1, <1>1 DEF StackInv, Nested
<1>7. 1 \in DOMAIN todo' /\ 2 \in DOMAIN todo' /\ 3 \in DOMAIN todo'
  BY <1>5, <1>1
<1>8. todo'[1] = l[1] /\ todo'[2] = l[2] /\ todo'[3] = l[3] /\ Head(todo') = todo'[1]
  BY <1>5, <1>7
<1>9. \A i \in DOMAIN todo' : i = 1 \/ i = 2 \/ i = 3 \/ i > 3
  BY <1>5
<1>10. Len(todo') \in Nat
  BY <1>5
<1>11. QED BY <1>1, <1>3, <1>5, <1>6, <1>7, <1>8, <1>9, <1>10

LEMMA JoinStart ==
  ASSUME TypeOK, StackInv, JoinInv, StartSession
  PROVE  JoinInv'
<1>1. generated' = <<>>
  BY DEF StartSession
<1>5. /\ DOMAIN todo' = 1 .. Len(todo') /\ Len(todo') \in Nat /\ Head(todo') = todo'[1]
  BY StartFrames
<1>6. \A i \in DOMAIN todo' : i > 3 => todo'[i].call \in Outer
  BY StartFrames
<1>7. /\ todo'[1].call = "add" /\ todo'[2].call = "finalize" /\ 1 \in DOMAIN todo' /\ 2 \in DOMAIN todo'
      /\ \A i \in DOMAIN todo' : i = 1 \/ i = 2 \/ i = 3 \/ i > 3
  BY StartFrames
<1>8. Chained'
  <2> SUFFICES ASSUME NEW j \in DOMAIN todo', NEW k \in DOMAIN todo', j < k,
                      todo'[j].call = "loaded", todo'[k].call = "endCompile"
               PROVE  FALSE
    BY DEF Chained
  <2>1. k # 1 /\ k # 2 /\ ~(k > 3)
    BY <1>6, <1>7 DEF Outer
  <2>2. k = 3
    BY <2>1, <1>7
  <2>3. j # 1 /\ j # 2 /\ j \in Nat
    BY <1>5, <1>7
  <2> QED BY <2>2, <2>3, <1>7
<1>9. Joined'
  BY <1>1 DEF Joined, ToSet
<1>10. Fresh'
  <2>1. Head(todo') = todo'[1]
    BY <1>5
  <2> QED BY <2>1, <1>7 DEF Fresh
<1>11. JoinsOnce'
  BY <1>1 DEF JoinsOnce, IsInjective
<1>12. QED BY <1>8, <1>9, <1>10, <1>11 DEF JoinInv

\* The calls that load nothing.
LEMMA NoLoads ==
  ASSUME NEW f, f.call \in {"compile", "endCompile", "destroy", "destroyScript", "clear", "run", "finalize",
                            "added", "processAll", "reprocess", "compileFunctions", "failTemplate",
                            "unresolved", "endAdd", "runModule"}
  PROVE  Loads(source, f) = {}
BY DEF Loads

LEMMA JoinStep ==
  ASSUME TypeOK, source \in Programs, StackInv, JoinInv, [Next]_vars
  PROVE  JoinInv'
<1>s. source' = source
  BY SourceSame
<1>0. 0 \in {0, 1} /\ 1 \in {0, 1} /\ todo \in Seq(Frames)
  BY DEF TypeOK
\* What is pushed loads nothing, and ends no session.
<1>a. ASSUME NEW l \in Seq(Frames), l # <<>>, NEW d \in {0, 1}, Stacks(l, d), todo # <<>>,
             UNCHANGED <<generated, loaded, thrown>>, Head(todo).call # "loaded",
             \A i \in DOMAIN l : /\ Loads(source, l[i]) = {}
                                 /\ l[i].call \notin {"loaded", "endCompile", "load"}
      PROVE  JoinInv'
  BY <1>a, <1>s, JoinLight
<1>e. ASSUME todo # <<>>, Then(<<>>), UNCHANGED <<generated, loaded, thrown>>, Head(todo).call # "loaded"
      PROVE  JoinInv'
  BY <1>e, <1>s, JoinPop DEF Then, TypeOK
<1>t. ASSUME todo # <<>>, NEW what, Throw(what), UNCHANGED <<generated, loaded>>, thrown = "none",
             Head(todo).call # "loaded"
      PROVE  JoinInv'
  BY <1>t, <1>s, JoinPop DEF Throw
<1>1. ASSUME NEW x \in Scripts, NewScript(x) PROVE JoinInv'
  BY <1>1, <1>s, JoinSame DEF NewScript, session
<1>b. ASSUME NEW f \in Frames, f.call \in {"compile", "load"}, f.call = "load" => f.on \notin loaded,
             todo' = <<f>>, UNCHANGED <<generated, loaded>>
      PROVE  JoinInv'
  <2>1. Len(todo') = 1 /\ DOMAIN todo' = {1} /\ todo'[1] = f /\ Head(todo') = f
    BY <1>b
  <2>2. Chained' /\ Joined'
    BY <1>b, <2>1 DEF Chained, Joined
  <2>3. Fresh' /\ JoinsOnce'
    BY <1>b, <2>1 DEF Fresh, On, JoinInv, JoinsOnce, IsInjective
  <2> QED BY <2>2, <2>3 DEF JoinInv
<1>2. ASSUME NEW x \in Scripts, Compile(x) PROVE JoinInv'
  BY <1>2, <1>b, FrameKinds DEF Compile, CallOn, session, engine
<1>3. ASSUME NEW m \in Modules, LoadModule(m) PROVE JoinInv'
  BY <1>3, <1>b, FrameKinds DEF LoadModule, CallOn, session, engine
<1>4. CASE StartSession
  BY <1>4, JoinStart
<1>5. CASE EndCompile
  <2>a. /\ todo # <<>> /\ Head(todo).call # "loaded" /\ UNCHANGED <<generated, loaded, thrown>>
        /\ On \in Scripts
    BY <1>5, OnType DEF EndCompile, Doing, engine
  <2>1. CASE Then(<<CallOn("clear", generated), CallOn("destroy", On)>>)
    <3> DEFINE l == <<CallOn("clear", generated), CallOn("destroy", On)>>
    <3>1. l \in Seq(Frames) /\ l # <<>> /\ \A i \in DOMAIN l : l[i].call \in {"clear", "destroy"}
      BY <2>a, FrameKinds DEF TypeOK, CallOn
    <3>2. Then(l)
      BY <2>1
    <3> HIDE DEF l
    <3>3. Stacks(l, 1)
      BY <2>a, <3>1, <3>2, ListStep
    <3> QED BY <1>0, <2>a, <3>1, <3>3, <1>a, NoLoads
  <2>2. CASE Then(<<>>)
    BY <2>a, <2>2, <1>e
  <2> QED BY <1>5, <2>1, <2>2 DEF EndCompile
<1>6. CASE Clear
  <2>1. PICK l \in Seq(Frames) :
           /\ Stacks(l, 1)
           /\ \/ On = <<>> /\ l = <<>>
              \/ On # <<>> /\ l = <<CallOn("destroyScript", Head(On)), CallOn("clear", Tail(On))>>
    BY <1>6, ClearStep
  <2>2. \A i \in DOMAIN l : l[i].call \in {"clear", "destroyScript"}
    BY <2>1 DEF CallOn
  <2>3. todo # <<>> /\ Head(todo).call # "loaded" /\ UNCHANGED <<generated, loaded, thrown>>
    BY <1>6 DEF Clear, Doing, session, engine
  <2>4. \A i \in DOMAIN l : Loads(source, l[i]) = {}
    BY <2>2, NoLoads
  <2> QED BY <1>0, <1>s, <2>1, <2>2, <2>3, <2>4, JoinLight
<1>7. CASE DestroyScript
  <2>a. todo # <<>> /\ UNCHANGED <<generated, loaded, thrown>> /\ Head(todo).call # "loaded"
    BY <1>7 DEF DestroyScript, Doing, session
  <2>1. CASE UNCHANGED todo
    BY <2>a, <2>1, <1>s, JoinSame
  <2>2. CASE Then(<<>>)
    BY <2>a, <2>2, <1>e
  <2> QED BY <1>7, <2>1, <2>2 DEF DestroyScript
<1>8. CASE DestroyNamespace
  BY <1>8, <1>e DEF DestroyNamespace, Doing
<1>9. CASE Add
  <2>1. PICK l \in Seq(Frames) : Stacks(l, 1) /\ \A i \in DOMAIN l : l[i] = CallOn("declare", Task(On, 1))
    BY <1>9, AddStep
  <2>2. /\ todo # <<>> /\ Head(todo).call = "add" /\ UNCHANGED <<generated, loaded, thrown>>
        /\ On = Head(todo).on
    BY <1>9 DEF Add, Doing, On
  <2>3. \A i \in DOMAIN l : /\ l[i].call \notin {"loaded", "endCompile", "load"}
                            /\ Loads(source, l[i]) = Loads(source, Head(todo))
    BY <2>1, <2>2 DEF Loads, CallOn, Task
  <2> QED BY <1>0, <1>s, <2>1, <2>2, <2>3, JoinLight
<1>10. CASE Declare
  <2>a. /\ todo # <<>> /\ Head(todo).call = "declare" /\ UNCHANGED <<generated, loaded>>
        /\ On = Head(todo).on /\ thrown = "none" /\ On \in Tasks
    BY <1>10, OnType DEF Declare, Doing, On, session, engine
  <2>1. CASE thrown' = "none"
    <3>1. PICK l \in Seq(Frames) :
            /\ Stacks(l, 1) /\ \A i \in DOMAIN l : l[i] \in DeclareCalls(On)
            /\ \A i \in DOMAIN l : l[i].call = "import" => Is(On) = "import"
      BY <1>10, <2>1, DeclareStep
    <3>2. \A i \in DOMAIN l : l[i].call \in {"clear", "unresolved", "declare", "import"}
      BY <3>1 DEF DeclareCalls, CallOn
    <3>3. Loads(source, Head(todo)) = Reached(source, On.script)
      BY <2>a DEF Loads
    <3>4. ASSUME NEW i \in DOMAIN l PROVE Loads(source, l[i]) \subseteq Reached(source, On.script)
      <4>1. CASE l[i].call \in {"clear", "unresolved"}
        BY <4>1, NoLoads
      <4>2. CASE l[i].call = "declare"
        <5>1. l[i] = CallOn("declare", Task(On.script, On.at + 1))
          BY <3>1, <4>2 DEF DeclareCalls, CallOn
        <5> QED BY <5>1 DEF Loads, CallOn, Task
      <4>3. CASE l[i].call = "import"
        <5>1. Is(On) = "import" /\ l[i] = CallOn("import", source[On.script][On.at].modules)
          BY <3>1, <4>3 DEF DeclareCalls, CallOn
        <5>2. On.at # 0
          BY <5>1 DEF Is
        <5>3. On.at \in DOMAIN source[On.script] /\ On.script \in Scripts
          BY <2>a, <5>2, TaskFields
        <5>4. source[On.script][On.at].is = "import"
          BY <5>1, <5>2 DEF Is
        <5>5. ToSet(source[On.script][On.at].modules) \subseteq Reached(source, On.script)
          BY <5>3, <5>4, UnderFacts
        <5> QED BY <5>1, <5>5 DEF Loads, CallOn
      <4> QED BY <3>2, <4>1, <4>2, <4>3
    <3> QED BY <1>0, <1>s, <2>a, <2>1, <3>1, <3>2, <3>3, <3>4, JoinLight
  <2>2. CASE thrown' # "none"
    <3>1. Throw("CompilationFailure")
      BY <1>10, <2>a, <2>2 DEF Declare
    <3> QED BY <2>a, <3>1, <1>t
  <2> QED BY <2>1, <2>2
<1>11. CASE Unresolved
  BY <1>11, <1>e, <1>t DEF Unresolved, Doing, session, engine
<1>12. CASE Import
  <2>1. PICK l \in Seq(Frames) :
           /\ Stacks(l, 1)
           /\ \A i \in DOMAIN l :
                \/ /\ i = 1 /\ On # <<>> /\ l[i] = CallOn("load", Head(On)) /\ Head(On) \notin loaded
                \/ On # <<>> /\ l[i] = CallOn("import", Tail(On))
    BY <1>12, ImportStep
  <2>2. /\ todo # <<>> /\ Head(todo).call = "import" /\ UNCHANGED <<generated, loaded, thrown>>
        /\ On = Head(todo).on /\ On \in Seq(Modules)
    BY <1>12, OnType DEF Import, Doing, On, session, engine
  <2>3. Loads(source, Head(todo)) = ToSet(On)
    BY <2>2 DEF Loads
  <2>4. On # <<>> => Head(On) \in ToSet(On) /\ ToSet(Tail(On)) \subseteq ToSet(On)
    <3> SUFFICES ASSUME On # <<>> PROVE Head(On) \in ToSet(On) /\ ToSet(Tail(On)) \subseteq ToSet(On)
      OBVIOUS
    <3>1. 1 \in DOMAIN On /\ Head(On) = On[1]
      BY <2>2
    <3>2. \A i \in DOMAIN Tail(On) : i + 1 \in DOMAIN On /\ Tail(On)[i] = On[i + 1]
      BY <2>2
    <3> QED BY <3>1, <3>2 DEF ToSet
  <2>5. ASSUME NEW i \in DOMAIN l
        PROVE  /\ l[i].call \in {"load", "import"} /\ Loads(source, l[i]) \subseteq ToSet(On)
               /\ l[i].call = "load" => l[i].on \notin loaded
    <3>1. CASE On # <<>> /\ l[i] = CallOn("load", Head(On)) /\ Head(On) \notin loaded
      <4>1. l[i].call = "load" /\ l[i].on = Head(On)
        BY <3>1 DEF CallOn
      <4>2. Loads(source, l[i]) = {Head(On)}
        BY <4>1 DEF Loads
      <4> QED BY <4>1, <4>2, <3>1, <2>4
    <3>2. CASE On # <<>> /\ l[i] = CallOn("import", Tail(On))
      <4>1. l[i].call = "import" /\ l[i].on = Tail(On)
        BY <3>2 DEF CallOn
      <4>2. Loads(source, l[i]) = ToSet(Tail(On))
        BY <4>1 DEF Loads
      <4> QED BY <4>1, <4>2, <3>2, <2>4
    <3> QED BY <2>1, <3>1, <3>2
  <2> QED BY <1>0, <1>s, <2>1, <2>2, <2>3, <2>5, JoinLight
<1>13. CASE Load
  BY <1>13, JoinLoad
<1>14. CASE Added
  <2> DEFINE l == <<Call("processAll")>>
  <2>1. l \in Seq(Frames) /\ l # <<>> /\ \A i \in DOMAIN l : l[i].call = "processAll"
    BY FrameKinds
  <2>2. todo # <<>> /\ Head(todo).call # "loaded" /\ UNCHANGED <<generated, loaded, thrown>>
    BY <1>14 DEF Added, Doing, session, engine
  <2>3. CASE Then(<<>>)
    BY <2>2, <2>3, <1>e
  <2>4. CASE Then(l)
    <3>1. Then(l)
      BY <2>4
    <3> HIDE DEF l
    <3>2. Stacks(l, 1)
      BY <2>1, <2>2, <3>1, ListStep
    <3> QED BY <1>0, <2>1, <2>2, <3>2, <1>a, NoLoads
  <2> QED BY <1>14, <2>3, <2>4 DEF Added
<1>15. CASE EndAdd
  BY <1>15, <1>e DEF EndAdd, Doing, session, engine
<1>16. CASE Loaded
  BY <1>16, JoinLoaded
<1>17. CASE RunModule
  BY <1>17, <1>e, <1>t DEF RunModule, Doing, session, engine
<1>18. CASE Finalize \/ EndFunctions
  <2> DEFINE l == <<Call("processAll"), Call("compileFunctions")>>
             r == <<CallOn("run", generated)>>
  <2>1. /\ l \in Seq(Frames) /\ l # <<>> /\ \A i \in DOMAIN l : l[i].call \in {"processAll", "compileFunctions"}
        /\ r \in Seq(Frames) /\ r # <<>> /\ \A i \in DOMAIN r : r[i].call = "run"
    BY FrameKinds DEF TypeOK, CallOn
  <2>2. /\ todo # <<>> /\ Head(todo).call # "loaded" /\ UNCHANGED <<generated, loaded>> /\ thrown = "none"
        /\ (UNCHANGED thrown /\ (Then(l) \/ Then(r))) \/ Throw("CompilationFailure")
    BY <1>18 DEF Finalize, EndFunctions, Doing, engine
  <2>3. todo # <<>> /\ Head(todo).call # "loaded" /\ UNCHANGED <<generated, loaded>> /\ thrown = "none"
    BY <1>18 DEF Finalize, EndFunctions, Doing, engine
  <2> HIDE DEF l, r
  <2>4. CASE Then(l) /\ UNCHANGED thrown
    <3>1. Stacks(l, 1)
      BY <2>1, <2>3, <2>4, ListStep
    <3> QED BY <1>0, <2>1, <2>3, <2>4, <3>1, <1>a, NoLoads
  <2>5. CASE Then(r) /\ UNCHANGED thrown
    <3>1. Stacks(r, 1)
      BY <2>1, <2>3, <2>5, ListStep
    <3> QED BY <1>0, <2>1, <2>3, <2>5, <3>1, <1>a, NoLoads
  <2> QED BY <2>2, <2>3, <2>4, <2>5, <1>t
<1>19. CASE ProcessAll
  <2> DEFINE l == <<Call("reprocess"), Call("processAll")>>
  <2>1. /\ l \in Seq(Frames) /\ l # <<>> /\ \A i \in DOMAIN l : l[i].call \in {"reprocess", "processAll"}
    BY FrameKinds
  <2>2. todo # <<>> /\ Head(todo).call # "loaded" /\ UNCHANGED <<generated, loaded>> /\ thrown = "none"
    BY <1>19 DEF ProcessAll, Doing, session, engine
  <2>3. \/ UNCHANGED thrown /\ (Then(l) \/ Then(<<>>) \/ UNCHANGED todo)
        \/ Throw("CompilationFailure")
    BY <1>19 DEF ProcessAll
  <2> HIDE DEF l
  <2>4. CASE Then(l) /\ UNCHANGED thrown
    <3>1. Stacks(l, 1)
      BY <2>1, <2>2, <2>4, ListStep
    <3> QED BY <1>0, <2>1, <2>2, <2>4, <3>1, <1>a, NoLoads
  <2> QED BY <1>s, <2>2, <2>3, <2>4, <1>e, <1>t, JoinSame
<1>20. CASE Reprocess
  <2>a. todo # <<>> /\ Head(todo).call = "reprocess" /\ UNCHANGED <<generated, loaded, thrown>>
    BY <1>20 DEF Reprocess, Doing, session, engine
  <2>1. CASE UNCHANGED todo
    BY <2>a, <2>1, <1>s, JoinSame
  <2>2. ASSUME NEW l \in Seq(Frames), Stacks(l, 0), l # <<>>,
               \A i \in DOMAIN l :
                 l[i] \in {CallOn("clear", generated), CallOn("unresolved", Head(incomplete))}
        PROVE  JoinInv'
    <3>1. \A i \in DOMAIN l : l[i].call \in {"clear", "unresolved"}
      BY <2>2 DEF CallOn
    <3> QED BY <1>0, <2>a, <2>2, <3>1, <1>a, NoLoads
  <2>3. CASE Stacks(<<>>, 1)
    <3>1. <<>> \in Seq(Frames) /\ DOMAIN <<>> = {}
      OBVIOUS
    <3> QED BY <1>0, <1>s, <2>a, <2>3, <3>1, JoinLight
  <2>4. ASSUME NEW l \in Seq(Frames), \E i \in DOMAIN l : l[i] = CallOn("unresolved", Head(incomplete))
        PROVE  l # <<>>
    BY <2>4
  <2> QED BY <1>20, <2>1, <2>2, <2>3, <2>4, ReprocessStep
<1>21. CASE CompileFunction
  <2>a. todo # <<>> /\ Head(todo).call = "compileFunctions" /\ UNCHANGED <<generated, loaded>> /\ thrown = "none"
    BY <1>21 DEF CompileFunction, Doing, session, engine
  <2>1. ASSUME NEW l \in Seq(Frames), Stacks(l, 0), \A i \in DOMAIN l : l[i].call = "import",
               UNCHANGED thrown
        PROVE  JoinInv'
    <3>1. CASE l # <<>>
      BY <1>0, <1>s, <2>a, <2>1, <3>1, JoinLight
    <3>2. CASE l = <<>>
      <4>1. todo' = todo
        <5>1. todo' \in Seq(Frames) /\ Len(todo') = Len(todo)
              /\ \A i \in DOMAIN todo' : todo'[i] = todo[i]
          <6>1. todo' \in Seq(Frames) /\ Len(todo') = 0 + Len(todo) - 0
                /\ \A i \in DOMAIN todo' : todo'[i] = IF i <= 0 THEN l[i] ELSE todo[i - 0 + 0]
            BY <2>1, <3>2 DEF Stacks
          <6> QED BY <6>1, <1>0
        <5> QED BY <5>1, <1>0, SeqEqual
      <4> QED BY <1>s, <2>a, <2>1, <4>1, JoinSame
    <3> QED BY <3>1, <3>2
  <2>2. CASE Throw("CompilationFailure")
    BY <2>2, <2>a, <1>t
  <2>3. CASE /\ Stacks(<<CallOn("clear", generated), Call("failTemplate")>>, 1)
             /\ <<CallOn("clear", generated), Call("failTemplate")>> \in Seq(Frames)
             /\ UNCHANGED thrown
    <3> DEFINE l == <<CallOn("clear", generated), Call("failTemplate")>>
    <3>1. \A i \in DOMAIN l : l[i].call \in {"clear", "failTemplate"}
      BY DEF Call, CallOn
    <3>2. l \in Seq(Frames) /\ Stacks(l, 1) /\ UNCHANGED thrown /\ l # <<>>
      BY <2>3
    <3> HIDE DEF l
    <3> QED BY <1>0, <2>a, <3>1, <3>2, <1>a, NoLoads
  <2> QED BY <1>21, <2>1, <2>2, <2>3, CompileFunctionStep
<1>22. CASE FailTemplate
  BY <1>22, <1>t DEF FailTemplate, Doing, session, engine
<1>24. CASE Run
  <2>a. /\ todo # <<>> /\ Head(todo).call = "run" /\ UNCHANGED <<generated, loaded>> /\ thrown = "none"
        /\ On \in Seq(Modules)
    BY <1>24, OnType DEF Run, Doing, session, engine
  <2>2. CASE On # <<>> /\ Then(<<CallOn("run", Tail(On))>>) /\ UNCHANGED thrown
    <3> DEFINE l == <<CallOn("run", Tail(On))>>
    <3>1. CallOn("run", Tail(On)) \in Frames /\ CallOn("run", Tail(On)).call = "run"
      <4>1. Tail(On) \in Seq(Modules)
        BY <2>a, <2>2
      <4> QED BY <4>1, FrameKinds DEF CallOn
    <3>2. Then(l)
      BY <2>2
    <3>3. l \in Seq(Frames) /\ l # <<>> /\ \A i \in DOMAIN l : l[i].call = "run"
      <4> DEFINE f == CallOn("run", Tail(On))
      <4>1. f \in Frames /\ f.call = "run" /\ l = <<f>>
        BY <3>1
      <4> HIDE DEF f, l
      <4>2. Len(l) = 1 /\ l[1] = f /\ l \in Seq(Frames) /\ DOMAIN l = {1}
        BY <4>1
      <4> QED BY <4>1, <4>2
    <3> HIDE DEF l
    <3>4. Stacks(l, 1)
      BY <2>a, <3>2, <3>3, ListStep
    <3>5. \A i \in DOMAIN l : /\ Loads(source, l[i]) = {}
                              /\ l[i].call \notin {"loaded", "endCompile", "load"}
      BY <3>3, NoLoads
    <3> QED BY <1>0, <2>a, <2>2, <3>3, <3>4, <3>5, <1>a
  <2>3. ASSUME NEW what, Throw(what) PROVE JoinInv'
    BY <2>3, <2>a, <1>t
  <2>4. CASE Then(<<>>) /\ UNCHANGED thrown
    BY <2>4, <2>a, <1>e
  <2> QED BY <1>24, <2>2, <2>3, <2>4 DEF Run
<1>25. CASE Handle
  BY <1>25, <1>s, JoinSame DEF Handle, Handles, engine
<1>26. CASE Leave
  <2>1. /\ todo # <<>> /\ todo' = Tail(todo) /\ UNCHANGED <<generated, loaded, thrown>> /\ thrown # "none"
    BY <1>26 DEF Leave, Unwinding, engine
  <2>2. Head(todo).call = "loaded" => thrown \notin {"none", "CompilationFailure"}
    BY <2>1 DEF StackInv, Raised, Outer
  <2> QED BY <1>s, <2>1, <2>2, JoinPop
<1>27. CASE Escape
  <2>1. todo = <<>> /\ todo' = todo /\ UNCHANGED <<generated, loaded>>
    BY <1>27 DEF Escape, session, engine
  <2>2. Chained' /\ Joined' /\ Fresh'
    BY <2>1 DEF Chained, Joined, Fresh
  <2> QED BY <2>1, <2>2 DEF JoinInv, JoinsOnce, IsInjective
<1>28. CASE UNCHANGED vars
  BY <1>28, <1>s, JoinSame DEF vars, session, engine
<1>29. QED
  BY <1>1, <1>2, <1>3, <1>4, <1>5, <1>6, <1>7, <1>8, <1>9, <1>10, <1>11, <1>12, <1>13, <1>14,
     <1>15, <1>16, <1>17, <1>18, <1>19, <1>20, <1>21, <1>22, <1>24, <1>25, <1>26, <1>27, <1>28
     DEF Next, Step

-----------------------------------------------------------------------------
(* The modules that were destroyed, and the table of scripts *)

LEMMA ListStays ==
  ASSUME TypeOK, [Next]_vars, todo = <<>>
  PROVE  \/ todo' = <<>>
         \/ /\ \E f \in Frames : todo' = <<f>> /\ f.call \in {"compile", "load"}
            /\ UNCHANGED <<engine, session, thrown>>
<1>1. ASSUME NEW s \in Scripts, Compile(s)
      PROVE  /\ \E f \in Frames : todo' = <<f>> /\ f.call \in {"compile", "load"}
             /\ UNCHANGED <<engine, session, thrown>>
  BY <1>1, FrameKinds DEF Compile, CallOn
<1>2. ASSUME NEW m \in Modules, LoadModule(m)
      PROVE  /\ \E f \in Frames : todo' = <<f>> /\ f.call \in {"compile", "load"}
             /\ UNCHANGED <<engine, session, thrown>>
  BY <1>2, FrameKinds DEF LoadModule, CallOn
<1>3. ASSUME NEW s \in Scripts, NewScript(s) PROVE todo' = <<>>
  BY <1>3 DEF NewScript
<1>4. CASE Step \/ UNCHANGED vars
  BY <1>4 DEF vars, Step, Escape, StartSession, EndCompile, Clear, DestroyScript, DestroyNamespace, Add, Declare,
       Unresolved, Import, Load, Added, EndAdd, Loaded, RunModule, Finalize, ProcessAll, Reprocess,
       CompileFunction, FailTemplate, EndFunctions, Run, Handle, Leave, Doing, Unwinding
<1>5. QED BY <1>1, <1>2, <1>3, <1>4 DEF Next

\* Most steps begin when a call is in progress.
LEMMA Progress ==
  ASSUME [Next]_vars, todo # <<>>
  PROVE  Step \/ UNCHANGED vars
BY DEF Next, NewScript, Compile, LoadModule, Idle

\* What becomes of the session, and of the modules that are loaded.
LEMMA Grows ==
  ASSUME TypeOK, [Next]_vars
  PROVE  /\ loaded \subseteq loaded'
         /\ \/ UNCHANGED generated
            \/ StartSession /\ generated' = <<>>
            \/ Load /\ Active /\ generated' = Append(generated, On)
         /\ UNCHANGED destroyed \/ (DestroyScript /\ destroyed' = destroyed \cup {On})
         /\ UNCHANGED id \/ \E s \in Scripts : NewScript(s)
         /\ UNCHANGED scripts \/ DestroyScript \/ \E s \in Scripts : NewScript(s)
<1>1. ASSUME NEW s \in Scripts, NewScript(s) \/ Compile(s)
      PROVE  UNCHANGED <<loaded, generated, destroyed>> /\ (UNCHANGED <<id, scripts>> \/ NewScript(s))
  BY <1>1 DEF NewScript, Compile, session, engine
<1>2. ASSUME NEW m \in Modules, LoadModule(m) PROVE UNCHANGED <<loaded, generated, destroyed, id, scripts>>
  BY <1>2 DEF LoadModule, session, engine
<1>3. CASE StartSession \/ Load \/ DestroyScript \/ Loaded
  BY <1>3 DEF StartSession, Load, DestroyScript, Loaded, session, engine
<1>4. CASE EndCompile \/ Clear \/ DestroyNamespace \/ Add \/ Declare \/ Unresolved \/ Import \/ Added
           \/ EndAdd \/ RunModule \/ Finalize \/ ProcessAll
  BY <1>4 DEF EndCompile, Clear, DestroyNamespace, Add, Declare, Unresolved, Import, Added, EndAdd,
       RunModule, Finalize, ProcessAll, session, engine
<1>5. CASE Reprocess \/ CompileFunction \/ FailTemplate \/ EndFunctions \/ Run \/ Handle \/ Leave
           \/ Escape \/ UNCHANGED vars
  BY <1>5 DEF Reprocess, CompileFunction, FailTemplate, EndFunctions, Run, Handle, Leave, Escape, vars,
       session, engine
<1>6. QED BY <1>1, <1>2, <1>3, <1>4, <1>5 DEF Next, Step

\* Which exceptions there are.
LEMMA Throws ==
  ASSUME TypeOK, [Next]_vars
  PROVE  \/ thrown' \in {"none", "CompilationFailure"}
         \/ /\ thrown' = thrown /\ thrown # "none"
            /\ Leave \/ UNCHANGED todo
         \/ todo # <<>> /\ Head(todo).call \in Fatal /\ todo' = Tail(todo)
<1>1. ASSUME NEW s \in Scripts, NewScript(s) \/ Compile(s) PROVE thrown' = "none"
  BY <1>1 DEF NewScript, Compile, Idle
<1>2. ASSUME NEW m \in Modules, LoadModule(m) PROVE thrown' = "none"
  BY <1>2 DEF LoadModule, Idle
<1>3. CASE StartSession \/ EndCompile \/ Clear \/ DestroyScript \/ DestroyNamespace \/ Add \/ Import
           \/ Load \/ Added \/ EndAdd \/ Loaded \/ Finalize \/ Reprocess
  BY <1>3 DEF StartSession, EndCompile, Clear, DestroyScript, DestroyNamespace, Add, Import, Load, Added,
       EndAdd, Loaded, Finalize, Reprocess, Doing
<1>4. CASE Declare \/ Unresolved \/ ProcessAll \/ CompileFunction \/ EndFunctions
  BY <1>4 DEF Declare, Unresolved, ProcessAll, CompileFunction, EndFunctions, Doing, Throw
<1>5. CASE RunModule \/ FailTemplate \/ Run
  BY <1>5 DEF RunModule, FailTemplate, Run, Doing, Throw, Fatal
<1>6. CASE Handle \/ Leave \/ Escape \/ UNCHANGED vars
  BY <1>6 DEF Handle, Leave, Escape, vars, Unwinding
<1>7. QED BY <1>1, <1>2, <1>3, <1>4, <1>5, <1>6 DEF Next, Step

LEMMA DoomedStep ==
  ASSUME TypeOK, StackInv, Doomed, [Next]_vars
  PROVE  Doomed'
<1>1. ASSUME NEW l \in Seq(Frames), NEW d \in {0, 1}, todo # <<>>, Stacks(l, d),
             \A n \in DOMAIN l : Comes(l[n])
      PROVE  Doomed'
  <2>0. /\ 1 \in DOMAIN todo /\ Head(todo) = todo[1] /\ On = todo[1].on
        /\ \A i \in DOMAIN todo' :
             \/ i \in DOMAIN l /\ todo'[i] = l[i]
             \/ i > Len(l) /\ i - Len(l) + d \in DOMAIN todo /\ todo'[i] = todo[i - Len(l) + d]
    BY <1>1, Stacked, OnType DEF TypeOK
  <2>1. CASE StartSession
    <3>1. Head(todo).call = "compile"
      BY <2>1 DEF StartSession, Doing
    <3>2. \A j \in DOMAIN todo : todo[j].call \notin {"clear", "destroyScript"}
      <4> SUFFICES ASSUME NEW j \in DOMAIN todo PROVE todo[j].call \notin {"clear", "destroyScript"}
        OBVIOUS
      <4>1. j = 1 \/ 1 < j
        BY DEF TypeOK
      <4> QED BY <4>1, <3>1, <2>0 DEF StackInv, Nested, Outer
    <3>3. \A i \in DOMAIN l : l[i].call \notin {"clear", "destroyScript"}
      BY <1>1, <2>1, <3>1 DEF Comes
    <3>4. \A i \in DOMAIN todo' : todo'[i].call \notin {"clear", "destroyScript"}
      BY <2>0, <3>2, <3>3
    <3> QED BY <3>4 DEF Doomed
  <2>2. CASE ~StartSession
    <3>1. ToSet(generated) \subseteq ToSet(generated')
      <4>1. Load => On \in Modules
        BY <1>1, OnType DEF Load, Doing
      <4>2. generated \in Seq(Modules)
        BY DEF TypeOK
      <4> QED BY <2>2, <4>1, <4>2, Grows, Appended
    <3>2. Head(todo).call = "clear" => ToSet(On) \subseteq ToSet(generated)
      BY <2>0 DEF Doomed
    <3>3. \A n \in DOMAIN l :
            /\ l[n].call = "clear" => ToSet(l[n].on) \subseteq ToSet(generated)
            /\ l[n].call = "destroyScript" => l[n].on \in ToSet(generated)
      BY <1>1, <3>2 DEF Comes
    <3>4. ASSUME NEW i \in DOMAIN todo'
          PROVE  /\ todo'[i].call = "clear" => ToSet(todo'[i].on) \subseteq ToSet(generated)
                 /\ todo'[i].call = "destroyScript" => todo'[i].on \in ToSet(generated)
      BY <2>0, <3>3, <3>4 DEF Doomed
    <3> QED BY <3>1, <3>4 DEF Doomed
  <2> QED BY <2>1, <2>2
<1>2. CASE todo = <<>>
  <2>1. \A i \in DOMAIN todo' : todo'[i].call \in {"compile", "load"}
    BY <1>2, ListStays
  <2> QED BY <2>1 DEF Doomed
<1>3. CASE UNCHANGED vars
  BY <1>3 DEF vars, session, Doomed
<1>4. QED BY <1>1, <1>2, <1>3, Progress, NewCalls

\* A call of a module is not that of a module that is being loaded in the session.
LEMMA NotLoading ==
  ASSUME TypeOK, source \in Programs, StackInv, JoinInv, todo # <<>>, Head(todo).call = "load",
         NEW i \in DOMAIN todo, Loading(i)
  PROVE  todo[i].on # On
<1>1. 1 \in DOMAIN todo /\ Head(todo) = todo[1] /\ On = todo[1].on /\ DOMAIN todo = 1 .. Len(todo)
      /\ Len(todo) \in Nat
  BY OnType DEF TypeOK
<1>2. PICK k \in DOMAIN todo : i < k /\ todo[k].call = "endCompile"
  BY DEF Loading
<1>3. todo[i].call = "loaded" /\ i # 1 /\ 1 < i
  BY <1>1 DEF Loading
<1>4. Loads(source, todo[1]) \subseteq Under(source, todo[i].on)
  BY <1>1, <1>2, <1>3 DEF JoinInv, Chained
<1>5. Loads(source, todo[1]) = {On}
  BY <1>1 DEF Loads
<1>6. On \notin Under(source, On)
  BY UnderFacts
<1>7. QED BY <1>4, <1>5, <1>6

\* A module joins a session only if it was never destroyed.
LEMMA LoadsNew ==
  ASSUME TypeOK, source \in Programs, StackInv, JoinInv, Gone, Load
  PROVE  On \notin destroyed
<1>1. todo # <<>> /\ Head(todo).call = "load"
  BY DEF Load, Doing
<1>2. On \notin loaded
  BY <1>1 DEF JoinInv, Fresh
<1>3. QED BY <1>1, <1>2, NotLoading DEF Gone

\* The call that goes on with the session is under each call that destroys a script.
LEMMA Destroying ==
  ASSUME TypeOK, StackInv, Doomed, DestroyScript
  PROVE  /\ On \in Modules /\ On \in ToSet(generated)
         /\ \E k \in DOMAIN todo : k > 1 /\ todo[k].call \in Session
<1>1. /\ todo # <<>> /\ Head(todo).call = "destroyScript"
      /\ 1 \in DOMAIN todo /\ Head(todo) = todo[1] /\ On = todo[1].on /\ On \in Modules
  BY OnType DEF DestroyScript, Doing
<1>2. "destroyScript" \notin Outer \cup Session \cup {"compile", "load"}
  BY DEF Outer, Session
<1>3. QED BY <1>1, <1>2 DEF Doomed, StackInv, Based

\* How the vector of scripts changes.
LEMMA Trims ==
  ASSUME TypeOK, DestroyScript, id[On] \in DOMAIN scripts
  PROVE  /\ scripts' \in Seq(Scripts \cup {Null}) /\ Len(scripts') \in Nat
         /\ \A i \in DOMAIN scripts' :
              i \in DOMAIN scripts /\ scripts'[i] = IF i = id[On] THEN Null ELSE scripts[i]
         /\ \A i \in DOMAIN scripts :
              i # id[On] /\ scripts[i] # Null => i \in DOMAIN scripts' /\ scripts'[i] = scripts[i]
         /\ scripts' # <<>> => Last(scripts') # Null
<1> DEFINE list == [scripts EXCEPT ![id[On]] = Null]
<1>0. scripts \in Seq(Scripts \cup {Null})
  BY DEF TypeOK
<1>1. /\ list \in Seq(Scripts \cup {Null}) /\ Len(list) = Len(scripts) /\ Len(scripts) \in Nat
      /\ \A i \in DOMAIN scripts : list[i] = IF i = id[On] THEN Null ELSE scripts[i]
  BY <1>0, ExceptSeq
<1>2. PICK n \in {m \in 0 .. Len(list) :
                     /\ m > 0 => list[m] # Null
                     /\ \A i \in m + 1 .. Len(list) : list[i] = Null} : scripts' = SubSeq(list, 1, n)
  BY DEF DestroyScript, Trimmed
<1> HIDE DEF list
<1>3. /\ scripts' \in Seq(Scripts \cup {Null}) /\ Len(scripts') = n
      /\ \A i \in 1 .. n : scripts'[i] = list[i]
  BY <1>1, <1>2, SubSeqProperties
<1>4. /\ DOMAIN scripts' = 1 .. n /\ DOMAIN scripts = 1 .. Len(scripts) /\ n \in Nat /\ n <= Len(scripts)
  BY <1>0, <1>1, <1>2, <1>3
<1>5. ASSUME NEW i \in DOMAIN scripts, i # id[On], scripts[i] # Null PROVE i <= n
  BY <1>1, <1>2, <1>4, <1>5
<1>6. scripts' # <<>> => Last(scripts') # Null
  BY <1>2, <1>3 DEF Last
<1>7. QED BY <1>1, <1>3, <1>4, <1>5, <1>6

LEMMA PlacedStep ==
  ASSUME TypeOK, source \in Programs, StackInv, TableIsRight, Numbered, JoinInv, GoneInv, [Next]_vars
  PROVE  Placed'
<1> SUFFICES ASSUME NEW k \in DOMAIN todo', todo'[k].call \in Session, NEW m \in ToSet(generated'),
                    id'[m] \in DOMAIN scripts'
             PROVE  scripts'[id'[m]] \in {m, Null}
  BY DEF Placed
<1>1. todo # <<>>
  <2>1. {"compile", "load"} \cap Session = {}
    BY DEF Session
  <2> QED BY <2>1, ListStays
<1>2. CASE UNCHANGED vars
  BY <1>2 DEF vars, engine, session, GoneInv, Placed
<1>3. CASE Step
  <2>1. PICK l \in Seq(Frames), d \in {0, 1} : Stacks(l, d) /\ \A n \in DOMAIN l : Comes(l[n])
    BY <1>1, <1>3, NewCalls
  <2>2. /\ \/ k \in DOMAIN l /\ todo'[k] = l[k]
           \/ k - Len(l) + d \in DOMAIN todo /\ todo'[k] = todo[k - Len(l) + d]
        /\ 1 \in DOMAIN todo /\ Head(todo) = todo[1] /\ On = todo[1].on
    <3>1. /\ todo \in Seq(Frames)
          /\ \/ k \in DOMAIN l /\ todo'[k] = l[k]
             \/ k > Len(l) /\ k - Len(l) + d \in DOMAIN todo /\ todo'[k] = todo[k - Len(l) + d]
      BY <1>1, <2>1, Stacked DEF TypeOK
    <3> QED BY <1>1, <3>1, OnType
  <2>3. StartSession \/ \E j \in DOMAIN todo : todo[j].call \in Session
    <3>1. CASE k \in DOMAIN l /\ todo'[k] = l[k]
      <4>1. EndCompile => todo[1].call \in Session
        BY <2>2 DEF EndCompile, Doing, Session
      <4> QED BY <2>1, <2>2, <3>1, <4>1 DEF Comes, Session
    <3> QED BY <2>2, <3>1
  <2>4. CASE StartSession
    <3>1. generated' = <<>>
      BY <2>4 DEF StartSession
    <3> QED BY <3>1 DEF ToSet
  <2>5. CASE ~StartSession
    <3>1. \A x \in ToSet(generated) : id[x] \in DOMAIN scripts => scripts[id[x]] \in {x, Null}
      BY <2>3, <2>5 DEF GoneInv, Placed
    <3>2. id' = id
      BY <1>1, <1>3, Grows DEF NewScript, Idle
    <3>3. m \in ToSet(generated) \/ (Load /\ m = On)
      <4>1. CASE generated' = Append(generated, On) /\ Load
        <5>1. generated \in Seq(Modules) /\ On \in Modules
          BY <4>1, <1>1, OnType DEF TypeOK, Load, Doing
        <5> QED BY <5>1, <4>1, AppendProperties DEF ToSet
      <4>2. CASE generated' = generated
        BY <4>2
      <4> QED BY <4>1, <4>2, <2>5, Grows
    <3>4. CASE Load /\ m = On
      <4>1. On \in Modules /\ On \in Scripts /\ UNCHANGED <<id, scripts>>
        BY <3>4, <1>1, OnType, Modular DEF Load, Doing, engine
      <4>2. On \notin destroyed
        BY <3>4, LoadsNew DEF GoneInv
      <4>3. IsAtItsId(On)
        BY <4>1, <4>2 DEF Numbered, TableIsRight
      <4> QED BY <3>4, <4>1, <4>3 DEF IsAtItsId
    <3>5. CASE m \in ToSet(generated)
      <4>1. CASE UNCHANGED scripts
        BY <3>1, <3>2, <3>5, <4>1
      <4>2. CASE DestroyScript
        <5>1. id[On] \in DOMAIN scripts \/ UNCHANGED scripts
          BY <4>2 DEF DestroyScript
        <5> QED BY <3>1, <3>2, <3>5, <4>1, <4>2, <5>1, Trims
      <4> QED BY <1>1, <1>3, <4>1, <4>2, Grows DEF NewScript, Idle
    <3> QED BY <3>3, <3>4, <3>5
  <2> QED BY <2>4, <2>5
<1>4. QED BY <1>1, <1>2, <1>3, Progress

\* The load of a module goes on until it is loaded: no exception leaves it.
LEMMA LoadingStep ==
  ASSUME TypeOK, StackInv, Spared, [Next]_vars, NEW i \in DOMAIN todo, Loading(i)
  PROVE  \/ todo[i].on \in loaded'
         \/ \E j \in DOMAIN todo' : Loading(j)' /\ todo'[j] = todo[i]
<1>0. todo # <<>> /\ todo \in Seq(Frames) /\ 1 \in DOMAIN todo /\ Head(todo) = todo[1] /\ On = todo[1].on
      /\ DOMAIN todo = 1 .. Len(todo) /\ Len(todo) \in Nat
  <2>1. todo \in Seq(Frames) /\ todo # <<>>
    BY DEF TypeOK
  <2>2. DOMAIN todo = 1 .. Len(todo) /\ Len(todo) \in Nat
    BY <2>1
  <2> QED BY <2>1, <2>2, OnType
<1>1. PICK k \in DOMAIN todo : i < k /\ todo[k].call = "endCompile"
  BY DEF Loading
<1>2. todo[i].call = "loaded"
  BY DEF Loading
<1>3. CASE UNCHANGED todo
  BY <1>1, <1>2, <1>3 DEF Loading
<1>4. CASE Step /\ (i > 1 \/ Head(todo).call # "loaded")
  <2>1. PICK l \in Seq(Frames), d \in {0, 1} : Stacks(l, d) /\ \A n \in DOMAIN l : Comes(l[n])
    BY <1>0, <1>4, NewCalls
  <2>2. /\ Len(l) \in Nat
        /\ \A j \in DOMAIN todo : j > d => j + Len(l) - d \in DOMAIN todo' /\ todo'[j + Len(l) - d] = todo[j]
    BY <1>0, <2>1, Stacked
  <2>3. i > d /\ k > d
    BY <1>0, <1>1, <1>2, <1>4
  <2>4. i + Len(l) - d < k + Len(l) - d
    BY <1>0, <1>1, <2>2
  <2>5. Loading(i + Len(l) - d)'
    BY <1>1, <1>2, <2>2, <2>3, <2>4 DEF Loading
  <2> QED BY <2>2, <2>3, <2>5
<1>5. CASE Step /\ i = 1
  <2>1. Loaded \/ Unwinding
    BY <1>0, <1>2, <1>5 DEF Step, StartSession, EndCompile, Clear, DestroyScript, DestroyNamespace, Add,
         Declare, Unresolved, Import, Load, Added, EndAdd, RunModule, Finalize, ProcessAll, Reprocess,
         CompileFunction, FailTemplate, EndFunctions, Run, Handle, Leave, Escape, Doing
  <2>2. CASE Loaded
    BY <2>2, <1>0, <1>5 DEF Loaded
  <2>3. CASE Unwinding
    <3>1. thrown = "CompilationFailure"
      BY <2>3 DEF Spared, Unwinding
    <3> QED BY <1>0, <1>2, <1>5, <2>3, <3>1 DEF StackInv, Raised, Unwinding, Outer
  <2> QED BY <2>1, <2>2, <2>3
<1>6. Step \/ UNCHANGED todo
  BY <1>0, Progress DEF vars
<1>7. QED BY <1>0, <1>3, <1>4, <1>5, <1>6

LEMMA GoneStep ==
  ASSUME TypeOK, StackInv, JoinInv, GoneInv, [Next]_vars
  PROVE  Gone'
<1>1. ASSUME NEW m \in destroyed'
      PROVE  m \in loaded' \/ \E i \in DOMAIN todo' : Loading(i)' /\ todo'[i].on = m
  <2>1. m \in loaded \/ \E i \in DOMAIN todo : Loading(i) /\ todo[i].on = m
    <3>1. CASE m \in destroyed
      BY <3>1 DEF GoneInv, Gone
    <3>2. CASE DestroyScript /\ m = On
      <4>1. On \in ToSet(generated)
        BY <3>2, Destroying DEF GoneInv
      <4>2. PICK k \in DOMAIN todo : k > 1 /\ todo[k].call \in Session
        BY <3>2, Destroying DEF GoneInv
      <4>3. CASE todo[k].call = "destroy"
        BY <3>2, <4>1, <4>3 DEF GoneInv, Gone
      <4>4. CASE todo[k].call = "endCompile"
        <5>1. thrown = "none"
          BY <3>2 DEF DestroyScript, Doing
        <5>2. On \in loaded \/ \E j \in 1 .. k - 1 : todo[j] = CallOn("loaded", On)
          BY <4>1, <4>4, <5>1 DEF JoinInv, Joined
        <5>3. ASSUME NEW j \in 1 .. k - 1, todo[j] = CallOn("loaded", On)
              PROVE  j \in DOMAIN todo /\ Loading(j) /\ todo[j].on = On
          <6>1. DOMAIN todo = 1 .. Len(todo) /\ Len(todo) \in Nat
            BY DEF TypeOK
          <6>2. j \in DOMAIN todo /\ j < k
            BY <6>1
          <6> QED BY <6>2, <4>4, <5>3 DEF Loading, CallOn
        <5> QED BY <3>2, <5>2, <5>3
      <4> QED BY <4>2, <4>3, <4>4 DEF Session
    <3> QED BY <3>1, <3>2, Grows
  <2>2. m \in loaded => m \in loaded'
    BY Grows
  <2> QED BY <2>1, <2>2, LoadingStep DEF GoneInv
<1>2. ASSUME NEW k \in DOMAIN todo', todo'[k].call = "destroy" PROVE ToSet(generated') \subseteq loaded'
  <2>1. todo # <<>>
    BY <1>2, ListStays
  <2>2. CASE UNCHANGED vars
    BY <1>2, <2>2 DEF vars, engine, session, GoneInv, Gone
  <2>3. CASE Step
    <3>1. PICK l \in Seq(Frames), d \in {0, 1} : Stacks(l, d) /\ \A n \in DOMAIN l : Comes(l[n])
      BY <2>1, <2>3, NewCalls
    <3>2. /\ \/ k \in DOMAIN l /\ todo'[k] = l[k]
             \/ k - Len(l) + d \in DOMAIN todo /\ todo'[k] = todo[k - Len(l) + d]
          /\ 1 \in DOMAIN todo /\ Head(todo) = todo[1] /\ On = todo[1].on
      <4>1. /\ todo \in Seq(Frames)
            /\ \/ k \in DOMAIN l /\ todo'[k] = l[k]
               \/ k > Len(l) /\ k - Len(l) + d \in DOMAIN todo /\ todo'[k] = todo[k - Len(l) + d]
        BY <1>2, <2>1, <3>1, Stacked DEF TypeOK
      <4> QED BY <2>1, <4>1, OnType
    <3>3. CASE EndCompile
      <4>1. todo[1].call = "endCompile" /\ thrown = "none" /\ UNCHANGED <<generated, loaded>>
        BY <3>2, <3>3 DEF EndCompile, Doing, engine
      <4>2. ASSUME NEW x \in ToSet(generated) PROVE x \in loaded
        <5>1. x \in loaded \/ \E j \in 1 .. 1 - 1 : todo[j] = CallOn("loaded", x)
          BY <4>1, <4>2, <3>2 DEF JoinInv, Joined
        <5> QED BY <5>1
      <4> QED BY <4>1, <4>2
    <3>4. CASE \E j \in DOMAIN todo : todo[j].call = "destroy"
      <4>1. ToSet(generated) \subseteq loaded
        BY <3>4 DEF GoneInv, Gone
      <4>2. ~Load
        <5>1. PICK j \in DOMAIN todo : todo[j].call = "destroy"
          BY <3>4
        <5>2. j = 1 \/ 1 < j
          BY DEF TypeOK
        <5> QED BY <3>2, <5>1, <5>2 DEF StackInv, Nested, Load, Doing
      <4>3. ToSet(<<>>) = {}
        BY DEF ToSet
      <4> QED BY <4>1, <4>2, <4>3, Grows
    <3> QED BY <1>2, <3>1, <3>2, <3>3, <3>4 DEF Comes
  <2> QED BY <2>1, <2>2, <2>3, Progress
<1>3. QED BY <1>1, <1>2 DEF Gone

LEMMA SparedStep ==
  ASSUME TypeOK, StackInv, Spared, [Next]_vars
  PROVE  Spared'
<1>1. ASSUME thrown' \notin {"none", "CompilationFailure"}, NEW j \in DOMAIN todo', Loading(j)'
      PROVE  FALSE
  <2>1. PICK k \in DOMAIN todo' : j < k /\ todo'[k].call = "endCompile" /\ todo'[j].call = "loaded"
    BY <1>1 DEF Loading
  <2>2. CASE UNCHANGED <<todo, thrown>>
    BY <1>1, <2>1, <2>2 DEF Spared, Loading
  <2>3. CASE todo # <<>> /\ todo' = Tail(todo)
    <3>1. /\ j + 1 \in DOMAIN todo /\ k + 1 \in DOMAIN todo /\ j + 1 < k + 1 /\ 1 < j + 1
          /\ todo[j + 1] = todo'[j] /\ todo[k + 1] = todo'[k] /\ 1 \in DOMAIN todo /\ Head(todo) = todo[1]
      <4>1. todo \in Seq(Frames)
        BY DEF TypeOK
      <4>2. /\ Len(todo) \in Nat /\ DOMAIN todo = 1 .. Len(todo) /\ DOMAIN todo' = 1 .. Len(todo) - 1
            /\ \A q \in 1 .. Len(todo) - 1 : todo'[q] = todo[q + 1]
        BY <2>3, <4>1
      <4>3. j \in 1 .. Len(todo) - 1 /\ k \in 1 .. Len(todo) - 1
        BY <1>1, <2>1, <4>2
      <4> QED BY <2>1, <2>3, <4>2, <4>3, OnType
    <3>2. Loading(j + 1)
      BY <2>1, <3>1 DEF Loading
    <3>3. Head(todo).call \notin Fatal
      BY <3>1, <3>2 DEF Spared
    <3>4. thrown' = thrown
      BY <1>1, <3>3, Throws
    <3> QED BY <1>1, <3>1, <3>2, <3>4 DEF Spared
  <2> QED BY <1>1, <2>2, <2>3, Throws DEF Leave, Unwinding
<1>2. ASSUME NEW i \in DOMAIN todo', NEW j \in DOMAIN todo', i < j, todo'[i].call \in Fatal, Loading(j)'
      PROVE  FALSE
  <2>1. PICK k \in DOMAIN todo' : j < k /\ todo'[k].call = "endCompile" /\ todo'[j].call = "loaded"
    BY <1>2 DEF Loading
  <2>2. CASE UNCHANGED vars
    BY <1>2, <2>1, <2>2 DEF vars, Spared, Loading
  <2>3. todo # <<>>
    <3>1. todo = <<>> => todo' = <<>> \/ \A q \in DOMAIN todo' : todo'[q].call # "endCompile"
      BY ListStays
    <3> QED BY <2>1, <3>1
  <2>4. CASE Step
    <3>1. PICK l \in Seq(Frames), d \in {0, 1} : Stacks(l, d) /\ \A n \in DOMAIN l : Comes(l[n])
      BY <2>3, <2>4, NewCalls
    <3> DEFINE n == Len(l)
               Old(q) == q - n + d
    <3>2. /\ n \in Nat /\ Len(todo) \in Nat /\ DOMAIN todo = 1 .. Len(todo) /\ DOMAIN l = 1 .. n
          /\ DOMAIN todo' = 1 .. Len(todo')
          /\ \A q \in DOMAIN todo' :
               \/ q \in DOMAIN l /\ todo'[q] = l[q]
               \/ q > n /\ Old(q) \in DOMAIN todo /\ todo'[q] = todo[Old(q)]
          /\ 1 \in DOMAIN todo /\ Head(todo) = todo[1]
      <4>1. todo \in Seq(Frames)
        BY DEF TypeOK
      <4>2. /\ Len(todo) \in Nat /\ DOMAIN todo = 1 .. Len(todo)
            /\ 1 \in DOMAIN todo /\ Head(todo) = todo[1]
        BY <2>3, <4>1
      <4>3. n \in Nat /\ DOMAIN l = 1 .. n
        BY <3>1
      <4> QED BY <2>3, <3>1, <4>1, <4>2, <4>3, Stacked
    <3> HIDE DEF n
    <3> DEFINE maker == todo[1].call
    <3>3. k > n /\ Old(k) \in DOMAIN todo /\ todo[Old(k)].call = "endCompile"
      <4>1. CASE k \in DOMAIN l /\ todo'[k] = l[k]
        <5>1. maker = "compile"
          BY <3>1, <3>2, <4>1, <2>1 DEF Comes, StartSession, Doing
        <5>2. j \in DOMAIN l /\ todo'[j] = l[j]
          BY <2>1, <3>2, <4>1
        <5>3. maker = "load"
          BY <3>1, <3>2, <5>2, <2>1 DEF Comes
        <5> QED BY <5>1, <5>3
      <4> QED BY <3>2, <2>1, <4>1
    <3>4. Old(k) > 1 /\ maker \in Inner => Active
      BY <3>2, <3>3 DEF StackInv, Nested
    <3>5. CASE j \in DOMAIN l /\ todo'[j] = l[j]
      <4>1. maker = "load"
        BY <3>1, <3>2, <3>5, <2>1 DEF Comes
      <4>2. Active
        BY <3>2, <3>3, <3>4, <4>1 DEF Inner
      <4>3. i \in DOMAIN l /\ todo'[i] = l[i]
        BY <1>2, <3>2, <3>5
      <4> QED BY <1>2, <3>1, <3>2, <4>1, <4>2, <4>3 DEF Comes, Fatal
    <3>6. CASE j > n /\ Old(j) \in DOMAIN todo /\ todo'[j] = todo[Old(j)]
      <4>1. Old(j) < Old(k) /\ Loading(Old(j))
        <5>1. Old(j) < Old(k)
          BY <2>1, <3>2
        <5> HIDE DEF Old
        <5> QED BY <2>1, <3>3, <3>6, <5>1 DEF Loading
      <4>2. CASE i > n /\ Old(i) \in DOMAIN todo /\ todo'[i] = todo[Old(i)]
        <5>1. Old(i) < Old(j)
          BY <1>2, <3>2
        <5> QED BY <1>2, <3>6, <4>1, <4>2, <5>1 DEF Spared
      <4>3. CASE i \in DOMAIN l /\ todo'[i] = l[i]
        <5>1. CASE maker = "compileFunctions"
          <6>1. /\ 1 < Len(todo) /\ 2 \in 2 .. Len(todo) /\ 2 \in DOMAIN todo
            BY <3>2, <5>1 DEF StackInv, Linked
          <6>2. Follows(todo[2 - 1], todo[2])
            BY <6>1 DEF StackInv, Linked
          <6>3. todo[2].call = "endCompile"
            BY <5>1, <6>2 DEF Follows
          <6>4. Old(j) # 1 /\ Old(j) # 2
            BY <3>6, <4>1, <5>1, <6>3 DEF Loading
          <6>5. Old(k) > 2
            BY <3>2, <3>3, <3>6, <4>1, <6>4
          <6> QED BY <3>2, <3>3, <6>1, <6>3, <6>5 DEF StackInv, Nested, Session, Outer
        <5>2. CASE maker = "run"
          <6>1. Old(j) # 1
            BY <4>1, <5>2 DEF Loading
          <6>2. 1 < Old(j)
            BY <3>2, <3>6, <6>1
          <6> QED BY <3>2, <3>6, <4>1, <5>2, <6>2 DEF Spared, Fatal
        <5>3. CASE maker = "load" /\ ~Active
          <6>1. Old(k) > 1
            BY <3>2, <3>3, <5>3
          <6> QED BY <3>4, <5>3, <6>1 DEF Inner
        <5> QED BY <1>2, <3>1, <3>2, <4>3, <5>1, <5>2, <5>3 DEF Comes, Fatal
      <4> QED BY <3>2, <4>2, <4>3
    <3> QED BY <3>2, <3>5, <3>6
  <2> QED BY <2>2, <2>3, <2>4, Progress
<1>3. QED BY <1>1, <1>2 DEF Spared

LEMMA GoneInvStep ==
  ASSUME TypeOK, source \in Programs, StackInv, TableIsRight, Numbered, JoinInv, GoneInv, [Next]_vars
  PROVE  GoneInv'
BY DoomedStep, PlacedStep, GoneStep, SparedStep DEF GoneInv

LEMMA TableStep ==
  ASSUME TypeOK, StackInv, TableIsRight, GoneInv, [Next]_vars
  PROVE  TableIsRight'
<1>0. scripts \in Seq(Scripts \cup {Null}) /\ id \in [Scripts -> Nat] /\ Null \notin Scripts
  BY ScriptsAssumption DEF TypeOK
<1>1. ASSUME NEW s \in Scripts, NewScript(s) PROVE TableIsRight'
  <2>1. /\ scripts' = Append(scripts, s) /\ id' = [id EXCEPT ![s] = Len(scripts) + 1] /\ id[s] = 0
        /\ destroyed' = destroyed
    BY <1>1 DEF NewScript, NextId
  <2>2. /\ Len(scripts') = Len(scripts) + 1 /\ scripts'[Len(scripts) + 1] = s
        /\ scripts' \in Seq(Scripts \cup {Null}) /\ Len(scripts) \in Nat
        /\ \A n \in 1 .. Len(scripts) : scripts'[n] = scripts[n]
    BY <1>0, <2>1, AppendProperties
  <2>3. ASSUME NEW n \in DOMAIN scripts', scripts'[n] # Null PROVE id'[scripts'[n]] = n
    <3>1. CASE n = Len(scripts) + 1
      BY <3>1, <2>1, <2>2, <1>0
    <3>2. CASE n \in 1 .. Len(scripts)
      <4>1. scripts'[n] = scripts[n] /\ id[scripts[n]] = n /\ scripts[n] \in Scripts
        BY <2>2, <2>3, <3>2, <1>0 DEF TableIsRight
      <4>2. scripts[n] # s
        BY <4>1, <2>1, <3>2
      <4> QED BY <4>1, <4>2, <2>1, <1>0
    <3> QED BY <3>1, <3>2, <2>2
  <2>4. ASSUME NEW x \in Scripts \ destroyed', id'[x] # 0 PROVE IsAtItsId(x)'
    <3>1. CASE x = s
      BY <3>1, <2>1, <2>2, <1>0 DEF IsAtItsId
    <3>2. CASE x # s
      <4>1. id'[x] = id[x]
        BY <3>2, <2>1, <1>0
      <4>2. IsAtItsId(x)
        BY <2>1, <2>4, <4>1 DEF TableIsRight
      <4> QED BY <4>1, <4>2, <2>2, <1>0 DEF IsAtItsId
    <3> QED BY <3>1, <3>2
  <2>5. Last(scripts') # Null
    BY <2>2, <1>0 DEF Last
  <2> QED BY <2>3, <2>4, <2>5 DEF TableIsRight
<1>2. CASE DestroyScript
  <2>0. id' = id /\ destroyed' = destroyed \cup {On} /\ On \in Scripts
    BY <1>2, Destroying, Modular DEF DestroyScript, GoneInv
  <2>1. CASE UNCHANGED scripts
    BY <2>0, <2>1 DEF TableIsRight, IsAtItsId, Last
  <2>2. CASE id[On] \in DOMAIN scripts
    <3>1. /\ \A i \in DOMAIN scripts' :
               i \in DOMAIN scripts /\ scripts'[i] = IF i = id[On] THEN Null ELSE scripts[i]
          /\ \A i \in DOMAIN scripts :
               i # id[On] /\ scripts[i] # Null => i \in DOMAIN scripts' /\ scripts'[i] = scripts[i]
          /\ scripts' # <<>> => Last(scripts') # Null
      BY <1>2, <2>2, Trims
    <3>2. ASSUME NEW i \in DOMAIN scripts', scripts'[i] # Null PROVE id'[scripts'[i]] = i
      BY <2>0, <3>1, <3>2 DEF TableIsRight
    <3>3. ASSUME NEW x \in Scripts \ destroyed', id'[x] # 0 PROVE IsAtItsId(x)'
      <4>1. x # On /\ id[x] \in DOMAIN scripts /\ scripts[id[x]] = x
        BY <2>0, <3>3 DEF TableIsRight, IsAtItsId
      <4>2. scripts[id[On]] \in {On, Null}
        <5>1. On \in ToSet(generated) /\ \E k \in DOMAIN todo : todo[k].call \in Session
          BY <1>2, Destroying DEF GoneInv
        <5> QED BY <5>1, <2>2 DEF GoneInv, Placed
      <4>3. id[x] # id[On]
        BY <4>1, <4>2, <1>0
      <4> QED BY <2>0, <3>1, <4>1, <4>3, <1>0 DEF IsAtItsId
    <3> QED BY <3>1, <3>2, <3>3 DEF TableIsRight
  <2> QED BY <1>2, <2>1, <2>2 DEF DestroyScript
<1>3. CASE UNCHANGED <<id, scripts, destroyed>>
  BY <1>3 DEF TableIsRight, IsAtItsId, Last
<1>4. QED
  BY <1>1, <1>2, <1>3, Grows

-----------------------------------------------------------------------------
(* What a session completes *)

\* The indices of the calls that remain, and of the new ones.
LEMMA Moved ==
  ASSUME todo \in Seq(Frames), todo # <<>>, NEW l \in Seq(Frames), NEW d \in {0, 1}, Stacks(l, d)
  PROVE  /\ DOMAIN todo = 1 .. Len(todo) /\ DOMAIN l = 1 .. Len(l) /\ DOMAIN todo' = 1 .. Len(todo')
         /\ Len(l) \in Nat /\ Len(todo) \in Nat /\ Len(todo') \in Nat
         /\ Head(todo) = todo[1] /\ 1 \in DOMAIN todo
         /\ \A i \in DOMAIN l : i \in DOMAIN todo' /\ todo'[i] = l[i]
         /\ \A i \in DOMAIN todo : i > d =>
              i + Len(l) - d \in DOMAIN todo' /\ todo'[i + Len(l) - d] = todo[i]
         /\ \A i \in DOMAIN todo' :
              \/ i \in DOMAIN l /\ todo'[i] = l[i]
              \/ \E j \in DOMAIN todo : j > d /\ i = j + Len(l) - d /\ todo'[i] = todo[j]
<1>1. /\ Len(l) \in Nat /\ Len(todo) \in Nat /\ Len(todo) >= 1 /\ Len(todo') \in Nat
      /\ DOMAIN todo = 1 .. Len(todo) /\ DOMAIN l = 1 .. Len(l) /\ DOMAIN todo' = 1 .. Len(todo')
      /\ Head(todo) = todo[1]
  BY Stacked
<1>2. \A i \in DOMAIN todo' :
        \/ i \in DOMAIN l /\ todo'[i] = l[i]
        \/ i > Len(l) /\ i - Len(l) + d \in DOMAIN todo /\ todo'[i] = todo[i - Len(l) + d]
  BY Stacked
<1>3. \A i \in DOMAIN l : i \in DOMAIN todo' /\ todo'[i] = l[i]
  BY Stacked
<1>4. \A i \in DOMAIN todo : i > d =>
        i + Len(l) - d \in DOMAIN todo' /\ todo'[i + Len(l) - d] = todo[i]
  BY Stacked
<1>5. ASSUME NEW i \in DOMAIN todo', i \notin DOMAIN l
      PROVE  \E j \in DOMAIN todo : j > d /\ i = j + Len(l) - d /\ todo'[i] = todo[j]
  <2> DEFINE j == i - Len(l) + d
  <2>1. i > Len(l) /\ j \in DOMAIN todo /\ todo'[i] = todo[j]
    BY <1>2, <1>5
  <2>2. j > d /\ i = j + Len(l) - d
    BY <1>1, <2>1
  <2> QED BY <2>1, <2>2
<1>6. QED BY <1>1, <1>3, <1>4, <1>5, <1>2

LEMMA CleanBefore ==
  ASSUME todo \in Seq(Frames), todo # <<>>, NEW l \in Seq(Frames), NEW d \in {0, 1}, Stacks(l, d),
         thrown' = "none" => thrown = "none",  error => error',
         Head(todo).call = "failTemplate" => thrown' # "none", Clean'
  PROVE  Clean
<1>1. thrown = "none" /\ ~error
  BY DEF Clean
<1>2. ASSUME NEW i \in DOMAIN todo, todo[i].call = "failTemplate" PROVE FALSE
  <2>1. i > 1
    BY <1>2, Moved DEF Clean
  <2>2. i > d
    BY <2>1
  <2>3. i + Len(l) - d \in DOMAIN todo' /\ todo'[i + Len(l) - d] = todo[i]
    BY <2>2, Moved
  <2> QED BY <1>2, <2>3 DEF Clean
<1>3. QED BY <1>1, <1>2 DEF Clean

LEMMA SettledLight ==
  ASSUME TypeOK, Settled, todo # <<>>,
         NEW l \in Seq(Frames), NEW d \in {0, 1}, Stacks(l, d), Clean' => Clean,
         \A i \in DOMAIN l : l[i].call # "compileFunctions",
         \A i \in DOMAIN l : l[i].call \in Unsettled =>
           \/ Head(todo).call \in Unsettled
           \/ \E j \in DOMAIN l : i < j /\ l[j].call \in Settles,
         Clean' /\ Head(todo).call \in Settles /\ d = 1 =>
           \/ \E j \in DOMAIN l : l[j].call \in Settles
           \/ incomplete' = <<>> /\ collected' = <<>>
           \/ \A k \in DOMAIN todo : todo[k].call # "compileFunctions",
         Clean' /\ (incomplete' # <<>> \/ collected' # <<>>) =>
           incomplete # <<>> \/ collected # <<>> \/ Head(todo).call \in Unsettled
  PROVE  Settled'
<1> DEFINE n == Len(l)
<1>t. todo \in Seq(Frames)
  BY DEF TypeOK
<1>1. /\ DOMAIN todo = 1 .. Len(todo) /\ DOMAIN l = 1 .. n /\ DOMAIN todo' = 1 .. Len(todo')
      /\ n \in Nat /\ Len(todo) \in Nat /\ Len(todo') \in Nat /\ Head(todo) = todo[1] /\ 1 \in DOMAIN todo
  BY <1>t, Moved
<1>2. \A i \in DOMAIN l : i \in DOMAIN todo' /\ todo'[i] = l[i]
  BY <1>t, Moved
<1>3. \A i \in DOMAIN todo : i > d => i + n - d \in DOMAIN todo' /\ todo'[i + n - d] = todo[i]
  BY <1>t, Moved
<1>4. \A i \in DOMAIN todo' :
        \/ i \in DOMAIN l /\ todo'[i] = l[i]
        \/ \E j \in DOMAIN todo : j > d /\ i = j + n - d /\ todo'[i] = todo[j]
  BY <1>t, Moved
<1> HIDE DEF n
<1> SUFFICES ASSUME NEW k \in DOMAIN todo', todo'[k].call = "compileFunctions"
             PROVE  /\ \A i \in 1 .. k - 1 : todo'[i].call \in Unsettled =>
                         \E j \in i + 1 .. k - 1 : todo'[j].call \in Settles
                    /\ Clean' /\ (incomplete' # <<>> \/ collected' # <<>>) =>
                         \E j \in 1 .. k - 1 : todo'[j].call \in Settles
  BY DEF Settled
<1>5. PICK kk \in DOMAIN todo : kk > d /\ k = kk + n - d /\ todo[kk].call = "compileFunctions"
  BY <1>4
\* What the innermost call, when it is not settled, is followed by.
<1>6. ASSUME Head(todo).call \in Unsettled
      PROVE  \E j \in DOMAIN todo : 1 < j /\ j < kk /\ todo[j].call \in Settles
  <2>1. kk # 1 /\ 1 \in 1 .. kk - 1
    BY <1>1, <1>5, <1>6 DEF Unsettled
  <2>2. PICK j \in 1 + 1 .. kk - 1 : todo[j].call \in Settles
    BY <1>1, <1>5, <1>6, <2>1 DEF Settled
  <2> QED BY <2>2, <1>1, <1>5
<1>7. ASSUME NEW j \in DOMAIN todo, 1 < j, j < kk
      PROVE  j + n - d \in DOMAIN todo' /\ n < j + n - d /\ j + n - d \in 1 .. k - 1
             /\ todo'[j + n - d] = todo[j]
  BY <1>1, <1>3, <1>5, <1>7
<1>8. ASSUME NEW i \in 1 .. k - 1, todo'[i].call \in Unsettled
      PROVE  \E j \in i + 1 .. k - 1 : todo'[j].call \in Settles
  <2>1. i \in DOMAIN todo'
    BY <1>1
  <2>2. CASE i \in DOMAIN l /\ todo'[i] = l[i]
    <3>1. CASE Head(todo).call \in Unsettled
      <4>1. PICK j \in DOMAIN todo : 1 < j /\ j < kk /\ todo[j].call \in Settles
        BY <3>1, <1>6
      <4>2. j + n - d \in i + 1 .. k - 1 /\ todo'[j + n - d] = todo[j]
        BY <4>1, <1>7, <2>2, <1>1
      <4> QED BY <4>1, <4>2
    <3>2. ASSUME NEW j \in DOMAIN l, i < j, l[j].call \in Settles
          PROVE  \E m \in i + 1 .. k - 1 : todo'[m].call \in Settles
      <4>1. j \in i + 1 .. k - 1
        BY <3>2, <2>2, <1>1, <1>5
      <4> QED BY <4>1, <3>2, <1>2
    <3> QED BY <3>1, <3>2, <2>2, <1>8
  <2>3. ASSUME NEW ii \in DOMAIN todo, ii > d, i = ii + n - d, todo'[i] = todo[ii]
        PROVE  \E j \in i + 1 .. k - 1 : todo'[j].call \in Settles
    <3>1. ii \in 1 .. kk - 1
      BY <2>3, <1>1, <1>5
    <3>2. PICK j \in ii + 1 .. kk - 1 : todo[j].call \in Settles
      BY <3>1, <2>3, <1>5, <1>8 DEF Settled
    <3>3. j \in DOMAIN todo /\ 1 < j /\ j < kk
      BY <3>2, <1>1, <1>5
    <3>4. j + n - d \in i + 1 .. k - 1 /\ todo'[j + n - d] = todo[j]
      BY <3>2, <3>3, <1>7, <2>3, <1>1, SMTT(60)
    <3> QED BY <3>2, <3>4
  <2> QED BY <2>1, <2>2, <2>3, <1>4
<1>9. ASSUME Clean', incomplete' # <<>> \/ collected' # <<>>
      PROVE  \E j \in 1 .. k - 1 : todo'[j].call \in Settles
  <2>1. CASE Head(todo).call \in Unsettled
    <3>1. PICK j \in DOMAIN todo : 1 < j /\ j < kk /\ todo[j].call \in Settles
      BY <2>1, <1>6
    <3> QED BY <3>1, <1>7
  <2>2. CASE incomplete # <<>> \/ collected # <<>>
    <3>1. PICK j \in 1 .. kk - 1 : todo[j].call \in Settles
      BY <2>2, <1>5, <1>9 DEF Settled
    <3>2. CASE j > 1
      <4>1. j \in DOMAIN todo /\ 1 < j /\ j < kk
        BY <3>1, <3>2, <1>1, <1>5
      <4> QED BY <3>1, <4>1, <1>7
    <3>3. CASE j = 1 /\ d = 0
      <4>1. 1 + n - 0 \in DOMAIN todo' /\ todo'[1 + n - 0] = todo[1] /\ 1 + n - 0 \in 1 .. k - 1
        BY <3>1, <3>3, <1>1, <1>3, <1>5
      <4> QED BY <3>1, <3>3, <4>1
    <3>4. CASE j = 1 /\ d = 1
      <4>1. PICK m \in DOMAIN l : l[m].call \in Settles
        BY <3>1, <3>4, <1>1, <1>5, <1>9
      <4>2. m \in 1 .. k - 1 /\ todo'[m] = l[m]
        BY <4>1, <1>1, <1>2, <1>5
      <4> QED BY <4>1, <4>2
    <3> QED BY <3>1, <3>2, <3>3, <3>4
  <2> QED BY <2>1, <2>2, <1>9
<1>10. QED BY <1>8, <1>9

LEMMA EmptiedLight ==
  ASSUME TypeOK, Emptied, todo # <<>>,
         NEW l \in Seq(Frames), NEW d \in {0, 1}, Stacks(l, d), Clean' => Clean,
         \A i \in DOMAIN l : l[i].call # "endCompile",
         Clean' =>
           \/ Head(todo).call \notin {"run", "endCompile", "finalize", "compileFunctions"}
           \/ Head(todo).call = "compileFunctions" /\ d = 0
           \/ /\ Head(todo).call = "run" /\ d = 1 /\ UNCHANGED queues
              /\ \A i \in DOMAIN l : l[i].call = "run"
  PROVE  Emptied'
<1> DEFINE n == Len(l)
<1>t. todo \in Seq(Frames)
  BY DEF TypeOK
<1>1. /\ DOMAIN todo = 1 .. Len(todo) /\ DOMAIN l = 1 .. n /\ DOMAIN todo' = 1 .. Len(todo')
      /\ n \in Nat /\ Len(todo) \in Nat /\ Len(todo') \in Nat /\ Head(todo) = todo[1] /\ 1 \in DOMAIN todo
  BY <1>t, Moved
<1>3. \A i \in DOMAIN todo : i > d => i + n - d \in DOMAIN todo' /\ todo'[i + n - d] = todo[i]
  BY <1>t, Moved
<1>4. \A i \in DOMAIN todo' :
        \/ i \in DOMAIN l /\ todo'[i] = l[i]
        \/ \E j \in DOMAIN todo : j > d /\ i = j + n - d /\ todo'[i] = todo[j]
  BY <1>t, Moved
<1> HIDE DEF n
<1> SUFFICES ASSUME Clean', NEW k \in DOMAIN todo', todo'[k].call = "endCompile"
             PROVE  \/ k > 1 /\ todo'[k - 1].call \in {"finalize", "compileFunctions"}
                    \/ QueuesEmpty' /\ \A i \in 1 .. k - 1 : todo'[i].call = "run"
  BY DEF Emptied
<1>5. PICK kk \in DOMAIN todo : kk > d /\ k = kk + n - d /\ todo[kk].call = "endCompile"
  BY <1>4
<1>6. kk > 1
  BY <1>1, <1>5
<1>7. CASE todo[kk - 1].call \in {"finalize", "compileFunctions"}
  <2>1. kk - 1 > d
    <3>1. kk - 1 \in DOMAIN todo
      BY <1>6, <1>1
    <3>2. CASE kk = 2
      BY <3>2, <1>1, <1>7
    <3>3. CASE kk > 2
      BY <3>3, <1>1
    <3> QED BY <1>6, <1>1, <3>2, <3>3
  <2>2. kk - 1 \in DOMAIN todo /\ (kk - 1) + n - d = k - 1 /\ k > 1
    BY <2>1, <1>1, <1>5, <1>6
  <2>3. todo'[k - 1] = todo[kk - 1]
    BY <2>1, <2>2, <1>3
  <2> QED BY <2>2, <2>3, <1>7
<1>8. CASE QueuesEmpty /\ \A i \in 1 .. kk - 1 : todo[i].call = "run"
  <2>1. todo[1].call = "run" /\ d = 1 /\ UNCHANGED queues /\ \A i \in DOMAIN l : l[i].call = "run"
    BY <1>1, <1>6, <1>8
  <2>2. ASSUME NEW i \in 1 .. k - 1 PROVE todo'[i].call = "run"
    <3>1. i \in DOMAIN todo'
      BY <1>1
    <3>2. ASSUME NEW j \in DOMAIN todo, i = j + n - d, todo'[i] = todo[j] PROVE todo'[i].call = "run"
      <4>1. j \in 1 .. kk - 1
        BY <3>2, <1>1, <1>5
      <4> QED BY <4>1, <3>2, <1>8
    <3> QED BY <3>1, <3>2, <2>1, <1>4
  <2>3. QueuesEmpty'
    BY <2>1, <1>8 DEF QueuesEmpty, queues
  <2> QED BY <2>2, <2>3
<1>9. QED BY <1>5, <1>7, <1>8 DEF Emptied

LEMMA FollowedLight ==
  ASSUME TypeOK, Followed, todo # <<>>, source' = source,
         NEW l \in Seq(Frames), NEW d \in {0, 1}, Stacks(l, d), Clean' => Clean,
         \A i \in DOMAIN l : l[i].call # "endCompile",
         \A s \in Members' : s \in Members \/ \E i \in DOMAIN l : l[i] = CallOn("add", s),
         Clean' => \A s \in Members' : d = 1 /\ Head(todo) = CallOn("add", s) =>
           Parsed(s) /\ \A n \in DOMAIN source[s] : Declared(s, n)',
         Clean' => \A s \in Members : \A n \in DOMAIN source[s] :
           Declared(s, n) => source[s][n].is = "import" \/ Declared(s, n)'
  PROVE  Followed'
<1>t. todo \in Seq(Frames)
  BY DEF TypeOK
<1> SUFFICES ASSUME Clean', NEW k \in DOMAIN todo', todo'[k].call = "endCompile", NEW s \in Members'
             PROVE  \/ \E i \in DOMAIN todo' : todo'[i] = CallOn("add", s)
                    \/ Parsed(s)' /\ \A n \in DOMAIN source[s] : source[s][n].is = "import" \/ Declared(s, n)'
  BY DEF Followed
<1>p. Parsed(s)' <=> Parsed(s)
  BY DEF Parsed
<1>1. \E kk \in DOMAIN todo : todo[kk].call = "endCompile"
  BY <1>t, Moved
<1>2. CASE \E i \in DOMAIN l : l[i] = CallOn("add", s)
  BY <1>t, <1>2, Moved
<1>3. CASE s \in Members
  <2>1. \/ \E i \in DOMAIN todo : todo[i] = CallOn("add", s)
        \/ Parsed(s) /\ \A n \in DOMAIN source[s] : source[s][n].is = "import" \/ Declared(s, n)
    BY <1>1, <1>3 DEF Followed
  <2>2. ASSUME NEW i \in DOMAIN todo, todo[i] = CallOn("add", s)
        PROVE  \/ \E j \in DOMAIN todo' : todo'[j] = CallOn("add", s)
               \/ Parsed(s) /\ \A n \in DOMAIN source[s] : Declared(s, n)'
    <3>1. CASE i > d
      BY <1>t, <2>2, <3>1, Moved
    <3>2. CASE ~(i > d)
      <4>1. DOMAIN todo = 1 .. Len(todo) /\ Head(todo) = todo[1] /\ Len(todo) \in Nat
        BY <1>t, Moved
      <4>2. d = 1 /\ i = 1
        BY <3>2, <4>1
      <4> QED BY <2>2, <4>1, <4>2
    <3> QED BY <3>1, <3>2
  <2>3. CASE Parsed(s) /\ \A n \in DOMAIN source[s] : source[s][n].is = "import" \/ Declared(s, n)
    BY <1>3, <1>p, <2>3
  <2> QED BY <2>1, <2>2, <2>3, <1>p
<1>4. QED BY <1>2, <1>3

\* What was declared is still declared.
LEMMA DeclaredKeeps ==
  ASSUME TypeOK, todo # <<>>, NEW l \in Seq(Frames), NEW d \in {0, 1}, Stacks(l, d),
         NEW s, NEW n, Declared(s, n), done \subseteq done',
         \A t \in ToSet(incomplete) : Queued(t)' \/ t \in done',
         \A t \in ToSet(collected) : Queued(t)' \/ t \in done',
         \A t \in ToSet(tasks) : Queued(t)' \/ t \in done',
         \A t \in ToSet(uninitialized) : Queued(t)' \/ t \in done',
         \A t : d = 1 /\ Head(todo) = CallOn("unresolved", t) => Queued(t)',
         d = 1 /\ Head(todo).call = "declare" => Declared(s, n)'
  PROVE  Declared(s, n)'
<1>t. todo \in Seq(Frames)
  BY DEF TypeOK
<1>1. ASSUME NEW i \in DOMAIN todo PROVE (d = 1 /\ Head(todo) = todo[i]) \/ \E j \in DOMAIN todo' : todo'[j] = todo[i]
  <2>1. DOMAIN todo = 1 .. Len(todo) /\ Head(todo) = todo[1] /\ Len(todo) \in Nat
    BY <1>t, Moved
  <2>2. CASE i > d
    BY <1>t, <2>2, Moved
  <2>3. CASE ~(i > d)
    <3>1. i = 1 /\ d = 1
      BY <2>1, <2>3
    <3> QED BY <2>1, <3>1
  <2> QED BY <2>2, <2>3
<1>2. CASE Task(s, n) \in done
  BY <1>2 DEF Declared
<1>3. CASE Queued(Task(s, n))
  <2> DEFINE t == Task(s, n)
  <2> HIDE DEF t
  <2>1. CASE t \in ToSet(incomplete) \/ t \in ToSet(collected) \/ t \in ToSet(tasks) \/ t \in ToSet(uninitialized)
    BY <2>1 DEF Declared, t
  <2>2. ASSUME NEW i \in DOMAIN todo, todo[i] = CallOn("unresolved", t)
        PROVE  Declared(s, n)'
    <3>1. CASE d = 1 /\ Head(todo) = todo[i]
      <4>1. Queued(t)'
        BY <2>2, <3>1
      <4> QED BY <4>1 DEF Declared, t
    <3>2. CASE \E j \in DOMAIN todo' : todo'[j] = todo[i]
      BY <2>2, <3>2 DEF Declared, Queued, t
    <3> QED BY <1>1, <3>1, <3>2
  <2> QED BY <1>3, <2>1, <2>2 DEF Queued, t
<1>4. ASSUME NEW i \in DOMAIN todo, todo[i].call = "declare", todo[i].on.script = s, todo[i].on.at <= n
      PROVE  Declared(s, n)'
  <2>1. CASE d = 1 /\ Head(todo) = todo[i]
    BY <1>4, <2>1
  <2>2. CASE \E j \in DOMAIN todo' : todo'[j] = todo[i]
    BY <1>4, <2>2 DEF Declared
  <2> QED BY <1>1, <2>1, <2>2
<1>5. QED BY <1>2, <1>3, <1>4 DEF Declared

-----------------------------------------------------------------------------
(* What a session leaves *)

UndoneAndDone == UndoInv /\ CompleteInv

\* The steps of a session, but for those that begin or end it, or undo it.
LEMMA InnerStep ==
  ASSUME TypeOK, StackInv, UndoneAndDone, todo # <<>>, UNCHANGED <<source, top, result>>,
         NEW l \in Seq(Frames), NEW d \in {0, 1}, Stacks(l, d),
         thrown' = "none" => thrown = "none", error => error',
         Head(todo).call = "failTemplate" => thrown' # "none",
         Head(todo).call \notin Session \cup Outer \cup {"clear", "destroyScript"},
         \A i \in DOMAIN l : l[i].call \notin {"endCompile", "destroy", "compileFunctions"},
         Clean' =>
           \/ Head(todo).call \notin {"run", "finalize", "compileFunctions"}
           \/ Head(todo).call = "compileFunctions" /\ d = 0
           \/ /\ Head(todo).call = "run" /\ d = 1 /\ UNCHANGED queues
              /\ \A i \in DOMAIN l : l[i].call = "run",
         \A i \in DOMAIN l : l[i].call \in Unsettled =>
           \/ Head(todo).call \in Unsettled
           \/ \E j \in DOMAIN l : i < j /\ l[j].call \in Settles,
         Clean' /\ Head(todo).call \in Settles /\ d = 1 =>
           \/ \E j \in DOMAIN l : l[j].call \in Settles
           \/ incomplete' = <<>> /\ collected' = <<>>
           \/ \A k \in DOMAIN todo : todo[k].call # "compileFunctions",
         Clean' /\ (incomplete' # <<>> \/ collected' # <<>>) =>
           incomplete # <<>> \/ collected # <<>> \/ Head(todo).call \in Unsettled,
         \A s \in Members' : s \in Members \/ \E i \in DOMAIN l : l[i] = CallOn("add", s),
         Clean' => \A s \in Members' : d = 1 /\ Head(todo) = CallOn("add", s) =>
           Parsed(s) /\ \A n \in DOMAIN source[s] : Declared(s, n)',
         Clean' => \A s \in Members : \A n \in DOMAIN source[s] :
           Declared(s, n) => source[s][n].is = "import" \/ Declared(s, n)'
  PROVE  UndoneAndDone'
<1>t. todo \in Seq(Frames)
  BY DEF TypeOK
<1>c. Clean' => Clean
  BY <1>t, CleanBefore
<1>1. Settled'
  BY <1>c, SettledLight DEF UndoneAndDone, CompleteInv
<1>2. Emptied'
  BY <1>c, EmptiedLight DEF UndoneAndDone, CompleteInv, Session
<1>3. Followed'
  BY <1>c, FollowedLight DEF UndoneAndDone, CompleteInv
<1>4. \A i \in DOMAIN todo' : todo'[i].call # "destroy"
  <2>1. ASSUME NEW i \in DOMAIN todo, todo[i].call = "destroy" PROVE FALSE
    <3>1. DOMAIN todo = 1 .. Len(todo) /\ Head(todo) = todo[1] /\ Len(todo) \in Nat /\ 1 \in DOMAIN todo
      BY <1>t, Moved
    <3>2. i > 1
      BY <2>1, <3>1 DEF Session
    <3> QED BY <2>1, <3>1, <3>2 DEF StackInv, Nested
  <2>2. \A i \in DOMAIN todo' :
          \/ i \in DOMAIN l /\ todo'[i] = l[i]
          \/ \E j \in DOMAIN todo : j > d /\ i = j + Len(l) - d /\ todo'[i] = todo[j]
    BY <1>t, Moved
  <2> QED BY <2>1, <2>2
<1>5. Undone'
  BY <1>4 DEF Undone
<1>6. result \notin {"failed", "compiled"}
  <2>1. Head(todo) = todo[1] /\ 1 \in DOMAIN todo
    BY <1>t, Moved
  <2> QED BY <2>1 DEF UndoneAndDone, UndoInv, CompleteInv, Failed, Succeeded
<1>7. Failed' /\ Succeeded'
  BY <1>6 DEF Failed, Succeeded
<1>8. QED BY <1>1, <1>2, <1>3, <1>5, <1>7 DEF UndoneAndDone, UndoInv, CompleteInv

\* An exception leaves a call.
LEMMA ThrowDone ==
  ASSUME TypeOK, StackInv, UndoneAndDone, todo # <<>>, UNCHANGED <<source, top, result, generated>>,
         todo' = Tail(todo), thrown' # "none", error => error',
         Head(todo).call \notin Session \cup Outer \cup {"clear", "destroyScript"}
  PROVE  UndoneAndDone'
<1>1. Stacks(<<>>, 1) /\ <<>> \in Seq(Frames) /\ DOMAIN <<>> = {} /\ 1 \in {0, 1}
  BY Pops DEF TypeOK
<1>2. ~Clean'
  BY DEF Clean
<1>3. Members' = Members
  BY DEF Members
<1>4. QED BY <1>1, <1>2, <1>3, InnerStep

\* The calls in progress and the queues stay as they are.
LEMMA SameDone ==
  ASSUME UndoneAndDone,
         UNCHANGED <<source, top, result, generated, todo, queues, done>>,
         Clean' => Clean, alive' \subseteq alive
  PROVE  UndoneAndDone'
<1>1. Undone' /\ Failed'
  BY DEF UndoneAndDone, UndoInv, Undone, Failed
<1>2. UNCHANGED <<incomplete, collected, tasks, uninitialized>>
  BY DEF queues
<1>3. Settled' /\ Emptied'
  BY <1>2 DEF UndoneAndDone, CompleteInv, Settled, Emptied, QueuesEmpty
<1>4. Followed' /\ Succeeded'
  <2>1. \A s : Parsed(s)' <=> Parsed(s)
    BY DEF Parsed
  <2>2. \A s, n : Declared(s, n)' <=> Declared(s, n)
    BY <1>2 DEF Declared, Queued
  <2>3. Members' = Members
    BY DEF Members
  <2>4. Followed'
    BY <2>1, <2>2, <2>3 DEF UndoneAndDone, CompleteInv, Followed
  <2>5. Succeeded'
    BY <1>2, <2>1, <2>3 DEF UndoneAndDone, CompleteInv, Succeeded, QueuesEmpty
  <2> QED BY <2>4, <2>5
<1>5. QED BY <1>1, <1>3, <1>4 DEF UndoneAndDone, UndoInv, CompleteInv

\* Without a session in progress there is little to show.
LEMMA OuterDone ==
  ASSUME \A i \in DOMAIN todo' : todo'[i].call \in Outer \cup {"compile", "load"}, Failed', Succeeded'
  PROVE  UndoneAndDone'
<1>1. \A i \in DOMAIN todo' : todo'[i].call \notin {"destroy", "endCompile", "compileFunctions"}
  BY DEF Outer
<1>2. Undone' /\ Followed' /\ Settled' /\ Emptied'
  BY <1>1 DEF Undone, Followed, Settled, Emptied
<1>3. QED BY <1>2 DEF UndoneAndDone, UndoInv, CompleteInv

\* A call that undoes, declares and compiles nothing ends, or is left.
LEMMA PopDone ==
  ASSUME TypeOK, UndoneAndDone, todo # <<>>, todo' = Tail(todo),
         UNCHANGED <<source, top, result, generated, queues, done, alive, error>>,
         thrown' = "none" => thrown = "none",
         thrown' = "none" => Head(todo).call \notin
           Settles \cup Unsettled \cup {"endCompile", "run", "finalize", "compileFunctions", "failTemplate"},
         \/ Head(todo).call \notin {"clear", "destroyScript"}
         \/ \A i \in DOMAIN todo : todo[i].call # "destroy"
  PROVE  UndoneAndDone'
<1>t. todo \in Seq(Frames) /\ <<>> \in Seq(Frames) /\ DOMAIN <<>> = {} /\ 1 \in {0, 1} /\ Stacks(<<>>, 1)
  BY Pops DEF TypeOK
<1>q. UNCHANGED <<incomplete, collected, tasks, uninitialized>>
  BY DEF queues
<1>c. Clean' => Clean /\ thrown' = "none"
  <2>1. Head(todo).call = "failTemplate" => thrown' # "none"
    OBVIOUS
  <2>2. Clean' => Clean
    BY <1>t, <2>1, CleanBefore
  <2> QED BY <2>2 DEF Clean
<1>m. Members' = Members
  BY DEF Members
<1>1. Settled'
  BY <1>t, <1>q, <1>c, SettledLight DEF UndoneAndDone, CompleteInv
<1>2. Emptied'
  BY <1>t, <1>c, EmptiedLight DEF UndoneAndDone, CompleteInv
<1>3. Followed'
  <2>1. ASSUME Clean', NEW s \in Members, NEW n \in DOMAIN source[s], Declared(s, n) PROVE Declared(s, n)'
    <3>1. Head(todo).call \notin {"unresolved", "declare"}
      BY <1>c, <2>1 DEF Unsettled
    <3>2. \A t : Head(todo) # CallOn("unresolved", t)
      BY <3>1 DEF CallOn
    <3>3. /\ \A t \in ToSet(incomplete) : Queued(t)'
          /\ \A t \in ToSet(collected) : Queued(t)'
          /\ \A t \in ToSet(tasks) : Queued(t)'
          /\ \A t \in ToSet(uninitialized) : Queued(t)'
      BY <1>q DEF Queued
    <3> QED BY <1>t, <2>1, <3>1, <3>2, <3>3, DeclaredKeeps
  <2>2. ASSUME Clean', NEW s \in Members PROVE Head(todo) # CallOn("add", s)
    BY <1>c, <2>2 DEF Unsettled, CallOn
  <2> QED BY <1>t, <1>c, <1>m, <2>1, <2>2, FollowedLight DEF UndoneAndDone, CompleteInv
<1>4. /\ DOMAIN todo = 1 .. Len(todo) /\ DOMAIN todo' = 1 .. Len(todo') /\ Len(todo) \in Nat
      /\ Head(todo) = todo[1] /\ Len(todo') = Len(todo) - 1
      /\ \A i \in DOMAIN todo' : i + 1 \in DOMAIN todo /\ todo'[i] = todo[i + 1]
      /\ \A i \in DOMAIN todo : i # 1 => i - 1 \in DOMAIN todo' /\ todo'[i - 1] = todo[i]
  BY <1>t
<1>5. Undone'
  <2> SUFFICES ASSUME NEW k \in DOMAIN todo', todo'[k].call = "destroy", NEW m \in ToSet(generated) \cap alive
               PROVE  \E i \in 1 .. k - 1 :
                        \/ todo'[i].call = "clear" /\ m \in ToSet(todo'[i].on)
                        \/ todo'[i].call = "destroyScript" /\ m = todo'[i].on
    BY DEF Undone
  <2>1. k + 1 \in DOMAIN todo /\ todo[k + 1].call = "destroy"
    BY <1>4
  <2>2. PICK i \in 1 .. (k + 1) - 1 :
          \/ todo[i].call = "clear" /\ m \in ToSet(todo[i].on)
          \/ todo[i].call = "destroyScript" /\ m = todo[i].on
    BY <2>1 DEF UndoneAndDone, UndoInv, Undone
  <2>3. i # 1
    BY <2>1, <2>2, <1>4
  <2>4. i \in DOMAIN todo /\ i - 1 \in 1 .. k - 1
    BY <2>1, <2>2, <2>3, <1>4
  <2>5. todo'[i - 1] = todo[i]
    BY <2>3, <2>4, <1>4
  <2> QED BY <2>2, <2>4, <2>5
<1>6. Failed' /\ Succeeded'
  <2>1. (\A i \in DOMAIN todo : todo[i].call \in Outer) => \A i \in DOMAIN todo' : todo'[i].call \in Outer
    BY <1>4
  <2>2. \A s : Parsed(s)' <=> Parsed(s)
    BY DEF Parsed
  <2>3. Failed'
    BY <2>1 DEF UndoneAndDone, UndoInv, Failed
  <2>4. Succeeded'
    BY <1>q, <1>m, <2>1, <2>2 DEF UndoneAndDone, CompleteInv, Succeeded, QueuesEmpty
  <2> QED BY <2>3, <2>4
<1>7. QED BY <1>1, <1>2, <1>3, <1>5, <1>6 DEF UndoneAndDone, UndoInv, CompleteInv

\* The program calls, or the exception reaches it.
LEMMA CallDone ==
  ASSUME \A i \in DOMAIN todo' : todo'[i].call \in Outer \cup {"compile", "load"},
         result' \notin {"failed", "compiled"}
  PROVE  UndoneAndDone'
<1>1. Failed' /\ Succeeded'
  BY DEF Failed, Succeeded
<1>2. QED BY <1>1, OuterDone

LEMMA NewScriptDone ==
  ASSUME TypeOK, Numbered, UndoneAndDone, NEW s \in Scripts, NewScript(s)
  PROVE  UndoneAndDone'
<1>1. /\ todo' = <<>> /\ UNCHANGED <<source, session, queues, todo, thrown, history>> /\ id[s] = 0
      /\ alive' = alive \cup {s}
  BY DEF NewScript, Idle
<1>2. s \notin ToSet(generated) \cup {top} \/ top = Null
  <2>1. top # Null => s # top
    BY <1>1 DEF Numbered
  <2>2. ToSet(generated) \subseteq Modules
    BY DEF TypeOK, ToSet
  <2> QED BY <1>1, <2>1, <2>2 DEF Numbered
<1>3. Failed'
  BY <1>1, <1>2 DEF UndoneAndDone, UndoInv, Failed, session, history
<1>4. Succeeded'
  <2>1. \A x : Parsed(x)' <=> Parsed(x)
    BY <1>1 DEF Parsed
  <2>2. Members' = Members
    BY <1>1 DEF Members, session
  <2> QED BY <1>1, <2>1, <2>2
          DEF UndoneAndDone, CompleteInv, Succeeded, session, history, queues, QueuesEmpty
<1>5. QED BY <1>1, <1>3, <1>4, OuterDone

LEMMA StartDone ==
  ASSUME TypeOK, StackInv, UndoneAndDone, StartSession
  PROVE  UndoneAndDone'
<1>1. /\ todo'[1] = CallOn("add", On) /\ todo'[2].call = "finalize" /\ todo'[3].call = "endCompile"
      /\ 1 \in DOMAIN todo' /\ 2 \in DOMAIN todo' /\ todo'[1].call = "add"
      /\ \A i \in DOMAIN todo' : i > 3 => todo'[i].call \in Outer
      /\ \A i \in DOMAIN todo' : i = 1 \/ i = 2 \/ i = 3 \/ i > 3
  BY StartFrames
<1>2. generated' = <<>> /\ top' = On /\ result' = result /\ Head(todo).call = "compile" /\ todo # <<>>
  BY DEF StartSession, Doing
<1>3. \A i \in DOMAIN todo' : todo'[i].call \notin {"destroy", "compileFunctions"}
  BY <1>1 DEF Outer
<1>4. Undone' /\ Settled'
  BY <1>3 DEF Undone, Settled
<1>5. Followed'
  <2>1. Members' = {On}
    BY <1>2 DEF Members, ToSet
  <2> QED BY <1>1, <2>1 DEF Followed
<1>6. Emptied'
  <2> SUFFICES ASSUME NEW k \in DOMAIN todo', todo'[k].call = "endCompile"
               PROVE  k > 1 /\ todo'[k - 1].call \in {"finalize", "compileFunctions"}
    BY DEF Emptied
  <2>1. k = 3
    BY <1>1 DEF Outer
  <2> QED BY <1>1, <2>1
<1>7. result' \notin {"failed", "compiled"}
  <2>1. Head(todo) = todo[1] /\ 1 \in DOMAIN todo
    BY <1>2, OnType
  <2> QED BY <1>2, <2>1 DEF UndoneAndDone, UndoInv, CompleteInv, Failed, Succeeded, Outer
<1>8. Failed' /\ Succeeded'
  BY <1>7 DEF Failed, Succeeded
<1>9. QED BY <1>4, <1>5, <1>6, <1>8 DEF UndoneAndDone, UndoInv, CompleteInv

\* A session that succeeds has done all.
LEMMA EndDone ==
  ASSUME TypeOK, StackInv, UndoneAndDone, EndCompile, ~error
  PROVE  UndoneAndDone'
<1>1. /\ todo # <<>> /\ Head(todo).call = "endCompile" /\ thrown = "none" /\ Then(<<>>)
      /\ state' = "Finished" /\ result' = "compiled"
      /\ UNCHANGED <<source, thrown, top, generated, queues, done>>
  BY DEF EndCompile, Doing
<1>2. todo' = Tail(todo)
  BY <1>1 DEF Then, TypeOK
<1>3. \A i \in DOMAIN todo' : todo'[i].call \in Outer
  BY <1>1, <1>2, LastStack DEF Session
<1>4. Head(todo) = todo[1] /\ 1 \in DOMAIN todo /\ DOMAIN todo = 1 .. Len(todo)
  BY <1>1, OnType DEF TypeOK
<1>5. \A i \in DOMAIN todo : i # 1 => todo[i].call \in Outer
  BY <1>1, <1>4 DEF StackInv, Nested, Session
<1>6. Clean
  BY <1>1, <1>4, <1>5 DEF Clean, Outer
<1>7. QueuesEmpty
  <2>1. \A k \in DOMAIN todo : todo[k].call = "endCompile" =>
          (k > 1 /\ todo[k - 1].call \in {"finalize", "compileFunctions"}) \/ QueuesEmpty
    BY <1>6 DEF UndoneAndDone, CompleteInv, Emptied
  <2>2. todo[1].call = "endCompile" /\ ~(1 > 1)
    BY <1>1, <1>4
  <2> QED BY <1>4, <2>1, <2>2
<1>8. ASSUME NEW s \in Members
      PROVE  Parsed(s) /\ \A n \in DOMAIN source[s] : source[s][n].is # "import" => Task(s, n) \in done
  <2>1. \A i \in DOMAIN todo : todo[i].call \notin {"add", "declare", "unresolved"}
    BY <1>1, <1>4, <1>5 DEF Outer
  <2>2. \A i \in DOMAIN todo : todo[i] # CallOn("add", s) /\ \A t : todo[i] # CallOn("unresolved", t)
    BY <2>1 DEF CallOn
  <2>3. Parsed(s) /\ \A n \in DOMAIN source[s] : source[s][n].is = "import" \/ Declared(s, n)
    BY <1>1, <1>4, <1>6, <2>2 DEF UndoneAndDone, CompleteInv, Followed
  <2>4. \A t : ~Queued(t)
    BY <1>7, <2>2 DEF Queued, QueuesEmpty, ToSet
  <2> QED BY <2>1, <2>3, <2>4 DEF Declared
<1>9. Succeeded'
  <2>1. \A s : Parsed(s)' <=> Parsed(s)
    BY <1>1 DEF Parsed
  <2>2. Members' = Members
    BY <1>1 DEF Members
  <2>3. QueuesEmpty'
    BY <1>1, <1>7 DEF queues, QueuesEmpty
  <2> QED BY <1>1, <1>3, <1>8, <2>1, <2>2, <2>3 DEF Succeeded
<1>10. Failed'
  BY <1>1 DEF Failed
<1>11. QED BY <1>3, <1>9, <1>10, OuterDone

\* A session that fails begins to undo what it declared.
LEMMA FailDone ==
  ASSUME TypeOK, StackInv, UndoneAndDone, EndCompile, error
  PROVE  UndoneAndDone'
<1> DEFINE l == <<CallOn("clear", generated), CallOn("destroy", On)>>
<1>1. /\ todo # <<>> /\ Head(todo).call = "endCompile" /\ thrown = "none" /\ Then(l)
      /\ UNCHANGED <<alive, generated, top, result>> /\ On \in Scripts
  BY OnType DEF EndCompile, Doing, engine
<1>2. l \in Seq(Frames) /\ Len(l) = 2
  <2>1. CallOn("clear", generated) \in Frames /\ CallOn("destroy", On) \in Frames
    BY <1>1, FrameKinds DEF TypeOK
  <2> QED BY <2>1
<1>3. l[1].call = "clear" /\ l[1].on = generated /\ l[2].call = "destroy"
  BY DEF CallOn
<1> HIDE DEF l
<1>4. Stacks(l, 1)
  BY <1>1, <1>2, ListStep
<1>5. /\ Len(todo) \in Nat /\ DOMAIN todo = 1 .. Len(todo) /\ DOMAIN todo' = 1 .. Len(todo')
      /\ Head(todo) = todo[1] /\ 1 \in DOMAIN todo /\ Len(todo') = Len(todo) + 1
      /\ \A i \in DOMAIN todo' : todo'[i] = IF i <= 2 THEN l[i] ELSE todo[i - 1]
  BY <1>1, <1>2, <1>4, SMTT(60) DEF Stacks, TypeOK
<1>6. \A i \in DOMAIN todo' : i > 2 => todo'[i].call \in Outer
  BY <1>1, <1>5 DEF StackInv, Nested, Session
<1>7. /\ 1 \in DOMAIN todo' /\ todo'[1].call = "clear" /\ todo'[1].on = generated /\ todo'[2].call = "destroy"
      /\ \A i \in DOMAIN todo' : i = 1 \/ i = 2 \/ i > 2
  BY <1>3, <1>5
<1>8. \A i \in DOMAIN todo' : todo'[i].call \notin {"endCompile", "compileFunctions"}
  BY <1>6, <1>7 DEF Outer
<1>9. Followed' /\ Settled' /\ Emptied'
  BY <1>8 DEF Followed, Settled, Emptied
<1>10. Undone'
  <2> SUFFICES ASSUME NEW k \in DOMAIN todo', todo'[k].call = "destroy", NEW m \in ToSet(generated)
               PROVE  1 \in 1 .. k - 1 /\ todo'[1].call = "clear" /\ m \in ToSet(todo'[1].on)
    BY <1>1 DEF Undone
  <2>1. k = 2
    BY <1>6, <1>7 DEF Outer
  <2> QED BY <1>7, <2>1
<1>11. result' \notin {"failed", "compiled"}
  BY <1>1, <1>5 DEF UndoneAndDone, UndoInv, CompleteInv, Failed, Succeeded, Outer
<1>12. Failed' /\ Succeeded'
  BY <1>11 DEF Failed, Succeeded
<1>13. QED BY <1>9, <1>10, <1>12 DEF UndoneAndDone, UndoInv, CompleteInv

\* The session is over: nothing of it is there, or an exception left it.
LEMMA FailedDone ==
  ASSUME TypeOK, StackInv, UndoneAndDone, DestroyNamespace
  PROVE  UndoneAndDone'
<1>1. /\ todo # <<>> /\ Head(todo).call = "destroy" /\ thrown = "none" /\ Then(<<>>)
      /\ state' = "Finished" /\ result' = "failed" /\ alive' = alive \ {On}
      /\ UNCHANGED <<thrown, top, generated>> /\ On \in Scripts
  BY OnType DEF DestroyNamespace, Doing
<1>2. todo' = Tail(todo)
  BY <1>1 DEF Then, TypeOK
<1>3. \A i \in DOMAIN todo' : todo'[i].call \in Outer
  BY <1>1, <1>2, LastStack DEF Session
<1>4. Head(todo) = todo[1] /\ 1 \in DOMAIN todo /\ On = todo[1].on
  BY <1>1, OnType
<1>5. On = top /\ top # Null
  BY <1>1, <1>4, ScriptsAssumption DEF StackInv, Topmost, Session
<1>6. ToSet(generated) \cap alive = {}
  <2>1. 1 .. 1 - 1 = {}
    OBVIOUS
  <2> QED BY <1>1, <1>4, <2>1 DEF UndoneAndDone, UndoInv, Undone
<1>7. Failed'
  BY <1>1, <1>3, <1>5, <1>6 DEF Failed
<1>8. Succeeded'
  BY <1>1 DEF Succeeded
<1>9. QED BY <1>3, <1>7, <1>8, OuterDone

LEMMA LeaveDone ==
  ASSUME TypeOK, StackInv, UndoneAndDone, Leave
  PROVE  UndoneAndDone'
<1>1. /\ todo # <<>> /\ thrown # "none" /\ ~Handles(Head(todo)) /\ todo' = Tail(todo)
      /\ state' = StateAfter /\ UNCHANGED <<result, thrown, generated, top, alive, source, error, queues, done>>
  BY DEF Leave, Unwinding, engine, history
<1>2. CASE Head(todo).call = "endCompile"
  <2>1. \A i \in DOMAIN todo' : todo'[i].call \in Outer
    BY <1>1, <1>2, LastStack DEF Session, StateAfter
  <2>2. Head(todo) = todo[1] /\ 1 \in DOMAIN todo
    BY <1>1, OnType
  <2>3. result' \notin {"failed", "compiled"}
    BY <1>1, <1>2, <2>2 DEF UndoneAndDone, UndoInv, CompleteInv, Failed, Succeeded, Outer
  <2> QED BY <2>1, <2>3, CallDone
<1>3. CASE Head(todo).call # "endCompile"
  <2>1. \A i \in DOMAIN todo : todo[i].call # "destroy"
    BY <1>1 DEF StackInv, Raised
  <2> QED BY <1>1, <1>3, <2>1, PopDone
<1>4. QED BY <1>2, <1>3

\* compileFunctions is about to run, once more or for the first time.
LEMMA FunctionsDone ==
  ASSUME TypeOK, StackInv, UndoneAndDone, todo # <<>>, Head(todo).call \in {"finalize", "compileFunctions"},
         thrown = "none", Then(<<Call("processAll"), Call("compileFunctions")>>),
         UNCHANGED <<source, top, generated, error, thrown, result, incomplete, collected, tasks>>,
         done \subseteq done', \A t \in ToSet(uninitialized) : t \in ToSet(uninitialized)' \cup done'
  PROVE  UndoneAndDone'
<1> DEFINE l == <<Call("processAll"), Call("compileFunctions")>>
<1>1. l \in Seq(Frames) /\ DOMAIN l = 1 .. 2 /\ l[1].call = "processAll" /\ l[2].call = "compileFunctions"
  BY FrameKinds
<1>2. Then(l)
  OBVIOUS
<1> HIDE DEF l
<1>3. Stacks(l, 1) /\ 1 \in {0, 1}
  BY <1>1, <1>2, ListStep
<1>4. /\ todo'[1].call = "processAll" /\ todo'[2].call = "compileFunctions"
      /\ todo'[3].call = "endCompile" /\ 3 \in DOMAIN todo'
      /\ \A i \in DOMAIN todo' : i > 3 => todo'[i].call \in Outer
      /\ \A i \in DOMAIN todo' : i = 1 \/ i = 2 \/ i = 3 \/ i > 3
  BY FunctionsFrames
<1>5. Head(todo) = todo[1] /\ 1 \in DOMAIN todo
  BY OnType
<1>6. Clean' => Clean
  BY <1>1, <1>3, CleanBefore DEF TypeOK
<1>7. Undone'
  BY <1>4 DEF Undone, Outer
<1>8. Settled'
  <2> SUFFICES ASSUME NEW k \in DOMAIN todo', todo'[k].call = "compileFunctions"
               PROVE  /\ \A i \in 1 .. k - 1 : todo'[i].call \notin Unsettled
                      /\ \E j \in 1 .. k - 1 : todo'[j].call \in Settles
    BY DEF Settled
  <2>1. k = 2
    BY <1>4 DEF Outer
  <2>2. \A i \in 1 .. k - 1 : i = 1
    BY <2>1
  <2> QED BY <1>4, <2>1, <2>2 DEF Settles, Unsettled
<1>9. Emptied'
  <2> SUFFICES ASSUME NEW k \in DOMAIN todo', todo'[k].call = "endCompile"
               PROVE  k > 1 /\ todo'[k - 1].call \in {"finalize", "compileFunctions"}
    BY DEF Emptied
  <2>1. k = 3
    BY <1>4 DEF Outer
  <2> QED BY <1>4, <2>1
<1>10. Followed'
  <2>1. \A i \in DOMAIN l : l[i].call # "endCompile"
    BY <1>1
  <2>2. Members' = Members
    BY DEF Members
  <2>3. \A s : Head(todo) # CallOn("add", s) /\ Head(todo) # CallOn("unresolved", s)
    BY DEF CallOn
  <2>4. ASSUME NEW s \in Members, NEW n \in DOMAIN source[s], Declared(s, n) PROVE Declared(s, n)'
    <3>1. /\ \A t \in ToSet(incomplete) : Queued(t)'
          /\ \A t \in ToSet(collected) : Queued(t)'
          /\ \A t \in ToSet(tasks) : Queued(t)'
          /\ \A t \in ToSet(uninitialized) : Queued(t)' \/ t \in done'
      BY DEF Queued
    <3> QED BY <1>1, <1>3, <2>3, <2>4, <3>1, DeclaredKeeps
  <2> QED BY <1>1, <1>3, <1>6, <2>1, <2>2, <2>3, <2>4, FollowedLight DEF UndoneAndDone, CompleteInv
<1>11. result' \notin {"failed", "compiled"}
  BY <1>5 DEF UndoneAndDone, UndoInv, CompleteInv, Failed, Succeeded, Outer
<1>12. Failed' /\ Succeeded'
  BY <1>11 DEF Failed, Succeeded
<1>13. QED BY <1>7, <1>8, <1>9, <1>10, <1>12 DEF UndoneAndDone, UndoInv, CompleteInv

LEMMA FinalizeDone ==
  ASSUME TypeOK, StackInv, UndoneAndDone, Finalize
  PROVE  UndoneAndDone'
<1>1. /\ todo # <<>> /\ Head(todo).call = "finalize" /\ thrown = "none"
      /\ Then(<<Call("processAll"), Call("compileFunctions")>>)
      /\ UNCHANGED <<source, top, generated, error, queues, thrown, done, result>>
  BY DEF Finalize, Doing, history
<1>2. UNCHANGED <<incomplete, collected, tasks, uninitialized>>
  BY <1>1 DEF queues
<1>3. QED BY <1>1, <1>2, FunctionsDone

LEMMA EndFunctionsDone ==
  ASSUME TypeOK, StackInv, UndoneAndDone, EndFunctions
  PROVE  UndoneAndDone'
<1>0. /\ todo # <<>> /\ Head(todo).call = "compileFunctions" /\ thrown = "none" /\ tasks = <<>>
      /\ UNCHANGED <<source, top, generated, error, incomplete, reprocessing, collected, tasks, result>>
  BY DEF EndFunctions, Doing
<1>1. CASE /\ uninitialized = <<>> /\ state' = "Finished" /\ Then(<<CallOn("run", generated)>>)
           /\ UNCHANGED <<uninitialized, thrown, done>>
  <2> DEFINE l == <<CallOn("run", generated)>>
  <2>1. l \in Seq(Frames) /\ DOMAIN l = {1} /\ l[1].call = "run"
    BY FrameKinds DEF TypeOK, CallOn
  <2>2. Then(l)
    BY <1>1
  <2> HIDE DEF l
  <2>3. Stacks(l, 1) /\ 1 \in {0, 1}
    BY <1>0, <2>1, <2>2, ListStep
  <2>4. Then(<<CallOn("run", generated)>>)
    BY <1>1
  <2>5. /\ todo'[1].call = "run" /\ todo'[2].call = "endCompile" /\ 2 \in DOMAIN todo'
        /\ \A i \in DOMAIN todo' : i > 2 => todo'[i].call \in Outer
        /\ \A i \in DOMAIN todo' : i = 1 \/ i = 2 \/ i > 2
    <3>1. /\ todo'[1].call = "run" /\ todo[2].call = "endCompile" /\ todo'[2] = todo[2]
          /\ 2 \in DOMAIN todo'
      BY <1>0, <2>4, RunFrames
    <3>2. /\ \A i \in DOMAIN todo' : i > 2 => todo'[i].call \in Outer
          /\ \A i \in DOMAIN todo' : i = 1 \/ i = 2 \/ i > 2
      BY <1>0, <2>4, RunFrames
    <3> QED BY <3>1, <3>2
  <2>6. Head(todo) = todo[1] /\ 1 \in DOMAIN todo
    BY <1>0, OnType
  <2>7. Clean' => Clean
    BY <1>0, <1>1, <2>1, <2>3, CleanBefore DEF TypeOK
  <2>8. Undone' /\ Settled'
    BY <2>5 DEF Undone, Settled, Outer
  <2>9. Emptied'
    <3> SUFFICES ASSUME Clean', NEW k \in DOMAIN todo', todo'[k].call = "endCompile"
                 PROVE  QueuesEmpty' /\ \A i \in 1 .. k - 1 : todo'[i].call = "run"
      BY DEF Emptied
    <3>1. k = 2
      BY <2>5 DEF Outer
    <3>2. \A i \in 1 .. k - 1 : i = 1
      BY <3>1
    <3>3. 1 .. 1 - 1 = {}
      OBVIOUS
    <3>4. incomplete = <<>> /\ collected = <<>>
      BY <1>0, <2>6, <2>7, <3>3 DEF UndoneAndDone, CompleteInv, Settled
    <3> QED BY <1>0, <1>1, <2>5, <3>2, <3>4 DEF QueuesEmpty
  <2>10. Followed'
    <3>1. \A i \in DOMAIN l : l[i].call # "endCompile"
      BY <2>1
    <3>2. Members' = Members
      BY <1>0 DEF Members
    <3>3. \A s : Head(todo) # CallOn("add", s) /\ Head(todo) # CallOn("unresolved", s)
      BY <1>0 DEF CallOn
    <3>4. ASSUME NEW s \in Members, NEW n \in DOMAIN source[s], Declared(s, n) PROVE Declared(s, n)'
      <4>1. /\ \A t \in ToSet(incomplete) : Queued(t)'
            /\ \A t \in ToSet(collected) : Queued(t)'
            /\ \A t \in ToSet(tasks) : Queued(t)'
            /\ \A t \in ToSet(uninitialized) : Queued(t)'
        BY <1>0, <1>1 DEF Queued
      <4> QED BY <1>0, <1>1, <2>1, <2>3, <3>3, <3>4, <4>1, DeclaredKeeps
    <3> QED BY <1>0, <2>1, <2>3, <2>7, <3>1, <3>2, <3>3, <3>4, FollowedLight DEF UndoneAndDone, CompleteInv
  <2>11. result' \notin {"failed", "compiled"}
    BY <1>0, <2>6 DEF UndoneAndDone, UndoInv, CompleteInv, Failed, Succeeded, Outer
  <2>12. Failed' /\ Succeeded'
    BY <2>11 DEF Failed, Succeeded
  <2> QED BY <2>8, <2>9, <2>10, <2>12 DEF UndoneAndDone, UndoInv, CompleteInv
<1>2. CASE /\ uninitialized' = <<>> /\ done' = done \cup ToSet(uninitialized)
           /\ Then(<<Call("processAll"), Call("compileFunctions")>>) /\ UNCHANGED <<state, thrown>>
  BY <1>0, <1>2, FunctionsDone
<1>3. CASE Throw("CompilationFailure") /\ UNCHANGED <<state, uninitialized, done>>
  BY <1>0, <1>3, ThrowDone DEF Throw, Session, Outer
<1>4. QED BY <1>1, <1>2, <1>3 DEF EndFunctions

\* To undo a session leaves the rest of it as it is.
LEMMA UndoDone ==
  ASSUME TypeOK, UndoneAndDone, todo # <<>>, Head(todo).call \in {"clear", "destroyScript"},
         NEW l \in Seq(Frames), Stacks(l, 1), \A i \in DOMAIN l : l[i].call \in {"clear", "destroyScript"},
         UNCHANGED <<source, top, generated, error, queues, thrown, done, result>>, Undone'
  PROVE  UndoneAndDone'
<1>1. 1 \in {0, 1} /\ todo \in Seq(Frames) /\ Head(todo) = todo[1] /\ 1 \in DOMAIN todo
  BY OnType DEF TypeOK
<1>2. UNCHANGED <<incomplete, collected, tasks, uninitialized>>
  BY DEF queues
<1>3. Clean' => Clean
  BY <1>1, CleanBefore
<1>4. Settled'
  BY <1>1, <1>2, <1>3, SettledLight DEF UndoneAndDone, CompleteInv, Settles, Unsettled
<1>5. Emptied'
  BY <1>1, <1>3, EmptiedLight DEF UndoneAndDone, CompleteInv
<1>6. Followed'
  <2>1. Members' = Members
    BY DEF Members
  <2>2. \A s : Head(todo) # CallOn("add", s) /\ Head(todo) # CallOn("unresolved", s)
    BY DEF CallOn
  <2>3. ASSUME NEW s \in Members, NEW n \in DOMAIN source[s], Declared(s, n) PROVE Declared(s, n)'
    <3>1. /\ \A t \in ToSet(incomplete) : Queued(t)'
          /\ \A t \in ToSet(collected) : Queued(t)'
          /\ \A t \in ToSet(tasks) : Queued(t)'
          /\ \A t \in ToSet(uninitialized) : Queued(t)'
      BY <1>2 DEF Queued
    <3> QED BY <1>1, <2>2, <2>3, <3>1, DeclaredKeeps
  <2> QED BY <1>1, <1>3, <2>1, <2>2, <2>3, FollowedLight DEF UndoneAndDone, CompleteInv
<1>7. result' \notin {"failed", "compiled"}
  BY <1>1 DEF UndoneAndDone, UndoInv, CompleteInv, Failed, Succeeded, Outer
<1>8. Failed' /\ Succeeded'
  BY <1>7 DEF Failed, Succeeded
<1>9. QED BY <1>4, <1>5, <1>6, <1>8 DEF UndoneAndDone, UndoInv, CompleteInv

LEMMA ClearDone ==
  ASSUME TypeOK, UndoneAndDone, Clear
  PROVE  UndoneAndDone'
<1>1. /\ todo # <<>> /\ Head(todo).call = "clear" /\ todo \in Seq(Frames)
      /\ UNCHANGED <<source, top, generated, error, alive, queues, thrown, done, result>>
  BY DEF Clear, Doing, TypeOK, session, engine, history
<1>2. On \in Seq(Modules) /\ On = todo[1].on
  BY <1>1, OnType
<1>3. PICK l \in Seq(Frames) :
        /\ Stacks(l, 1)
        /\ \/ On = <<>> /\ l = <<>>
           \/ On # <<>> /\ l = <<CallOn("destroyScript", Head(On)), CallOn("clear", Tail(On))>>
  BY ClearStep
<1> DEFINE Covers(frame, m) ==
      \/ frame.call = "clear" /\ m \in ToSet(frame.on)
      \/ frame.call = "destroyScript" /\ m = frame.on
<1>4. /\ \A i \in DOMAIN l : l[i].call \in {"clear", "destroyScript"}
      /\ \A m \in ToSet(On) : \E i \in DOMAIN l : Covers(l[i], m)
  <2>1. CASE On = <<>>
    BY <1>3, <2>1 DEF ToSet
  <2>2. CASE On # <<>>
    <3>1. /\ DOMAIN l = 1 .. 2 /\ l[1].call = "destroyScript" /\ l[1].on = Head(On)
          /\ l[2].call = "clear" /\ l[2].on = Tail(On)
      BY <1>3, <2>2 DEF CallOn
    <3>2. ASSUME NEW m \in ToSet(On) PROVE m = Head(On) \/ m \in ToSet(Tail(On))
      <4> DEFINE q == On
      <4>1. q \in Seq(Modules) /\ q # <<>> /\ m \in ToSet(q)
        BY <1>2, <2>2, <3>2
      <4> HIDE DEF q
      <4>2. PICK i \in DOMAIN q : q[i] = m
        BY <4>1 DEF ToSet
      <4>3. CASE i = 1
        BY <4>1, <4>2, <4>3 DEF q
      <4>4. CASE i # 1
        <5>1. i - 1 \in DOMAIN Tail(q) /\ Tail(q)[i - 1] = q[i]
          BY <4>1, <4>2, <4>4
        <5> QED BY <4>2, <5>1 DEF ToSet, q
      <4> QED BY <4>3, <4>4
    <3>3. 1 \in DOMAIN l /\ 2 \in DOMAIN l /\ \A i \in DOMAIN l : i = 1 \/ i = 2
      BY <3>1
    <3>4. \A i \in DOMAIN l : l[i].call \in {"clear", "destroyScript"}
      BY <3>1, <3>3
    <3>5. ASSUME NEW m \in ToSet(On) PROVE Covers(l[1], m) \/ Covers(l[2], m)
      BY <3>1, <3>2
    <3> QED BY <3>3, <3>4, <3>5
  <2> QED BY <2>1, <2>2
<1>5. /\ DOMAIN todo = 1 .. Len(todo) /\ DOMAIN l = 1 .. Len(l) /\ DOMAIN todo' = 1 .. Len(todo')
      /\ Len(l) \in Nat /\ Len(todo) \in Nat /\ 1 \in {0, 1} /\ Head(todo) = todo[1]
  BY <1>1, <1>3, Moved
<1>6. /\ \A i \in DOMAIN l : i \in DOMAIN todo' /\ todo'[i] = l[i]
      /\ \A i \in DOMAIN todo : i > 1 =>
           i + Len(l) - 1 \in DOMAIN todo' /\ todo'[i + Len(l) - 1] = todo[i]
      /\ \A i \in DOMAIN todo' :
           \/ i \in DOMAIN l /\ todo'[i] = l[i]
           \/ \E j \in DOMAIN todo : j > 1 /\ i = j + Len(l) - 1 /\ todo'[i] = todo[j]
  BY <1>1, <1>3, <1>5, Moved
<1>7. Undone'
  <2> SUFFICES ASSUME NEW k \in DOMAIN todo', todo'[k].call = "destroy",
                      NEW m \in ToSet(generated) \cap alive
               PROVE  \E i \in 1 .. k - 1 : Covers(todo'[i], m)
    BY <1>1 DEF Undone
  <2>1. PICK kk \in DOMAIN todo : kk > 1 /\ k = kk + Len(l) - 1 /\ todo[kk].call = "destroy"
    BY <1>4, <1>6
  <2>2. PICK i \in 1 .. kk - 1 : Covers(todo[i], m)
    <3>1. \A x \in ToSet(generated) \cap alive : \E i \in 1 .. kk - 1 : Covers(todo[i], x)
      BY <2>1 DEF UndoneAndDone, UndoInv, Undone
    <3>2. ToSet(generated)' = ToSet(generated) /\ alive' = alive
      BY <1>1
    <3> QED BY <3>1, <3>2
  <2>3. CASE i = 1
    <3>1. m \in ToSet(On)
      BY <1>1, <1>2, <1>5, <2>2, <2>3
    <3>2. PICK j \in DOMAIN l : Covers(l[j], m)
      BY <3>1, <1>4
    <3>3. j \in 1 .. k - 1 /\ todo'[j] = l[j]
      BY <1>5, <1>6, <2>1
    <3> QED BY <3>2, <3>3
  <2>4. CASE i # 1
    <3>1. i \in DOMAIN todo /\ i > 1
      BY <2>1, <2>2, <2>4, <1>5
    <3>2. i + Len(l) - 1 \in 1 .. k - 1 /\ todo'[i + Len(l) - 1] = todo[i]
      BY <3>1, <2>1, <2>2, <1>5, <1>6
    <3> QED BY <3>2, <2>2
  <2> QED BY <2>3, <2>4
<1>8. QED BY <1>1, <1>3, <1>4, <1>7, UndoDone

LEMMA DestroyScriptDone ==
  ASSUME TypeOK, UndoneAndDone, DestroyScript
  PROVE  UndoneAndDone'
<1>1. /\ todo # <<>> /\ Head(todo).call = "destroyScript" /\ todo \in Seq(Frames) /\ alive' = alive \ {On}
      /\ UNCHANGED <<source, top, generated, error, queues, thrown, done, result>>
      /\ On = todo[1].on /\ Head(todo) = todo[1] /\ 1 \in DOMAIN todo
  BY OnType DEF DestroyScript, Doing, TypeOK, session
<1>2. CASE UNCHANGED todo
  <2>1. Clean' => Clean
    BY <1>1, <1>2 DEF Clean
  <2> QED BY <1>1, <1>2, <2>1, SameDone
<1>3. CASE Then(<<>>)
  <2>1. <<>> \in Seq(Frames) /\ DOMAIN <<>> = {}
    OBVIOUS
  <2>0. Stacks(<<>>, 1)
    BY <1>1, <1>3, <2>1, ListStep
  <2>2. /\ DOMAIN todo = 1 .. Len(todo) /\ DOMAIN todo' = 1 .. Len(todo') /\ Len(todo) \in Nat
        /\ \A i \in DOMAIN todo' : i + 1 \in DOMAIN todo /\ todo'[i] = todo[i + 1]
        /\ \A i \in DOMAIN todo : i # 1 => i - 1 \in DOMAIN todo' /\ todo'[i - 1] = todo[i]
    BY <1>1, <1>3 DEF Then
  <2>3. Undone'
    <3> SUFFICES ASSUME NEW k \in DOMAIN todo', todo'[k].call = "destroy",
                        NEW m \in ToSet(generated) \cap alive, m # On
                 PROVE  \E i \in 1 .. k - 1 :
                          \/ todo'[i].call = "clear" /\ m \in ToSet(todo'[i].on)
                          \/ todo'[i].call = "destroyScript" /\ m = todo'[i].on
      BY <1>1 DEF Undone
    <3>1. k + 1 \in DOMAIN todo /\ todo[k + 1].call = "destroy"
      BY <2>2
    <3>2. PICK i \in 1 .. (k + 1) - 1 :
            \/ todo[i].call = "clear" /\ m \in ToSet(todo[i].on)
            \/ todo[i].call = "destroyScript" /\ m = todo[i].on
      BY <3>1 DEF UndoneAndDone, UndoInv, Undone
    <3>3. i # 1
      BY <1>1, <3>2
    <3>4. i \in DOMAIN todo /\ i - 1 \in 1 .. k - 1
      BY <3>1, <3>2, <3>3, <2>2
    <3>5. todo'[i - 1] = todo[i]
      BY <3>3, <3>4, <2>2
    <3> QED BY <3>2, <3>4, <3>5
  <2> QED BY <1>1, <2>0, <2>1, <2>3, UndoDone
<1>4. QED BY <1>2, <1>3 DEF DestroyScript

\* The steps that keep what is queued.
LEMMA QuietDone ==
  ASSUME TypeOK, StackInv, UndoneAndDone, todo # <<>>,
         UNCHANGED <<source, top, generated, error, thrown, done, result, incomplete, collected, tasks,
                     uninitialized>>,
         NEW l \in Seq(Frames), NEW d \in {0, 1}, Stacks(l, d),
         Head(todo).call \notin Session \cup Outer \cup {"clear", "destroyScript", "add", "declare",
                                "unresolved", "failTemplate", "finalize", "compileFunctions"},
         \A i \in DOMAIN l : l[i].call \in {"load", "import", "run", "processAll", "reprocess"},
         \A i \in DOMAIN l : l[i].call = "reprocess" =>
           \E j \in DOMAIN l : i < j /\ l[j].call = "processAll",
         Head(todo).call = "run" =>
           d = 1 /\ UNCHANGED queues /\ \A i \in DOMAIN l : l[i].call = "run",
         Head(todo).call \in Settles /\ d = 1 =>
           \/ \E j \in DOMAIN l : l[j].call = "processAll"
           \/ incomplete = <<>> /\ collected = <<>>
           \/ \A k \in DOMAIN todo : todo[k].call # "compileFunctions"
  PROVE  UndoneAndDone'
<1>1. Members' = Members
  BY DEF Members
<1>2. \A s : Head(todo) # CallOn("add", s) /\ Head(todo) # CallOn("unresolved", s)
  BY DEF CallOn
<1>3. ASSUME NEW s \in Members, NEW n \in DOMAIN source[s], Declared(s, n) PROVE Declared(s, n)'
  <2>1. /\ \A t \in ToSet(incomplete) : Queued(t)'
        /\ \A t \in ToSet(collected) : Queued(t)'
        /\ \A t \in ToSet(tasks) : Queued(t)'
        /\ \A t \in ToSet(uninitialized) : Queued(t)'
    BY DEF Queued
  <2> QED BY <1>2, <1>3, <2>1, DeclaredKeeps
<1>4. \A i \in DOMAIN l : l[i].call \in Unsettled =>
        \/ Head(todo).call \in Unsettled
        \/ \E j \in DOMAIN l : i < j /\ l[j].call \in Settles
  BY DEF Unsettled, Settles
<1>5. Head(todo).call \in Settles /\ d = 1 =>
        \/ \E j \in DOMAIN l : l[j].call \in Settles
        \/ incomplete' = <<>> /\ collected' = <<>>
        \/ \A k \in DOMAIN todo : todo[k].call # "compileFunctions"
  BY DEF Settles
<1>6. /\ Head(todo).call \notin Session \cup Outer \cup {"clear", "destroyScript"}
      /\ Head(todo).call \notin {"failTemplate", "finalize", "compileFunctions"}
      /\ \A i \in DOMAIN l : l[i].call \notin {"endCompile", "destroy", "compileFunctions"}
  OBVIOUS
<1>7. QED BY <1>1, <1>2, <1>3, <1>4, <1>5, <1>6, InnerStep

LEMMA ImportDone ==
  ASSUME TypeOK, StackInv, UndoneAndDone, Import
  PROVE  UndoneAndDone'
<1>1. /\ todo # <<>> /\ Head(todo).call = "import" /\ 1 \in {0, 1}
      /\ UNCHANGED <<source, top, generated, error, thrown, done, result, incomplete, collected, tasks,
                     uninitialized>>
  BY DEF Import, Doing, session, queues, history
<1>2. PICK l \in Seq(Frames) :
        /\ Stacks(l, 1)
        /\ \A i \in DOMAIN l :
             \/ /\ i = 1 /\ On # <<>> /\ l[i] = CallOn("load", Head(On)) /\ Head(On) \notin loaded
             \/ On # <<>> /\ l[i] = CallOn("import", Tail(On))
  BY ImportStep
<1>3. \A i \in DOMAIN l : l[i].call \in {"load", "import"}
  BY <1>2 DEF CallOn
<1>4. Head(todo).call \notin Session \cup Outer \cup Settles
  BY <1>1 DEF Session, Outer, Settles
<1>5. QED BY <1>1, <1>2, <1>3, <1>4, QuietDone

LEMMA AddedDone ==
  ASSUME TypeOK, StackInv, UndoneAndDone, Added
  PROVE  UndoneAndDone'
<1>1. /\ todo # <<>> /\ Head(todo).call = "added" /\ 1 \in {0, 1}
      /\ UNCHANGED <<source, top, generated, error, thrown, done, result, incomplete, collected, tasks,
                     uninitialized>>
  BY DEF Added, Doing, session, queues, history
<1>2. Head(todo).call \notin Session \cup Outer
  BY <1>1 DEF Session, Outer
<1>3. CASE state = "CompilingFunctions"
  <2> DEFINE l == <<Call("processAll")>>
  <2>1. l \in Seq(Frames) /\ DOMAIN l = {1} /\ l[1].call = "processAll"
    BY FrameKinds
  <2>2. Then(l)
    BY <1>3 DEF Added
  <2> HIDE DEF l
  <2>3. Stacks(l, 1)
    BY <1>1, <2>1, <2>2, ListStep
  <2> QED BY <1>1, <1>2, <2>1, <2>3, QuietDone
<1>4. CASE state # "CompilingFunctions"
  <2>1. <<>> \in Seq(Frames) /\ DOMAIN <<>> = {} /\ Then(<<>>)
    BY <1>4 DEF Added
  <2>2. Stacks(<<>>, 1)
    BY <1>1, <2>1, ListStep
  <2>3. \A k \in DOMAIN todo : todo[k].call # "compileFunctions"
    BY <1>4 DEF StackInv, Staged
  <2> QED BY <1>1, <1>2, <2>1, <2>2, <2>3, QuietDone
<1>5. QED BY <1>3, <1>4

LEMMA RunDone ==
  ASSUME TypeOK, StackInv, UndoneAndDone, Run
  PROVE  UndoneAndDone'
<1>1. /\ todo # <<>> /\ Head(todo).call = "run" /\ 1 \in {0, 1} /\ thrown = "none" /\ On \in Seq(Modules)
      /\ UNCHANGED <<source, top, generated, error, done, result, incomplete, collected, tasks,
                     uninitialized, queues>>
  BY OnType DEF Run, Doing, session, queues, history
<1>2. Head(todo).call \notin Session \cup Outer \cup Settles \cup {"clear", "destroyScript"}
  BY <1>1 DEF Session, Outer, Settles
<1>3. CASE Then(<<>>) /\ UNCHANGED thrown
  <2>1. <<>> \in Seq(Frames) /\ DOMAIN <<>> = {}
    OBVIOUS
  <2>2. Stacks(<<>>, 1)
    BY <1>1, <1>3, <2>1, ListStep
  <2> QED BY <1>1, <1>2, <1>3, <2>1, <2>2, QuietDone
<1>4. CASE On # <<>> /\ Then(<<CallOn("run", Tail(On))>>) /\ UNCHANGED thrown
  <2> DEFINE l == <<CallOn("run", Tail(On))>>
  <2>0. CallOn("run", Tail(On)) \in Frames /\ CallOn("run", Tail(On)).call = "run"
    <3>1. Tail(On) \in Seq(Modules)
      BY <1>1, <1>4
    <3>2. CallOn("run", Tail(On)) \in Frames
      BY <3>1, FrameKinds
    <3> QED BY <3>2 DEF CallOn
  <2>1. l \in Seq(Frames) /\ DOMAIN l = {1} /\ l[1].call = "run"
    BY <2>0
  <2>2. Then(l)
    BY <1>4
  <2> HIDE DEF l
  <2>3. Stacks(l, 1)
    BY <1>1, <2>1, <2>2, ListStep
  <2> QED BY <1>1, <1>2, <1>4, <2>1, <2>3, QuietDone
<1>5. ASSUME NEW what \in Exceptions, Throw(what) PROVE UndoneAndDone'
  BY <1>1, <1>2, <1>5, ThrowDone DEF Throw, Exceptions
<1>6. QED BY <1>3, <1>4, <1>5 DEF Run, Exceptions

LEMMA UnresolvedDone ==
  ASSUME TypeOK, StackInv, UndoneAndDone, Unresolved
  PROVE  UndoneAndDone'
<1>1. /\ todo # <<>> /\ Head(todo).call = "unresolved" /\ 1 \in {0, 1} /\ thrown = "none" /\ On \in Tasks
      /\ UNCHANGED <<source, top, generated, error, done, result, collected, tasks, uninitialized>>
  BY OnType DEF Unresolved, Doing, session, history
<1>2. Head(todo).call \notin Session \cup Outer \cup Settles \cup {"clear", "destroyScript"}
      /\ Head(todo).call \in Unsettled
  BY <1>1 DEF Session, Outer, Settles, Unsettled
<1>3. CASE incomplete' = Append(incomplete, On) /\ Then(<<>>) /\ UNCHANGED thrown
  <2>1. <<>> \in Seq(Frames) /\ DOMAIN <<>> = {}
    OBVIOUS
  <2>2. Stacks(<<>>, 1)
    BY <1>1, <1>3, <2>1, ListStep
  <2>3. Members' = Members
    BY <1>1 DEF Members
  <2>4. On \in ToSet(incomplete)' /\ ToSet(incomplete) \subseteq ToSet(incomplete)'
    <3>1. incomplete \in Seq(Tasks)
      BY DEF TypeOK
    <3> QED BY <1>1, <1>3, <3>1, AppendProperties DEF ToSet
  <2>5. ASSUME NEW s \in Members, NEW n \in DOMAIN source[s], Declared(s, n) PROVE Declared(s, n)'
    <3>1. /\ \A t \in ToSet(incomplete) : Queued(t)'
          /\ \A t \in ToSet(collected) : Queued(t)'
          /\ \A t \in ToSet(tasks) : Queued(t)'
          /\ \A t \in ToSet(uninitialized) : Queued(t)'
      BY <1>1, <2>4 DEF Queued
    <3>2. ASSUME NEW t, Head(todo) = CallOn("unresolved", t) PROVE Queued(t)'
      <4>1. On = t
        BY <3>2 DEF On, CallOn
      <4> QED BY <2>4, <4>1 DEF Queued
    <3> QED BY <1>1, <2>1, <2>2, <2>5, <3>1, <3>2, DeclaredKeeps
  <2>6. \A s : Head(todo) # CallOn("add", s)
    BY <1>1 DEF CallOn
  <2> QED BY <1>1, <1>2, <1>3, <2>1, <2>2, <2>3, <2>5, <2>6, InnerStep
<1>4. CASE Throw("CompilationFailure")
  BY <1>1, <1>2, <1>4, ThrowDone DEF Throw
<1>5. QED BY <1>3, <1>4 DEF Unresolved

\* What a declaration puts in a queue, or leaves to the calls that it makes.
LEMMA DeclareDone ==
  ASSUME TypeOK, StackInv, UndoneAndDone, Declare
  PROVE  UndoneAndDone'
<1>1. /\ todo # <<>> /\ Head(todo).call = "declare" /\ 1 \in {0, 1} /\ thrown = "none" /\ On \in Tasks
      /\ UNCHANGED <<source, top, generated, error, done, result, uninitialized>>
  BY OnType DEF Declare, Doing, session, history
<1>2. Head(todo).call \notin Session \cup Outer \cup Settles \cup {"clear", "destroyScript"}
      /\ Head(todo).call \in Unsettled
  BY <1>1 DEF Session, Outer, Settles, Unsettled
<1>3. CASE thrown' = "none"
  <2>1. PICK l \in Seq(Frames) :
          /\ Stacks(l, 1)
          /\ \A i \in DOMAIN l : l[i] \in DeclareCalls(On)
          /\ \A i \in DOMAIN l : l[i].call = "import" => Is(On) = "import"
          /\ Is(On) \in {"late", "unknown", "badInstance"} =>
               \E i \in DOMAIN l : l[i] = CallOn("unresolved", On)
          /\ On.at < Len(source[On.script]) =>
               \E i \in DOMAIN l : l[i] = CallOn("declare", Task(On.script, On.at + 1))
    BY <1>3, DeclareStep
  <2>2. Members' = Members
    BY <1>1 DEF Members
  <2>3. \A i \in DOMAIN l : l[i].call \in {"clear", "unresolved", "declare", "import"}
    BY <2>1 DEF DeclareCalls, CallOn
  <2>4. \A i \in DOMAIN l : i \in DOMAIN todo' /\ todo'[i] = l[i]
    BY <1>1, <2>1, Moved DEF TypeOK
  <2>5. /\ ToSet(incomplete) \subseteq ToSet(incomplete)' /\ ToSet(tasks) \subseteq ToSet(tasks)'
        /\ ToSet(collected) \subseteq ToSet(collected)' /\ ToSet(uninitialized) \subseteq ToSet(uninitialized)'
    <3>1. incomplete' = incomplete
      BY DEF Declare
    <3>2. ToSet(tasks) \subseteq ToSet(tasks)'
      <4>1. tasks \in Seq(Tasks) /\ tasks' \in {tasks, Append(tasks, On)}
        BY DEF TypeOK, Declare
      <4> QED BY <4>1, <1>1, AppendProperties DEF ToSet
    <3>3. ToSet(collected) \subseteq ToSet(collected)'
      <4>1. collected \in Seq(Tasks) /\ collected' \in {collected, Append(collected, On)}
        BY DEF TypeOK, Declare
      <4> QED BY <4>1, <1>1, AppendProperties DEF ToSet
    <3> QED BY <1>1, <3>1, <3>2, <3>3
  <2>6. ASSUME NEW t, t = On PROVE Is(t) = "import" \/ Queued(t)'
    <3>1. CASE Is(On) \in Functions /\ tasks' = Append(tasks, On)
      <4>1. tasks \in Seq(Tasks)
        BY DEF TypeOK
      <4>2. t \in ToSet(tasks)'
        BY <2>6, <3>1, <4>1, <1>1, AppendProperties DEF ToSet
      <4> QED BY <4>2 DEF Queued
    <3>2. CASE Is(On) \in {"variable", "badVariable"} /\ collected' = Append(collected, On)
      <4>1. collected \in Seq(Tasks)
        BY DEF TypeOK
      <4>2. t \in ToSet(collected)'
        BY <2>6, <3>2, <4>1, <1>1, AppendProperties DEF ToSet
      <4> QED BY <4>2 DEF Queued
    <3>3. CASE Is(On) \in {"late", "unknown", "badInstance"}
      <4>1. \E i \in DOMAIN todo' : todo'[i] = CallOn("unresolved", t)
        BY <2>6, <3>3, <2>1, <2>4
      <4> QED BY <4>1 DEF Queued
    <3> QED BY <2>6, <3>1, <3>2, <3>3, <1>3 DEF Declare, Throw
  <2>7. ASSUME NEW s \in Members, NEW n \in DOMAIN source[s], Declared(s, n)
        PROVE  source[s][n].is = "import" \/ Declared(s, n)'
    <3>1. ASSUME On.script = s, On.at <= n PROVE source[s][n].is = "import" \/ Declared(s, n)'
      <4>1. PICK t : t = On
        OBVIOUS
      <4>2. t \in Tasks /\ t.script = s /\ t.at \in Nat /\ t.at <= n /\ t = Task(s, t.at)
        BY <1>1, <3>1, <4>1, TaskFields
      <4>3. source[s] \in Seq(Declarations) /\ n \in 1 .. Len(source[s]) /\ Len(source[s]) \in Nat
        BY <4>2 DEF TypeOK, Tasks
      <4>4. CASE t.at = n
        <5>1. Is(t) = source[s][n].is
          BY <4>2, <4>3, <4>4 DEF Is
        <5>2. t = Task(s, n)
          BY <4>2, <4>4
        <5> QED BY <2>6, <4>1, <5>1, <5>2 DEF Declared
      <4>5. CASE t.at < n
        <5> DEFINE next == Task(s, t.at + 1)
        <5>1. next.script = s /\ next.at <= n
          BY <4>2, <4>3, <4>5 DEF Task
        <5>2. \E i \in DOMAIN l : l[i] = CallOn("declare", next)
          BY <2>1, <4>1, <4>2, <4>3, <4>5
        <5> HIDE DEF next
        <5>3. PICK i \in DOMAIN todo' : todo'[i] = CallOn("declare", next)
          BY <2>4, <5>2
        <5>4. todo'[i].call = "declare" /\ todo'[i].on = next
          BY <5>3 DEF CallOn
        <5> QED BY <5>1, <5>4 DEF Declared
      <4> QED BY <4>2, <4>3, <4>4, <4>5
    <3>2. CASE ~(On.script = s /\ On.at <= n)
      <4>1. Task(s, n) \in done \/ Queued(Task(s, n))
            \/ \E i \in DOMAIN todo : i > 1 /\ todo[i].call = "declare" /\ todo[i].on.script = s
                                      /\ todo[i].on.at <= n
        <5>1. ASSUME NEW i \in DOMAIN todo, todo[i].on.script = s, todo[i].on.at <= n PROVE i > 1
          <6>1. On = todo[1].on
            BY <1>1, OnType
          <6>2. i # 1
            BY <3>2, <5>1, <6>1
          <6>3. todo \in Seq(Frames)
            BY DEF TypeOK
          <6>4. i \in Nat /\ i >= 1
            BY <6>3
          <6> QED BY <6>2, <6>4
        <5> QED BY <2>7, <5>1 DEF Declared
      <4>2. \A i \in DOMAIN todo : i > 1 => \E j \in DOMAIN todo' : todo'[j] = todo[i]
        BY <1>1, <2>1, Moved DEF TypeOK
      <4>3. ASSUME NEW t, Queued(t) PROVE Queued(t)'
        <5>1. ASSUME NEW i \in DOMAIN todo, todo[i] = CallOn("unresolved", t) PROVE i > 1
          <6>1. Head(todo) = todo[1] /\ DOMAIN todo = 1 .. Len(todo)
            BY <1>1, OnType DEF TypeOK
          <6> QED BY <1>1, <5>1, <6>1 DEF CallOn
        <5>2. (\E i \in DOMAIN todo : todo[i] = CallOn("unresolved", t)) =>
                \E i \in DOMAIN todo' : todo'[i] = CallOn("unresolved", t)
          BY <4>2, <5>1
        <5> QED BY <2>5, <4>3, <5>2 DEF Queued
      <4> QED BY <1>1, <4>1, <4>2, <4>3 DEF Declared
    <3> QED BY <3>1, <3>2
  <2>8. \A s : Head(todo) # CallOn("add", s)
    BY <1>1 DEF CallOn
  <2>9. \A i \in DOMAIN l : l[i].call \notin {"endCompile", "destroy", "compileFunctions"}
    BY <2>3
  <2>10. Head(todo).call \notin {"failTemplate", "run", "finalize", "compileFunctions"}
    BY <1>1
  <2> QED BY <1>1, <1>2, <1>3, <2>1, <2>2, <2>7, <2>8, <2>9, <2>10, InnerStep
<1>4. CASE thrown' # "none"
  <2>1. Throw("CompilationFailure")
    BY <1>1, <1>4 DEF Declare
  <2> QED BY <1>1, <1>2, <1>4, <2>1, ThrowDone DEF Throw
<1>5. QED BY <1>3, <1>4

LEMMA AddDone ==
  ASSUME TypeOK, StackInv, UndoneAndDone, Add
  PROVE  UndoneAndDone'
<1>1. /\ todo # <<>> /\ Head(todo).call = "add" /\ 1 \in {0, 1} /\ thrown = "none" /\ On \in Scripts
      /\ UNCHANGED <<source, top, generated, thrown, done, result, incomplete, collected, uninitialized>>
  BY OnType DEF Add, Doing, history
<1>2. Head(todo).call \notin Session \cup Outer \cup Settles \cup {"clear", "destroyScript"}
      /\ Head(todo).call \in Unsettled
  BY <1>1 DEF Session, Outer, Settles, Unsettled
<1>3. PICK l \in Seq(Frames) :
        /\ Stacks(l, 1)
        /\ l = IF Parsed(On) THEN From(Task(On, 0)) ELSE <<>>
        /\ \A i \in DOMAIN l : l[i] = CallOn("declare", Task(On, 1))
        /\ Parsed(On) /\ Len(source[On]) > 0 => Len(l) = 1
  BY AddStep
<1>5. (error => error') /\ (Clean' => Parsed(On))
  BY DEF Add, Clean, TypeOK
<1>6. \A i \in DOMAIN l : l[i].call = "declare"
  BY <1>3 DEF CallOn
<1>7. ASSUME Clean', NEW s \in Members', Head(todo) = CallOn("add", s), NEW n \in DOMAIN source[s]
      PROVE  Declared(s, n)'
  <2>1. On = s
    BY <1>7 DEF On, CallOn
  <2>2. source[s] \in Seq(Declarations) /\ s \in Scripts
    BY <1>1, <2>1 DEF TypeOK
  <2>3. n \in Nat /\ n >= 1 /\ Len(source[On]) > 0
    BY <1>7, <2>1, <2>2
  <2>4. 1 \in DOMAIN l /\ l[1] = CallOn("declare", Task(s, 1))
    BY <1>3, <1>5, <1>7, <2>1, <2>3
  <2>5. 1 \in DOMAIN todo' /\ todo'[1] = CallOn("declare", Task(s, 1))
    BY <1>1, <1>3, <2>4, Moved DEF TypeOK
  <2>6. todo'[1].call = "declare" /\ todo'[1].on.script = s /\ todo'[1].on.at <= n
    BY <2>3, <2>5 DEF CallOn, Task
  <2> QED BY <2>5, <2>6 DEF Declared
<1>8. Clean' => \A s \in Members' : Head(todo) = CallOn("add", s) =>
        Parsed(s) /\ \A n \in DOMAIN source[s] : Declared(s, n)'
  <2>1. \A s : Head(todo) = CallOn("add", s) => On = s
    BY DEF On, CallOn
  <2> QED BY <1>5, <1>7, <2>1
<1>9. ASSUME NEW s \in Members, NEW n \in DOMAIN source[s], Declared(s, n), Clean' PROVE Declared(s, n)'
  <2>1. ToSet(tasks) \subseteq ToSet(tasks)'
    <3>1. tasks \in Seq(Tasks) /\ (Parsed(On) => tasks' = Append(tasks, Task(On, 0))) /\ Task(On, 0) \in Tasks
      BY <1>1, SMTT(60) DEF TypeOK, Add, Tasks, Task
    <3> QED BY <3>1, <1>5, <1>9, AppendProperties DEF ToSet
  <2>2. /\ \A t \in ToSet(incomplete) : Queued(t)'
        /\ \A t \in ToSet(collected) : Queued(t)'
        /\ \A t \in ToSet(tasks) : Queued(t)'
        /\ \A t \in ToSet(uninitialized) : Queued(t)'
    BY <1>1, <2>1 DEF Queued
  <2>3. \A t : Head(todo) # CallOn("unresolved", t)
    BY <1>1 DEF CallOn
  <2> QED BY <1>1, <1>3, <1>9, <2>2, <2>3, DeclaredKeeps
<1>10. Members' = Members
  BY <1>1 DEF Members
<1>11. \A i \in DOMAIN l : l[i].call \notin {"endCompile", "destroy", "compileFunctions"}
  BY <1>6
<1>12. Head(todo).call \notin {"failTemplate", "run", "finalize", "compileFunctions"}
  BY <1>1
<1>13. QED BY <1>1, <1>2, <1>3, <1>5, <1>8, <1>9, <1>10, <1>11, <1>12, InnerStep

LEMMA LoadDone ==
  ASSUME TypeOK, StackInv, UndoneAndDone, Load
  PROVE  UndoneAndDone'
<1>1. /\ todo # <<>> /\ Head(todo).call = "load" /\ 1 \in {0, 1} /\ On \in Modules /\ thrown = "none"
      /\ UNCHANGED <<source, top, error, thrown, done, result, incomplete, collected, tasks, uninitialized>>
      /\ Head(todo) = todo[1] /\ 1 \in DOMAIN todo
  BY OnType DEF Load, Doing, history, queues
<1>2. Head(todo).call \notin Session \cup Outer \cup Settles \cup {"clear", "destroyScript"}
  BY <1>1 DEF Session, Outer, Settles
<1>3. PICK l \in Seq(Frames) :
        /\ Stacks(l, 1)
        /\ \/ /\ Active
              /\ l = <<CallOn("add", On), Call("added"), CallOn("endAdd", On), CallOn("loaded", On)>>
           \/ ~Active /\ l = <<CallOn("compile", On), CallOn("runModule", On), CallOn("loaded", On)>>
  BY LoadStep
<1>4. CASE Active
  <2>1. /\ DOMAIN l = 1 .. 4 /\ l[1] = CallOn("add", On) /\ l[1].call = "add" /\ l[2].call = "added"
        /\ l[3].call = "endAdd" /\ l[4].call = "loaded"
    BY <1>3, <1>4 DEF Call, CallOn
  <2>2. 1 \in DOMAIN l /\ 2 \in DOMAIN l /\ \A i \in DOMAIN l : i = 1 \/ i = 2 \/ i = 3 \/ i = 4
    BY <2>1
  <2>3. \A i \in DOMAIN l : l[i].call \in Unsettled => i < 2
    BY <2>1, <2>2 DEF Unsettled
  <2>4. l[2].call \in Settles
    BY <2>1 DEF Settles
  <2>5. \A s \in Members' : s \in Members \/ \E i \in DOMAIN l : l[i] = CallOn("add", s)
    <3>1. generated \in Seq(Modules) /\ generated' = Append(generated, On)
      BY <1>4 DEF Load, TypeOK
    <3>2. ToSet(generated)' \subseteq ToSet(generated) \cup {On}
      BY <3>1, <1>1, AppendProperties DEF ToSet
    <3> QED BY <3>2, <1>1, <2>1, <2>2 DEF Members
  <2>6. \A s : Head(todo) # CallOn("add", s) /\ Head(todo) # CallOn("unresolved", s)
    BY <1>1 DEF CallOn
  <2>7. ASSUME NEW s \in Members, NEW n \in DOMAIN source[s], Declared(s, n) PROVE Declared(s, n)'
    <3>1. /\ \A t \in ToSet(incomplete) : Queued(t)'
          /\ \A t \in ToSet(collected) : Queued(t)'
          /\ \A t \in ToSet(tasks) : Queued(t)'
          /\ \A t \in ToSet(uninitialized) : Queued(t)'
      BY <1>1 DEF Queued
    <3> QED BY <1>1, <1>3, <2>6, <2>7, <3>1, DeclaredKeeps
  <2>8. \A i \in DOMAIN l : l[i].call \notin {"endCompile", "destroy", "compileFunctions"}
    BY <2>1, <2>2
  <2> QED BY <1>1, <1>2, <1>3, <2>2, <2>3, <2>4, <2>5, <2>6, <2>7, <2>8, InnerStep
<1>5. CASE ~Active
  <2>1. Len(todo) = 1
    <3>1. DOMAIN todo = 1 .. Len(todo) /\ Len(todo) \in Nat
      BY DEF TypeOK
    <3>2. ASSUME NEW j \in DOMAIN todo, 1 < j, todo[j].call \in Session PROVE FALSE
      BY <3>1, <3>2, <1>1, <1>5 DEF StackInv, Nested, Session, Inner
    <3> QED BY <3>1, <3>2, <1>1 DEF StackInv, Based, Outer, Session
  <2>2. Len(l) = 3 /\ l[1].call = "compile" /\ l[2].call = "runModule" /\ l[3].call = "loaded"
    BY <1>3, <1>5 DEF CallOn
  <2>3. \A i \in DOMAIN todo' : todo'[i].call \in Outer \cup {"compile"}
    <3>1. /\ Len(todo') = 3 /\ DOMAIN todo' = 1 .. 3
          /\ \A i \in DOMAIN todo' : todo'[i] = IF i <= 3 THEN l[i] ELSE todo[i - 3 + 1]
      BY <1>3, <2>1, <2>2 DEF Stacks
    <3>2. \A i \in DOMAIN todo' : i <= 3 /\ (i = 1 \/ i = 2 \/ i = 3)
      BY <3>1
    <3>3. \A i \in DOMAIN todo' : todo'[i] = l[i]
      BY <3>1, <3>2
    <3> QED BY <2>2, <3>2, <3>3 DEF Outer
  <2>4. result' \notin {"failed", "compiled"}
    BY <1>1 DEF UndoneAndDone, UndoInv, CompleteInv, Failed, Succeeded, Outer
  <2> QED BY <2>3, <2>4, CallDone
<1>6. QED BY <1>4, <1>5

LEMMA ProcessAllDone ==
  ASSUME TypeOK, StackInv, UndoneAndDone, ProcessAll
  PROVE  UndoneAndDone'
<1>1. /\ todo # <<>> /\ Head(todo).call = "processAll" /\ 0 \in {0, 1} /\ 1 \in {0, 1} /\ thrown = "none"
      /\ UNCHANGED <<source, top, generated, error, done, result, incomplete, tasks>>
  BY DEF ProcessAll, Doing, session, history
<1>2. Head(todo).call \notin Session \cup Outer \cup {"clear", "destroyScript"}
  BY <1>1 DEF Session, Outer
<1>3. CASE Then(<<Call("reprocess"), Call("processAll")>>) /\ UNCHANGED <<collected, uninitialized, thrown>>
  <2> DEFINE l == <<Call("reprocess"), Call("processAll")>>
  <2>1. l \in Seq(Frames) /\ DOMAIN l = 1 .. 2 /\ l[1].call = "reprocess" /\ l[2].call = "processAll"
    BY FrameKinds
  <2>2. Then(l)
    BY <1>3
  <2> HIDE DEF l
  <2>3. Stacks(l, 1)
    BY <1>1, <2>1, <2>2, ListStep
  <2>4. 1 \in DOMAIN l /\ 2 \in DOMAIN l /\ \A i \in DOMAIN l : i = 1 \/ i = 2
    BY <2>1
  <2>5. /\ \A i \in DOMAIN l : l[i].call \in {"reprocess", "processAll"}
        /\ \A i \in DOMAIN l : l[i].call = "reprocess" => 2 \in DOMAIN l /\ i < 2 /\ l[2].call = "processAll"
    BY <2>1, <2>4
  <2> QED BY <1>1, <1>2, <1>3, <2>1, <2>3, <2>4, <2>5, QuietDone
<1>4. CASE /\ incomplete = <<>> /\ collected # <<>> /\ collected' = Tail(collected)
           /\ uninitialized' = Append(uninitialized, Head(collected)) /\ UNCHANGED <<todo, thrown>>
  <2>1. PICK l \in Seq(Frames) : Stacks(l, 0) /\ DOMAIN l = {}
    BY <1>4, Stays DEF TypeOK
  <2>2. Members' = Members
    BY <1>1 DEF Members
  <2>3. collected \in Seq(Tasks) /\ uninitialized \in Seq(Tasks) /\ Head(collected) \in Tasks
    BY <1>4 DEF TypeOK
  <2>4. /\ \A t \in ToSet(collected) : t \in ToSet(collected)' \/ t \in ToSet(uninitialized)'
        /\ ToSet(uninitialized) \subseteq ToSet(uninitialized)'
    <3>1. ToSet(collected)' = ToSet(Tail(collected))
      BY <1>4
    <3>2. ToSet(uninitialized)' = ToSet(Append(uninitialized, Head(collected)))
      BY <1>4
    <3>3. ToSet(uninitialized) \subseteq ToSet(uninitialized)' /\ Head(collected) \in ToSet(uninitialized)'
      BY <2>3, <3>2, Appended
    <3>4. \A t \in ToSet(collected) : t = Head(collected) \/ t \in ToSet(Tail(collected))
      BY <2>3, <1>4, Shortened
    <3> QED BY <3>1, <3>3, <3>4
  <2>5. ASSUME NEW s \in Members, NEW n \in DOMAIN source[s], Declared(s, n) PROVE Declared(s, n)'
    <3>1. /\ \A t \in ToSet(incomplete) : Queued(t)'
          /\ \A t \in ToSet(collected) : Queued(t)'
          /\ \A t \in ToSet(tasks) : Queued(t)'
          /\ \A t \in ToSet(uninitialized) : Queued(t)'
      BY <1>1, <2>4 DEF Queued
    <3>2. \A t : Head(todo) # CallOn("unresolved", t)
      BY <1>1 DEF CallOn
    <3> QED BY <1>1, <2>1, <2>5, <3>1, <3>2, DeclaredKeeps
  <2>6. Head(todo).call \notin {"failTemplate", "run", "finalize", "compileFunctions"}
    BY <1>1
  <2>7. \A s : Head(todo) # CallOn("add", s)
    BY <1>1 DEF CallOn
  <2>8. thrown' = thrown
    BY <1>4
  <2>9. incomplete # <<>> \/ collected # <<>>
    BY <1>4
  <2>10. /\ \A i \in DOMAIN l : l[i].call \notin {"endCompile", "destroy", "compileFunctions"}
         /\ \A i \in DOMAIN l : l[i].call \notin Unsettled
    BY <2>1
  <2>11. \A s \in Members' : s \in Members
    BY <2>2
  <2>12. ~(Head(todo).call \in Settles /\ 0 = 1)
    OBVIOUS
  <2> QED BY <1>1, <1>2, <2>1, <2>11, <2>12, <2>10, <2>5, <2>6, <2>7, <2>8, <2>9, InnerStep
<1>5. CASE Throw("CompilationFailure")
  BY <1>1, <1>2, <1>5, ThrowDone DEF Throw
<1>6. CASE /\ incomplete = <<>> /\ collected = <<>> /\ Then(<<>>)
           /\ UNCHANGED <<reprocessing, collected, uninitialized, thrown>>
  <2>1. <<>> \in Seq(Frames) /\ DOMAIN <<>> = {}
    OBVIOUS
  <2>2. Stacks(<<>>, 1)
    BY <1>1, <1>6, <2>1, ListStep
  <2> QED BY <1>1, <1>2, <1>6, <2>1, <2>2, QuietDone
<1>7. QED BY <1>3, <1>4, <1>5, <1>6 DEF ProcessAll

LEMMA ReprocessDone ==
  ASSUME TypeOK, StackInv, UndoneAndDone, Reprocess
  PROVE  UndoneAndDone'
<1>1. /\ todo # <<>> /\ Head(todo).call = "reprocess" /\ 0 \in {0, 1} /\ 1 \in {0, 1} /\ thrown = "none"
      /\ UNCHANGED <<source, top, generated, error, thrown, done, result, collected, uninitialized>>
  BY DEF Reprocess, Doing, session, history
<1>2. /\ Head(todo).call \notin Session \cup Outer \cup Settles \cup {"clear", "destroyScript"}
      /\ Head(todo).call \in Unsettled
  BY <1>1 DEF Session, Outer, Settles, Unsettled
<1>3. Members' = Members
  BY <1>1 DEF Members
<1>4. \A s : Head(todo) # CallOn("add", s) /\ Head(todo) # CallOn("unresolved", s)
  BY <1>1 DEF CallOn
\* A function leaves the queue for another, or to be looked at.
<1>a. ASSUME incomplete # <<>>, incomplete' = Tail(incomplete), NEW l \in Seq(Frames), Stacks(l, 0),
             \A i \in DOMAIN l : l[i].call \in {"clear", "unresolved"}, ToSet(tasks) \subseteq ToSet(tasks)',
             \A t : t = Head(incomplete) => Queued(t)'
      PROVE  UndoneAndDone'
  <2>1. \A t \in ToSet(incomplete) : t = Head(incomplete) \/ t \in ToSet(incomplete)'
    <3>1. incomplete \in Seq(Tasks)
      BY DEF TypeOK
    <3>2. ToSet(incomplete)' = ToSet(Tail(incomplete))
      BY <1>a
    <3> QED BY <3>1, <3>2, <1>a, Shortened
  <2>2. ASSUME NEW s \in Members, NEW n \in DOMAIN source[s], Declared(s, n) PROVE Declared(s, n)'
    <3>1. /\ \A t \in ToSet(incomplete) : Queued(t)'
          /\ \A t \in ToSet(collected) : Queued(t)'
          /\ \A t \in ToSet(tasks) : Queued(t)'
          /\ \A t \in ToSet(uninitialized) : Queued(t)'
      BY <1>1, <1>a, <2>1 DEF Queued
    <3> QED BY <1>1, <1>a, <1>4, <2>2, <3>1, DeclaredKeeps
  <2>3. \A i \in DOMAIN l : l[i].call \notin {"endCompile", "destroy", "compileFunctions"}
    BY <1>a
  <2>4. \A i \in DOMAIN l : l[i] # CallOn("add", Null)
    BY <1>a DEF CallOn
  <2>5. Head(todo).call \notin {"failTemplate", "run", "finalize", "compileFunctions"}
    BY <1>1
  <2> QED BY <1>1, <1>2, <1>3, <1>4, <1>a, <2>2, <2>3, <2>5, InnerStep
<1>5. CASE /\ incomplete # <<>> /\ UNCHANGED todo /\ tasks' = Append(tasks, Head(incomplete))
           /\ incomplete' = Tail(incomplete)
  <2>1. PICK l \in Seq(Frames) : Stacks(l, 0) /\ DOMAIN l = {}
    BY <1>5, Stays DEF TypeOK
  <2>2. tasks \in Seq(Tasks) /\ Head(incomplete) \in Tasks
    BY <1>5 DEF TypeOK
  <2>3. ToSet(tasks) \subseteq ToSet(tasks)' /\ Head(incomplete) \in ToSet(tasks)'
    <3>1. ToSet(tasks)' = ToSet(Append(tasks, Head(incomplete)))
      BY <1>5
    <3> QED BY <2>2, <3>1, Appended
  <2>4. \A t : t = Head(incomplete) => Queued(t)'
    BY <2>3 DEF Queued
  <2> QED BY <1>5, <1>a, <2>1, <2>3, <2>4
<1>6. ASSUME incomplete # <<>>, UNCHANGED tasks, incomplete' = Tail(incomplete), NEW l \in Seq(Frames),
             Stacks(l, 0),
             \A i \in DOMAIN l :
               l[i] \in {CallOn("clear", generated), CallOn("unresolved", Head(incomplete))},
             \E i \in DOMAIN l : l[i] = CallOn("unresolved", Head(incomplete))
      PROVE  UndoneAndDone'
  <2>1. \A i \in DOMAIN l : l[i].call \in {"clear", "unresolved"}
    BY <1>6 DEF CallOn
  <2>2. \A i \in DOMAIN l : i \in DOMAIN todo' /\ todo'[i] = l[i]
    BY <1>1, <1>6, Moved DEF TypeOK
  <2>3. \A t : t = Head(incomplete) => Queued(t)'
    BY <1>6, <2>2 DEF Queued
  <2> QED BY <1>6, <1>a, <2>1, <2>3
<1>7. CASE incomplete = <<>> /\ UNCHANGED <<incomplete, tasks>> /\ Stacks(<<>>, 1)
  <2>1. <<>> \in Seq(Frames) /\ DOMAIN <<>> = {}
    OBVIOUS
  <2> QED BY <1>1, <1>2, <1>7, <2>1, QuietDone
<1>8. QED BY <1>5, <1>6, <1>7, ReprocessStep

LEMMA CompileFunctionDone ==
  ASSUME TypeOK, StackInv, UndoneAndDone, CompileFunction
  PROVE  UndoneAndDone'
<1>1. /\ todo # <<>> /\ Head(todo).call = "compileFunctions" /\ 0 \in {0, 1} /\ 1 \in {0, 1}
      /\ thrown = "none" /\ todo \in Seq(Frames) /\ tasks \in Seq(Tasks)
      /\ UNCHANGED <<source, top, generated, error, result, incomplete, collected, uninitialized>>
  BY DEF CompileFunction, Doing, session, TypeOK
<1>2. /\ Head(todo).call \notin Session \cup Outer \cup Settles \cup {"clear", "destroyScript"}
      /\ Head(todo).call # "failTemplate"
  BY <1>1 DEF Session, Outer, Settles
<1>3. Members' = Members
  BY <1>1 DEF Members
<1>4. \A s : Head(todo) # CallOn("add", s) /\ Head(todo) # CallOn("unresolved", s)
  BY <1>1 DEF CallOn
<1>5. tasks # <<>> /\ tasks' = Tail(tasks)
  BY DEF CompileFunction
<1>6. ASSUME done' = done \cup {Head(tasks)}, UNCHANGED thrown, NEW l \in Seq(Frames), Stacks(l, 0),
             \A i \in DOMAIN l : l[i].call = "import"
      PROVE  UndoneAndDone'
  <2>1. ASSUME NEW s \in Members, NEW n \in DOMAIN source[s], Declared(s, n) PROVE Declared(s, n)'
    <3>1. \A t \in ToSet(tasks) : t \in done' \/ t \in ToSet(tasks)'
      <4>1. ToSet(tasks)' = ToSet(Tail(tasks))
        BY <1>5
      <4> QED BY <1>1, <1>5, <1>6, <4>1, Shortened
    <3>2. /\ \A t \in ToSet(incomplete) : Queued(t)'
          /\ \A t \in ToSet(collected) : Queued(t)'
          /\ \A t \in ToSet(tasks) : Queued(t)' \/ t \in done'
          /\ \A t \in ToSet(uninitialized) : Queued(t)'
      BY <1>1, <3>1 DEF Queued
    <3> QED BY <1>1, <1>4, <1>6, <2>1, <3>2, DeclaredKeeps
  <2>2. /\ \A i \in DOMAIN l : l[i].call \notin {"endCompile", "destroy", "compileFunctions"}
        /\ \A i \in DOMAIN l : l[i].call \notin Unsettled
    BY <1>6 DEF Unsettled
  <2> QED BY <1>1, <1>2, <1>3, <1>4, <1>6, <2>1, <2>2, InnerStep
<1>7. CASE Throw("CompilationFailure") /\ UNCHANGED done
  BY <1>1, <1>2, <1>7, ThrowDone DEF Throw
<1>8. ASSUME NEW l \in Seq(Frames), l = <<CallOn("clear", generated), Call("failTemplate")>>, Stacks(l, 1),
             UNCHANGED <<done, thrown>>
      PROVE  UndoneAndDone'
  <2>1. DOMAIN l = 1 .. 2 /\ l[1].call = "clear" /\ l[2].call = "failTemplate"
    BY <1>8 DEF Call, CallOn
  <2>2. 2 \in DOMAIN l /\ \A i \in DOMAIN l : i = 1 \/ i = 2
    BY <2>1
  <2>3. 2 \in DOMAIN todo' /\ todo'[2] = l[2]
    BY <1>1, <1>8, <2>2, Moved
  <2>4. ~Clean'
    BY <2>1, <2>3 DEF Clean
  <2>5. /\ \A i \in DOMAIN l : l[i].call \notin {"endCompile", "destroy", "compileFunctions"}
        /\ \A i \in DOMAIN l : l[i].call \notin Unsettled
    BY <2>1, <2>2 DEF Unsettled
  <2> QED BY <1>1, <1>2, <1>3, <1>8, <2>4, <2>5, InnerStep
<1>9. QED
  <2>1. \/ /\ done' = done \cup {Head(tasks)} /\ UNCHANGED thrown
           /\ \E l \in Seq(Frames) : Stacks(l, 0) /\ \A i \in DOMAIN l : l[i].call = "import"
        \/ Throw("CompilationFailure") /\ UNCHANGED done
        \/ /\ Stacks(<<CallOn("clear", generated), Call("failTemplate")>>, 1)
           /\ <<CallOn("clear", generated), Call("failTemplate")>> \in Seq(Frames)
           /\ UNCHANGED <<done, thrown>>
    BY CompileFunctionStep
  <2> QED BY <2>1, <1>6, <1>7, <1>8

LEMMA FinishStep ==
  ASSUME TypeOK, StackInv, Numbered, UndoneAndDone, [Next]_vars
  PROVE  UndoneAndDone'
<1>1. ASSUME NEW s \in Scripts, NewScript(s) PROVE UndoneAndDone'
  BY <1>1, NewScriptDone
<1>b. ASSUME NEW f \in Frames, f.call \in {"compile", "load"}, todo' = <<f>>, result' = "none"
      PROVE  UndoneAndDone'
  BY <1>b, CallDone
<1>2. ASSUME NEW s \in Scripts, Compile(s) PROVE UndoneAndDone'
  <2>1. CallOn("compile", s) \in Frames /\ CallOn("compile", s).call = "compile"
    BY FrameKinds DEF CallOn
  <2> QED BY <1>2, <1>b, <2>1 DEF Compile
<1>3. ASSUME NEW m \in Modules, LoadModule(m) PROVE UndoneAndDone'
  <2>1. CallOn("load", m) \in Frames /\ CallOn("load", m).call = "load"
    BY FrameKinds DEF CallOn
  <2> QED BY <1>3, <1>b, <2>1 DEF LoadModule
<1>4. CASE StartSession
  BY <1>4, StartDone
<1>5. CASE EndCompile
  BY <1>5, EndDone, FailDone
<1>6. CASE Clear
  BY <1>6, ClearDone
<1>7. CASE DestroyScript
  BY <1>7, DestroyScriptDone
<1>8. CASE DestroyNamespace
  BY <1>8, FailedDone
<1>9. CASE Add
  BY <1>9, AddDone
<1>10. CASE Declare
  BY <1>10, DeclareDone
<1>11. CASE Unresolved
  BY <1>11, UnresolvedDone
<1>12. CASE Import
  BY <1>12, ImportDone
<1>13. CASE Load
  BY <1>13, LoadDone
<1>14. CASE Added
  BY <1>14, AddedDone
<1>e. ASSUME NEW c \in {"endAdd", "loaded", "runModule"}, Doing(c), todo' = Tail(todo),
             UNCHANGED <<source, top, result, generated, queues, done, alive, error>>
      PROVE  UndoneAndDone'
  <2>1. todo # <<>> /\ thrown = "none" /\ Head(todo).call = c
    BY <1>e DEF Doing
  <2>2. Head(todo).call \notin
          Settles \cup Unsettled \cup {"endCompile", "run", "finalize", "compileFunctions", "failTemplate"}
    BY <2>1 DEF Settles, Unsettled
  <2>3. Head(todo).call \notin {"clear", "destroyScript"}
    BY <2>1
  <2> QED BY <1>e, <2>1, <2>2, <2>3, PopDone
<1>p. Then(<<>>) /\ todo # <<>> => todo' = Tail(todo)
  BY DEF Then, TypeOK
<1>15. CASE EndAdd
  BY <1>15, <1>e, <1>p DEF EndAdd, Doing, engine, session, history
<1>16. CASE Loaded
  BY <1>16, <1>e, <1>p DEF Loaded, Doing, engine, session, history
<1>17. CASE RunModule
  BY <1>17, <1>e, <1>p DEF RunModule, Doing, engine, session, history, Throw
<1>18. CASE Finalize
  BY <1>18, FinalizeDone
<1>19. CASE ProcessAll
  BY <1>19, ProcessAllDone
<1>20. CASE Reprocess
  BY <1>20, ReprocessDone
<1>21. CASE CompileFunction
  BY <1>21, CompileFunctionDone
<1>22. CASE FailTemplate
  <2>1. /\ todo # <<>> /\ Head(todo).call = "failTemplate" /\ Throw("TemplateInstantiationError")
        /\ UNCHANGED <<source, top, result, generated, error>>
    BY <1>22 DEF FailTemplate, Doing, session, history
  <2>2. Head(todo).call \notin Session \cup Outer \cup {"clear", "destroyScript"}
    BY <2>1 DEF Session, Outer
  <2> QED BY <2>1, <2>2, ThrowDone DEF Throw
<1>23. CASE EndFunctions
  BY <1>23, EndFunctionsDone
<1>24. CASE Run
  BY <1>24, RunDone
<1>25. CASE Handle
  <2>1. ~Clean'
    BY <1>25 DEF Handle, Clean
  <2> QED BY <1>25, <2>1, SameDone DEF Handle, engine, history
<1>26. CASE Leave
  BY <1>26, LeaveDone
<1>27. CASE Escape
  <2>1. todo' = <<>> /\ result' \in Exceptions
    BY <1>27 DEF Escape, TypeOK
  <2> QED BY <2>1, CallDone DEF Exceptions
<1>28. CASE UNCHANGED vars
  <2>1. UNCHANGED <<source, top, result, generated, todo, queues, done, alive, thrown, error>>
    BY <1>28 DEF vars, engine, session, history
  <2>2. Clean' => Clean
    BY <2>1 DEF Clean
  <2> QED BY <2>1, <2>2, SameDone
<1>29. QED
  BY <1>1, <1>2, <1>3, <1>4, <1>5, <1>6, <1>7, <1>8, <1>9, <1>10, <1>11, <1>12, <1>13, <1>14,
     <1>15, <1>16, <1>17, <1>18, <1>19, <1>20, <1>21, <1>22, <1>23, <1>24, <1>25, <1>26, <1>27,
     <1>28 DEF Next, Step

-----------------------------------------------------------------------------
(* What holds in every state *)

LEMMA InitInv ==
  ASSUME Init
  PROVE  IInv
<1>1. scripts \in Seq(Scripts) /\ IsInjective(scripts) /\ Modules \subseteq ToSet(scripts)
  BY ScriptsAssumption DEF Init
<1>2. ASSUME NEW s \in ToSet(scripts)
      PROVE  s \in Scripts /\ Place(s) \in DOMAIN scripts /\ scripts[Place(s)] = s
  <2>1. PICK n \in DOMAIN scripts : scripts[n] = s
    BY DEF ToSet
  <2>2. Place(s) \in DOMAIN scripts /\ scripts[Place(s)] = s
    BY <2>1 DEF Place
  <2> QED BY <1>1, <2>2
<1>3. ASSUME NEW s \in ToSet(scripts) PROVE Place(s) \in Nat \ {0}
  BY <1>1, <1>2
<1>4. id \in [Scripts -> Nat] /\ \A s \in ToSet(scripts) : id[s] = Place(s)
  BY <1>2, <1>3 DEF Init
<1>5. TypeOK
  <2>1. source \in [Scripts -> Seq(Declarations)]
    BY ProgramsAssumption DEF Init
  <2>2. scripts \in Seq(Scripts \cup {Null})
    BY <1>1
  <2>3. alive \subseteq Scripts
    BY <1>2 DEF Init
  <2>4. /\ ready \subseteq Scripts /\ loaded \subseteq Modules /\ done \subseteq Tasks
        /\ state \in {"Finished", "ProcessingDeclarations", "CompilingFunctions"}
        /\ top \in Scripts \cup {Null} /\ error \in BOOLEAN /\ reprocessing \in BOOLEAN
        /\ thrown \in {"none"} \cup Exceptions
        /\ result \in {"none", "compiled", "failed"} \cup Exceptions
        /\ calls \in Nat /\ undefined \in BOOLEAN /\ destroyed \subseteq Modules
    BY DEF Init
  <2>5. /\ generated \in Seq(Modules) /\ todo \in Seq(Frames)
        /\ incomplete \in Seq(Tasks) /\ collected \in Seq(Tasks) /\ tasks \in Seq(Tasks)
        /\ uninitialized \in Seq(Tasks)
    <3>1. \A S : <<>> \in Seq(S)
      OBVIOUS
    <3>2. /\ generated = <<>> /\ todo = <<>> /\ incomplete = <<>> /\ collected = <<>> /\ tasks = <<>>
          /\ uninitialized = <<>>
      BY DEF Init
    <3> QED BY <3>1, <3>2
  <2> QED BY <1>4, <2>1, <2>2, <2>3, <2>4, <2>5 DEF TypeOK
<1>6. TableIsRight
  <2>1. ASSUME NEW n \in DOMAIN scripts PROVE id[scripts[n]] = n
    <3>1. scripts[n] \in ToSet(scripts)
      BY DEF ToSet
    <3> QED BY <1>1, <1>2, <1>4, <3>1 DEF IsInjective
  <2>2. ASSUME scripts # <<>> PROVE Last(scripts) # Null
    BY <1>1, <2>2, ScriptsAssumption DEF Last
  <2>3. ASSUME NEW s \in Scripts, id[s] # 0 PROVE IsAtItsId(s)
    <3>1. s \in ToSet(scripts)
      BY <2>3 DEF Init
    <3> QED BY <3>1, <1>2, <1>4 DEF IsAtItsId
  <2> QED BY <2>1, <2>2, <2>3 DEF TableIsRight
<1>7. DOMAIN todo = {} /\ todo = <<>> /\ generated = <<>> /\ DOMAIN generated = {}
  BY DEF Init
<1>8. StackInv
  BY <1>7 DEF Init, StackInv, Nested, Linked, Based, Topmost, Attended, Raised, Staged, Active
<1>9. Numbered
  BY <1>1, <1>3, <1>4, <1>7 DEF Numbered, Init
<1>10. JoinInv
  BY <1>7 DEF JoinInv, Chained, Joined, Fresh, JoinsOnce, IsInjective
<1>g. GoneInv
  BY <1>7 DEF Init, GoneInv, Doomed, Placed, Gone, Spared, Loading
<1>11. UndoInv /\ CompleteInv
  <2>1. result = "none"
    BY DEF Init
  <2> QED BY <1>7, <2>1
          DEF UndoInv, Undone, Failed, CompleteInv, Followed, Settled, Emptied, Succeeded
<1>12. source \in Programs
  BY DEF Init
<1>13. QED BY <1>5, <1>6, <1>8, <1>9, <1>10, <1>11, <1>12, <1>g DEF IInv

LEMMA NextInv ==
  ASSUME IInv, [Next]_vars
  PROVE  IInv'
<1>1. TypeOK'
  BY TypeInv DEF IInv
<1>2. (source \in Programs)'
  BY SourceSame DEF IInv
<1>3. StackInv'
  BY StackStep DEF IInv
<1>4. TableIsRight'
  BY TableStep DEF IInv
<1>g. GoneInv'
  BY GoneInvStep DEF IInv
<1>5. Numbered'
  BY NumberedStep DEF IInv
<1>6. JoinInv'
  BY JoinStep DEF IInv
<1>7. UndoInv' /\ CompleteInv'
  BY FinishStep DEF IInv, UndoneAndDone
<1>8. QED BY <1>1, <1>2, <1>3, <1>4, <1>5, <1>6, <1>7, <1>g DEF IInv

LEMMA Invariance == Spec => []IInv
<1>1. Init => IInv
  BY InitInv
<1>2. IInv /\ [Next]_vars => IInv'
  BY NextInv
<1>3. QED BY <1>1, <1>2, PTL DEF Spec

\* The queues hold declarations of the sources, only modules join the session of another
\* script, and each call of Compiler, ScriptCompiler and ImportProcessor has what it needs.
THEOREM TypeCorrect == Spec => []TypeOK
<1>1. IInv => TypeOK
  BY DEF IInv
<1>2. QED BY <1>1, Invariance, PTL

\* Engine::newScript and EngineImpl::destroy keep the table: each script that was not
\* destroyed is at the place its id says, and the last place is never empty.  A module
\* that was destroyed joins no other session (Module::load returns at once when it is
\* loaded), so none is destroyed again when another script may have its id.
THEOREM TableRight == Spec => []TableIsRight
<1>1. IInv => TableIsRight
  BY DEF IInv
<1>2. QED BY <1>1, Invariance, PTL

\* Whichever exception leaves Compiler::compile, its session is over; and a session has
\* each module once, however many of its scripts import it.
THEOREM SessionsSeparate == Spec => []SessionsAreSeparate
<1>1. IInv => SessionsAreSeparate
  <2> SUFFICES ASSUME IInv PROVE SessionsAreSeparate
    OBVIOUS
  <2>1. todo = <<>> => DOMAIN todo = {}
    OBVIOUS
  <2>2. NoSessionLeft
    BY <2>1 DEF IInv, StackInv, Attended, NoSessionLeft
  <2> QED BY <2>2 DEF IInv, JoinInv, SessionsAreSeparate
<1>2. QED BY <1>1, Invariance, PTL

\* When Script::compile returns true, all of the script and of the modules that it imports
\* is compiled and initialized, and the queues of the one ScriptCompiler are empty; when it
\* returns false, nothing of the session is left.
THEOREM CompilesAllOrNothing == Spec => []AllOrNothing
<1>1. IInv => AllOrNothing
  <2> SUFFICES ASSUME IInv PROVE AllOrNothing
    OBVIOUS
  <2>1. SuccessIsComplete
    BY DEF IInv, CompleteInv, Succeeded, QueuesEmpty, Members, SuccessIsComplete
  <2>2. FailureUndoes
    BY DEF IInv, UndoInv, Failed, FailureUndoes
  <2> QED BY <2>1, <2>2 DEF AllOrNothing
<1>2. QED BY <1>1, Invariance, PTL
================================================================================
