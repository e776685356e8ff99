--------------------------- MODULE CallDiscipline ---------------------------
(***************************************************************************)
(* What the callstack and the data stack of an ExecutionContext promise to *)
(* whoever calls a function: calls end in the reverse order of their       *)
(* beginning, and what happens above a call (its expressions, the calls it *)
(* makes, the exceptions that pass) never reaches down into the slots of   *)
(* its result and of its arguments.                                        *)
(***************************************************************************)
EXTENDS Integers, Sequences

CONSTANTS Functions, Argc

VARIABLES
  calls,   \* the calls in progress, the innermost last
  size     \* the slots of the data stack in use

\* The slot after those of a call: its result is at `start', its arguments next.
End(c) == c.start + 1 + Argc[c.callee]

\* The slots below it belong to the calls in progress.
Floor(cs) == IF cs = <<>> THEN 0 ELSE End(cs[Len(cs)])

Init == calls = <<>> /\ size = 0

\* A call begins on slots its caller does not own as arguments.
Call ==
  \E f \in Functions, s \in Floor(calls) .. size :
    /\ calls' = Append(calls, [callee |-> f, start |-> s])
    /\ size' = s + 1 + Argc[f]

\* The innermost call ends.  Its caller is left with the result, with nothing,
\* or (the call destroyed its last local) with one slot less.
Return ==
  /\ calls # <<>>
  /\ calls' = SubSeq(calls, 1, Len(calls) - 1)
  /\ size' - calls[Len(calls)].start \in {-1, 0, 1}
  /\ size' >= Floor(calls')

\* Expressions and statements push and pop above what the calls own.
Work ==
  /\ calls' = calls
  /\ size' >= Floor(calls)

Next == Call \/ Return \/ Work

Spec == Init /\ [][Next]_<<calls, size>>
=============================================================================
