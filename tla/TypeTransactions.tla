--------------------------- MODULE TypeTransactions ---------------------------
(***************************************************************************)
(* What TypeSystemTransaction promises: types come and go; a transaction   *)
(* that is rolled back leaves none of the types made since its beginning,  *)
(* and until then removes nothing else.  It keeps that promise for the     *)
(* types whose destruction is announced; of the others, the function       *)
(* types, a rollback may remove older ones too.                            *)
(***************************************************************************)
EXTENDS Sequences, SequencesExt

CONSTANT Objects

VARIABLES
  types,        \* the types that exist
  ever,         \* those that have ever existed
  unannounced,  \* those of them whose destruction is announced to nobody
  marks,        \* those that had when each open transaction began
  undoing       \* is the innermost transaction being rolled back?

vars == <<types, ever, unannounced, marks, undoing>>

Init == types = {} /\ ever = {} /\ unannounced = {} /\ marks = <<>> /\ undoing = FALSE

Create == /\ ~undoing
          /\ \E o \in Objects \ ever :
               /\ types' = types \cup {o} /\ ever' = ever \cup {o}
               /\ unannounced' \in {unannounced, unannounced \cup {o}}
          /\ UNCHANGED <<marks, undoing>>

Destroy == /\ ~undoing
           /\ \E S \in SUBSET types : types' = types \ S
           /\ UNCHANGED <<ever, unannounced, marks, undoing>>

Begin == /\ ~undoing
         /\ marks' = Append(marks, ever)
         /\ UNCHANGED <<types, ever, unannounced, undoing>>

Commit == /\ ~undoing /\ marks # <<>>
          /\ marks' = Front(marks)
          /\ UNCHANGED <<types, ever, unannounced, undoing>>

Rollback == /\ ~undoing /\ marks # <<>>
            /\ undoing' = TRUE
            /\ UNCHANGED <<types, ever, unannounced, marks>>

Removable == types \ (Last(marks) \ unannounced)

Undo == /\ undoing
        /\ \E S \in SUBSET Removable : types' = types \ S
        /\ UNCHANGED <<ever, unannounced, marks, undoing>>

RolledBack == /\ undoing /\ types \subseteq Last(marks)
              /\ marks' = Front(marks)
              /\ undoing' = FALSE
              /\ UNCHANGED <<types, ever, unannounced>>

Next == \/ Create \/ Destroy \/ Begin \/ Commit
        \/ Rollback \/ Undo \/ RolledBack

Spec == Init /\ [][Next]_vars
=============================================================================
