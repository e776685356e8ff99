------------------------------ MODULE Selection ------------------------------
(***************************************************************************)
(* How overload resolution selects among the viable candidates of a call   *)
(* (overloadresolution.h): the candidates are processed one at a time, in  *)
(* an order the call does not control, and only two of them are kept, the  *)
(* best one so far and one that could not be told from the best.           *)
(*                                                                         *)
(* Better stands for OverloadResolution::compare: of two candidates one is *)
(* better, or they are indistinguishable, or they are not comparable,      *)
(* which makes no difference here.                                         *)
(***************************************************************************)
EXTENDS Integers, FiniteSets

CONSTANTS
  CandidateSets, \* for each call, the set of its viable candidates
  NoCandidate,   \* the null candidate
  Better(_, _)   \* compare(a, b) = FirstIsBetter

Candidates == UNION CandidateSets

ASSUME NoCandidateIsNone == NoCandidate \notin Candidates

\* Of two candidates at most one is better.  SelectionProofs has it of compare
\* (ComparisonIsStrict).
ASSUME BetterIsStrict ==
  \A S \in CandidateSets : \A a, b \in S : Better(a, b) => ~Better(b, a)

VARIABLES
  considered,    \* the candidates processed so far
  selected,      \* the best of them, or NoCandidate
  ambiguous      \* one that could not be told from it, or NoCandidate

selectionVars == <<considered, selected, ambiguous>>

SelectionInit ==
  /\ considered = {}
  /\ selected = NoCandidate
  /\ ambiguous = NoCandidate

\* compare takes a null candidate for the worst.
BetterThan(a, b) == b = NoCandidate \/ (a # NoCandidate /\ Better(a, b))
WorseThan(a, b) == b # NoCandidate /\ Better(b, a)

\* A defect: the candidate that loses its place is not told from a worse one.
ProcessFirst(c) ==
  /\ considered' = considered \cup {c}
  /\ selected' = IF selected = NoCandidate \/ (ambiguous = NoCandidate /\ Better(c, selected))
                 THEN c ELSE selected
  /\ ambiguous' = IF c \in {selected', ambiguous} \/ Better(selected', c) THEN ambiguous ELSE c

\* A defect: the ambiguity is not reconsidered when a better one is found.
ProcessUnreset(c) ==
  /\ considered' = considered \cup {c}
  /\ selected' = IF BetterThan(c, selected) THEN c ELSE selected
  /\ ambiguous' = IF \/ c \in {selected, ambiguous}
                     \/ BetterThan(c, selected) \/ WorseThan(c, selected)
                  THEN ambiguous ELSE c

\* overloadresolution_process_candidate.
Process(c) ==
  /\ considered' = considered \cup {c}
  /\ IF c \in {selected, ambiguous}
     THEN UNCHANGED <<selected, ambiguous>>
     ELSE IF BetterThan(c, selected)
     THEN /\ selected' = c
          /\ ambiguous' = IF ambiguous # NoCandidate /\ Better(c, ambiguous)
                          THEN NoCandidate ELSE ambiguous
     ELSE IF WorseThan(c, selected)
     THEN /\ ambiguous' = IF ambiguous # NoCandidate /\ Better(c, ambiguous)
                          THEN c ELSE ambiguous
          /\ UNCHANGED selected
     ELSE /\ ambiguous' = c
          /\ UNCHANGED selected

SelectionNext ==
  \E S \in CandidateSets : considered \subseteq S /\ \E c \in S : Process(c)

SelectionSpec == SelectionInit /\ [][SelectionNext]_selectionVars

\* What the call gets: the selected candidate unless it is ambiguous.
Resolved == IF ambiguous = NoCandidate THEN selected ELSE NoCandidate

-----------------------------------------------------------------------------
Best(c) == c \in considered /\ \A d \in considered \ {c} : Better(c, d)

SelectionTypeOK ==
  /\ selected \in considered \cup {NoCandidate}
  /\ ambiguous \in considered \cup {NoCandidate}

\* Better is transitive on the candidates of the call.  It is not when casts
\* of the argument lead to a base class and to a number (conversions.cpp:605):
\* a reference is better than a number, a number than a constant object of a
\* base, and that than a reference to a base of the base.
Ordered ==
  \A a, b, c \in considered : Better(a, b) /\ Better(b, c) => Better(a, c)

\* No candidate that was processed is better than the one that is selected.
Unbeaten == \A c \in considered : ~Better(c, selected)

\* Whatever the order in which the candidates come, and however often one of
\* them is met again, one is selected, and when better is an order of them, no
\* other that was processed is better (overloadresolution.h:90).
NeverBeaten ==
  /\ considered # {} => selected # NoCandidate
  /\ Ordered => Unbeaten

\* A candidate better than all the others is what the call gets: it is never
\* held up by an ambiguity among candidates it beats, nor by a cycle of them.
BestIsResolved ==
  \A c \in considered : Best(c) => Resolved = c

=============================================================================
