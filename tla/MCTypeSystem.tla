----------------------------- MODULE MCTypeSystem -----------------------------
(* TypeSystem for TLC.  The objects are function types alone, up to four, or   *)
(* any three, or any two and indices reserved by TypeSystem::reserve.          *)
EXTENDS TypeSystem, FiniteSets, TLC

CONSTANTS Fourth, First

Symmetry == Permutations(Objects \ {Fourth}) \cup Permutations(Transactions)

\* Nothing but the id of the built-in class and that of the built-in enumeration.
NothingReserved ==
  \A k \in {"class", "enum"}, i \in Index : table[k][i] = Reserved => i = 1

FunctionsAlone ==
  NothingReserved /\ \A o \in Registered : type[o].kind = "function"

AnyThree ==
  /\ Fourth \notin Registered
  /\ \A o \in Objects : prototype[o] \in {NoObject, First}
  /\ NothingReserved \/ Cardinality(Registered) <= 2

Bound == FunctionsAlone \/ AnyThree
=============================================================================
