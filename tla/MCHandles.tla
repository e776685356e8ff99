------------------------------ MODULE MCHandles ------------------------------
(***************************************************************************)
(* Values, variables and Locals for TLC.                                   *)
(***************************************************************************)
EXTENDS Handles, TLC

CONSTANTS a, b, c, x, y, l, m, t1, t2, t3

MCValues == {Void, a, b, c}
MCVariables == {x, y}
MCLists == {l, m}
MCTemporaries == {t1, t2, t3}
Symmetric == Permutations({a, b, c}) \union Permutations({x, y})
==============================================================================
