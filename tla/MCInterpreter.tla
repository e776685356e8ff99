--------------------------- MODULE MCInterpreter ---------------------------
(* Interpreter for TLC: a function implemented by a native callback, which   *)
(* may also be a constructor, and a script function; both take one argument, *)
(* and both may be called as destructors and by the element of a list.       *)
EXTENDS Interpreter

CONSTANTS native, script

MCFunctions == {native, script}
MCArgc == [f \in MCFunctions |-> 1]
MCNative == {native}
=============================================================================
