--------------------------- MODULE BuiltinOperators ---------------------------
(***************************************************************************)
(* The operators of the fundamental types (builtinoperators.cpp), which an *)
(* engine has from the start, in the order in which they are registered in *)
(* the root namespace.                                                     *)
(*                                                                         *)
(* An operator that reads its operands takes them by constant references,  *)
(* so that an operand may be converted; one that writes to the first takes *)
(* a reference to exactly that type.  An operator is named by its symbol,  *)
(* with a "_" for the operand where another one has the same: "_++" is the *)
(* postfix increment, "+_" and "-_" are the signs.                         *)
(***************************************************************************)
EXTENDS Conversions

Arithmetic == <<"char", "int", "float", "double">>
Integral == <<"char", "int">>

\* OperatorBuilder: the prototype says whether it is unary or binary.
Gen(op, result, params) == FunctionOf(op, None, params, result)

Unary(op, bases) == [i \in DOMAIN bases |-> Gen(op, Value(bases[i]), <<CRef(bases[i])>>)]

Binary(op, bases) ==
  [i \in DOMAIN bases |-> Gen(op, Value(bases[i]), <<CRef(bases[i]), CRef(bases[i])>>)]

Comparing(op, bases) ==
  [i \in DOMAIN bases |-> Gen(op, Value("bool"), <<CRef(bases[i]), CRef(bases[i])>>)]

Assigning(op, bases) ==
  [i \in DOMAIN bases |-> Gen(op, Ref(bases[i]), <<Ref(bases[i]), CRef(bases[i])>>)]

Prefix(op, bases) == [i \in DOMAIN bases |-> Gen(op, Ref(bases[i]), <<Ref(bases[i])>>)]

Postfix(op, bases) == [i \in DOMAIN bases |-> Gen(op, Value(bases[i]), <<Ref(bases[i])>>)]

Increments ==
  Prefix("++", Arithmetic) \o Prefix("--", Arithmetic)
    \o Postfix("_++", Arithmetic) \o Postfix("_--", Arithmetic)

Signs == Unary("+_", Arithmetic) \o Unary("-_", Arithmetic)

Assignments == Assigning("=", Fundamentals)

Comparisons ==
  Comparing("==", Fundamentals) \o Comparing("!=", Fundamentals)
    \o Comparing("<", Arithmetic) \o Comparing(">", Arithmetic)
    \o Comparing("<=", Arithmetic) \o Comparing(">=", Arithmetic)

Operations ==
  Binary("+", Arithmetic) \o Binary("-", Arithmetic) \o Binary("*", Arithmetic)
    \o Binary("/", Arithmetic) \o Binary("%", Integral)

CompoundAssignments ==
  Assigning("+=", Arithmetic) \o Assigning("-=", Arithmetic) \o Assigning("*=", Arithmetic)
    \o Assigning("/=", Arithmetic) \o Assigning("%=", Integral)
    \o Assigning("<<=", Integral) \o Assigning(">>=", Integral)

Shifts == Binary("<<", Integral) \o Binary(">>", Integral)

Logical == Unary("!", <<"bool">>) \o Binary("&&", <<"bool">>) \o Binary("||", <<"bool">>)

BitwiseOperations ==
  Binary("&", Integral) \o Binary("|", Integral) \o Binary("^", Integral) \o Unary("~", Integral)

BitwiseAssignments ==
  Assigning("&=", Integral) \o Assigning("|=", Integral) \o Assigning("^=", Integral)

\* register_builtin_operators
BuiltinOperators ==
  Increments \o Signs \o Assignments \o Comparisons \o Operations \o CompoundAssignments
    \o Shifts \o Logical \o BitwiseOperations \o BitwiseAssignments

===============================================================================
