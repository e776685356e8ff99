------------------------------ MODULE MCObjects ------------------------------
(***************************************************************************)
(* Scripts of three classes for TLC: all the hierarchies there are, with   *)
(* functions that are virtual, pure, overridden, hidden by one with        *)
(* another result, or put aside because their type is declared later.      *)
(***************************************************************************)
EXTENDS Objects

Function(name, virtual, pure, uses) ==
  [kind |-> "function", name |-> name, params |-> <<>>, result |-> "void",
   virtual |-> virtual, pure |-> pure, uses |-> uses]
Variable(type) == [kind |-> "variable", type |-> type]

Virtual(name) == Function(name, TRUE, FALSE, 0)
Pure(name) == Function(name, TRUE, TRUE, 0)
Override(name) == Function(name, FALSE, FALSE, 0)
Returning(f, type) == [f EXCEPT !.result = type]
Taking(f, types) == [f EXCEPT !.params = types]
Late(name, virtual, uses) == Function(name, virtual, FALSE, uses)

Class(base, members, ctor, inits, calls, moves) ==
  [base |-> base, members |-> members, ctor |-> ctor, inits |-> inits, calls |-> calls, moves |-> moves]

Int2 == Variable(IntType)

FirstF == Class(0, <<Virtual("f"), Int2, Override("g")>>, "user", {1}, "f", FALSE)
FirstPure == Class(0, <<Pure("f"), Virtual("g"), Int2, Int2>>, "delegating", {2}, "", TRUE)

FirstTwo ==
  ({FirstF, FirstPure} \X
      { Class(1, <<Override("f"), Int2>>, "defaulted", {}, "", TRUE),
        Class(0, <<Virtual("f"), Variable(1), Int2>>, "user", {2}, "", TRUE) })
  \union { <<FirstF, Class(1, <<Returning(Virtual("f"), "int"), Int2, Int2>>, "user", {2}, "g", TRUE)>>,
           <<FirstPure, Class(1, <<Int2>>, "delegating", {1}, "g", FALSE)>> }

Thirds ==
  { Class(2, <<Override("f"), Variable(1), Int2>>, "user", {1, 2}, "", TRUE),
    Class(2, <<Pure("f"), Virtual("g"), Int2>>, "defaulted", {}, "g", TRUE),
    Class(2, <<Late("f", FALSE, 4), Int2, Override("g")>>, "delegating", {1}, "g", FALSE),
    Class(1, <<Override("g"), Override("f"), Variable(2)>>, "defaulted", {}, "", FALSE) }

Fourth == Class(0, <<>>, "defaulted", {}, "", FALSE)

MCSources == {two \o <<third, Fourth>> : two \in FirstTwo, third \in Thirds}

\* A function of a base that is put aside until its derived class is complete.
MCLateSources ==
  {<<Class(0, <<Late("f", TRUE, 3)>>, "user", {}, "", FALSE), b, Fourth>> :
     b \in { Class(1, <<>>, "user", {}, "", FALSE),
             Class(1, <<Virtual("g")>>, "user", {}, "", FALSE),
             Class(1, <<Late("f", FALSE, 3)>>, "user", {}, "", FALSE) }}

\* A function of the name of a virtual one, for other parameters.
MCOverloadedSources ==
  {<<Class(0, <<Virtual("f")>>, "user", {}, "", FALSE),
     Class(1, <<Taking(Override("f"), <<"int">>)>>, "user", {}, "", FALSE)>>}
==============================================================================
