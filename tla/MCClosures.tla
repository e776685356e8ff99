----------------------------- MODULE MCClosures -----------------------------
(* Lambda expressions for TLC: the lists of captures that the tests of the   *)
(* language have, and the ways of mixing them.                               *)
EXTENDS Closures

Text(default, captures, body) ==
  [default |-> default, captures |-> captures, params |-> <<>>, locals |-> <<>>, body |-> body]
ByReference(name) == [name |-> name, how |-> "&"]
ByValue(name) == [name |-> name, how |-> "="]
WithInit(name) == [name |-> name, how |-> "init"]

MCTexts ==
  { Text("=", <<>>, <<"x">>),
    Text("&", <<>>, <<"x", "a">>),
    Text("=", <<ByReference("x")>>, <<"x", "y">>),
    Text("&", <<ByValue("a")>>, <<"a", "member">>),
    Text("", <<ByReference("x"), WithInit("y")>>, <<"y", "x">>),
    Text("=", <<>>, <<"member">>),
    Text("both", <<>>, <<>>) }

\* README.md:166, and a lambda expression with two parameters.
WithParameters ==
  { [Text("", <<>>, <<"x">>) EXCEPT !.params = <<"x">>],
    [Text("", <<>>, <<"x">>) EXCEPT !.params = <<"x", "y">>] }
==============================================================================
