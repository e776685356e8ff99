------------------------------ MODULE MCScopes ------------------------------
(* A script with two classes and a function, an engine with a class, and a   *)
(* module with a class and with a namespace foo that holds a function.       *)
EXTENDS Scopes

MCGiven ==
  {Entity(Engine, "class", "K"),
   Entity(<<"module">>, "class", "M"),
   Entity(<<"module", "foo">>, "function", "f")}
MCModules == {<<"module">>}
MCIds == 1 .. 17
=============================================================================
