-------------------------- MODULE MCCompileSession --------------------------
(* Instances of CompileSession for TLC: two scripts and two modules that are *)
(* scripts.  The first module may import the second, and not the reverse.    *)
EXTENDS CompileSession

CONSTANTS a, b, m, n

Decl(kind) == [is |-> kind, modules |-> <<>>]
Importing(kind, list) == [is |-> kind, modules |-> list]

Of(kinds) == {Decl(k) : k \in kinds}
OfA == {<<x, y>> :
  x \in {Importing("import", <<m>>), Importing("importing", <<m>>), Importing("import", <<n, m>>)},
  y \in Of({"function", "unknown", "badInstance", "badTemplate", "badVariable", "invalid"})}
OfB == {<<Decl("late")>>, <<Importing("import", <<m>>), Decl("function")>>}
OfM == {<<x>> : x \in Of({"late", "variable", "badBody", "badInstance", "syntaxError"})} \cup
       {<<Importing("import", <<n>>), Decl("late")>>, <<Importing("importing", <<n>>)>>}
OfN == {<<x>> : x \in Of({"late", "syntaxError"})}

MCScripts == {a, b, m, n}
MCModules == {m, n}
MCMade == {<<m, n, a>>, <<a, m, n>>}
MCPrograms ==
  {[s \in MCScripts |-> CASE s = a -> p [] s = b -> q [] s = m -> r [] s = n -> t] :
     p \in OfA, q \in OfB, r \in OfM, t \in OfN}
=============================================================================
