--------------------------- MODULE TemplateMatching ---------------------------
(***************************************************************************)
(* Template arguments against patterns: TemplatePatternMatching,           *)
(* TemplateArgumentDeduction, TemplateSpecialization and                   *)
(* TemplateSpecializationSelector, and the substitution of arguments for   *)
(* parameters (resolve_type in the scope of the arguments).                *)
(*                                                                         *)
(* A type is a base and two qualifiers; a base has a name and arguments,   *)
(* those of a class template instance, or the return type and the          *)
(* parameters of a function type.  An integer or a bool is an argument     *)
(* too.  A pattern is likewise, and its names may be those of template     *)
(* parameters.  `&&' is left out.                                          *)
(***************************************************************************)
EXTENDS Integers, Sequences, SequencesExt

Base(kind, name, args) == [kind |-> kind, name |-> name, args |-> args]
Qualified(base, const, ref) == [base |-> base, const |-> const, ref |-> ref]
Plain(base) == Qualified(base, FALSE, FALSE)

IsType(t) == t.base.kind \in {"basic", "class", "function"}    \* TemplateArgument::kind
BaseType(t) == Plain(t.base)
WithoutMatched(t, p) == Qualified(t.base, t.const /\ ~p.const, t.ref /\ ~p.ref)

(* In the kinds of a pattern a "name" is a simple identifier, that of a     *)
(* type or of a template parameter, and "class" a template identifier.      *)

-----------------------------------------------------------------------------
(* Scopes of parameters and of arguments *)

\* params are the names that are known; given are the arguments whose names stand for
\* their values (argumentScope); of the first `fixed' nothing is deduced.
ParameterScope(params) == [params |-> params, given |-> <<>>, fixed |-> 0]
ArgumentScope(params, args) == [params |-> params, given |-> args, fixed |-> 0]

IsParameter(name, scope) ==
  \E i \in DOMAIN scope.params : scope.params[i] = name /\ i > Len(scope.given)
IndexOf(name, scope) == CHOOSE i \in DOMAIN scope.params : scope.params[i] = name

NamedType(name, scope) ==
  IF Contains(scope.params, name) THEN scope.given[IndexOf(name, scope)]
  ELSE Plain(Base("basic", name, <<>>))

RECURSIVE Substitute(_, _)
Substitute(p, scope) ==
  LET t == CASE p.base.kind = "name" -> NamedType(p.base.name, scope)
             [] OTHER -> Plain([p.base EXCEPT !.args =
                           [i \in DOMAIN @ |-> Substitute(@[i], scope)]])
  IN  Qualified(t.base, t.const \/ p.const, t.ref \/ p.ref)

SubstituteAll(ps, scope) == [i \in DOMAIN ps |-> Substitute(ps[i], scope)]

-----------------------------------------------------------------------------
(* Matching; what was recorded stays recorded when the match fails *)

Matched(ok, found) == [ok |-> ok, found |-> found]
NoMatch == Matched(FALSE, {})
NothingYet == Matched(TRUE, {})
And(m, n) == IF m.ok THEN Matched(n.ok, m.found \cup n.found) ELSE m

Record(name, value, scope) ==
  LET i == IndexOf(name, scope)
  IN  Matched(TRUE, IF i <= scope.fixed THEN {} ELSE {[param |-> i, value |-> value]})

MatchQualifiers(p, t) == (p.const => t.const) /\ (p.ref => t.ref)

RECURSIVE Match(_, _, _)
MatchAll(ps, ts, scope) ==   \* the others are ignored
  FoldLeftDomain(LAMBDA m, i : IF i \in DOMAIN ts THEN And(m, Match(ps[i], ts[i], scope)) ELSE m,
                 NothingYet, ps)

MatchName(p, t, scope) ==
  IF IsParameter(p.base.name, scope) THEN Record(p.base.name, WithoutMatched(t, p), scope)
  ELSE Matched(NamedType(p.base.name, scope) = t, {})   \* of a pattern without its qualifiers

MatchFunctionType(p, t, scope) ==
  IF t.base.kind # "function" THEN NoMatch
  ELSE LET result == Match(p.base.args[1], t.base.args[1], scope)
       IN  And(And(result, Matched(Len(p.base.args) = Len(t.base.args), {})),
               MatchAll(Tail(p.base.args), Tail(t.base.args), scope))

\* The qualifiers of the class are not looked at, unless the pattern has some.
MatchTemplate(p, t, scope) ==
  IF t.base.kind = "class" /\ t.base.name = p.base.name
  THEN MatchAll(p.base.args, t.base.args, scope)
  ELSE NoMatch

\* Of the literals `true' and `false' none is Token::Bool.
MatchLiteral(p, t) ==
  CASE p.base.kind = "integer" -> Matched(p.base = t.base, {})
    [] OTHER -> Matched(t.base.kind = "bool" /\ t.base.name = "false", {})

\* A value, for a parameter; names of variables are left out.
MatchValue(p, t, scope) ==
  IF ~p.const /\ ~p.ref /\ p.base.kind = "name" /\ IsParameter(p.base.name, scope)
  THEN Record(p.base.name, t, scope)
  ELSE NoMatch

Match(p, t, scope) ==
  CASE ~IsType(p) /\ p.base.kind # "name" -> MatchLiteral(p, t)
    [] ~IsType(t) -> MatchValue(p, t, scope)
    [] ~MatchQualifiers(p, t) -> NoMatch
    [] p.base.kind = "function" -> MatchFunctionType(p, t, scope)
    [] p.base.kind = "class" -> MatchTemplate(p, t, scope)
    [] OTHER -> MatchName(p, t, scope)

\* process_next_deduction: all the values of a parameter are the same.
Agglomerated(found) == \A d, e \in found : d.param = e.param => d.value = e.value
HasDeduction(found, i) == \E d \in found : d.param = i
DeducedValue(found, i) == (CHOOSE d \in found : d.param = i).value

\* match: of the arguments of a specialization; of the types of a function.
MatchArguments(ps, ts, scope) ==
  LET m == MatchAll(ps, ts, scope) IN [m EXCEPT !.ok = @ /\ Agglomerated(m.found)]
MatchPrototype(decl, proto, scope) ==    \* a return type that does not match is no obstacle
  LET returned == Match(decl.result, proto.result, scope)
      all == MatchAll(decl.types, proto.types, scope)
      found == returned.found \cup all.found
  IN  Matched(all.ok /\ Agglomerated(found), found)

\* deduce: a parameter that does not match is left to overload resolution.
Bare(p) == IF p.base.kind = "function" THEN [p EXCEPT !.const = FALSE, !.ref = FALSE]
           ELSE Plain(p.base)
DeduceFromFirst(decl, types, scope) ==    \* a defect: later parameters are not looked at
  Match(Bare(decl.types[1]), BaseType(types[1]), scope)
Deduce(decl, types, scope) ==
  LET found == UNION {Match(Bare(decl.types[i]), BaseType(types[i]), scope).found
                        : i \in DOMAIN decl.types \cap DOMAIN types}
  IN  Matched(Agglomerated(found), found)

-----------------------------------------------------------------------------
(* Which of two patterns is more specialized *)

Positive(order) == order \in {"First", "Second"}
Combined(a, b) ==    \* operator&
  CASE a = "NotComparable" \/ b = "NotComparable" -> "NotComparable"
    [] a = "Indistinguishable" -> b
    [] b = "Indistinguishable" \/ a = b -> a
    [] OTHER -> "NotComparable"

Prefer(a, b) == IF a /\ ~b THEN "First" ELSE IF b /\ ~a THEN "Second" ELSE "Indistinguishable"

\* If only the second is const it must not be a reference unless the first is one, too:
\* the condition that allows it is false as it is written.
CompareQualifiers(a, b) ==
  CASE a.const /\ ~b.const -> IF b.ref => a.ref THEN "First" ELSE "NotComparable"
    [] b.const /\ ~a.const -> IF a.ref = b.ref THEN "Second" ELSE "NotComparable"
    [] OTHER -> Prefer(a.ref, b.ref)

NameOfParameter(p, params) == Contains(params, p.base.name)

RECURSIVE Compare(_, _, _, _)
CompareArguments(ps, pparams, qs, qparams) ==
  IF Len(ps) # Len(qs) THEN Prefer(Len(ps) > Len(qs), Len(qs) > Len(ps))
  ELSE FoldLeftDomain(LAMBDA order, i :
         Combined(order, Compare(ps[i], pparams, qs[i], qparams)), "Indistinguishable", ps)

IsLiteral(p) == p.base.kind \in {"integer", "bool"}

Compare(p, pparams, q, qparams) ==
  CASE IsLiteral(p) # IsLiteral(q) -> "NotComparable"
    [] IsLiteral(p) -> "Indistinguishable"
    [] "function" \in {p.base.kind, q.base.kind} ->
         Prefer(p.base.kind = "function", q.base.kind = "function")
    [] p.base.kind # q.base.kind -> Prefer(p.base.kind = "class", q.base.kind = "class")
    [] p.base.kind = "class" ->
         IF p.base.name # q.base.name THEN "NotComparable"
         ELSE LET order == CompareArguments(p.base.args, pparams, q.base.args, qparams)
              IN  IF Positive(order) THEN order ELSE CompareQualifiers(p, q)
    [] NameOfParameter(p, pparams) # NameOfParameter(q, qparams) ->
         Prefer(~NameOfParameter(p, pparams), ~NameOfParameter(q, qparams))
    [] OTHER -> CompareQualifiers(p, q)

CompareSpecializations(a, b) == CompareArguments(a.args, a.params, b.args, b.params)

\* Of function templates; the qualifier of member functions is left out.
CompareFunctions(a, b) ==
  LET shared == DOMAIN a.types \cap DOMAIN b.types
      order == FoldLeftDomain(LAMBDA o, i : IF i \in shared
                 THEN Combined(o, Compare(a.types[i], a.params, b.types[i], b.params)) ELSE o,
                 "Indistinguishable", a.types)
  IN  IF order # "Indistinguishable" THEN order
      ELSE Prefer(Len(a.params) < Len(b.params), Len(b.params) < Len(a.params))

-----------------------------------------------------------------------------
(* Selecting among the templates of a sequence; 0: none *)

\* Step(i): [ok |-> does it match, args |-> its arguments]
Nothing == [at |-> 0, args |-> <<>>, given |-> FALSE]
SelectFrom(list, Step(_), Order(_, _)) ==
  FoldLeftDomain(
    LAMBDA best, i :
      LET found == Step(i)
          this == [at |-> i, args |-> found.args, given |-> FALSE]
          order == Order(list[best.at], list[i])
      IN  CASE best.given \/ ~found.ok -> best         \* given up, or it does not match
            [] best.at = 0 -> this
            [] order = "Second" -> this
            [] order = "First" -> best
            [] OTHER -> [Nothing EXCEPT !.given = TRUE],
    Nothing, list)

\* The patterns are read with the names of the primary template, the parameters
\* counted as those of the specialization.
MatchSpecialization(primary, spec, args) ==
  LET m == MatchArguments(spec.args, args, ParameterScope(primary))
      all == \A i \in DOMAIN spec.params : HasDeduction(m.found, i)
  IN  [ok |-> m.ok /\ all,
       args |-> IF m.ok /\ all THEN [i \in DOMAIN spec.params |-> DeducedValue(m.found, i)] ELSE <<>>]

SelectSpecialization(primary, specs, args) ==
  SelectFrom(specs, LAMBDA i : MatchSpecialization(primary, specs[i], args),
             CompareSpecializations)

\* TemplateOverloadSelector: an argument that is neither given nor deduced is skipped.
MatchFullSpecialization(decl, args, proto) ==
  LET m == MatchPrototype(decl, proto, ArgumentScope(decl.params, args))
      known == SelectSeq([i \in DOMAIN decl.params |-> i],
                         LAMBDA i : i <= Len(args) \/ HasDeduction(m.found, i))
      needsDefault == \E i \in DOMAIN decl.params :
        i > Len(args) /\ ~HasDeduction(m.found, i) /\ decl.defaults[i] # {}
  IN  [ok |-> m.ok /\ ~needsDefault,
       args |-> IF m.ok THEN [n \in DOMAIN known |-> IF known[n] <= Len(args) THEN args[known[n]]
                                            ELSE DeducedValue(m.found, known[n])] ELSE <<>>]

SelectOverload(decls, args, proto) ==
  SelectFrom(decls, LAMBDA i : MatchFullSpecialization(decls[i], args, proto), CompareFunctions)
=============================================================================
