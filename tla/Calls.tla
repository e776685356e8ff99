-------------------------------- MODULE Calls --------------------------------
(***************************************************************************)
(* The compilation of calls (expressioncompiler.cpp, overloadresolution.h, *)
(* valueconstructor.cpp): from the functions a name, a class or an         *)
(* operator leads to, through the selection of one of them, to the         *)
(* expression that calls it with its arguments converted.                  *)
(*                                                                         *)
(* A step of Consider is one turn of the loop of resolve_overloads, and    *)
(* what it does with a viable candidate is Process of the module           *)
(* Selection.  A request is what the compiler is asked to compile:         *)
(* [kind, target, object, args, caller], where target is a name, a class,  *)
(* a type or an operator, and caller the class of the function that        *)
(* contains the call, or None.                                             *)
(***************************************************************************)
EXTENDS Conversions, BuiltinOperators, Selection, SequencesExt

CONSTANTS
  Requests,       \* the expressions to compile
  Declarations(_),\* the sequences in which a script may declare the overloads
                  \* that a request is about
  MemberFunctions,\* MemberFunctions[c] is the sequence of the functions of c
  Operators,      \* Operators[c] is the sequence of the operators of c
  NamespaceOperators, \* those a script adds to the built-in ones
  PrototypeOf     \* a function type is mapped to [params, result]

VARIABLES
  request,   \* the expression being compiled
  declared,  \* the overloads of the script, in the order of declaration
  pending,   \* the functions resolve_overloads still has to look at, or None
  outcome    \* what the compilation gives: Pending, an error or an expression

callVars == <<request, declared, pending, outcome, selectionVars>>

Pending == [status |-> "pending"]
Error(what) == [status |-> what]

RECURSIVE Fails(_)
Fails(e) == e.node = "failure" \/ \E i \in DOMAIN e.elements : Fails(e.elements[i])

Compiled(expr) ==
  IF Fails(expr) THEN Error("uninitialized") ELSE [status |-> "compiled", expr |-> expr]

ArgumentType(e) == IF IsList(e) THEN Value("list") ELSE e.type

-----------------------------------------------------------------------------
(* The functions a call may mean.                                          *)

\* NameLookup::member: those of the first class, upwards, that has some.
MembersNamed(class, name) ==
  LET named(c) == SelectSeq(MemberFunctions[c], LAMBDA f : f.name = name)
      levels == {n \in 0..Cardinality(Classes) :
                   IndirectBase[n, class] # None /\ named(IndirectBase[n, class]) # <<>>}
  IN IF levels = {} THEN <<>> ELSE named(IndirectBase[Min(levels), class])

\* getCallOperator: likewise for operator().
CallOperators(class) ==
  LET calls(c) == SelectSeq(Operators[c], LAMBDA f : f.name = "()")
      levels == {n \in 0..Cardinality(Classes) :
                   IndirectBase[n, class] # None /\ calls(IndirectBase[n, class]) # <<>>}
  IN IF levels = {} THEN <<>> ELSE calls(IndirectBase[Min(levels), class])

\* The operators of the root namespace.
RootOperators == BuiltinOperators \o NamespaceOperators

\* The assignment of an enumeration or of a function type.
AssignmentTo(base) == FunctionOf("=", None, <<Ref(base), CRef(base)>>, Ref(base))

\* resolve_operators: those of a class and of its namespace, then the same for
\* its base, so that the ones of the namespace come several times.
OperatorsFor(op, type) ==
  LET named(s) == SelectSeq(s, LAMBDA f : f.name = op)
      chain == SelectSeq([n \in 1..Cardinality(Classes) |->
                            IF IsClass(type) THEN IndirectBase[n - 1, type.base] ELSE None],
                         LAMBDA c : c # None)
  IN IF IsClass(type)
     THEN FoldLeft(LAMBDA s, c : s \o named(Operators[c]) \o named(RootOperators), <<>>, chain)
     ELSE IF op = "=" /\ type.base \in Enums \cup DOMAIN PrototypeOf THEN <<AssignmentTo(type.base)>>
     ELSE IF type.base \in Opaque THEN <<>>
     ELSE named(RootOperators)

\* NameLookup::resolve for operators: the scope's, then those of each operand.
OperatorCandidates(op, args) ==
  FoldLeft(LAMBDA s, e : s \o OperatorsFor(op, ArgumentType(e)),
           SelectSeq(RootOperators, LAMBDA f : f.name = op), args)

Lookup(r, visible) ==
  CASE r.kind = "call" -> SelectSeq(visible, LAMBDA f : f.name = r.target)
    [] r.kind = "member" -> MembersNamed(r.object.type.base, r.target)
    [] r.kind = "functor" -> CallOperators(r.object.type.base)
    [] r.kind \in {"construct", "brace"} -> Constructors[r.target]
    [] r.kind = "operator" -> OperatorCandidates(r.target, r.args)

-----------------------------------------------------------------------------
(* Viability and comparison.                                               *)

\* The object a member function is called on: the one of the expression, or
\* the one under construction, of which only the type is known.
ObjectType(r) ==
  IF r.kind \in {"construct", "brace"} THEN Value(r.target) ELSE r.object.type

HasObject(r) == r.kind \in {"construct", "brace"} \/ r.object # None

OnObject(f, r) == f.member /\ HasObject(r)

Offset(f, r) == IF OnObject(f, r) THEN 1 ELSE 0

\* The initialization of the parameters by the object and the arguments.
Initializations(f, r) ==
  LET of(t, e) == IF r.kind = "operator" THEN InitializationFrom(t, ArgumentType(e), "copy")
                  ELSE Initialization(t, e)
  IN (IF OnObject(f, r)
      THEN <<ConversionInit("direct", Convert(ObjectType(r), f.params[1], "implicit"))>>
      ELSE <<>>)
     \o [i \in DOMAIN r.args |-> of(f.params[i + Offset(f, r)], r.args[i])]

Candidate(f, r) == [function |-> f, inits |-> Initializations(f, r)]

TakesAsMany(f, r) ==
  LET count == Len(r.args) + Offset(f, r)
  IN count <= Len(f.params) /\ count + f.defaults >= Len(f.params)

Viable(c, r) ==
  /\ \A i \in DOMAIN c.inits : c.inits[i].kind # "invalid"
  /\ OnObject(c.function, r) => ~IsCopy(c.inits[1].conv.first)

WorstRank(inits) == Max({ExactMatch} \cup {InitRank(inits[i]) : i \in DOMAIN inits})

\* OverloadResolution::compare(a, b) = FirstIsBetter.
BetterCandidate(a, b) ==
  BetterRanked(WorstRank(a.inits), WorstRank(b.inits), a.inits, b.inits)

-----------------------------------------------------------------------------
(* The expression compiled for the selected candidate.                     *)

\* Default arguments are stored from the last parameter to the first.
DefaultArguments(f) ==
  [k \in 1..f.defaults |->
     Expression("default", f.params[Len(f.params) - k + 1], None, <<>>)]

\* A defect: the default arguments are taken in the order they are stored in.
CompleteStored(f, args) ==
  args \o SubSeq(DefaultArguments(f), 1, Len(f.params) - Len(args))

\* ExpressionCompiler::complete.
Complete(f, args) ==
  LET diff == Len(f.params) - Len(args)
  IN args \o [k \in 1..diff |-> DefaultArguments(f)[diff - k + 1]]

\* ValueConstructor::prepare.
Prepare(args, params, inits) ==
  [i \in DOMAIN args |-> InitializedBy(params[i], args[i], inits[i])]

Accessible(f, caller) ==
  CASE f.access = "public" -> TRUE
    [] f.access = "protected" -> caller # None /\ InheritanceLevel(caller, f.of) >= 0
    [] f.access = "private" -> caller = f.of

CallExpression(c, r) ==
  LET f == c.function
      args == IF OnObject(f, r) THEN <<r.object>> \o r.args ELSE r.args
  IN Expression("call", f.result, f, Complete(f, Prepare(args, f.params, c.inits)))

OperatorExpression(c, r) ==
  LET f == c.function
  IN Expression("call", f.result, f, Prepare(r.args, f.params, c.inits))

ConstructExpression(c, r) ==
  LET f == c.function
  IN Construct(f, Prepare(r.args, Tail(f.params), Tail(c.inits)))

\* What is reported of a narrowing initialization names the argument of the
\* index of the parameter, which for the last one is out of the range.
NarrowingError(c, r) ==
  LET narrowed == Min({i \in DOMAIN c.inits : InitNarrowing(c.inits[i])})
  IN Error(IF narrowed <= Len(r.args) THEN "narrowing" ELSE "out of range")

\* Only calls and unary operators check what they selected.
Checked(r) == r.kind \in {"call", "member", "functor"} \/ (r.kind = "operator" /\ Len(r.args) = 1)

CompiledCall(c, r) ==
  CASE Checked(r) /\ c.function.deleted -> Error("deleted")
    [] Checked(r) /\ ~c.function.deleted /\ ~Accessible(c.function, r.caller) -> Error("inaccessible")
    [] Checked(r) /\ ~c.function.deleted /\ Accessible(c.function, r.caller) ->
         Compiled(IF r.kind = "operator" THEN OperatorExpression(c, r) ELSE CallExpression(c, r))
    [] r.kind = "operator" /\ ~Checked(r) -> Compiled(OperatorExpression(c, r))
    [] r.kind = "construct" -> Compiled(ConstructExpression(c, r))
    [] r.kind = "brace" ->
         IF \E i \in DOMAIN c.inits : InitNarrowing(c.inits[i]) THEN NarrowingError(c, r)
         ELSE Compiled(ConstructExpression(c, r))

-----------------------------------------------------------------------------
(* Expressions without candidates.                                         *)

\* T(e) and T{e} for a type that is not a class; T() is default constructed.
ConvertedValue(r) ==
  LET by(c) == IF c = Impossible THEN Error("not convertible")
               ELSE IF r.kind = "brace" /\ Narrowing(c) THEN Error("narrowing")
               ELSE Compiled(ConvertExpression(r.args[1], c))
  IN by(Convert(ArgumentType(r.args[1]), Value(r.target), "implicit"))

\* A call through a variable of function type: its parameters are converted
\* to one by one, and nothing compares their number with the arguments'.
FunctionVariableCall(r) ==
  LET proto == PrototypeOf[r.object.type.base]
      by(inits) ==
        IF \E i \in DOMAIN inits : ~IsValid(inits[i]) THEN Error("not convertible")
        ELSE Compiled(Expression("call", proto.result, proto, Prepare(r.args, proto.params, inits)))
  IN IF Len(r.args) > Len(proto.params) THEN Error("out of range")
     ELSE by([i \in DOMAIN r.args |-> Initialization(proto.params[i], r.args[i])])

\* a ? b : c, of which args is <<b, c>>.
Conditional(r) ==
  LET of(branches) == Compiled(Expression("conditional", branches[1].type, None, branches))
      in(type) == IF type = None THEN Error("no common type")
                  ELSE of([i \in 1..2 |-> ConvertExpression(r.args[i],
                                            Convert(r.args[i].type, type, "implicit"))])
  IN in(CommonType(r.args[1].type, r.args[2].type))

\* [e1, ..., en], of which the first element gives the type.
ArrayOf(r) ==
  LET type == Value(r.args[1].type.base)
      by(convs) == IF \E i \in DOMAIN convs : convs[i] = Impossible THEN Error("not convertible")
                   ELSE Compiled(Expression("array", type, None,
                          [i \in DOMAIN convs |-> ConvertExpression(r.args[i], convs[i])]))
  IN by([i \in DOMAIN r.args |-> Convert(r.args[i].type, type, "implicit")])

IsDirect(r) ==
  \/ r.kind \in {"conditional", "array"}
  \/ r.kind \in {"construct", "brace"} /\ (r.target \notin Classes \/ r.args = <<>>)
  \/ r.kind = "functor" /\ r.object.type.base \in DOMAIN PrototypeOf

Direct(r) ==
  CASE r.kind = "conditional" -> Conditional(r)
    [] r.kind = "array" -> ArrayOf(r)
    [] r.kind \in {"construct", "brace"} ->
         IF r.args = <<>> THEN Compiled(DefaultExpression(Value(r.target))) ELSE ConvertedValue(r)
    [] r.kind = "functor" -> FunctionVariableCall(r)

-----------------------------------------------------------------------------
Init ==
  /\ request \in Requests
  /\ declared \in Declarations(request)
  /\ pending = None
  /\ outcome = Pending
  /\ SelectionInit

\* The name, the class or the operator of the expression is looked up.
Resolve ==
  /\ pending = None /\ ~IsDirect(request)
  /\ pending' = Lookup(request, declared)
  /\ UNCHANGED <<request, declared, outcome, selectionVars>>

CompileDirectly ==
  /\ pending = None /\ IsDirect(request) /\ outcome = Pending
  /\ outcome' = Direct(request)
  /\ UNCHANGED <<request, declared, pending, selectionVars>>

ProcessViable(c) == IF Viable(c, request) THEN Process(c) ELSE UNCHANGED selectionVars

\* One turn of the loop over the functions.
Consider ==
  /\ pending \notin {None, <<>>}
  /\ pending' = Tail(pending)
  /\ IF TakesAsMany(Head(pending), request)
     THEN ProcessViable(Candidate(Head(pending), request))
     ELSE UNCHANGED selectionVars
  /\ UNCHANGED <<request, declared, outcome>>

Conclude ==
  /\ pending = <<>> /\ outcome = Pending
  /\ outcome' = IF Resolved = NoCandidate THEN Error("unresolved") ELSE CompiledCall(Resolved, request)
  /\ UNCHANGED <<request, declared, pending, selectionVars>>

Next == Resolve \/ CompileDirectly \/ Consider \/ Conclude

Spec == Init /\ [][Next]_callVars

-----------------------------------------------------------------------------
(* Properties.                                                             *)

\* An expression makes a value nothing else refers to.
RECURSIVE IsFresh(_)
IsFresh(e) ==
  \/ e.node \in {"copy", "construct", "number", "list", "default", "array"}
  \/ e.node \in {"cast", "call"} /\ ~e.type.ref
  \/ e.node = "conditional" /\ \A i \in DOMAIN e.elements : IsFresh(e.elements[i])

IsA(src, dest) ==
  IF IsClass(src) /\ IsClass(dest) THEN InheritanceLevel(src.base, dest.base) >= 0
  ELSE src.base = dest.base

\* What a parameter of type t is given: by reference an object of the type or
\* of a class derived from it, never a constant that it may change; by value
\* a value of exactly that type, that no one else has.
Fits(t, e) ==
  IF t.ref THEN IsA(e.type, t) /\ (e.type.const /\ ~IsFresh(e) => t.const)
  ELSE e.type.base = t.base /\ IsFresh(e)

\* Every call in e gives each parameter of its function what fits it.
RECURSIVE WellFormed(_)
WellFormed(e) ==
  LET fitAll(types) == Len(e.elements) = Len(types)
                       /\ \A i \in DOMAIN types : Fits(types[i], e.elements[i])
  IN /\ \A i \in DOMAIN e.elements : WellFormed(e.elements[i])
     /\ e.node \in {"call", "cast"} => fitAll(e.function.params)
     /\ e.node = "construct" => fitAll(Tail(e.function.params))
     /\ e.node = "list" => /\ e.type.base \in DOMAIN ElementOf
                           /\ \A i \in DOMAIN e.elements :
                                Fits(ElementOf[e.type.base], e.elements[i])
     /\ e.node = "array" => \A i \in DOMAIN e.elements : Fits(e.type, e.elements[i])
     /\ e.node = "conditional" =>
          \A i \in DOMAIN e.elements : e.elements[i].type.base = e.type.base

\* Whatever overload is selected, through whatever conversions, defaults and
\* lists, the compiled call gives each parameter a value it can take
\* (valueconstructor.cpp:262, expressioncompiler.cpp:569).  What is asked for
\* gives no parameter by value the result of a cast that returns a reference:
\* it would not be copied (conversions.cpp:691), and the function change what
\* the reference leads to.
ArgumentsFit == outcome.status = "compiled" => WellFormed(outcome.expr)

\* Every braced list of the call has been given the initialization of a list:
\* "assert(init.kind() == Initialization::ListInitialization)"
\* (valueconstructor.cpp:206).
RECURSIVE ListsAreInitialized(_)
ListsAreInitialized(e) ==
  /\ e.node = "list" => e.type.base \in DOMAIN ElementOf
  /\ \A i \in DOMAIN e.elements : ListsAreInitialized(e.elements[i])

NoListIsLeft == outcome.status = "compiled" => ListsAreInitialized(outcome.expr)

=============================================================================
