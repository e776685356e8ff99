------------------------------ MODULE Templates ------------------------------
(***************************************************************************)
(* The templates of a module and their instances, over the sessions of the *)
(* scripts that use them: the declarations of specializations              *)
(* (ScriptCompiler), the uses of a class template                          *)
(* (TemplateArgumentProcessor), the calls of function templates            *)
(* (FunctionTemplateProcessor), the instantiations of both (Compiler) and  *)
(* what a failed session takes back (CompileSession::clear).               *)
(*                                                                         *)
(* There is one class template.  A body is a sequence of items: the uses   *)
(* and calls in it, and the names that are unknown.  `todo' is the C++     *)
(* recursion, innermost instantiation first.                               *)
(***************************************************************************)
EXTENDS TemplateMatching, FiniteSets, TLC

CONSTANTS
  Primary,           \* the class template: params, defaults, base, members
  Sources,           \* what the scripts may contain, sets of:
                     \*   specializations   params, args, base, members (partial ones)
                     \*   classes           args, base, members (full specializations)
                     \*   templates         params, defaults, types, result, body (of functions)
                     \*   functions         args, types, result (full specializations)
                     \*   uses              items
  MaxItems,          \* bound: the declarations and uses of all the scripts
  MaxUses,           \* bound: the uses among them
  MaxSessions        \* bound

ASSUME TemplatesAssumption == MaxItems \in Nat /\ MaxUses \in Nat /\ MaxSessions \in Nat

VARIABLES
  source,
  specializations,   \* of the class template, in the order they were declared
  functions,         \* the function templates
  classes,           \* every class that was made
  instances,         \* ClassTemplate::instances: arguments |-> class
  compiled,          \* FunctionTemplate::instances
  generatedClasses, generatedFunctions,   \* of the session
  todo, thrown,
  session,           \* "active" or "finished"
  declared, used, sessions                \* history: how many there were

declarations == <<source, specializations, functions>>
generated == <<generatedClasses, generatedFunctions>>
counts == <<declared, used, sessions>>
vars == <<declarations, classes, instances, compiled, generated, todo, thrown, session, counts>>

Use(args) == [is |-> "class", args |-> args, types |-> <<>>]
Call(args, types) == [is |-> "call", args |-> args, types |-> types]
Unknown == [is |-> "unknown", args |-> <<>>, types |-> <<>>]
Recorded == [is |-> "record", args |-> <<>>, types |-> <<>>]

Top == todo[1]
Idle == session = "active" /\ todo = <<>> /\ thrown = "none"
Doing(is) == thrown = "none" /\ todo # <<>> /\ Top.rest # <<>> /\ Head(Top.rest).is = is
Item == Head(Top.rest)
Continue == <<[Top EXCEPT !.rest = Tail(@)]>> \o Tail(todo)
Fail == thrown' = "CompilationFailure"

Init ==
  /\ source \in Sources
  /\ specializations = <<>> /\ functions = <<>>
  /\ classes = <<>> /\ instances = <<>> /\ compiled = <<>>
  /\ generatedClasses = {} /\ generatedFunctions = {}
  /\ todo = <<>> /\ thrown = "none" /\ session = "active"
  /\ declared = 0 /\ used = 0 /\ sessions = 1

-----------------------------------------------------------------------------
(* Instantiating *)

\* The default values of all the parameters are added to what is given.
Complete(args) ==
  IF Len(args) = Len(Primary.params) THEN {args}
  ELSE IF \A i \in DOMAIN Primary.defaults : Primary.defaults[i] # {}
  THEN {args \o [i \in DOMAIN Primary.defaults |-> CHOOSE d \in Primary.defaults[i] : TRUE]}
  ELSE {}

BodyRecordedLast(decl) == decl.base \o decl.members \o <<Recorded>>   \* a defect
\* The name and the base of the class are read before it is recorded, the content after.
Body(decl) == decl.base \o <<Recorded>> \o decl.members
ClassFrame(args, from, bound, scope, decl) ==
  [what |-> "class", id |-> 0, from |-> from, args |-> args, bound |-> bound, types |-> <<>>,
   given |-> 0, among |-> specializations, scope |-> scope, rest |-> Body(decl)]
Instantiate(args) ==
  LET selected == SelectSpecialization(Primary.params, specializations, args)
  IN  IF selected.at = 0
      THEN ClassFrame(args, 0, args, ArgumentScope(Primary.params, args), Primary)
      ELSE LET spec == specializations[selected.at]
           IN  ClassFrame(args, selected.at, selected.args,
                          ArgumentScope(spec.params, selected.args), spec)

\* TemplateArgumentProcessor::process, for an item of a body.
UseClass ==
  /\ Doing("class")
  /\ LET given == SubstituteAll(Item.args, Top.scope)
         completed == Complete(given)
     IN  \/ /\ completed = {}
            /\ Fail /\ UNCHANGED todo
         \/ \E args \in completed :
              /\ todo' = IF args \in DOMAIN instances THEN Continue
                         ELSE <<Instantiate(args)>> \o Continue
              /\ UNCHANGED thrown
  /\ UNCHANGED <<declarations, classes, instances, compiled, generated, session, counts>>

UnknownName ==
  /\ Doing("unknown")
  /\ Fail
  /\ UNCHANGED <<declarations, classes, instances, compiled, generated, todo, session, counts>>

\* ClassTemplateSpecializationBuilder::get
RecordInstance ==
  /\ Doing("record")
  /\ LET id == Len(classes) + 1
     IN  /\ classes' = Append(classes, [args |-> Top.args, from |-> Top.from, bound |-> Top.bound,
                                        among |-> Top.among, read |-> "reading"])
         /\ instances' = (Top.args :> id) @@ instances
         /\ todo' = <<[Head(Continue) EXCEPT !.id = id]>> \o Tail(todo)
  /\ UNCHANGED <<declarations, compiled, generated, thrown, session, counts>>

\* A full specialization is not recorded in the session; the vector its arguments
\* were moved from is empty.
FinishClass ==
  /\ thrown = "none" /\ todo # <<>> /\ Top.what = "class" /\ Top.rest = <<>>
  /\ classes' = [classes EXCEPT ![Top.id].read = "read"]
  /\ IF Top.from = -1
     THEN instances' = (<<>> :> Top.id) @@ instances /\ UNCHANGED generatedClasses
     ELSE /\ instances' = (Top.args :> Top.id) @@ instances
          /\ generatedClasses' = generatedClasses \cup {Top.args}
  /\ todo' = Tail(todo)
  /\ UNCHANGED <<declarations, compiled, generatedFunctions, thrown, session, counts>>

-----------------------------------------------------------------------------
(* Function templates *)

\* deduce_substitute: the arguments of the instance, if there is one.
Deduced(t, args, types) ==
  LET scope == [ParameterScope(t.params) EXCEPT !.fixed = Len(args)]
      m == Deduce(t, types, scope)
      value(i) == IF HasDeduction(m.found, i) THEN {DeducedValue(m.found, i)} ELSE t.defaults[i]
  IN  CASE Len(args) >= Len(t.params) -> {args}
        [] ~m.ok \/ \E i \in Len(args) + 1 .. Len(t.params) : value(i) = {} -> {}
        [] OTHER -> {args \o [i \in 1 .. Len(t.params) - Len(args) |->
                                CHOOSE v \in value(Len(args) + i) : TRUE]}

\* Which of the candidates is called is the choice of overload resolution.
CallFunction ==
  /\ Doing("call")
  /\ LET given == SubstituteAll(Item.args, Top.scope)
         types == SubstituteAll(Item.types, Top.scope)
         candidates == UNION {{<<i, args>> : args \in Deduced(functions[i], given, types)} :
                                i \in {j \in DOMAIN functions :
                                         Len(functions[j].types) = Len(types)}}
     IN  \/ /\ candidates = {}
            /\ Fail /\ UNCHANGED todo
         \/ \E c \in candidates :
              /\ todo' =
                   IF c \in DOMAIN compiled THEN Continue
                   ELSE LET t == functions[c[1]]
                        IN  <<[what |-> "function", id |-> c[1], from |-> c[1], args |-> c[2],
                               bound |-> c[2], types |-> types, given |-> Len(given), among |-> <<>>,
                               scope |-> ArgumentScope(t.params, c[2]), rest |-> t.body]>> \o Continue
              /\ UNCHANGED thrown
  /\ UNCHANGED <<declarations, classes, instances, compiled, generated, session, counts>>

FinishFunction ==
  /\ thrown = "none" /\ todo # <<>> /\ Top.what = "function" /\ Top.rest = <<>>
  /\ compiled' = (<<Top.id, Top.args>> :> [from |-> "call", types |-> Top.types, given |-> Top.given])
                   @@ compiled
  /\ generatedFunctions' = generatedFunctions \cup {<<Top.id, Top.args>>}
  /\ todo' = Tail(todo)
  /\ UNCHANGED <<declarations, classes, instances, generatedClasses, thrown, session, counts>>

-----------------------------------------------------------------------------
(* Failures *)

Without(f, S) == [x \in DOMAIN f \ S |-> f[x]]
Clear ==    \* what was generated, not what was being read
  /\ instances' = Without(instances, generatedClasses)
  /\ compiled' = Without(compiled, generatedFunctions)
  /\ generatedClasses' = {} /\ generatedFunctions' = {}

Failed == [i \in DOMAIN classes |-> IF i = Top.id THEN [classes[i] EXCEPT !.read = "failed"]
                                    ELSE classes[i]]

\* process discards the error and gives no class, of which the user has no type.
FailClass ==
  /\ thrown = "CompilationFailure" /\ todo # <<>> /\ Top.what = "class"
  /\ classes' = Failed
  /\ IF Top.from = -1 THEN UNCHANGED <<instances, compiled, generated>> ELSE Clear
  /\ todo' = Tail(todo)
  /\ UNCHANGED <<declarations, thrown, session, counts>>

\* Only the innermost function clears the session: what it throws is caught nowhere.
FailFunction ==
  /\ todo # <<>> /\ Top.what = "function"
  /\ \/ thrown = "CompilationFailure" /\ Clear
     \/ thrown = "TemplateInstantiationError" /\ UNCHANGED <<instances, compiled, generated>>
  /\ thrown' = "TemplateInstantiationError"
  /\ todo' = Tail(todo)
  /\ UNCHANGED <<declarations, classes, session, counts>>

\* Compiler::compile
FailSession ==
  /\ thrown # "none" /\ \A i \in DOMAIN todo : todo[i].what = "script"
  /\ IF thrown = "CompilationFailure" THEN Clear
     ELSE UNCHANGED <<instances, compiled, generated>>
  /\ todo' = <<>> /\ thrown' = "none" /\ session' = "finished"
  /\ UNCHANGED <<declarations, classes, counts>>

-----------------------------------------------------------------------------
(* The scripts *)

EmptyScope == ParameterScope(<<>>)
MayDeclare == Idle /\ declared + used < MaxItems

DeclareSpecialization(s) ==
  /\ MayDeclare
  /\ specializations' = Append(specializations, s)
  /\ declared' = declared + 1
  /\ UNCHANGED <<source, functions, classes, instances, compiled, generated, todo, thrown, session, used, sessions>>

DeclareFunctionTemplate(t) ==
  /\ MayDeclare
  /\ functions' = Append(functions, t)
  /\ declared' = declared + 1
  /\ UNCHANGED <<source, specializations, classes, instances, compiled, generated, todo, thrown, session, used, sessions>>

\* It is read like an instance and replaces the one there may be.
SpecializeClass(s) ==
  /\ MayDeclare
  /\ todo' = <<ClassFrame(s.args, -1, s.args, EmptyScope, s)>>
  /\ declared' = declared + 1
  /\ UNCHANGED <<declarations, classes, instances, compiled, generated, thrown, session, used, sessions>>

SpecializeFunction(s) ==
  /\ MayDeclare
  /\ LET selected == SelectOverload(functions, s.args, s)
     IN  IF selected.at = 0 THEN Fail /\ UNCHANGED compiled
         ELSE /\ compiled' = (<<selected.at, selected.args>> :>
                                [from |-> "specialization", types |-> s.types, given |-> Len(s.args)])
                               @@ compiled
              /\ UNCHANGED thrown
  /\ declared' = declared + 1
  /\ UNCHANGED <<declarations, classes, instances, generated, todo, session, used, sessions>>

UseTemplate(item) ==
  /\ Idle /\ used < MaxUses /\ declared + used < MaxItems
  /\ todo' = <<[what |-> "script", id |-> 0, from |-> 0, args |-> <<>>, bound |-> <<>>, types |-> <<>>,
                given |-> 0, among |-> <<>>, scope |-> EmptyScope, rest |-> <<item>>]>>
  /\ used' = used + 1
  /\ UNCHANGED <<declarations, classes, instances, compiled, generated, thrown, session, declared, sessions>>

FinishItem ==
  /\ thrown = "none" /\ todo # <<>> /\ Top.what = "script" /\ Top.rest = <<>>
  /\ todo' = <<>>
  /\ UNCHANGED <<declarations, classes, instances, compiled, generated, thrown, session, counts>>

FinishSession ==
  /\ Idle
  /\ session' = "finished"
  /\ UNCHANGED <<declarations, classes, instances, compiled, generated, todo, thrown, counts>>

StartSession ==
  /\ session = "finished" /\ sessions < MaxSessions
  /\ session' = "active" /\ sessions' = sessions + 1
  /\ generatedClasses' = {} /\ generatedFunctions' = {}
  /\ UNCHANGED <<declarations, classes, instances, compiled, todo, thrown, declared, used>>

Next ==
  \/ \E s \in source.specializations \ ToSet(specializations) : DeclareSpecialization(s)
  \/ \E t \in source.templates \ ToSet(functions) : DeclareFunctionTemplate(t)
  \/ \E s \in source.classes : SpecializeClass(s)
  \/ \E s \in source.functions : SpecializeFunction(s)
  \/ \E item \in source.uses : UseTemplate(item)
  \/ UseClass \/ UnknownName \/ RecordInstance \/ FinishClass
  \/ CallFunction \/ FinishFunction
  \/ FailClass \/ FailFunction \/ FailSession
  \/ FinishItem \/ FinishSession \/ StartSession

Spec == Init /\ [][Next]_vars

-----------------------------------------------------------------------------
(* Properties *)

Frames == {todo[i] : i \in {j \in DOMAIN todo : todo[j].what = "class"}}

\* Does the pattern with these arguments stand for the type?  The qualifiers of a class
\* or a function type are free unless the pattern has them.
RECURSIVE StandsFor(_, _, _)
StandsFor(p, t, scope) ==
  IF p.base.kind \notin {"class", "function"} THEN Substitute(p, scope) = t
  ELSE /\ p.base.kind = t.base.kind /\ p.base.name = t.base.name
       /\ MatchQualifiers(p, t)
       /\ p.base.kind = "function" => Len(p.base.args) = Len(t.base.args)
       /\ \A i \in DOMAIN p.base.args \cap DOMAIN t.base.args :
            StandsFor(p.base.args[i], t.base.args[i], scope)

Specialized == {i \in DOMAIN classes : classes[i].from > 0}
Chosen(i) == classes[i].among[classes[i].from]

\* A class read from a partial specialization is the one it was asked for: the
\* pattern, with the arguments its body sees for its parameters, stands for the
\* arguments of the instance (TemplateSpecializationSelector::select).
ArgumentsAreReproduced ==
  \A i \in Specialized :
    LET s == Chosen(i)
    IN  \A k \in DOMAIN s.args :
          StandsFor(s.args[k], classes[i].args[k], ArgumentScope(s.params, classes[i].bound))

\* No partial specialization that was declared, matches and is more specialized was
\* passed over for the one that is used, though each is compared with one other only
\* (TemplateSpecializationSelector::select).
NeverBeaten ==
  \A i \in Specialized :
    LET s == Chosen(i)
        others == {classes[i].among[k] : k \in DOMAIN classes[i].among}
        matching == {o \in others : MatchSpecialization(Primary.params, o, classes[i].args).ok}
    IN  /\ s \in matching
        /\ \A o \in matching : /\ CompareSpecializations(s, o) # "Second"
                               /\ CompareSpecializations(o, s) # "First"

\* There is one class for the same arguments, also if its content uses it: none is
\* instantiated while it is being read, what is being read can be found, and what the
\* session made is the instance and was read to its end, unless a full specialization
\* took its place (ClassTemplateSpecializationBuilder::get).
OneClassPerArguments ==
  /\ \A i, j \in DOMAIN todo :
       i # j /\ {todo[i].what, todo[j].what} = {"class"} => todo[i].args # todo[j].args
  /\ \A f \in Frames : f.id # 0 => instances[f.args] = f.id
  /\ \A args \in generatedClasses :
       args \in DOMAIN instances
         /\ \/ classes[instances[args]].read = "read"
            \/ classes[instances[args]].from = -1

\* What was deduced from the types of a call is what they are: a parameter that matches
\* its argument has, with the deduced arguments, its type (TemplateArgumentDeduction).
DeductionFits ==
  \A key \in DOMAIN compiled :
    LET t == functions[key[1]]
        call == compiled[key]
        scope == ArgumentScope(t.params, key[2])
    IN  call.from = "call" /\ call.given = 0 =>
          \A i \in DOMAIN t.types :
            Match(Bare(t.types[i]), BaseType(call.types[i]), ParameterScope(t.params)).ok =>
              StandsFor(Bare(t.types[i]), BaseType(call.types[i]), scope)

\* A full specialization belongs to a template that has its types
\* (TemplateOverloadSelector::select).
SpecializationFits ==
  \A key \in DOMAIN compiled :
    LET t == functions[key[1]]
        f == compiled[key]
    IN  f.from = "specialization" /\ Len(key[2]) = Len(t.params) =>
          \A i \in DOMAIN t.types \cap DOMAIN f.types :
            StandsFor(t.types[i], f.types[i], ArgumentScope(t.params, key[2]))

\* Wherever a pattern was matched with types, be it a partial specialization, a call or
\* a full specialization, what was deduced makes those types of the pattern; and no
\* partial specialization that was compared with the one that is used beats it.
PatternsFit == ArgumentsAreReproduced /\ NeverBeaten /\ DeductionFits /\ SpecializationFits

\* What a partial specialization matches, in its own names.
ReallyMatches(s, args) ==
  LET m == MatchArguments(s.args, args, ParameterScope(s.params))
  IN  m.ok /\ \A i \in DOMAIN s.params : HasDeduction(m.found, i)

\* foo<Array<T>, U(V)> is more specialized than foo<Array<T>, U>, and is used where
\* both match: of the partial specializations that match, the one that is more
\* specialized than all the others (test_templates.cpp:996).
BestIsUsed ==
  \A i \in DOMAIN classes :
    LET c == classes[i]
        matching == {k \in DOMAIN c.among : ReallyMatches(c.among[k], c.args)}
    IN  c.from >= 0 =>
          \A k \in matching :
            (\A o \in matching \ {k} : CompareSpecializations(c.among[k], c.among[o]) = "First")
              => c.from = k
=============================================================================
