------------------------------- MODULE Objects -------------------------------
(***************************************************************************)
(* The life of the objects of script classes: what ConstructorCompiler,    *)
(* DestructorCompiler and AssignmentCompiler generate for a class, run as  *)
(* the Interpreter does, for the classes that Classes declares.            *)
(*                                                                         *)
(* An object is a vector of members, those of the innermost base first.    *)
(* It is made by the innermost base's constructor: a constructor gets an   *)
(* object of its base back and changes the type.  Its members are pushed   *)
(* by each constructor of the lineage and popped by each destructor; there *)
(* is nothing that says which class a member is of.                        *)
(*                                                                         *)
(* A script declares variables, copies, moves and assigns them, calls      *)
(* their functions and leaves their scopes; a step is one statement of one *)
(* of the functions that run.                                              *)
(***************************************************************************)
EXTENDS Classes

CONSTANTS
  MaxOperations     \* bound on the statements of the script

VARIABLES
  heap,         \* the values that were ever made
  frames,       \* the calls, the innermost first; the script's is the last
  result,       \* the value that the last call returned
  variables,    \* the variables of the script
  operation,    \* what the script did last, and to what
  operations    \* how many statements the script has run

objects == <<heap, frames, result, variables, operation, operations>>
vars == <<declarations, heap, frames, result, variables, operation, operations>>

\* Type::Int, where the type of a class is the class.
IntType == 0

Nothing == 0    \* no value

-----------------------------------------------------------------------------
(* Where the members are *)

DataMembers(c) == classes[c].dataMembers

\* Class::cumulatedDataMemberCount.
Cumulated[c \in 0 .. Len(classes)] ==
  IF c = None THEN 0 ELSE Len(DataMembers(c)) + Cumulated[classes[c].parent]

\* Class::attributesOffset.
Offset(c) == Cumulated[classes[c].parent]

-----------------------------------------------------------------------------
(* The statements that are generated: `class' is what the statement is     *)
(* about, `how' the function to use, `at' a position or a value.           *)

Statement(op, class, how, at) == [op |-> op, class |-> class, how |-> how, at |-> at]

InitObject(c) == Statement("InitObject", c, "", 0)
Construction(c, how) == Statement("Construction", c, how, 0)
PushDataMember(type, how, at) == Statement("PushDataMember", type, how, at)
PopDataMember(type) == Statement("PopDataMember", type, "", 0)
Return == Statement("Return", None, "", 0)
Body == Statement("Body", None, "", 0)
CallMember(class, name) == Statement("CallMember", class, name, 0)

HasParent(c) == classes[c].parent # None

\* The start of every constructor that is generated.
Start(c, how) ==
  IF HasParent(c) THEN <<Construction(classes[c].parent, how)>> ELSE <<InitObject(c)>>

Initialized(c, explicit) ==
  [i \in DOMAIN DataMembers(c) |->
     PushDataMember(DataMembers(c)[i], IF i \in explicit THEN "value" ELSE "default", i)]

HeaderStart(c) ==
  <<InitObject(c)>> \o (IF HasParent(c) THEN <<Construction(classes[c].parent, "default")>> ELSE <<>>)

GenerateHeaderAsWritten(c, explicit) ==    \* a defect
  HeaderStart(c)
  \o SelectSeq(Initialized(c, explicit), LAMBDA s : s.how = "value")
  \o SelectSeq(Initialized(c, explicit), LAMBDA s : s.how = "default")

\* generateHeader, when no initializer delegates, for the initializers of the members
\* explicit, whatever their order.  The object of InitObject is dropped if there is a base.
GenerateHeader(c, explicit) == HeaderStart(c) \o Initialized(c, explicit)

GenerateDefaultConstructor(c) ==
  Start(c, "default")
  \o [i \in DOMAIN DataMembers(c) |-> PushDataMember(DataMembers(c)[i], "default", i)]
  \o <<Return>>

\* Every member is read from the other object, behind the members of the base.
GenerateCopyConstructor(c) ==
  Start(c, "copy")
  \o [i \in DOMAIN DataMembers(c) |-> PushDataMember(DataMembers(c)[i], "copy", i + Offset(c))]
  \o <<Return>>

\* A class without a move constructor is copied.
MoveOrCopy(c) == IF c # IntType /\ script[c].moves THEN "move" ELSE "copy"

GenerateMoveConstructor(c) ==
  Start(c, MoveOrCopy(classes[c].parent))
  \o [i \in DOMAIN DataMembers(c) |->
        PushDataMember(DataMembers(c)[i], MoveOrCopy(DataMembers(c)[i]), i + Offset(c))]
  \o <<Return>>

GenerateDestructorBaseFirst(c) ==    \* a defect
  (IF HasParent(c) THEN <<Statement("CallDestructor", classes[c].parent, "", 0)>> ELSE <<>>)
  \o [i \in DOMAIN DataMembers(c) |-> PopDataMember(Reverse(DataMembers(c))[i])]

GenerateDestructorOwnOnly(c) ==    \* a defect
  [i \in DOMAIN DataMembers(c) |-> PopDataMember(Reverse(DataMembers(c))[i])]

GenerateDestructor(c) ==
  [i \in DOMAIN DataMembers(c) |-> PopDataMember(Reverse(DataMembers(c))[i])]
  \o (IF HasParent(c) THEN <<Statement("CallDestructor", classes[c].parent, "", 0)>> ELSE <<>>)

GenerateAssignmentOperatorOwnOnly(c) ==    \* a defect
  [i \in DOMAIN DataMembers(c) |-> Statement("Assign", DataMembers(c)[i], "member", i + Offset(c))]
  \o <<Return>>

GenerateAssignmentOperator(c) ==
  (IF HasParent(c) THEN <<Statement("Assign", classes[c].parent, "base", 0)>> ELSE <<>>)
  \o [i \in DOMAIN DataMembers(c) |-> Statement("Assign", DataMembers(c)[i], "member", i + Offset(c))]
  \o <<Return>>

\* The body that a user wrote for the constructor with arguments: it may call a member
\* function.
UserBody(c) == <<Body>> \o (IF script[c].calls = "" THEN <<>> ELSE <<CallMember(c, script[c].calls)>>)

\* FunctionCompiler::generateBody.  The default constructor is defaulted, or a user's: one
\* without initializers or one that delegates to "value", a constructor with arguments
\* that has initializers.
GenerateBody(c, function) ==
  CASE function = "default" /\ script[c].ctor = "defaulted"  -> GenerateDefaultConstructor(c)
    [] function = "default" /\ script[c].ctor = "delegating" -> <<Construction(c, "value"), Body, Return>>
    [] function = "default" /\ script[c].ctor = "user" -> GenerateHeader(c, {}) \o <<Body, Return>>
    [] function = "value"      -> GenerateHeader(c, script[c].inits) \o UserBody(c) \o <<Return>>
    [] function = "copy"       -> GenerateCopyConstructor(c)
    [] function = "move"       -> GenerateMoveConstructor(c)
    [] function = "destructor" -> <<Body>> \o GenerateDestructor(c)
    [] function = "assign"     -> GenerateAssignmentOperator(c)

-----------------------------------------------------------------------------
(* The interpreter *)

\* A value: a ScriptValue, or one of type int.  `destroyed' counts.
NewValue(type, value) == [type |-> type, members |-> <<>>, value |-> value, destroyed |-> 0]

Frame(class, function, this, other, rest) ==
  [class |-> class, function |-> function, this |-> this, other |-> other, rest |-> rest]

Top == Head(frames)
This == Top.this
Current == Head(Top.rest)
Is(op) == Top.rest # <<>> /\ Current.op = op

\* The innermost call goes on with what is given.
Continue(rest) == [frames EXCEPT ![1].rest = rest]
Proceed == Continue(Tail(Top.rest))

\* Function f of class c is called; the caller goes on with what is given.
Invoke(c, f, this, other, rest) == <<Frame(c, f, this, other, GenerateBody(c, f))>> \o Continue(rest)
InvokeThen(c, f, this, other, statements) == Invoke(c, f, this, other, statements \o Tail(Top.rest))

Release(o) == Statement("Release", None, "", o)

\* visit(InitObjectStatement).
ExecInitObject ==
  /\ Is("InitObject")
  /\ heap' = Append(heap, NewValue(Current.class, 0))
  /\ frames' = [Proceed EXCEPT ![1].this = Len(heap) + 1]
  /\ UNCHANGED result

\* visit(ConstructionStatement), up to the call and after it.
ExecConstruction ==
  /\ Is("Construction")
  /\ frames' = InvokeThen(Current.class, Current.how, Nothing, Top.other, <<Statement("Adopt", Top.class, "", 0)>>)
  /\ UNCHANGED <<heap, result>>

ExecAdopt ==
  /\ Is("Adopt")
  /\ heap' = [heap EXCEPT ![result].type = Current.class]
  /\ frames' = [Proceed EXCEPT ![1].this = result]
  /\ UNCHANGED result

\* What a member is initialized from: a member of the other object.
Source == heap[Top.other].members[Current.at]
IsCopied == Current.how \in {"copy", "move"}

\* visit(PushDataMember), for an int.
ExecPushInt ==
  /\ Is("PushDataMember") /\ Current.class = IntType
  /\ LET value == IF IsCopied THEN heap[Source].value ELSE IF Current.how = "value" THEN 1 ELSE 0
     IN heap' = Append([heap EXCEPT ![This].members = Append(@, Len(heap) + 1)], NewValue(IntType, value))
  /\ frames' = Proceed
  /\ UNCHANGED result

\* The same for an object.  visit(Copy) takes the copy constructor of the class that
\* the object has, visit(ConstructorCall) that of the class in the program.
ExecPushObject ==
  /\ Is("PushDataMember") /\ Current.class # IntType
  /\ LET class == IF Current.how = "copy" THEN heap[Source].type ELSE Current.class
         function == IF Current.how = "value" THEN "default" ELSE Current.how
     IN frames' = InvokeThen(class, function, Nothing, IF IsCopied THEN Source ELSE Nothing,
                             <<Statement("Store", None, "", 0)>>)
  /\ UNCHANGED <<heap, result>>

ExecStore ==
  /\ Is("Store")
  /\ heap' = [heap EXCEPT ![This].members = Append(@, result)]
  /\ frames' = Proceed
  /\ UNCHANGED result

\* visit(PopDataMember) with EngineImpl::destroy.
ExecPopDataMember ==
  /\ Is("PopDataMember")
  /\ LET member == Last(heap[This].members)
         popped == [heap EXCEPT ![This].members = Front(@)]
     IN IF heap[member].type = IntType
        THEN heap' = [popped EXCEPT ![member].destroyed = @ + 1] /\ frames' = Proceed
        ELSE heap' = popped /\ frames' = InvokeThen(Current.class, "destructor", member, Nothing, <<Release(member)>>)
  /\ UNCHANGED result

\* EngineImpl::destroy and Engine::destroy, after the destructor.
ExecRelease ==
  /\ Is("Release")
  /\ heap' = [heap EXCEPT ![Current.at].destroyed = @ + 1]
  /\ frames' = Proceed
  /\ UNCHANGED result

ExecCallDestructor ==
  /\ Is("CallDestructor")
  /\ frames' = InvokeThen(Current.class, "destructor", This, Nothing, <<>>)
  /\ UNCHANGED <<heap, result>>

ExecAssign ==
  /\ Is("Assign")
  /\ LET to == IF Current.how = "base" THEN This ELSE heap[This].members[Current.at]
         from == IF Current.how = "base" THEN Top.other ELSE heap[Top.other].members[Current.at]
     IN IF Current.class = IntType
        THEN heap' = [heap EXCEPT ![to].value = heap[from].value] /\ frames' = Proceed
        ELSE frames' = InvokeThen(Current.class, "assign", to, from, <<>>) /\ UNCHANGED heap
  /\ UNCHANGED result

\* The function of that name that is found in class c, in the nearest class.
FindFunction(c, name) ==
  CHOOSE f \in DOMAIN functions :
    LET IsOne(g) == functions[g].memberOf \in Lineage[c] /\ functions[g].name = name
    IN IsOne(f) /\ \A g \in DOMAIN functions : IsOne(g) => functions[g].memberOf <= functions[f].memberOf

HasFunction(c, name) == \E f \in DOMAIN functions : functions[f].memberOf \in Lineage[c] /\ functions[f].name = name

\* The function that runs: visit(VirtualCall) takes it from the table of the class that
\* the object has by now.
Callee(o, f) == IF functions[f].virtual THEN Vtable(heap[o].type)[SlotOf(f)] ELSE f

MethodFrame(o, f) == Frame(functions[f].memberOf, "method", o, Nothing, <<Body, Statement("Write", functions[f].memberOf, "", 0)>>)

\* The object of a call in a body is implicit.
Receiver == IF Current.at = Nothing THEN This ELSE Current.at

ExecCallMember ==
  /\ Is("CallMember")
  /\ frames' = <<MethodFrame(Receiver, Callee(Receiver, FindFunction(Current.class, Current.how)))>> \o Proceed
  /\ UNCHANGED <<heap, result>>

\* A member function writes the last member of its class.
ExecWrite ==
  /\ Is("Write")
  /\ LET c == Current.class
     IN heap' = IF DataMembers(c) # <<>> /\ Last(DataMembers(c)) = IntType
                THEN [heap EXCEPT ![heap[This].members[Cumulated[c]]].value = 2] ELSE heap
  /\ frames' = Proceed
  /\ UNCHANGED result

ExecBody == Is("Body") /\ frames' = Proceed /\ UNCHANGED <<heap, result>>

\* visit(ReturnStatement); a destructor and a member function just end.
ExecReturn ==
  /\ Is("Return")
  /\ result' = This
  /\ frames' = Tail(frames)
  /\ UNCHANGED heap

End ==
  /\ Top.rest = <<>> /\ Len(frames) > 1
  /\ frames' = Tail(frames)
  /\ UNCHANGED <<heap, result>>

-----------------------------------------------------------------------------
(* The script *)

New(c, function, other) == Statement("New", c, function, other)
PushValue(c) == Statement("PushValue", c, "", 0)

\* visit(ConstructorCall); with "move", of the temporary made before.
ExecNew ==
  /\ Is("New")
  /\ LET temporary == Current.how = "temporary"
         function == IF temporary THEN MoveOrCopy(Current.class) ELSE Current.how
     IN frames' = InvokeThen(Current.class, function, Nothing, IF temporary THEN result ELSE Current.at,
                             IF temporary THEN <<Statement("Destroy", None, "", result)>> ELSE <<>>)
  /\ UNCHANGED <<heap, result, variables>>

\* Interpreter::eval destroys the temporary, by the destructor of the class it has;
\* what the expression gives is kept until it is done.
ExecDestroy ==
  /\ Is("Destroy")
  /\ frames' = InvokeThen(heap[Current.at].type, "destructor", Current.at, Nothing, <<Release(Current.at)>>)
  /\ UNCHANGED <<heap, result, variables>>

\* visit(PushValue).
ExecPushValue ==
  /\ Is("PushValue")
  /\ variables' = Append(variables, [type |-> Current.class, object |-> result])
  /\ frames' = Proceed
  /\ UNCHANGED <<heap, result>>

\* visit(PopValue): the destructor is that of the variable's type.
ExecPopValue ==
  /\ Is("PopValue")
  /\ LET v == Last(variables)
     IN frames' = InvokeThen(v.type, "destructor", v.object, Nothing,
                             <<Release(v.object), Statement("Pop", None, "", 0)>>)
  /\ UNCHANGED <<heap, result, variables>>

ExecPop ==
  /\ Is("Pop")
  /\ variables' = Front(variables)
  /\ frames' = Proceed
  /\ UNCHANGED <<heap, result>>

\* obj1 = obj2 as an expression of the script.
ExecAssignment ==
  /\ Is("Assignment")
  /\ frames' = InvokeThen(Current.class, "assign", Current.at, Top.other, <<>>)
  /\ UNCHANGED <<heap, result, variables>>

AtRest == Declared /\ Len(frames) = 1 /\ Top.rest = <<>>

Variables == DOMAIN variables
IsConcrete(c) == ~classes[c].isAbstract

\* The script's next statement.
Perform(kind, from, to, class, statements) ==
  /\ AtRest /\ operations < MaxOperations
  /\ operation' = [kind |-> kind, from |-> from, to |-> to, class |-> class]
  /\ operations' = operations + 1
  /\ frames' = [Continue(statements) EXCEPT ![1].other = from]
  /\ UNCHANGED <<declarations, heap, result, variables>>

DeclareVariable(c, function) ==
  /\ IsConcrete(c)
  /\ function = "value" => script[c].ctor # "defaulted"
  /\ Perform(function, Nothing, Nothing, c, <<New(c, function, Nothing), PushValue(c)>>)

\* ConversionProcessor::sconvert: a copy to the same type is by the class of the object,
\* one to a base by the copy constructor of the base.
CopiedClass(v, c) == IF c = variables[v].type THEN heap[variables[v].object].type ELSE c

CopyVariable(v, c) ==
  /\ c \in Lineage[variables[v].type] /\ IsConcrete(c)
  /\ Perform("copy", variables[v].object, Nothing, c,
             <<New(CopiedClass(v, c), "copy", variables[v].object), PushValue(c)>>)

MoveTemporary(c) ==
  /\ IsConcrete(c)
  /\ Perform("default", Nothing, Nothing, c,
             <<New(c, "default", Nothing), New(c, "temporary", Nothing), PushValue(c)>>)

AssignVariable(v, w) ==
  /\ v # w /\ variables[v].type \in Lineage[variables[w].type]
  /\ Perform("assign", variables[w].object, variables[v].object, variables[v].type,
            <<Statement("Assignment", variables[v].type, "", variables[v].object)>>)

\* A call by a reference to c.
CallFunction(v, c, name) ==
  /\ c \in Lineage[variables[v].type] /\ HasFunction(c, name)
  /\ Perform("call", Nothing, Nothing, c, <<Statement("CallMember", c, name, variables[v].object)>>)

LeaveScope ==
  variables # <<>> /\ Perform("leave", Nothing, Nothing, None, <<Statement("PopValue", None, "", 0)>>)

-----------------------------------------------------------------------------
Init ==
  /\ DeclarationsInit
  /\ heap = <<>> /\ result = Nothing /\ variables = <<>>
  /\ frames = <<Frame(None, "script", Nothing, Nothing, <<>>)>>
  /\ operation = [kind |-> "", from |-> Nothing, to |-> Nothing, class |-> None] /\ operations = 0

RunClassStatement ==
  /\ \/ ExecInitObject \/ ExecConstruction \/ ExecAdopt
     \/ ExecPushInt \/ ExecPushObject \/ ExecStore
     \/ ExecPopDataMember \/ ExecRelease \/ ExecCallDestructor
     \/ ExecAssign \/ ExecCallMember \/ ExecWrite \/ ExecBody \/ ExecReturn \/ End
  /\ UNCHANGED <<declarations, variables, operation, operations>>

RunScriptStatement ==
  /\ ExecNew \/ ExecDestroy \/ ExecPushValue \/ ExecPopValue \/ ExecPop \/ ExecAssignment
  /\ UNCHANGED <<declarations, operation, operations>>

NextOperation ==
  \/ \E c \in DOMAIN classes, function \in {"default", "value"} : DeclareVariable(c, function)
  \/ \E c \in DOMAIN classes : MoveTemporary(c)
  \/ \E v \in Variables, c \in DOMAIN classes : CopyVariable(v, c)
  \/ \E v, w \in Variables : AssignVariable(v, w)
  \/ \E v \in Variables, c \in DOMAIN classes, f \in DOMAIN functions : CallFunction(v, c, functions[f].name)
  \/ LeaveScope

Next == (Declare /\ UNCHANGED objects) \/ RunClassStatement \/ RunScriptStatement \/ NextOperation

Spec == Init /\ [][Next]_vars
-----------------------------------------------------------------------------
(* Correctness *)

\* The types of the members of an object of class c, as the generated code finds them.
Layout[c \in 0 .. Len(classes)] ==
  IF c = None THEN <<>> ELSE Layout[classes[c].parent] \o DataMembers(c)

RECURSIVE IsComplete(_, _)
IsComplete(o, type) ==
  /\ heap[o].type = type /\ heap[o].destroyed = 0
  /\ type # IntType =>
       /\ Len(heap[o].members) = Cumulated[type]
       /\ \A i \in DOMAIN heap[o].members : IsComplete(heap[o].members[i], Layout[type][i])

\* The values an object consists of.
RECURSIVE Parts(_)
Parts(o) == {o} \union UNION {Parts(heap[o].members[i]) : i \in DOMAIN heap[o].members}

RECURSIVE PartCount(_)
PartCount(o) ==
  1 + FoldSeq(LAMBDA member, n : n + PartCount(member), 0, heap[o].members)

Held == UNION {Parts(variables[v].object) : v \in Variables}

\* What the initializers of a base name, and those of class c for function.
Explicit[c \in 0 .. Len(classes)] ==
  IF c = None THEN <<>>
  ELSE Explicit[classes[c].parent]
       \o [i \in DOMAIN DataMembers(c) |-> script[c].ctor = "delegating" /\ i \in script[c].inits]

IsExplicit(c, function, i) ==
  IF i > Offset(c) /\ function = "value" THEN i - Offset(c) \in script[c].inits ELSE Explicit[c][i]

\* Where the body of no constructor writes to a member.
IsInitialized(o, c, function) ==
  (\A b \in Lineage[c] : script[b].calls = "") =>
    \A i \in DOMAIN heap[o].members :
      LET member == heap[heap[o].members[i]]
      IN member.type = IntType => member.value = IF IsExplicit(c, function, i) THEN 1 ELSE 0

\* Whatever the constructors of its lineage are, an object that is in a variable has the
\* members of its bases and then its own, each of its type and complete itself, and
\* shares none of them with another object: not with the one it is a copy of, either.
\* The initializers have reached the members they name.
MembersInPlace ==
  AtRest =>
    /\ operation.kind \in {"default", "value"} =>
         IsInitialized(Last(variables).object, operation.class, operation.kind)
    /\ \A v \in Variables : IsComplete(variables[v].object, variables[v].type)
    /\ Cardinality(Held) =
         FoldSeq(LAMBDA v, n : n + PartCount(v.object), 0, variables)

\* When a body of a constructor or a destructor of class c starts, the object has the
\* members of c and its bases and no others: those of a derived class are not there yet,
\* or no more.  A member function that is called on it, from a constructor too, is not
\* pure and finds the members of its class.
BodiesSeeWholeObjects ==
  /\ Is("Body") =>
       LET found == Len(heap[This].members)
       IN IF Top.function = "method"
          THEN found >= Cumulated[Top.class] /\ heap[This].destroyed = 0
          ELSE found = Cumulated[Top.class]
  /\ Is("CallMember") => ~functions[Callee(Receiver, FindFunction(Current.class, Current.how))].pure

\* The destructor that is called for a member or a variable is that of the class the
\* object has, although the code takes it from the type of the member or variable; it is
\* called once, and no body runs on the object afterwards.
DestroyedByItsClass ==
  /\ \A o \in DOMAIN heap : heap[o].destroyed <= 1
  /\ \A i \in 1 .. Len(frames) - 1 :
       LET called == frames[i]  caller == frames[i + 1]
       IN called.function = "destructor" =>
            /\ heap[called.this].destroyed = 0
            /\ (caller.function = "destructor" /\ caller.this = called.this) \/ called.class = heap[called.this].type

\* When the script is between two statements, what was made and not destroyed is what
\* the variables consist of, but for the objects that InitObject made and a base
\* replaced, which have no members.
NothingIsLeft ==
  AtRest =>
    \A o \in DOMAIN heap \ Held :
      heap[o].destroyed = 1 \/ (heap[o].type # IntType /\ heap[o].members = <<>>)

\* Every object is destroyed once, by its class, and none is forgotten.
LifetimesAreRight == DestroyedByItsClass /\ NothingIsLeft

\* A copy, or the object that was assigned to, equals the other in all the members of
\* their class, member by member and in the members of members.
RECURSIVE Same(_, _, _)
Same(a, b, n) ==
  IF heap[a].type = IntType THEN heap[a].value = heap[b].value
  ELSE \A i \in 1 .. n : Same(heap[a].members[i], heap[b].members[i], Len(heap[heap[a].members[i]].members))

CopiesAreEqual ==
  AtRest =>
    CASE operation.kind = "copy"   -> Same(Last(variables).object, operation.from, Cumulated[operation.class])
      [] operation.kind = "assign" -> Same(operation.to, operation.from, Cumulated[operation.class])
      [] OTHER                     -> TRUE
==============================================================================
