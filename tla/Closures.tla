------------------------------- MODULE Closures -------------------------------
(***************************************************************************)
(* Local variables, arrays and closures: which names share a value.        *)
(*                                                                         *)
(* A Value of the program is a handle: variables, elements of arrays and   *)
(* captures of closures may be handles of one value, and then are names of *)
(* one thing.  What is a copy and what is another handle is decided when   *)
(* a function is compiled: by FunctionCompiler for its variables, by       *)
(* LambdaCompiler for the captures of a lambda expression, by LambdaScope  *)
(* for the names in its body.                                              *)
(*                                                                         *)
(* A step is one statement of a function without jumps.  Its statements    *)
(* are compiled in the order in which they run, so a step is both.  The    *)
(* captures of a lambda expression are evaluated one step each.            *)
(***************************************************************************)
EXTENDS Integers, FiniteSets, SequencesExt

CONSTANTS
  Ints, Arrays, Functors,   \* the names of variables, by what they hold
  Texts,                    \* the lambda expressions of the script
  MaxStatements             \* bound on the statements of the function

Names == Ints \union Arrays \union Functors

\* `this' is a keyword, and no identifier has a hyphen.
ASSUME NamesAreDistinct ==
  /\ Ints \intersect Arrays = {} /\ Functors \intersect (Ints \union Arrays) = {}
  /\ {"this", "return-value"} \intersect Names = {}
  /\ MaxStatements \in Nat

ASSUME TextsHaveNames ==
  \A text \in Texts :
    /\ text.captures \in Seq(ToSet(text.captures)) /\ text.body \in Seq(ToSet(text.body))
    /\ \A c \in ToSet(text.captures) : c.name \in Names /\ c.how \in {"&", "=", "init"}

VARIABLES
  stack,        \* the variables of the function, the innermost last
  scopes,       \* the size of the stack at the start of every block that is open
  memory,       \* the values, and the buffers of the arrays, that were ever made
  limpl,        \* the closure that is being made, and the captures it still lacks
  statement,    \* the statement that ran last
  failed,       \* the error that ended the compilation, and its name
  statements    \* how many statements have run

vars == <<stack, scopes, memory, limpl, statement, failed, statements>>

NoError == [error |-> "", name |-> "", text |-> <<>>]
NoLambda == [name |-> ""]

-----------------------------------------------------------------------------
(* Values *)

Integer(n) == [kind |-> "int", alive |-> TRUE, n |-> n]
Array(buffer) == [kind |-> "array", alive |-> TRUE, buffer |-> buffer]
Object(members) == [kind |-> "object", alive |-> TRUE, members |-> members]
Closure(captures, accesses, text, saw) ==
  [kind |-> "closure", alive |-> TRUE,
   captures |-> captures, accesses |-> accesses, text |-> text, saw |-> saw]

New(m, value) == [m EXCEPT !.values = Append(@, value)]
Newest(m) == Len(m.values)

Elements(m, v) == m.buffers[m.values[v].buffer]

CopyInt(m, v) == New(m, Integer(m.values[v].n))

\* ArrayImpl::assign: the old elements are dropped before the new ones are read.
AssignBuffer(m, self, other) ==
  LET emptied == [m EXCEPT !.buffers[self] = <<>>]
      read == emptied.buffers[other]
  IN [values  |-> m.values \o [i \in DOMAIN read |-> Integer(m.values[read[i]].n)],
      buffers |-> [emptied.buffers EXCEPT ![self] = [i \in DOMAIN read |-> Len(m.values) + i]]]

CopyArrayAttached(m, v) == New(m, Array(m.values[v].buffer))    \* a defect

\* callbacks::array::copy_ctor.  The Array that detach() is called on is one more owner
\* of the buffer, so that there are always two and it copies.
CopyArray(m, v) ==
  LET fresh == [m EXCEPT !.buffers = Append(@, <<>>)]
      new == Len(fresh.buffers)
  IN New(AssignBuffer(fresh, new, m.values[v].buffer), Array(new))

\* The n-th of a set of positions.
Before(S, i) == {j \in S : j < i}
Nth(S, n) == CHOOSE i \in S : Cardinality(Before(S, i)) = n - 1

\* copy_lambda: a capture whose type is a reference is shared.
CopyClosure(m, v) ==
  LET captures == m.values[v].captures
      own == {i \in DOMAIN captures : ~captures[i].ref}
      copies == [n \in 1 .. Cardinality(own) |-> Integer(m.values[captures[Nth(own, n)].value].n)]
      copied == [i \in DOMAIN captures |->
                   IF i \in own THEN [captures[i] EXCEPT !.value = Len(m.values) + Cardinality(Before(own, i)) + 1]
                   ELSE captures[i]]
  IN New([m EXCEPT !.values = @ \o copies], [m.values[v] EXCEPT !.captures = copied])

\* Engine::copy.
Copy(m, v) ==
  CASE m.values[v].kind = "int"     -> CopyInt(m, v)
    [] m.values[v].kind = "array"   -> CopyArray(m, v)
    [] m.values[v].kind = "closure" -> CopyClosure(m, v)

-----------------------------------------------------------------------------
(* Names *)

\* A position of the stack; its first variable is `return-value'.
LastIndexOf(name) ==
  LET found == {i \in DOMAIN stack : stack[i].name = name}
  IN IF found = {} THEN 0 ELSE CHOOSE i \in found : \A j \in found : j <= i

Visible(name) == LastIndexOf(name) # 0
ValueOf(name) == stack[LastIndexOf(name)].value

FirstCapture == 2
CanUseThis == Len(stack) >= FirstCapture /\ stack[FirstCapture].name = "this"

-----------------------------------------------------------------------------
(* LambdaCompiler: a text has the default (`', `=', `&' or both) and the   *)
(* explicit captures of a list of captures (`how' is "&", "=" or "init"),  *)
(* the parameters and the variables of the body, and the names it changes. *)

\* What will be evaluated for a capture: a variable of the stack, its copy, or an
\* expression that is not a variable.  A copy has the type of the variable, a reference.
Capture(name, how, index) == [name |-> name, how |-> how, index |-> index]

\* The captures whose names are unknown: the first of them is the error.
UnknownCaptures(text) ==
  {i \in DOMAIN text.captures : text.captures[i].how # "init" /\ ~Visible(text.captures[i].name)}

ThisCapture(text) ==
  IF text.default # "" /\ CanUseThis THEN <<Capture("this", "variable", FirstCapture)>> ELSE <<>>

ExplicitCapture(c) ==
  CASE c.how = "&" -> Capture(c.name, "variable", LastIndexOf(c.name))
    [] c.how = "=" -> Capture(c.name, "copy", LastIndexOf(c.name))
    [] c.how = "init" -> Capture(c.name, "value", 0)

\* capture_flags: an init-capture hides nothing.
Flagged(text) ==
  {LastIndexOf(c.name) : c \in {d \in ToSet(text.captures) : d.how # "init"}}
  \union {c.index : c \in ToSet(ThisCapture(text))}

DefaultCaptures(text) ==
  IF text.default = "" THEN <<>>
  ELSE LET rest == (FirstCapture .. Len(stack)) \ Flagged(text)
           how == IF text.default = "=" THEN "copy" ELSE "variable"
       IN [n \in 1 .. Cardinality(rest) |-> Capture(stack[Nth(rest, n)].name, how, Nth(rest, n))]

\* LambdaCompiler::preprocess, when it does not fail.
Preprocess(text) ==
  ThisCapture(text)
  \o [i \in DOMAIN text.captures |-> ExplicitCapture(text.captures[i])]
  \o DefaultCaptures(text)

IndicesOf(captures, name) == {i \in DOMAIN captures : captures[i].name = name}

\* LambdaScope::lookup: 0 is nothing.
LookupFirstCapture(captures, name) ==    \* a defect
  IF IndicesOf(captures, name) = {} THEN 0
  ELSE CHOOSE i \in IndicesOf(captures, name) : \A j \in IndicesOf(captures, name) : i <= j

LookupCapture(captures, name) ==
  IF IndicesOf(captures, name) = {} THEN 0
  ELSE CHOOSE i \in IndicesOf(captures, name) : \A j \in IndicesOf(captures, name) : j <= i

\* The stack of the function of a closure, as it is compiled, from position 0.
BodyStack(text) == <<"lambda-object">> \o text.params \o text.locals

\* FunctionScope::lookup among the positions from first of one of its two scopes.
LookupLocal(text, name, first, size) ==
  LET found == {i \in first .. first + size - 1 : BodyStack(text)[i + 1] = name}
  IN IF found = {} THEN -1 ELSE CHOOSE i \in found : \A j \in found : j <= i

Access(kind, at) == [kind |-> kind, at |-> at]

\* The scope of the parameters starts before `lambda-object', which it does not count.
Locals(text, name) ==
  LET inBody == LookupLocal(text, name, 1 + Len(text.params), Len(text.locals))
      inParameters == LookupLocal(text, name, 0, Len(text.params))
  IN IF inBody # -1 THEN inBody ELSE inParameters

IsMember(captures, name) == captures # <<>> /\ captures[1].name = "this" /\ name = "member"

\* The lookup of a name in the body, and VariableAccessor for what it finds.  A variable
\* of the enclosing function is read at its position there, on the stack of the closure.
ResolveInBody(text, captures, name) ==
  CASE Locals(text, name) # -1 -> Access("local", Locals(text, name))
    [] Locals(text, name) = -1 /\ LookupCapture(captures, name) # 0 ->
         Access("capture", LookupCapture(captures, name))
    [] Locals(text, name) = -1 /\ LookupCapture(captures, name) = 0 ->
         IF IsMember(captures, name) THEN Access("member", 1)
         ELSE IF Visible(name) THEN Access("outer", LastIndexOf(name) - 1)
         ELSE Access("unknown", 0)

-----------------------------------------------------------------------------
(* Statements *)

Ran(op, name, from) == statement' = [op |-> op, name |-> name, from |-> from]

Variable(name, ref, value) == [name |-> name, ref |-> ref, value |-> value]

\* PushValue.
Push(name, ref, value) == stack' = Append(stack, Variable(name, ref, value))

\* int name = 1;
DeclareInt(name) ==
  /\ memory' = New(memory, Integer(1))
  /\ Push(name, FALSE, Newest(memory'))
  /\ Ran("literal", name, "")
  /\ UNCHANGED <<scopes, failed>>

\* int name = from;  and  Array<int> name = from;
DeclareCopy(name, from) ==
  /\ Visible(from)
  /\ {name, from} \subseteq Ints \/ {name, from} \subseteq Arrays
  /\ memory' = Copy(memory, ValueOf(from))
  /\ Push(name, FALSE, Newest(memory'))
  /\ Ran("copy", name, from)
  /\ UNCHANGED <<scopes, failed>>

\* auto name = from;  the type of a variable is a reference, and stays one.
DeclareAuto(name, from) ==
  /\ Visible(from)
  /\ \E S \in {Ints, Arrays, Functors} : {name, from} \subseteq S
  /\ Push(name, TRUE, ValueOf(from))
  /\ Ran("alias", name, from)
  /\ UNCHANGED <<scopes, memory, failed>>

\* auto name = array[0];
DeclareElement(name, array) ==
  /\ Visible(array) /\ Elements(memory, ValueOf(array)) # <<>>
  /\ Push(name, TRUE, Head(Elements(memory, ValueOf(array))))
  /\ Ran("alias", name, array)
  /\ UNCHANGED <<scopes, memory, failed>>

\* Array<int> name = [from, from];  the elements that are default constructed are replaced.
DeclareArray(name, from) ==
  /\ Visible(from)
  /\ LET one == CopyInt(memory, ValueOf(from))
         two == CopyInt(one, ValueOf(from))
         m == [two EXCEPT !.buffers = Append(@, <<Newest(one), Newest(two)>>)]
     IN memory' = New(m, Array(Len(m.buffers)))
  /\ Push(name, FALSE, Newest(memory'))
  /\ Ran("elements", name, from)
  /\ UNCHANGED <<scopes, failed>>

\* Array::assign.
AssignArray(self, other) ==
  memory' = IF memory.values[self].buffer = memory.values[other].buffer THEN memory
            ELSE AssignBuffer(memory, memory.values[self].buffer, memory.values[other].buffer)

\* name = from;
Assign(name, from) ==
  /\ Visible(name) /\ Visible(from)
  /\ AssignArray(ValueOf(name), ValueOf(from))
  /\ Ran("copy", name, from)
  /\ UNCHANGED <<stack, scopes, failed>>

\* name.resize(1);  the element is a new one.
Resize(name) ==
  /\ Visible(name)
  /\ memory' = LET m == New(memory, Integer(0))
               IN [m EXCEPT !.buffers[m.values[ValueOf(name)].buffer] = <<Newest(m)>>]
  /\ Ran("resize", name, "")
  /\ UNCHANGED <<stack, scopes, failed>>

CanChange(m, v) == m.values[v].kind = "int" \/ (m.values[v].kind = "array" /\ Elements(m, v) # <<>>)

\* ++name;  or  ++name[0];  `by' is how many times each value is incremented.
Changed(m, v) == IF m.values[v].kind = "array" THEN Head(Elements(m, v)) ELSE v

ChangeValues(m, by(_)) ==
  LET changed == [v \in DOMAIN m.values |->
                    IF by(v) = 0 THEN m.values[v] ELSE [m.values[v] EXCEPT !.n = (@ + by(v)) % 3]]
  IN [m EXCEPT !.values = changed]

Change(name) ==
  /\ Visible(name) /\ CanChange(memory, ValueOf(name))
  /\ memory' = ChangeValues(memory, LAMBDA v : IF v = Changed(memory, ValueOf(name)) THEN 1 ELSE 0)
  /\ Ran("change", name, "")
  /\ UNCHANGED <<stack, scopes, failed>>

Fail(error, name, text) ==
  /\ failed' = [error |-> error, name |-> name, text |-> text]
  /\ Ran("failure", name, "")
  /\ UNCHANGED <<stack, scopes, memory>>

\* auto name = [..](..) { ++..; };
DeclareLambda(name, text) ==
  LET captures == Preprocess(text)
      accesses == [i \in DOMAIN text.body |-> ResolveInBody(text, captures, text.body[i])]
      unresolved == {i \in DOMAIN text.body : accesses[i].kind \in {"unknown", "outer"}}
      unknown == UnknownCaptures(text)
  IN IF text.default = "both" THEN Fail("CannotCaptureByValueAndByRef", "", text) /\ UNCHANGED limpl
     ELSE IF unknown # {}
          THEN Fail("UnknownCaptureName", text.captures[Nth(unknown, 1)].name, text) /\ UNCHANGED limpl
     ELSE IF unresolved # {}
          THEN Fail("UnresolvedName", text.body[CHOOSE i \in unresolved : TRUE], text) /\ UNCHANGED limpl
     ELSE /\ limpl' = [name |-> name, text |-> text, accesses |-> accesses, left |-> captures, captures |-> <<>>]
          /\ UNCHANGED <<stack, scopes, memory, statement, failed>>

\* Interpreter::visit(LambdaExpression): the captures are evaluated in their order.
EvaluateCapture ==
  LET c == Head(limpl.left) IN
  /\ limpl # NoLambda /\ limpl.left # <<>>
  /\ memory' = CASE c.how = "variable" -> memory
                 [] c.how = "copy"     -> Copy(memory, stack[c.index].value)
                 [] c.how = "value"    -> New(memory, Integer(1))
  /\ LET v == IF c.how = "variable" THEN stack[c.index].value ELSE Newest(memory')
     IN limpl' = [limpl EXCEPT !.left = Tail(@),
                               !.captures = Append(@, [name |-> c.name, ref |-> c.how # "value", value |-> v])]
  /\ UNCHANGED <<stack, scopes, statement, failed, statements>>

\* The closure that is made is copied into the variable.
MakeClosure ==
  /\ limpl # NoLambda /\ limpl.left = <<>>
  /\ LET temporary == New(memory, Closure(limpl.captures, limpl.accesses, limpl.text, stack))
     IN memory' = Copy(temporary, Newest(temporary))
  /\ Push(limpl.name, FALSE, Newest(memory'))
  /\ Ran("lambda", limpl.name, "")
  /\ limpl' = NoLambda
  /\ UNCHANGED <<scopes, failed, statements>>

\* CaptureAccess and MemberAccess.
Accessed(m, v, access) ==
  LET closure == m.values[v] IN
  IF access.kind = "member" THEN m.values[closure.captures[1].value].members[1]
  ELSE closure.captures[access.at].value

\* name();  a body with parameters or variables of its own is not run.
Call(name) ==
  /\ Visible(name)
  /\ LET v == ValueOf(name)
         accesses == memory.values[v].accesses
         changing(u) == {i \in DOMAIN accesses : Changed(memory, Accessed(memory, v, accesses[i])) = u}
     IN /\ \A i \in DOMAIN accesses :
             accesses[i].kind # "local" /\ CanChange(memory, Accessed(memory, v, accesses[i]))
        /\ memory' = ChangeValues(memory, LAMBDA u : Cardinality(changing(u)))
  /\ Ran("call", name, "")
  /\ UNCHANGED <<stack, scopes, failed>>

\* {
Enter ==
  /\ scopes' = Append(scopes, Len(stack))
  /\ Ran("enter", "", "")
  /\ UNCHANGED <<stack, memory, failed>>

DestroysAnyVariable(v) == TRUE    \* a defect

\* processVariableDestruction: what a reference denotes is not destroyed.
Destroys(v) == ~v.ref

\* }
Leave ==
  /\ scopes # <<>>
  /\ LET popped == {stack[i].value : i \in {j \in Last(scopes) + 1 .. Len(stack) : Destroys(stack[j])}}
         left == [v \in DOMAIN memory.values |-> [memory.values[v] EXCEPT !.alive = @ /\ v \notin popped]]
     IN memory' = [memory EXCEPT !.values = left]
  /\ stack' = SubSeq(stack, 1, Last(scopes))
  /\ scopes' = Front(scopes)
  /\ Ran("leave", "", "")
  /\ UNCHANGED failed

-----------------------------------------------------------------------------

\* The stack of a function, and that of a member function whose object has one member.
InitStack(member) ==
  IF member THEN <<Variable("return-value", TRUE, 1), Variable("this", TRUE, 3)>>
  ELSE <<Variable("return-value", TRUE, 1)>>

Init ==
  /\ \E member \in BOOLEAN : stack = InitStack(member)
  /\ memory = [values |-> <<Integer(0), Integer(0), Object(<<2>>)>>, buffers |-> <<>>]
  /\ scopes = <<>> /\ limpl = NoLambda
  /\ statement = [op |-> "", name |-> "", from |-> ""]
  /\ failed = NoError
  /\ statements = 0

Statement ==
  \/ \E n \in Ints : DeclareInt(n)
  \/ \E n, from \in Ints \union Arrays : DeclareCopy(n, from)
  \/ \E n, from \in Names : DeclareAuto(n, from)
  \/ \E n \in Ints, a \in Arrays : DeclareElement(n, a)
  \/ \E a \in Arrays, n \in Ints : DeclareArray(a, n)
  \/ \E a, b \in Arrays : Assign(a, b)
  \/ \E a \in Arrays : Resize(a)
  \/ \E n \in Ints \union Arrays : Change(n)
  \/ \E f \in Functors : Call(f)
  \/ Enter
  \/ Leave

Next ==
  \/ /\ failed = NoError /\ limpl = NoLambda
     /\ statements < MaxStatements
     /\ statements' = statements + 1
     /\ \/ Statement /\ UNCHANGED limpl
        \/ \E f \in Functors, text \in Texts : DeclareLambda(f, text)
  \/ EvaluateCapture
  \/ MakeClosure

Spec == Init /\ [][Next]_vars
-----------------------------------------------------------------------------
(* What a program may rely on.  The meaning is that of C++, which the      *)
(* language follows: it is stated from the text and from the variables     *)
(* that the lambda expression saw, not from the captures that were made.   *)

Closures == {stack[i].value : i \in {j \in DOMAIN stack : stack[j].name \in Functors /\ ~stack[j].ref}}

Named(saw, name) == {i \in DOMAIN saw : saw[i].name = name}
Meant(saw, name) == saw[CHOOSE i \in Named(saw, name) : \A j \in Named(saw, name) : j <= i].value

ExplicitOf(text, name) == {c \in ToSet(text.captures) : c.name = name}
MeantByReference(text, name) ==
  IF ExplicitOf(text, name) # {} THEN \E c \in ExplicitOf(text, name) : c.how = "&"
  ELSE text.default = "&"

\* The captures that are the closure's own, by their positions: those of the list, those
\* of the default.
OwnCaptures(v) ==
  LET closure == memory.values[v]
      text == closure.text
      first == IF closure.captures # <<>> /\ closure.captures[1].name = "this" THEN 1 ELSE 0
  IN {i \in first + 1 .. Len(closure.captures) :
        IF i - first <= Len(text.captures) THEN text.captures[i - first].how # "&" ELSE text.default = "="}

\* An explicit capture beside a default one has a name that one variable has, or none if
\* it is an init-capture: the hidden variable's default capture would hide it.
IsClear(v) ==
  LET text == memory.values[v].text IN
  \/ text.default = ""
  \/ \A c \in ToSet(text.captures) :
       Cardinality(Named(memory.values[v].saw, c.name)) = (IF c.how = "init" THEN 0 ELSE 1)

\* Everything that has a value of its own: variables, elements of arrays, captures.
VariableOwners ==
  {<<"variable", i, 0, stack[i].value>> : i \in {j \in DOMAIN stack : ~stack[j].ref}}
CaptureOwners ==
  UNION {{<<"capture", v, i, memory.values[v].captures[i].value>> : i \in OwnCaptures(v)} : v \in Closures}
ElementOwners ==
  LET owned == {v \in {o[4] : o \in VariableOwners \union CaptureOwners} : memory.values[v].kind = "array"}
  IN UNION {{<<"element", v, i, Elements(memory, v)[i]>> : i \in DOMAIN Elements(memory, v)} : v \in owned}
Owners == VariableOwners \union CaptureOwners \union ElementOwners

OwnersNeverShare == \A o, p \in Owners : o[4] = p[4] => o = p

Content(v) ==
  CASE memory.values[v].kind = "int"   -> <<memory.values[v].n>>
    [] memory.values[v].kind = "array" -> [i \in DOMAIN Elements(memory, v) |-> memory.values[Elements(memory, v)[i]].n]
    [] OTHER -> <<>>

CopiesAreEqual ==
  /\ statement.op = "copy" => Content(ValueOf(statement.name)) = Content(ValueOf(statement.from))
  /\ statement.op = "elements" =>
       \A i \in 1 .. 2 : <<Content(ValueOf(statement.name))[i]>> = Content(ValueOf(statement.from))
  /\ statement.op = "lambda" =>
       LET v == ValueOf(statement.name) IN
       \A i \in OwnCaptures(v) :
         LET c == memory.values[v].captures[i]
         IN Named(memory.values[v].saw, c.name) # {} /\ IsClear(v) /\ c.ref =>
              Content(c.value) \in {Content(memory.values[v].saw[j].value) : j \in Named(memory.values[v].saw, c.name)}

\* A copy has what its original has when it is made, and from then on nothing else in
\* the function is a handle of its value or of an element of it: a declaration or an
\* assignment that copies, an array expression, a capture by value, however aliases,
\* resizes, calls and the ends of blocks follow each other.
CopiesAreIndependent == OwnersNeverShare /\ CopiesAreEqual

DenotesWhatIsMeant(v) ==
  LET closure == memory.values[v] IN
  \A i \in {j \in DOMAIN closure.accesses : closure.accesses[j].kind # "local"} :
    LET name == closure.text.body[i]
        denoted == Accessed(memory, v, closure.accesses[i])
    IN IF name = "member" THEN denoted = 2
       ELSE IF MeantByReference(closure.text, name) THEN denoted = Meant(closure.saw, name)
       ELSE \E k \in OwnCaptures(v) : closure.captures[k].name = name /\ closure.captures[k].value = denoted

\* What a name in the body of a closure denotes when the closure is called: the variable
\* that the lambda expression saw if it is captured by reference, the closure's own copy
\* if it is captured by value, the member of `this'.  A lambda expression is refused for
\* a name only if it captures no such name.  LambdaCompiler::preprocess decides what is
\* captured and in which order, LambdaScope::lookup searches it later.
NamesDenoteCaptures ==
  /\ \A v \in Closures : IsClear(v) => DenotesWhatIsMeant(v)
  /\ failed.error = "UnresolvedName" /\ failed.name \notin ToSet(failed.text.params \o failed.text.locals) =>
       /\ ExplicitOf(failed.text, failed.name) = {}
       /\ failed.text.default # "" => ~Visible(failed.name)

\* The same of every list of captures.  tests/language/lambda.script:40 captures `z' by
\* reference beside a default; a second `z' that the first hides is captured behind it,
\* and is what the body changes.
ExplicitCapturesWin == \A v \in Closures : DenotesWhatIsMeant(v)

\* No variable that can be named, and no capture of a closure that can be called, denotes
\* a value that the end of a block destroyed: a reference may leave its block before what
\* it refers to, never after.
VisibleAreAlive ==
  /\ \A i \in DOMAIN stack : memory.values[stack[i].value].alive
  /\ \A v \in Closures : \A i \in DOMAIN memory.values[v].captures :
       memory.values[memory.values[v].captures[i].value].alive

\* README.md:166 has a lambda expression with a parameter.  A parameter is at the position
\* that it has on the stack of a call, behind the returned value and the closure.
ParametersAreArguments ==
  /\ failed.error = "UnresolvedName" => failed.name \notin ToSet(failed.text.params)
  /\ \A v \in Closures :
       LET closure == memory.values[v] IN
       \A i \in DOMAIN closure.text.body, p \in DOMAIN closure.text.params :
         closure.text.body[i] = closure.text.params[p] /\ closure.text.locals = <<>> =>
           closure.accesses[i] = Access("local", p + 1)

==============================================================================
