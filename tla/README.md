# libscript: a verification development

libscript is an embeddable script engine in C++: a source text becomes a syntax
tree (lexer, parser), the tree becomes a program of statements and expressions
(compiler, over a type system of classes, enumerations, closures and
templates), and an interpreter executes the program on a data stack and a
callstack. The modules here model the parts of it whose correctness depends on
sequences of steps (the run-time stacks, what is generated for scopes, jumps and
special members, the tables of the type system and their transactions, the compile
session, the shared scopes, which values share what) and the algorithms on which
the meaning of a script rests (lexing and parsing, lookup, conversions, overload
resolution, template matching), against definitions of what they are for. Paths
below are relative to the repository.

## The system and its parts

| part | state it keeps | operations | what makes it correct | modules |
|---|---|---|---|---|
| `interpreter::ExecutionContext` | data stack, callstack, temporaries, list buffer | push, pop, flags | calls nest; frames are disjoint; nothing leaks | `Interpreter` |
| `interpreter::Interpreter` | the C++ recursion, exceptions in flight | invoke, eval, exec, one visit per node | a call is transparent, however it ends | `Interpreter`, `CallDiscipline` |
| `compiler::FunctionCompiler` | compile-time stack, scopes, statement buffer | one process function per statement | the compile-time stack predicts the run-time stack | `Statements` |
| constructor, destructor, assignment compilers | none | generate headers, footers | members and bases are built, copied and destroyed once, in order | `Objects` |
| `compiler::ExpressionCompiler` and helpers | caller, scope, captures | generate per expression | picks the declared meaning; each parameter gets a value it can take | `Calls` |
| `compiler::LambdaCompiler` | captures, the scope of the body | compile | a name in the body denotes what its list of captures says | `Closures` |
| `compiler::ScriptCompiler` | queues of functions, of scripts, of unfinished declarations | add, processNext, reprocess | every declaration is processed once, queues end empty | `CompileSession`, `Classes`, `Scopes` |
| `compiler::Compiler`, `CompileSession` | the active session, its scripts and functions | compile, addToSession, instantiate, finalizeSession | everything is compiled, or a failure undoes everything; no session is left open | `CompileSession`, `Templates` |
| `Module`, `ImportProcessor` | module tree, loaded flags | load, import | a module joins a session once; what is loaded is there | `CompileSession`, `Scopes` |
| `Engine`, `Script` | tables of scripts, modules; globals, statics | newScript, run, destroy, tearDown | ids stay valid; globals are found where the compiler put them | `CompileSession`, `Statements` |
| `TypeSystem`, `TypeSystemTransaction` | vectors of classes, closures, enumerations, function types; reservations; the active transaction | reserve, register, unregister, destroy, commit, rollback | an id names one type while it lives; a rollback leaves nothing newer | `TypeSystem`, `TypeTransactions` |
| `Value`, `Locals` and the data types | reference counts, vectors of handles, shared buffers | copy, assign, take, convert, destroy, detach | a value is deleted with its last handle and destroyed once; a write is seen by its owners only | `Handles`, `Closures`, `Objects` |
| classes | data members, vtable, offsets | add members, functions | an override replaces exactly its slot | `Classes` |
| namespaces, scopes, lookup | shared nodes, caches, injections | lookup, inject, merge, import | what was declared is found; a directive stays in its scope | `Scopes` |
| conversions, initialization, overloads | none | compute, compare, select | ranks order the candidates; the best one is selected | `ConversionRanks`, `Conversions`, `BuiltinOperators`, `Selection`, `Calls` |
| templates | instances, specializations | match, deduce, select, instantiate | what is deduced reproduces the types; one instance per argument list | `TemplateMatching`, `Templates` |
| lexer, token reader, parser | position in the text | next, seek, parse | what is read is what was written; nothing unclosed is accepted | `Lexer`, `TokenReader`, `SyntaxTree`, `Visitor`, `Parser`, `Grammar` |

How they interact. `Engine` owns one of each of the long-lived parts. Compiling
a script enters `Compiler`, which opens a session (or joins the active one),
parses the source, lets `ScriptCompiler` declare everything, each declaration in
the scope it is written in, and then `FunctionCompiler` each
function, in the scope its declaration was given; an import directive met on the way
loads a module, which compiles
another script inside the session; a template instance or a constant expression
met on the way re-enters compiler or interpreter. `ExpressionCompiler` looks names
up in the scope, resolves overloads by the initializations they would need, and
asks `LambdaCompiler` for closures. Classes and functions created
on the way are recorded in the type system's transaction, to be undone. At the
end the session runs the imported scripts, in the interpreter. Script functions
and native callbacks call one another through `Interpreter::invoke`, so both the
interpreter and the compiler are re-entrant; nothing is concurrent. Exceptions
are C++ exceptions: a native callback, a failing expression or the callstack
limit throws, and destructors on the way restore the state.

What is hard, then, is not concurrency but re-entrancy, exceptions half-way
through a step, agreement between a compile-time prediction and the run-time
fact, indices that outlive what they index, handles that share what they should
copy, caches that a declaration makes stale, and results that should not depend
on the order of declarations. `PROJECT.json` lists the places under `hazards`.

## The plan

In order of importance; all of it is done.

1. `Interpreter`: the execution context and the visitor. Its abstract
   specification is `CallDiscipline`; its proofs are in `InterpreterProofs`.
2. `Statements`: the function compiler's scopes and jumps, composed with the
   execution of the statements it generates; globals, static variables,
   breakpoints. It discharges what `Interpreter` assumes of a body: its locals
   are popped when it returns.
3. `TypeSystem`: the vectors, reservations and transactions. Its abstract
   specification is `TypeTransactions`: a rollback removes all that was made since
   the transaction began, and of what is older only function types. Its proofs are
   in `TypeSystemProofs`.
4. `CompileSession`: scripts, modules, imports, queues and failures. Its proofs are
   in `CompileSessionProofs`.
5. `Lexer`, `TokenReader`, `SyntaxTree`, `Parser`: from a text to a tree; `Visitor`:
   what is handed to who walks it. `Grammar` says what they are for.
6. `Scopes`: the scopes of a compilation, shared, cached and copied. Its proofs are
   in `ScopesProofs` and, about lookup, `LookupProofs`.
7. `ConversionRanks`, `Conversions`, `BuiltinOperators`, `Selection`, `Calls`: from a
   name and arguments to the call that is compiled. `Selection` and `ConversionRanks`
   are proved about, in `SelectionProofs`.
8. `TemplateMatching`, `Templates`: specializations, deduction and instances, over
   sessions that may fail.
9. `Classes`, `Objects`: the declaration of classes, and what their generated
   members do with objects.
10. `Closures`: locals, arrays and closures, and which of them share values. Its
    proofs are in `ClosuresProofs`.
11. `Handles`: the values that a program which embeds the engine holds and destroys.
    Its proofs are in `HandlesProofs`.

What could still be added: theorems about `Objects`' lifetimes, and that copies in
`Closures` stay independent.

## The runs

A module whose name begins with `MC` gives constants their values, and nothing else.

| run | what it shows | distinct states |
|---|---|---|
| `calls` | balance, frames, shared buffers, lists, transparency of calls, refinement of `CallDiscipline` | 1,323,393 |
| `statements` | the compiler's stack predicts the data stack at every statement, pop and breakpoint | 394,260 |
| `typesystem` | types, ids, function types, transactions, refinement of `TypeTransactions` | 358,498 |
| `session` | all or nothing; no session left open; the table of scripts; compilations end | 780,100 |
| `parsing` | what is read is what is written; nothing unclosed is accepted; sources nest | 232,191 |
| `names` | earlier declarations are found; imported namespaces extend their namesakes; directives stay in their scope | 259,880 |
| `overloads` | arguments fit their parameters; the selected overload is not beaten; the best one is found | 68,531 |
| `templates` | deductions reproduce the types, no better specialization is passed over; one class per arguments | 218,668 |
| `objects` | virtual tables; members, lifetimes and copies of objects; what bodies of special members see | 490,438 |
| `closures` | copies share nothing; names in closures denote what the captures say; nothing visible is dead | 382,689 |
| `handles` | values live as long as they are held, and no handle is lost | 76,448 |
| `retry` | violation: after a failure, a valid script with a forward reference does not compile | |

All properties but one are safety properties, and need no fairness. `Terminates`, of
`session`, assumes weak fairness of `Step` (see below). Deadlock is checked in
`calls`, `statements` and `handles`, which model machines that may always go on; in the other
runs the compilation, the script or the program ends.

## Interpreter

State. `size` is `Stack::size`, `mSize` and `mData` are the members of
`Callstack` (frames above `mSize` keep their content, as in the code), `gc` and
`ilist` count `garbage_collector` and `initializer_list_buffer`. The visitor's
recursion on the C++ stack is explicit: `act[1 .. depth]` holds one activation
per running C++ call that owns part of the context: a call (`Invoker`), an
evaluation (`Interpreter::eval`) or a list under construction. `mode` says
whether C++ runs or unwinds, `exc` is `std::uncaught_exceptions()`, `caught` is
history.

Actions. `Invoke`, `DestroyValue` and `DestroyTemporary` are the three ways into
`Interpreter::invoke`; `BeginCall`, `EnterBody`, `EndCall` are the call visits
in the order of the code (result slot, `this`, arguments, frame, body, pop,
`~Invoker`, the use the C++ caller makes of the value); `Copy` is `Engine::copy`;
`BeginDelegate` is `ConstructionStatement`; `BeginList`, `EndList` are
`visit(InitializerList)`; `BeginEval`, `FinishEval`, `Drop`, `EndEval` are
`Interpreter::eval`; `PushStatic`, `PopLocal` are statements; `Raise` (callstack
overflow), `Throw`, `Unwind` and `Catch` are C++ exceptions, one activation at a
time. Which function is called, what an argument is, when a callback throws or
catches are nondeterministic. Two things are assumed of a compiled body: it has
popped its locals when it returns, and it never pops more than its locals. They
are the subject of `Statements`.

Abstract specification. `CallDiscipline` knows only the calls in progress and the
size of the data stack; the frames `mData[0 .. mSize - 1]` map to its calls.

Properties of `calls`. `StacksBalanced`, `FramesAreSound`, `CallsAreTransparent`:
what a call relies on, what it leaves. `BuffersOfOuterEvals`: no evaluation destroys
a temporary of an outer one. `TemporariesReclaimed`, `ListHoldsItsElements`: the
buffers that re-entrant evaluations share, also after exceptions that were caught.

Bounds. Two functions (a native constructor, and a script function that also is
a destructor) give every kind of call; one argument each keeps the slots of a
call distinguishable (result, argument). A callstack of two frames makes the
overflow happen under a call and during the preparation of a call; four
C++ activations allow an evaluation within an argument of a call within an
evaluation; two temporaries and two list elements are what one call with a
list and a copy needs. All the bounds are in guards of actions that begin
something, never in one that ends it. `NestedLists` is FALSE: elements of lists are
not lists with elements themselves (see Defects).

### Proofs

`InterpreterProofs` proves `StacksBalanced`, `FramesAreSound`,
`BuffersOfOuterEvals`, `CallsAreTransparent` and the refinement, and the type
invariant `TypeOK`, for all functions, arities, capacities and bounds, from
`FunctionsAssumption` and `BoundsAssumption` alone. None of the properties is
inductive; the invariant `IInv` adds how the activations share the stacks: each
activation begins where the one below it ends (its `sp`, `base`, `gcs` and `ils`
are the sizes it found, plus what the one below has pushed since), and the frame
of a running call is in the slot of `mData` it pushed, with its callee and its
start. From that partition everything follows: the innermost activation's size is
the size of the stack, so ending it, or unwinding it, restores what its caller had;
frames are disjoint because activations are; an empty recursion means empty
stacks. The lemmas `Entering`, `Settling` and `UpdateInv` state the three ways an
action changes the partition (a new activation, one less, a change of the
innermost), so that the lemma of each action is short. `Refinement` shows each
step to be a call, a return, work above the calls, or a stutter of
`CallDiscipline`.

The second half of `InterpreterProofs` proves `TemporariesReclaimed`, and `ListHoldsItsElements` for flat
lists (`NestedLists` FALSE; with TRUE the property is false, see Defects). Of each
step only its kind matters: an activation begins (`Begins`), or none does and one
may have ended (`Continues`). The invariants speak of where activations stand among
each other. `TemporariesInv`: a node is visited under an eval, and the outermost
eval found the buffers empty, unless an exception was caught outside of every
eval, after which what it left stays. `ListsInv`: a list, a call within an element
of a list, and a call that is not a node leave in the buffer exactly the list
elements that are theirs; an eval may leave more, but takes it back when it ends.

Not modelled: destructors that use the interpreter while an exception unwinds (see
Defects), and the values of expressions, except where `Objects` and `Closures` do.

## Statements

State. The compiler is a function: `Compile(kind, debug, body)` threads a record
with the members of `FunctionCompiler` (`mStack`, the scopes with their `mSp` and
`mSize`, `mBuffer`) through `Process`, which is recursive over the source
statement as `process` is. Its result is a tree of program statements, each
carrying the variables that were on the compile-time stack where it was
generated. The interpreter is the state machine: `stack` is the part of the data
stack above the start of the call, `flags` the flags of the frame, `globals` the
vector of the script, and `todo` the C++ recursion of the visitor, innermost
first.

Actions. One per visited node, in the order of the code: `PushValue`,
`PushGlobal`, `PopValue`, `Skip` (expressions, breakpoints), `CompoundStatement`
and `Rest` (which looks at the flags after each statement), `IfStatement`,
`JumpStatement` and `SetFlag` (the destruction part, then the flag),
`BeginLoop`, `Condition`, `EndTurn`; `RunAgain` ends the call and begins the next.
Every condition may be true or false.

Properties. `NamesAreInPlace`: at every expression the data stack is the one the
compiler assumed, globals are where their names are, and a body leaves no locals.
`PopsItsVariable`: every pop finds the variable it is for, whichever jump led
there. `BreakpointsShowTheStack`: what the debugger is told of the locals is what is
on the stack.

Bounds. The bodies are all those made of two nested constructs (block, branch
with and without `else`, `while`, `for` with a declaration and with an expression) around
at most two declarations and jumps, followed by a declaration; that is enough for
every pair of scopes to be left by every jump, and for a loop to run again over
what it left. One argument tells apart the result, the arguments and the locals.
Bodies are braced, and destructors left out: both are in Defects. `Process` is
`RECURSIVE`, so nothing is proved about this module.

Not modelled: the expressions inside the statements, import
directives and using declarations inside a function (they change no stack; `Scopes`
has the latter), a
`for` without init statement, and a jump without an enclosing loop (both
dereference a null pointer; see `hazards`).

## TypeSystem

State. `table` and `size` are the vectors `classes`, `enums`, `lambdas` and
`prototypes` of `TypeSystemImpl`; an entry is an object (a `ClassImpl`, an
`EnumImpl`, a `ClosureTypeImpl`, a `FunctionType`), null, or the reservation. An
object carries the id it was registered with (`type`), a prototype if it is a
function type, and the lists `classes` and `enums` of what was declared in it, as
a namespace does. `listeners`, `active` and `m_types` are the transactions.
`todo` is the C++ recursion of `destroy` and `rollback`, innermost call first;
`since`, `deleted` and `rolledBack` are history. `undefined` is set where the code
follows a null pointer or leaves a vector; the behaviour stops there.

Actions. `NewClass`, `NewEnum`, `NewLambda`, `NewFunctionType`: a builder, or
`getFunctionType`, registers an object at the end of its vector, or at an index it
asks for that is free, and tells the listeners. `Reserve` is
`TypeSystem::reserve` with one id. `DestroyNamespace` is what destroying a script
or a module does; `DestroyType`, `DestroyEnum`, `DestroyClass`, `UnregisterClass`
and `UnregisterEntry` are the calls of `destroy` in the order of the code, a class
after its members; `Vacate` clears the entry and squeezes the vector. The entry that
`unregister_function` clears is the one whose index the `FunctionType` it is given
has: that of a function type which has already gone is 0 (`Freed`). `Fail` is
the use of a class, an enumeration or a closure type that is not there, or of an
index past the end. `Start`, `Commit`, `BeginRollback` and
`EndRollback` are the transactions, C++ objects in nested scopes: the last to start
is the first to end, and none ends while something is being destroyed. Which types
are created, in what, and when transactions start and end is nondeterministic.

Abstract specification. `TypeTransactions` knows the set of types, the set of those
that ever existed, and for each open transaction what that was when it began.
While no rollback is in progress types come and go; a rollback ends when nothing
newer than its transaction is left, and of what is older it removes only types whose
destruction is announced to nobody (`unannounced`), the function types. That it
does remove such types is the defect that `RollbackSparesOlder` shows: a function type
made and undone in an inner transaction stays in the record of the outer one, its
index is given again and recorded again, and the outer rollback clears the index
twice, the second time the one at 0, whatever function type is there.

Bounds. The constraint `Bound` has three parts. Three objects of any kinds, in
vectors of three places of which one is reserved from the start: a class in a class,
an enumeration in a class, and a type besides them fit, and an id freed by `squeeze`
is given again. Two objects and any further reservations, which then lie between
entries. Four function types of three prototypes, as many as the rollback just
described takes. Two transactions nest. One namespace and one requested index are
enough for what depends on them. The transactions, and the objects but the `Fourth`,
are interchangeable in every definition and property and in the constraint, so that
symmetry is sound.

### Proofs

`TypeSystemProofs` proves the type invariant, `IdsNameEntries`, `OneTypePerPrototype`,
`TransactionsAreSound` (the outermost transaction is the active one, and each has
recorded what it made), `FoundUnderItsId`, and that `TypeSystem` implements
`TypeTransactions`, for all sets of objects, namespaces, prototypes and
transactions, any vector size above 2 and any set of requests, from
`ObjectsAssumption` alone. `IdsNameEntries`, `OneTypePerPrototype` and the part about
the active transaction are close to inductive; the records are not. What has to be
added to them is how ages are related: `Newer` says that an id given after a
transaction started never names something older than the transaction, and that
what is declared in a newer class is newer. `Recorded` is `RecordsWhatItMade` with
the weaker facts that hold of function types. `Undoing` says that during a
rollback every newer type that is left is still to be destroyed, itself or the
class around it, and that nothing to be destroyed is older. From it the
last step of a rollback concludes that it has removed everything, and each step
before it that it removes nothing older that has been announced, although it clears
entries by ids that may have been given twice in between (`FreedType` says which). The lemmas `Registering`, `UnregisterInv`
and `Stopping` are the three ways the tables and the listeners change;
`Simulation` maps each step to a step of `TypeTransactions`.

`FoundUnderItsId` needs one more invariant, `Tree`, which holds until a transaction
is rolled back: an object is at one place only, in one list of members of something
that is not being destroyed or once among what is still to be destroyed, and what is
at either place has not been destroyed. Without it a cascade could free an id twice,
the second time when another type has it. `TreeGrows`, `TreeEmptied`, `TreeOpened`
and `TreeShrinks` are its four ways to change: something is declared, a namespace or
a class hands over its members, an object is destroyed. That destroying a class
leaves its list of enumerations as it is does no harm: the class has by then begun to
be destroyed.

Not modelled: names (`deleted_`, `typemap_by_name`), the instances of templates
that a class or a namespace keeps when it is cleared, nested namespaces (they are
destroyed between the enumerations and the classes of their parent), and the
queries of `TypeSystem` that compute conversions and assignability (`Conversions`
has them).

## CompileSession

State. `id` and `scripts` are the ids of the scripts and the vector of the engine;
`state`, `top` (`script`), `generated` (its scripts) and `error` are the session;
`incomplete`, `reprocessing`, `collected`, `tasks` and `uninitialized` are
`mIncompleteFunctionDeclarations`, `mReprocessingIncompleteFunctions`,
`mProcessingQueue`, `mCompilationTasks` and `uninitialized_variables_`. The last
five belong to the `ScriptCompiler`, which the `Compiler` keeps: they are not reset
when a session begins, in the code or here. `ready` and `loaded` are
`Script::isReady` and `Module::isLoaded`. `source` says what each script contains,
as a sequence of kinds of declarations: the kind decides in which queue it goes and
where, if anywhere, it fails. `todo` is the C++ recursion and `thrown` the exception
in flight; `alive`, `destroyed`, `done`, `result` and `calls` are history. `undefined` is set
when `EngineImpl::destroy` writes past the end of the vector; the behaviour stops.

Actions. The program makes scripts (`NewScript`), compiles them (`Compile`) and loads
modules (`LoadModule`), one call after the other. All others are steps of such a
call, in the order of the code: `StartSession` to `DestroyNamespace` are
`Compiler::compile` with the constructor of the session and its undoing; `Add`,
`Declare`, `Unresolved` are the declarations of a script; `Import` to `RunModule` are
the import processor and the script modules, in a session or outside one;
`Finalize`, `ProcessAll`, `Reprocess`, `CompileFunction`, `FailTemplate`,
`EndFunctions` and `Run` are `finalizeSession`; `Handle`, `Leave` and `Escape` are
exceptions, one call at a time. A function template that does not compile clears the
session and throws past every handler; a class template that does not compile clears
the session too, and is reported as an unknown name.

Properties. `AllOrNothing`: a compilation that succeeds has compiled every declaration, and one that fails leaves none of its scripts. `SessionsAreSeparate`:
no session is left open, and no module joins one twice. `TableIsRight`:
a script that was not destroyed is in the table of the engine under its id, and a place
holds no script with another one. `Terminates`: a compilation ends.

`EngineImpl::destroy` clears the place of the id that the script had when it was made, and
`CompileSession::clear` may destroy a module twice in a session (once for each class
template that fails, once when the session does). Had another script got the id in
between, it would lose its place. That cannot be: no script is made while a session is in
progress, and in no later session is the module destroyed again, because `ScriptModule::load`
counts it as loaded once it has joined one, failed or not (a defect of its own,
`LoadedIsThere`), and `Module::load` leaves a loaded module alone. With that check dropped
(the mutant of the run, `WantedAlways`) TLC finds a script that has lost its place.

Bounds. Two scripts and two modules, of which one may import the other: a script can
import a module directly, through another, from the body of a function and as one of
a group. Two declarations per script, of every kind, are enough to fail before,
between and after an import; two compilations show what the first leaves to the
second. The modules are made before or after the first script, the second script
later, so that the module that is destroyed is last in the table, or is not.
`Terminates` assumes weak fairness of `Step`: the calls run in the thread of the
program, so that each step of a call is followed by the next. The program itself need
not call anything: `Compile`, `LoadModule` and `NewScript` are not in `Step`.

Not modelled: circular imports (they recurse without end), `Engine::destroy` called by
the program, native modules and functions that compile while scripts run, command
and expression compilation, template instances that succeed (`Templates` has them),
friend declarations and
data members that need no initialization (they are processed and leave no trace in
the queues), and the exports of a script.

Proofs. `CompileSessionProofs` proves the type invariant (what each queue and each call
holds), `TableIsRight`, `SessionsAreSeparate`
and `AllOrNothing` for every set of scripts and modules and every program of them.
`AcyclicAssumption` is the one assumption that restricts the programs: the imports at
script level of modules have a strict order. The code requires it ("calling this function
while a module is loading is undefined behavior", `module.cpp:480`): with a cycle the
calls recurse without end. The invariant, `IInv`, is mostly about `todo`:

- `StackInv`: which call may be above which. Only modules being loaded are
  under the call that began the session (`Nested`), each call of a session is
  above the one that ends it (`Based`), the call that compiles functions is just above it
  (`Linked`), an active session has such a call (`Attended`), so that none
  is left when `todo` is empty; where an exception can be (`Raised`).
- `JoinInv`: within a session a module is loaded only while the modules that import it are
  (`Chained`), so that by acyclicity it is not loading already, and each module of
  the session is loaded or loading (`Joined`): it cannot join again.
- `GoneInv`, for `TableIsRight`: what is to be destroyed has joined the session
  (`Doomed`), and no other script is at the place of a module of a session in progress
  (`Placed`); a module that was destroyed is loaded, or is being loaded in that session
  (`Gone`), so that it joins no other, and no exception that leaves the session passes
  the load of a module (`Spared`).
- `UndoInv`: between a failure and its end, each module of the session that exists is
  still to be destroyed by a call in progress.
- `CompleteInv`: as long as nothing went wrong, each declaration of the session
  is done, in a queue, or will be reached by a call in progress (`Followed`); what adds
  to the queues of declarations is above a call that empties them (`Settled`); the
  session ends with empty queues (`Emptied`). The queues may hold at the beginning what
  an earlier failure left: nothing in the proof needs them empty.
- `Numbered`: a script whose compilation began has an id, so a new one is another.

`IInv` was checked by TLC on the instance of `session` before it was proved. The proof
has a lemma per part of the invariant (`StackStep`, `TableStep`, `NumberedStep`,
`JoinStep`, `GoneInvStep`, `FinishStep`), and under it a step per action; lemmas such as
`LightStack`, `JoinLight` and `InnerStep` treat all the steps that replace the innermost call
by a list of others at once. `Terminates` is liveness, and only model-checked.

## Parsing: Lexer, TokenReader, SyntaxTree, Visitor, Parser, Grammar

State. `source`, `pos`, `tokens` are the lexer's and its result; `at` and `root` are
the parser's position and the statements of the root node; `status` says whether the
text is being lexed, parsed, or is read or refused. `beyond` is what the memory
after the last token shows: the lexer adds no token for the end of the text, and
`peek` reads there without a check. Any of the ids of `Beyond` may be found there.

`Lexer` has every token of `lexer.cpp`: a text is a sequence of units, characters
or whole keywords. `TokenReader` has the fragments of `token-reader.cpp` (delimiters,
statements, elements of lists, template argument lists, the halves of a `>>`) and
the readers over them. A parser, of `Parser`, takes a reader and returns a node of
`SyntaxTree`, or an exception; those that use each other go through `Parse`, because
SANY has no mutual recursion without it. Each state step is a token (`Tokenize`) or a
statement of the script (`AddStatement`); `EndOfTokens` ends the script, and `Overrun`
is the lookahead that reads past the tokens.

Reference. `Grammar` says how a tree is written: its words, with the parentheses
that the precedence of C++ asks for. No two trees are written with the same words.
So `ReadsWhatIsWritten` compares the tree that was read with the tree that the text
is written from, by writing it: operators bind, `else` attaches, declarations are
told from expressions and `<` from the start of template arguments as in C++,
whatever lies beyond. `AcceptsOnlyTheClosed`: an accepted text has every
delimiter closed by its own kind. `SourcesNest` is about the walk over the tree
(`AstVisitor::visit` and `recurse`): the nodes and the tokens that a visitor is handed
for a node lie in the text of the node, which breakpoints and diagnostics rely on, and
a walk from a statement down is handed no token twice, but for the tokens of which the
tree has two parts (`>>` at the end of two template argument lists, and a user-defined
literal, which is its number and its name).

The invalid token, 0, may come several times: `ScopedIdentifier` does not keep its `::`,
and the visitor is handed an invalid token for each.

Bounds. `MCParsing` has every pair of binary operators in both nestings, every kind
of literal, expression, type, initializer, declaration, member and statement, those
that contain others with each kind of part that is read differently there, each
written close (spaces only where tokens would collide), spaced and with comments
between all words; and every text with one delimiter or semicolon missing or a
closing delimiter exchanged. A parser has no state but its position, so that deeper
trees are read by the same steps. Two ids beyond the end: a semicolon, which is what
makes an unfinished statement look finished, and one that means nothing.

Not modelled: the attributes that the parser reads and drops, positions of errors, and `virtual` destructors and `explicit` casts, function types
with template arguments as types of parameters, conditionals nested without
parentheses and commas inside of one (see Defects and "Other divergences").

## Scopes

State. `heap` holds the nodes (`ScopeImpl` and its classes): what kind of scope each
is, of what, its aliases, injected names, imports and the cached lists, and, for the
code's pointer to the parent, which never changes, the whole chain of nodes from it to the
outermost; a node that nothing refers to is free. `frames` are the scopes
`ScriptCompiler::mCurrentScope` has been, `tasks` and `incomplete` the functions to
compile or to look at again, each with its scope, `body` the function that is being
compiled, with the scopes of its blocks. `declared` and `spaces` are the classes,
functions and namespaces there are. `phase` is that of the compilation.

Actions. `DeclareClass` with `OpenClass`, `AccessSpecifier`, `OpenNamespace`,
`Close`, `DeclareFunction`, `UsingDirective`, `UsingDeclaration`, `TypeAlias`,
`NamespaceAlias` and `Import` are the declarations of a script, at any level that
allows them; `EndOfDeclarations` and `Reprocess` look at unfinished functions again; then
`BeginBody`, `EnterBlock`, `LeaveBlock`, `Mention`, the directives in a body, and
`EndBody` compile each function. Each does to the nodes what the code does: a handle
to a node is copied, a node that anything else refers to is cloned before it is
changed, the lists are read and cached on lookup and invalidated by some
declarations, a namespace opened again is merged with what was imported.

Properties. `SeesEarlierDeclarations`: what was declared before a function is found
from its body, and during the first pass whatever is declared is found from the current scope. `NamespacesImportAlike`: within a namespace, the namespaces of the same
name of imported modules count. `DirectivesStayPut`, an action property: no step
changes what the directives of a scope that is kept somewhere else mean.

Bounds. A script of one class, one function and one nested namespace of the name of
a module's, one alias of each kind, four declarations, two statements in bodies and
one block: a directive before and after a declaration that keeps the scope,
with a namespace opened twice, fit. 17 nodes are enough for that: `HasRoom` asks for the
copies of a chain and one more before each step that may need them, and no step of
the run waits for it. An alias has
another name than any namespace (an alias to itself is looked up without end).

Not modelled: enumerators, typedefs, templates and operators as the content of a
scope (listed and cached the same way), argument-dependent lookup (there is none) and
access checks.

### Proofs

`ScopesProofs` proves `DirectivesStayPut` for any declarations, modules and bodies, any
nesting and any finite set of nodes. The inductive invariant `ScopeInv` has three parts.
`QueueInv` is the types of the queues. `HeapInv`: every node has a chain whose elements
are there, begin with the node and end in a namespace, and whose tails are the chains of its
elements (`HasTails`, what a pointer to the parent gives for nothing); every handle refers to a
node; a body has more scopes than open blocks. `FunctionInv`: a function is in one
queue, once, so that one scope is kept for it.

What a step may do to the nodes comes in three kinds. A lookup or an invalidation
changes caches only (`Reread`). A new scope and a directive keep each node that was there
(`Grows`), a directive by copying a whole chain (`ClonedGood`, `MergeDirects`), except for
the one it may write in place (`WritableWritten`). Then what no handle reaches is freed
(`CollectedGood`). `HeapStep` puts these together for all actions. The case of the node
written in place is the one that matters: `Unshared` counts, as `use_count` does, the
handles of the declarations, queues, body and nodes, and shows that a count of one leaves
no place for a scope that is kept to run through the node.

`LookupProofs` proves `SeesEarlierDeclarations`, for the same instances. That a cache is
correct is not an invariant: those of scopes that were cloned, and those of the importers of a
namespace that grows, go stale. `LookupInv`, which joins `ScopeInv`, says what is true of them.
`CacheInv`: a cache holds nothing that is not there (`Sound`), so that filling one loses
nothing. `WaitingInv`: the scope of each function in the queues finds the names noted with it
(`Sees`). `BodyInv`: so does the body, behind the blocks that will be left. `DepthInv`: during
the first pass the scopes of the open declarations are nested as they are
(`Stacked`), and a cache of theirs holds all there is in the node's own namespace and in
those that are not the script's (`Complete`). It is the depth that makes
this inductive: what is declared is in the namespace of the current scope only, whose cache
is invalidated, and an open scope of another depth has another one (`DeclaredStacked`). A
step that looks up, invalidates, clones or imports leaves a node that finds no less
(`Better`, `BetterFinds`), and the rest of `ScopesProofs` says which node replaces which.
The part about the current scope is about the first pass because it is false in the second
(see the divergences).

`LookupProofs` also proves `NamespacesImportAlike`, of the namespaces that a script opens at
its top level (`OpenNamespace` opens no others). `AlikeInv` joins `Alike` to
`ScopeInv`: the scope of a namespace is that of the script, or has it as its parent and
imports what the property asks for (`Inside`); and what is imported is a path of names that
occur (`Words`), so that two paths that end alike begin alike (`LastAppended`). Three steps
could break it. A new namespace gets, ready made, what `NamespaceScope::child_scope` merges:
that this is all there is in the imports of its parent is a lemma about the numbering by rank
that the order of a merge is written with (`RanksTaken`, `NestedHolds`); and its own name, new
among the namespaces, is none that an import could have asked others for (`AlikeNamed`).
`Scope::merge` imports into a copy of the chain, each node its counterpart of the module,
whatever the node imported before (`AlikeMerged`). A directive imports into the innermost
namespace of the copy only, which has no other inside it (`AlikeSpace`). All other steps keep the parents and the imports of namespaces (`Keeps`). The
assumption on `Modules`, that a module's path is a sequence, is for those lemmas.

## ConversionRanks, Conversions, BuiltinOperators, Selection, Calls

`ConversionRanks` and `Conversions` have no state: what conversions and initializations
are, their ranks and which of two, or of two candidates, is better; the standard
conversions, those that classes define by constructors and casts, initialization of a
parameter from an expression or a braced list, and the expression that
`ConversionProcessor` and `ValueConstructor` compile.
`BuiltinOperators` has the prototypes of all operators that an engine registers for the
fundamental types, in their order; a script may add others to them.
`Calls` compiles one request: `Resolve` looks the name up, in the class, its bases
or the namespaces, and finds the functions, in an order that depends on that of their
declarations (`declared`); each `Consider` takes one of them and, if it can be called,
processes it as a candidate; `Conclude` compiles the call with what was
selected: access, deletion, arguments, defaults. `CompileDirectly` has the expressions
without overload resolution: conversions, calls of function variables, conditionals,
array expressions. `Selection` is the part of it that is proved: two variables,
`selected` and `ambiguous`, and one action, `Process`.

Properties. `ArgumentsFit`: in the compiled call, also in the calls that convert its
arguments, each parameter by reference gets an object of its type or of a derived
class, and no constant that it may change; each by value gets a value of exactly its
type that no one else has; the elements of lists, arrays and conditionals likewise.
No request of the run gives a parameter by value what a cast returns by reference: its
copy is dropped (`conversions.cpp:691`), and the property is false of it (Defects).
`NeverBeaten`: one of the viable candidates is selected, and where better is transitive on
those considered (`Ordered`) none is better. It is not always: `StandardConversion::operator<`
puts references before numbers, numbers before what becomes constant, and bases by their
distance, so that with casts to a class and to a number three overloads can each be better
than another; the one selected then depends on their order (`Unbeaten`, Defects).
`BestIsResolved`: a candidate better than all others is called, in any case. The
converse does not hold, and is not stated: with four candidates the last
may displace the one remembered as ambiguous, so that an ambiguous call may be accepted.

Bounds. Eleven classes: a chain of three, one that cannot be copied, ones with converting,
explicit, private and list constructors, casts by value and by reference, and an
`InitializerList`; arguments of every fundamental type, variables and constants, lists,
enumerations. The overloads are all the arrangements of three and four functions over
the chain of classes, and of one to three out of those that take numbers, classes by
value and by reference, and lists: pairs in which conversions of each rank compete,
and four that come in every order. Two of the classes have casts that return references,
and overloads of their own (`v`, `x`): those for `x` are the three that go in a circle.

### Proofs

`SelectionProofs` proves `NeverBeaten` and `BestIsResolved` for any set of
candidates and any order of them, from `BetterIsStrict` (of two candidates at most one is
better) and `NoCandidateIsNone`. The inductive invariant is the two properties, the type
invariant and `OneCall`: the candidates that were considered are of one call. A best
candidate takes the place of whatever was selected and of what was ambiguous, and
everything that comes later is worse than it: that needs no order among the others. That
nothing beats the selected one does, hence `Ordered` in `NeverBeaten`.

What is assumed of the comparison is proved of the code's, in the same module:
`ComparisonIsStrict` is `BetterIsStrict` of `BetterRanked`, for any ranks and any
initializations, lists included; TLC evaluates the assumption too, over the candidate sets
of the run. `ComparisonIsTransitive` says when `Ordered` holds: for calls without lists, if
of the conversions of one argument those of one rank all lead to base classes, or none does
(`Alike`). They follow from the same two facts of `StdLess`. That `Rank` and `InitRank` are
what the candidates are ranked by is not proved: they are recursive, and any ranks will do.

Not modelled: explicit casts, diagnostics, `{}` for a parameter that is a list,
constructors with default arguments or initialised by a list whose first element is a list,
virtual calls (`Classes` has them), static and non-static overloads of one name, and
function templates as candidates (`Templates` has the choice among their instances as
nondeterministic).

## TemplateMatching, Templates

`TemplateMatching` has no state: a type against a pattern, the deduction of
parameters, their substitution, which of two patterns is more specialized, and the
selection of a specialization. `Templates` is the module of one class template and
several function templates over sessions: scripts declare specializations and
function templates, use instances and call functions; a use instantiates, and the
content of what is instantiated uses and calls again, the C++ recursion in `todo`. A
name that is unknown throws (`thrown`): the instance that was being read is left
behind, and at the end of the session what it generated is cleared.

Properties. `PatternsFit`: a partial specialization that is used, with what was
deduced, stands for the arguments; no specialization it was compared with is better;
types deduced for a call are those of the arguments; a full specialization belongs
to a template that has its types. `OneClassPerArguments`: for the same arguments there is
one class, also when its content uses it and after a failed session.

Bounds. The specializations are those of the tests and others with const, references,
function types and self-use; four declarations and uses of which two are uses, in two
sessions: an instance that fails, is cleared and is asked for again fits, and
so do two specializations that both match, in either order.

Not modelled: `&&`, parameter packs, names of variables as arguments, kinds of
arguments that do not fit their parameters, literals as patterns of bools, base
classes that name parameters, recursive function templates, native backends,
instances requested outside a session, template names in full specializations of
functions. Which function template a call picks is nondeterministic among those that
match.

## Classes, Objects

`Classes` declares the classes of a script: `classes` with their bases, data members,
tables of virtual members and the abstract flag; `functions`;
`mIncompleteFunctionDeclarations` and `mProcessingQueue`, the functions and data members that
are put aside until all is read. `Objects` runs what the compilers of special members
generate for them: `frames` are the calls with the statements left to run, `heap` the
values ever made, `variables` those of the script. A script declares, copies, moves
and assigns variables, calls their functions and leaves their scopes; each step is one
statement of a generated or written body. An object is a vector of members without a
mark of whose they are: what is pushed and popped, and in which order, is the
constructors' and destructors' agreement.

Properties. `VtablesAreRight`: whatever the order of declarations, the slot of a
virtual function holds the overrider nearest to the object's class, and a class
is abstract exactly when one of those is pure. `MembersInPlace`: an object in a variable has
the members of its bases, then its own, each complete, shared with no other object.
`BodiesSeeWholeObjects`: the body of a constructor or destructor sees the members of
its class and its bases and no others, and a function called from there is not pure.
`LifetimesAreRight`: each object is destroyed once, by its own class. `CopiesAreEqual`:
a copy, and the target of an assignment, equals its source in the members of members.

Bounds. All the hierarchies of three classes: a chain, a base with two derived, a
class as a member of another, each with user, delegating and defaulted constructors,
explicit initializers or not, members that are ints or objects, virtual, pure,
overriding, hiding (with another result) and late functions; a fourth class for what is declared late. Three
operations of the script: a variable, a copy of it, and what then changes or
destroys one of them.

Not modelled: functions of one name with other parameters in a hierarchy (Defects; with
another result they are), static data members, reference members, written copy
constructors and assignments, invalid initializers, exceptions in constructors, `return;`
in constructors and destructors (see `hazards`), calls in destructors and in constructors
without arguments, pure functions called from a constructor, native classes, access and
friends.

## Closures

State. `stack` is the local variables, `scopes` where the open blocks begin, `memory`
the values ever made (integers, arrays with their buffers, objects, closures with
their captures): a variable, an element or a capture is a handle of a value, and
several may be handles of one. `limpl` is the closure that a lambda expression makes,
with the captures it has and those it lacks. `failed` is the error that ended the
compilation.

Actions. One per statement of a function without jumps: declarations with a
literal, a copy, `auto`, an element, an array expression, a lambda expression;
assignment, `resize`, a change of a value, a call of a closure, entering and
leaving a block. What a lambda expression captures is computed as
`LambdaCompiler::preprocess` does, and a name in its body is looked up as
`FunctionScope`, `LambdaScope` and the enclosing scopes do. The interpreter then
evaluates the captures in their order, one step each (`EvaluateCapture`), and copies
the closure into its variable (`MakeClosure`).

Properties. `CopiesAreIndependent`: what the language copies equals its source when it is
made and shares no value with anything else, whatever aliases there are.
`NamesDenoteCaptures`: a name in the body of a closure denotes the variable that its
list of captures says, or the closure's own copy. `VisibleAreAlive`: no variable and no
capture that can be used denotes a value that the end of a block destroyed.

Bounds. Two integers, two arrays and a closure under five statements: a variable that
hides another, a closure that captures both in a block, and a call after the block.
Seven lists of captures: each default alone and with an exception, explicit and init-captures,
`this`, and two defaults at once. A run takes five
statements because a capture that matters needs two declarations, the closure, a change and a call.

### Proofs

`ClosuresProofs` proves `VisibleAreAlive` for any names, lambda expressions and number
of statements, from `NamesAreDistinct` (the names say what variables hold, and `this`
is none of them) and `TextsHaveNames`. That nothing visible is dead is not inductive:
the end of a block destroys what its variables own, and the property does not say that
nothing else denotes it. `IsSafe` does: what denotes the value that a variable owns is
above that variable on the stack, or is a capture of a closure that is; elements of
arrays belong to no variable; what `limpl` has captured is alive. Two more facts make
that stay so. Arrays do not share buffers and elements do not share values (`IsMemory`),
or a variable could own an element. And a name holds one kind of value (`HoldsKind`), so
that what is copied is an integer, an array or a closure. `Kept` says what all statements
that declare nothing do to the values there were, `Fresh` what a copy or a new value
adds; the copies of integers, arrays and closures (`CopyFresh`), and the captures that
`Preprocess` leaves to evaluate (`PreprocessLeft`), have lemmas of their own. `Leave` is
the step where the order on the stack is used.
`CopiesAreIndependent` and `NamesDenoteCaptures` are model-checked: they speak of
contents, and of the text of the lambda expression.

Not modelled: bodies with parameters or locals run (parameters are not found, see
Defects), elements other than integers, subscripts out of range, objects
captured by value, explicit `[this]`, nested lambda expressions, calls of captured
closures, copies of closures by the host, init-captures of variables, globals of
the script, returned closures, lambda expressions in default arguments.

## Handles

State. `at` is what each handle, a C++ `Value`, points to, by the place where the handle
is: `Value::Void`, a variable of the program, a call (`Temporaries`), or a slot of a
vector, of an object's members or of a `Locals`. `ref`, `kind` and `size` are the members
of `IValue`: its count, its type, its members; a value that was deleted may be made
again, as memory is. `vector` says which vector a `Locals` has: a move exchanges them.
`todo` is what the statement has still to do, in the order of the code; it is what
lets a destructor run in the middle of an assignment. `destroyed` is history.

Actions. A statement is one of those a program can write: make a value, copy, assign, drop
a handle; `Engine::destroy`; `ThisObject::push` and `pop`; the members of `Locals` and
`LocalsProxy`; `Function::call` and `Engine::construct`. Each begins with its tasks, and an
`Exec` action does the first of them: `Point` is what every change of a handle does, with
the deletion of the old value and the release of its members; `ExecDestroy` and
`ExecDestructor` are `Engine::destroy` with the destructor of a script's class, which destroys
each member (`EngineImpl::destroy`), or of a native one, which takes them; `ExecSet` is
`LocalsProxy::operator=`; `ExecConvert` is a conversion, which may throw, and
`Unwind` what is left out then. The program is one that follows the rules: it gives up
what it destroys, and uses nothing that was destroyed.

Properties. `LivesWhileHeld`: a value is deleted exactly when no handle points to it, in the
middle of a statement too. `NoHandleIsLost`: between statements every handle is
in a variable, a `Locals` or an object that is there. `CountsAreHandles`, proved: a count is
the number of handles. `DestroyedOnce` does not hold (Defects).

Bounds. Three values, two variables, two `Locals`, vectors of two, three handles in calls and
five statements: a value in two `Locals` and in an object, an object in an object, a call
whose second conversion throws, and the destruction of either. The values and the
variables are interchangeable, so that symmetry is sound.

Not modelled: values that are references, for which `Engine::destroy` does nothing; the
values of numbers and strings; the handles that a call makes of its arguments, which go when it
returns; arrays, lists and closures (`Closures`). A call of `Value::engine` on what has no
engine any more does nothing here.

### Proofs

`HandlesProofs` proves the type invariant, `CountsAreHandles`, `LivesWhileHeld` and
`NoHandleIsLost`, for any values, variables and `Locals`, any size of a vector and any number
of statements, from `ConstantsAssumption`, which says that the sets are finite and the
places distinct. The first two are nearly inductive: with the counts right, the handle
that is released last is the last. `NoHandleIsLost` needs to know of each handle in a call, or in a slot that is gone, that
the statement will release it. `Dropped(p, n)` says that a task after the `n`th
does, and `Kept` that a handle is where the program can reach it or is dropped. What makes
`Kept` inductive is `TodoInv`, about each task that is left: what it makes is in a
variable, or dropped by a later task (`MakesSoundly`); what it assigns to or converts is a
variable, or a slot of a `Locals` that no task before it shortens (`AssignsSoundly`,
`ConvertsSoundly`); an object gets a member while it is there (`PushesSoundly`).

## Not modelled

- Enumerations (a map filled once), attributes, typedefs and diagnostics
  (records and formatting): nothing they do depends on more than one step.
- What the native callbacks of the built-in operators compute, and those of strings and of
  the iterators of lists: each is a C++ expression.
- The builders of `include/script`: they fill the records that `Calls` and
  `TypeSystem` start from.
- The counting of the references to classes, functions and scripts, which is that of
  `std::shared_ptr`; `Scopes` has the one place where the count decides something.
- Unbounded recursions: circular imports, namespace aliases to themselves, recursive
  function templates.

## Defects

Found while modelling, and confirmed where possible by running the program that the
sources build. `retry` is a run; the passing runs leave the others out, and say so above. A defect with a property is reproduced by that property in a
configuration of the named module, changed as said; TLC finds the violation.

| defect | where | shown by |
|---|---|---|
| a failed reprocessing is never reset: later scripts with forward references do not compile | `scriptcompiler.cpp:174` | run `retry` |
| a lambda expression with a parameter does not compile, one with two reads its closure | `lambdacompiler.cpp:197` | `MCClosures`, `Arrays = {"a"}`, `Texts <- WithParameters`, `MaxStatements = 3`, `ParametersAreArguments` |
| a local assigned to itself is destroyed, kept, and destroyed again with its `Locals` | `locals.cpp:174` | `MCHandles`, `DestroyedOnce` |
| a list spans the elements of the lists that its elements need | `interpreter.cpp:483` | `MCInterpreter`, `NestedLists = TRUE`, `ListHoldsItsElements` |
| in a destructor every local is one position too low | `functioncompiler.cpp:326` | `MCStatements`, `Kinds = {"destructor"}`, `Bodies <- MCDestructor`, `NamesAreInPlace` |
| the body of a loop or branch without braces has no scope: `break` climbs past its `while` | `functioncompiler.cpp:423` | `MCStatements`, `Bodies <- MCUnbraced`, `Kinds = {"function"}`, `BreakDestroysInitScope` |
| rolling back a closure type dereferences null; a class in a class of the transaction is destroyed twice | `typesystem.cpp:241`, `:249` | `MCTypeSystem`, `RollbackIsSafe` |
| a rollback removes older function types: one that an inner transaction made and undid is cleared twice, the second time index 0 | `typesystem.cpp:249` | `MCTypeSystem`, `RollbackSparesOlder` |
| a module counts as loaded though its script failed or was destroyed | `module.cpp:259` | `MCCompileSession`, `LoadedIsThere` |
| a function is put aside with a scope whose cached list of classes a later directive copied: the class declared after it is never found | `scope.cpp:446` | `MCScopes`, `SecondPassResolves` |
| a by-value parameter gets no copy of what a cast returns by reference: the function changes the caller's object | `conversions.cpp:691` | `MCCalls`, `Requests <- AliasingRequests`, `ArgumentsFit` |
| with casts to a class and to a number, which of three overloads is called depends on their order | `conversions.cpp:605` | `MCCalls`, `Unbeaten` |
| a list in a list for elements of no class is compiled as a list | `valueconstructor.cpp:206` | `MCCalls`, `Requests <- NestedRequests`, `NoListIsLeft` |
| patterns are read with the names of the primary template: a specialization with another name is never used, and a less specialized one is | `templatespecialization.cpp:216` | `MCTemplates`, `Sources <- TestSources`, `BestIsUsed` |
| a base's late virtual function gets no slot in a derived class that has a table already | `class.cpp:498` | `MCObjects`, `Sources <- MCLateSources`, `MaxOperations = 1`, `CallsTheOverrider` |
| a function overrides a virtual one of its name and result whatever its parameters; a call of that one lacks or mistakes arguments | `class.cpp:452` | `MCObjects`, `Sources <- MCOverloadedSources`, `MaxOperations = 1`, `CallsTheOverrider` |
| a default capture of a hidden variable wins over an explicit one: `[=, &x]`, `[=, x = 5]` | `lambdacompiler.cpp:132` | `MCClosures`, `ExplicitCapturesWin` |
| a destructor that invokes a function while an exception unwinds pops a frame twice | `interpreter.cpp:57` | reading only |

Confirmed with the program and not in a model: an uncaptured local of the enclosing
function in a body reads a wrong slot or throws; calling a captured closure fails an
assertion (`expressioncompiler.cpp:359`); `[this]` and a `[=]` nested in a `[=]` crash;
`Engine::copy` of a closure shares what it captured by value, and objects captured by
value are never destroyed, nor elements by `~ArrayImpl`; an array subscript is not checked, and `resize`
discards the content; a syntax error without a position
(25 places of `parser.cpp`, so `int a = ;` and a conditional nested without parentheses)
is reported at the largest `size_t`, and `SourceFile::map` (`sourcefile.cpp:87`) walks
back from there and crashes.

## Other divergences

Read in the code, for whoever changes it.

- Parsing: `a ? b, c : d` is refused and `a ? b : c : d` accepted; `018` is read as `01` and
  `8`; trailing commas are accepted; `readDecimal` may end without a value
  (`lexer.cpp:441`); `for(int i; …)` fails an assertion (`parser.cpp:1802`);
  `static` and `virtual` of operator overloads are dropped (`parser.cpp:1527`), as are
  attributes of destructors and casts.
- Scopes: the caches of scopes that were cloned or captured are never invalidated, nor
  is an importer's when the imported namespace grows, so that a function declared in the
  second pass is not found from a scope which an import has made since and which has listed
  its functions; a `using` in a namespace or class
  body has no effect; a using directive in a block lasts until the function ends;
  aliases of namespaces are not found by a simple lookup; a nested class's name is looked
  up as its enclosing class (`ClassScope::lookup`).
- Resolution: comparing `{}` with a list throws, and the rank of an empty list is
  undefined; `isNarrowing` ignores promotions; `Conversion::operator==` compares
  `other.function` with itself; `get_operators(Class&)` shadows its parameter; default
  initialization of a const reference is viable and then fails; deleted constructors
  and operators are called; `&&` and `||` evaluate both operands.
- Values: a value that is twice in one `Locals` is not destroyed with it (`locals.cpp:156`);
  `auto y = x;` makes `y` a reference, and `auto e = a[0]` names the element;
  `--` of the iterator of a list increments; `CommaExpression` keeps its
  first operand twice (`program/expression.cpp:283`).
