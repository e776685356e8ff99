---------------------------- MODULE CompileSession ----------------------------
(***************************************************************************)
(* A compilation: Compiler, ScriptCompiler, ImportProcessor, the modules   *)
(* that are scripts (ScriptModule) and the table of scripts of the engine. *)
(* The queues belong to the one ScriptCompiler, which outlives the         *)
(* sessions.  `todo' is the C++ recursion, innermost call first; `thrown'  *)
(* is the exception in flight.                                             *)
(***************************************************************************)
EXTENDS Integers, Sequences, SequencesExt, FiniteSets

CONSTANTS
  Scripts,
  Modules,      \* the scripts that are modules
  Programs,     \* what the scripts may contain
  Made,         \* the scripts there may be at the start, in the order they were made
  MaxCompiles,  \* bound: the calls of Script::compile and Module::load
  Null

ASSUME ScriptsAssumption ==
  /\ Modules \subseteq Scripts /\ Null \notin Scripts
  /\ MaxCompiles \in Nat
  /\ Made \subseteq Seq(Scripts)
  /\ \A made \in Made : IsInjective(made) /\ Modules \subseteq ToSet(made)

VARIABLES
  source,          \* the declarations of each script
  id, scripts,     \* ids, 0 before the script is made; the vector of the engine
  ready, loaded,   \* Script::isReady, Module::isLoaded
  state,           \* of the session
  top,             \* the script that is being compiled
  generated,       \* generated.scripts
  error,
  incomplete,      \* mIncompleteFunctionDeclarations
  reprocessing,    \* mReprocessingIncompleteFunctions
  collected,       \* mProcessingQueue
  tasks,           \* mCompilationTasks
  uninitialized,   \* uninitialized_variables_
  todo, thrown,
  done,            \* history: what was compiled or initialized in the session
  alive,           \* history: the scripts whose declarations exist
  destroyed,       \* history: the modules that were destroyed
  result,          \* of the last call: compiled, failed, or an exception
  calls,           \* history: how many there were
  undefined        \* has an entry past the end of the vector been written?

queues == <<incomplete, reprocessing, collected, tasks, uninitialized>>
session == <<state, top, generated, error>>
engine == <<id, scripts, ready, loaded, alive, destroyed>>
history == <<done, result, calls, undefined>>
vars == <<source, engine, session, queues, todo, thrown, history>>

-----------------------------------------------------------------------------
(* Declarations, and the calls in progress *)

Kinds == {"function",    \* compiles
          "late",        \* likewise, and names a type that is declared after it
          "unknown",     \* a function that names a type that is nowhere declared
          "badInstance", \* likewise: an instance of a class template whose base is unknown
          "badBody",     \* a function whose body does not compile
          "badTemplate", \* its body instantiates a function template that fails
          "importing",   \* a function whose body imports modules
          "variable",    \* static, of a class or a namespace, to be initialized
          "badVariable", \* likewise, and its declaration or its value is wrong
          "import",
          "invalid",     \* any other declaration that does not compile
          "syntaxError"} \* the whole script is not parsed

Declarations == [is : Kinds, modules : Seq(Modules)]

ASSUME ProgramsAssumption == Programs \subseteq [Scripts -> Seq(Declarations)]

\* A module must not be loaded while it is loading (Module::load): no module imports
\* itself, directly or through others.
Needs(p) ==
  {e \in Modules \X Modules :
     \E n \in DOMAIN p[e[1]] : p[e[1]][n].is = "import" /\ e[2] \in ToSet(p[e[1]][n].modules)}

StrictOrders ==
  {order \in SUBSET (Modules \X Modules) :
     /\ \A x \in Modules : <<x, x>> \notin order
     /\ \A x, y, z \in Modules : <<x, y>> \in order /\ <<y, z>> \in order => <<x, z>> \in order}

ASSUME AcyclicAssumption == \A p \in Programs : \E order \in StrictOrders : Needs(p) \subseteq order

\* A declaration of a script, or the program of a script (registerRootFunction).
Task(s, n) == [script |-> s, at |-> n]
Is(t) == IF t.at = 0 THEN "program" ELSE source[t.script][t.at].is
Parsed(s) == \A n \in DOMAIN source[s] : source[s][n].is # "syntaxError"

\* The groups of modules that the body of a function imports.  The script-level
\* import directives are also statements of the program.
Imports(t) ==
  IF t.at = 0 THEN [n \in DOMAIN source[t.script] |->
                      IF source[t.script][n].is = "import"
                      THEN source[t.script][n].modules ELSE <<>>]
  ELSE IF Is(t) = "importing" THEN <<source[t.script][t.at].modules>>
  ELSE <<>>

Active == state # "Finished"
Idle == todo = <<>> /\ thrown = "none" /\ ~undefined
Doing(call) == todo # <<>> /\ thrown = "none" /\ ~undefined /\ Head(todo).call = call
Call(name) == [call |-> name]
CallOn(name, x) == [call |-> name, on |-> x]
On == Head(todo).on
Then(list) == todo' = list \o Tail(todo)
Throw(what) == thrown' = what /\ todo' = Tail(todo)

\* Ids count from one here.
Place(s) == CHOOSE n \in DOMAIN scripts : scripts[n] = s

Init ==
  /\ source \in Programs
  /\ scripts \in Made
  /\ id = [s \in Scripts |-> IF s \in ToSet(scripts) THEN Place(s) ELSE 0]
  /\ ready = {} /\ loaded = {} /\ alive = ToSet(scripts)
  /\ destroyed = {}
  /\ state = "Finished" /\ top = Null /\ generated = <<>> /\ error = FALSE
  /\ incomplete = <<>> /\ reprocessing = FALSE /\ collected = <<>> /\ tasks = <<>>
  /\ uninitialized = <<>>
  /\ todo = <<>> /\ thrown = "none"
  /\ done = {} /\ result = "none" /\ calls = 0 /\ undefined = FALSE

-----------------------------------------------------------------------------
(* What the program calls *)

NextId == Len(scripts) + 1

\* Engine::newScript
NewScript(s) ==
  /\ Idle /\ id[s] = 0
  /\ scripts' = Append(scripts, s)
  /\ id' = [id EXCEPT ![s] = NextId]
  /\ alive' = alive \cup {s}
  /\ UNCHANGED <<source, ready, loaded, destroyed, session, queues, todo, thrown, history>>

\* Script::compile, also of a script that was compiled before
Compile(s) ==
  /\ Idle /\ calls < MaxCompiles /\ id[s] # 0 /\ s \notin Modules
  /\ todo' = <<CallOn("compile", s)>>
  /\ result' = "none" /\ calls' = calls + 1
  /\ UNCHANGED <<source, engine, session, queues, thrown, done, undefined>>

\* Module::load
LoadModule(m) ==
  /\ Idle /\ calls < MaxCompiles /\ m \notin loaded
  /\ todo' = <<CallOn("load", m)>>
  /\ result' = "none" /\ calls' = calls + 1
  /\ UNCHANGED <<source, engine, session, queues, thrown, done, undefined>>

-----------------------------------------------------------------------------
(* Compiler::compile *)

StartSession ==
  /\ Doing("compile")
  /\ state' = "ProcessingDeclarations" /\ top' = On /\ generated' = <<>> /\ error' = FALSE
  /\ Then(<<CallOn("add", On), Call("finalize"), CallOn("endCompile", On)>>)
  /\ done' = {}
  /\ UNCHANGED <<source, engine, queues, thrown, result, calls, undefined>>

\* A defect: what was imported stays.
EndCompileWithoutClear ==
  /\ Doing("endCompile")
  /\ Then(IF error THEN <<CallOn("destroy", On)>> ELSE <<>>)
  /\ state' = IF error THEN state ELSE "Finished"
  /\ result' = IF error THEN result ELSE "compiled"
  /\ UNCHANGED <<source, engine, top, generated, error, queues, thrown, done, calls, undefined>>

\* The end of the function, or its handlers: any other exception leaves it, past
\* the destructor of the SessionManager.
EndCompile ==
  /\ Doing("endCompile")
  /\ IF error
     THEN /\ Then(<<CallOn("clear", generated), CallOn("destroy", On)>>)
          /\ UNCHANGED <<state, result>>
     ELSE /\ Then(<<>>) /\ state' = "Finished" /\ result' = "compiled"
  /\ UNCHANGED <<source, engine, top, generated, error, queues, thrown, done, calls, undefined>>

\* CompileSession::clear destroys the scripts that were imported.
Clear ==
  /\ Doing("clear")
  /\ IF On = <<>> THEN Then(<<>>)
     ELSE Then(<<CallOn("destroyScript", Head(On)), CallOn("clear", Tail(On))>>)
  /\ UNCHANGED <<source, engine, session, queues, thrown, history>>

\* EngineImpl::destroy(Script): by its id, and the vector shrinks.
Trimmed(list) ==
  {SubSeq(list, 1, n) : n \in {m \in 0 .. Len(list) :
     /\ m > 0 => list[m] # Null
     /\ \A i \in m + 1 .. Len(list) : list[i] = Null}}

DestroyScript ==
  /\ Doing("destroyScript")
  /\ alive' = alive \ {On}
  /\ destroyed' = destroyed \cup {On}
  /\ IF id[On] \in DOMAIN scripts
     THEN /\ scripts' \in Trimmed([scripts EXCEPT ![id[On]] = Null])
          /\ Then(<<>>) /\ UNCHANGED undefined
     ELSE undefined' = TRUE /\ UNCHANGED <<scripts, todo>>
  /\ UNCHANGED <<source, id, ready, loaded, session, queues, thrown, done, result, calls>>

\* The namespace of the script is destroyed; the script remains.
DestroyNamespace ==
  /\ Doing("destroy")
  /\ alive' = alive \ {On} /\ state' = "Finished" /\ result' = "failed"
  /\ Then(<<>>)
  /\ UNCHANGED <<source, id, scripts, ready, loaded, destroyed, top, generated, error, queues,
                 thrown, done, calls, undefined>>

-----------------------------------------------------------------------------
(* ScriptCompiler::add: the declarations of a script, in their order *)

From(t) ==
  IF t.at < Len(source[t.script]) THEN <<CallOn("declare", Task(t.script, t.at + 1))>> ELSE <<>>

\* A syntax error is logged, and add returns.
Add ==
  /\ Doing("add")
  /\ IF Parsed(On)
     THEN /\ ready' = ready \cup {On} /\ alive' = alive \cup {On}
          /\ tasks' = Append(tasks, Task(On, 0))
          /\ Then(From(Task(On, 0))) /\ UNCHANGED error
     ELSE /\ error' = TRUE /\ Then(<<>>) /\ UNCHANGED <<ready, alive, tasks>>
  /\ UNCHANGED <<source, id, scripts, loaded, destroyed, state, top, generated, incomplete,
                 reprocessing, collected, uninitialized, thrown, history>>

\* A type is looked up.  A class template that does not compile clears the session
\* (Compiler::instantiate), and is nothing but an unknown name to the caller
\* (TemplateArgumentProcessor::process).
Resolve(t) ==
  (IF Is(t) = "badInstance" THEN <<CallOn("clear", generated)>> ELSE <<>>)
    \o <<CallOn("unresolved", t)>>

\* A defect: a function is put aside whenever a name is unknown.
MayAlwaysCome == TRUE

\* An unknown name of a type may be that of a type to come, but not when
\* the function is reprocessed (processFunctionDeclaration).
MayComeLater == ~reprocessing

Unresolved ==
  /\ Doing("unresolved")
  /\ IF MayComeLater
     THEN incomplete' = Append(incomplete, On) /\ Then(<<>>) /\ UNCHANGED thrown
     ELSE Throw("CompilationFailure") /\ UNCHANGED incomplete
  /\ UNCHANGED <<source, engine, session, reprocessing, collected, tasks, uninitialized,
                 history>>

Functions == {"function", "badBody", "badTemplate", "importing"}

Declare ==
  /\ Doing("declare")
  /\ \/ /\ Is(On) \in Functions
        /\ tasks' = Append(tasks, On)
        /\ Then(From(On))
        /\ UNCHANGED <<incomplete, collected, thrown>>
     \/ /\ Is(On) \in {"late", "unknown", "badInstance"}
        /\ Then(Resolve(On) \o From(On))
        /\ UNCHANGED <<tasks, incomplete, collected, thrown>>
     \/ /\ Is(On) \in {"variable", "badVariable"}
        /\ collected' = Append(collected, On)
        /\ Then(From(On))
        /\ UNCHANGED <<tasks, incomplete, thrown>>
     \/ /\ Is(On) = "import"
        /\ Then(<<CallOn("import", source[On.script][On.at].modules)>> \o From(On))
        /\ UNCHANGED <<tasks, incomplete, collected, thrown>>
     \/ /\ Is(On) = "invalid"
        /\ Throw("CompilationFailure")
        /\ UNCHANGED <<tasks, incomplete, collected>>
  /\ UNCHANGED <<source, engine, session, reprocessing, uninitialized, history>>

-----------------------------------------------------------------------------
(* ImportProcessor and the modules *)

\* A defect: a module that is loaded joins the session again.
WantedAlways(m) == TRUE

Wanted(m) == m \notin loaded

\* A module, or each module of a group.
Import ==
  /\ Doing("import")
  /\ Then(IF On = <<>> THEN <<>>
          ELSE (IF Wanted(Head(On)) THEN <<CallOn("load", Head(On))>> ELSE <<>>)
                 \o <<CallOn("import", Tail(On))>>)
  /\ UNCHANGED <<source, engine, session, queues, thrown, history>>

\* ScriptModule::load and ModuleInterface::compile, in a session or not:
\* Compiler::addToSession, or Script::compile and run.
Load ==
  /\ Doing("load")
  /\ IF Active
     THEN /\ generated' = Append(generated, On)
          /\ Then(<<CallOn("add", On), Call("added"), CallOn("endAdd", On),
                    CallOn("loaded", On)>>)
     ELSE /\ Then(<<CallOn("compile", On), CallOn("runModule", On), CallOn("loaded", On)>>)
          /\ UNCHANGED generated
  /\ UNCHANGED <<source, engine, state, top, error, queues, thrown, history>>

Added ==
  /\ Doing("added")
  /\ Then(IF state = "CompilingFunctions" THEN <<Call("processAll")>> ELSE <<>>)
  /\ UNCHANGED <<source, engine, session, queues, thrown, history>>

EndAdd ==
  /\ Doing("endAdd")
  /\ Then(<<>>)
  /\ UNCHANGED <<source, engine, session, queues, thrown, history>>

Loaded ==
  /\ Doing("loaded")
  /\ loaded' = loaded \cup {On}
  /\ Then(<<>>)
  /\ UNCHANGED <<source, id, scripts, ready, alive, destroyed, session, queues, thrown, history>>

\* The compilation failed, or the execution, or neither.
RunModule ==
  /\ Doing("runModule")
  /\ \/ Throw("ModuleLoadingError")
     \/ result = "compiled" /\ Then(<<>>) /\ UNCHANGED thrown
  /\ UNCHANGED <<source, engine, session, queues, history>>

-----------------------------------------------------------------------------
(* Compiler::finalizeSession *)

Finalize ==
  /\ Doing("finalize")
  /\ state' = "CompilingFunctions"
  /\ Then(<<Call("processAll"), Call("compileFunctions")>>)
  /\ UNCHANGED <<source, engine, top, generated, error, queues, thrown, history>>

\* processAllDeclarations: processNext until done, the unfinished functions first.
\* VariableProcessor::process keeps the variables to initialize, or rejects one.
ProcessAll ==
  /\ Doing("processAll")
  /\ \/ /\ incomplete # <<>>
        /\ reprocessing' = TRUE
        /\ Then(<<Call("reprocess"), Call("processAll")>>)
        /\ UNCHANGED <<collected, uninitialized, thrown>>
     \/ /\ incomplete = <<>> /\ collected # <<>>
        /\ collected' = Tail(collected)
        /\ \/ /\ uninitialized' = Append(uninitialized, Head(collected))
              /\ UNCHANGED <<todo, thrown>>
           \/ /\ Is(Head(collected)) = "badVariable"
              /\ Throw("CompilationFailure")
              /\ UNCHANGED uninitialized
        /\ UNCHANGED reprocessing
     \/ /\ incomplete = <<>> /\ collected = <<>>
        /\ Then(<<>>)
        /\ UNCHANGED <<reprocessing, collected, uninitialized, thrown>>
  /\ UNCHANGED <<source, engine, session, incomplete, tasks, history>>

\* reprocess each unfinished function: the types it names are there now, or never.
Reprocess ==
  /\ Doing("reprocess")
  /\ \/ /\ incomplete # <<>> /\ Is(Head(incomplete)) = "late"
        /\ incomplete' = Tail(incomplete)
        /\ tasks' = Append(tasks, Head(incomplete))
        /\ UNCHANGED <<reprocessing, todo, thrown>>
     \/ /\ incomplete # <<>> /\ Is(Head(incomplete)) # "late"
        /\ incomplete' = Tail(incomplete)
        /\ todo' = Resolve(Head(incomplete)) \o todo
        /\ UNCHANGED <<reprocessing, tasks, thrown>>
     \/ /\ incomplete = <<>>
        /\ reprocessing' = FALSE
        /\ Then(<<>>)
        /\ UNCHANGED <<incomplete, tasks, thrown>>
  /\ UNCHANGED <<source, engine, session, collected, uninitialized, history>>

\* FunctionCompiler::compile, of each task.  The program of a script and the body of
\* a function may import; a function template whose instance fails clears the
\* session (Compiler::instantiate).
CompileFunction ==
  /\ Doing("compileFunctions") /\ tasks # <<>>
  /\ tasks' = Tail(tasks)
  /\ LET t == Head(tasks) IN
     \/ /\ Is(t) \in {"function", "late", "program", "importing"}
        /\ done' = done \cup {t}
        /\ todo' = [n \in DOMAIN Imports(t) |-> CallOn("import", Imports(t)[n])] \o todo
        /\ UNCHANGED thrown
     \/ Is(t) = "badBody" /\ Throw("CompilationFailure") /\ UNCHANGED done
     \/ /\ Is(t) = "badTemplate"
        /\ Then(<<CallOn("clear", generated), Call("failTemplate")>>)
        /\ UNCHANGED <<done, thrown>>
  /\ UNCHANGED <<source, engine, session, incomplete, reprocessing, collected,
                 uninitialized, result, calls, undefined>>

FailTemplate ==
  /\ Doing("failTemplate")
  /\ Throw("TemplateInstantiationError")
  /\ UNCHANGED <<source, engine, session, queues, history>>

\* VariableProcessor::initializeVariables, or the end of the loop and of the session.
EndFunctions ==
  /\ Doing("compileFunctions") /\ tasks = <<>>
  /\ \/ /\ uninitialized = <<>>
        /\ state' = "Finished"
        /\ Then(<<CallOn("run", generated)>>)
        /\ UNCHANGED <<uninitialized, thrown, done>>
     \/ /\ uninitialized # <<>>
        /\ \A i \in DOMAIN uninitialized : Is(uninitialized[i]) = "variable"
        /\ uninitialized' = <<>>
        /\ done' = done \cup ToSet(uninitialized)
        /\ Then(<<Call("processAll"), Call("compileFunctions")>>)
        /\ UNCHANGED <<state, thrown>>
     \/ /\ \E i \in DOMAIN uninitialized : Is(uninitialized[i]) = "badVariable"
        /\ Throw("CompilationFailure")
        /\ UNCHANGED <<state, uninitialized, done>>
  /\ UNCHANGED <<source, engine, top, generated, error, incomplete, reprocessing, collected,
                 tasks, result, calls, undefined>>

\* Script::run, of each script but the one that is compiled.
Run ==
  /\ Doing("run")
  /\ \/ On = <<>> /\ Then(<<>>) /\ UNCHANGED thrown
     \/ /\ On # <<>> /\ (Head(On) = top \/ Head(On) \in ready)
        /\ Then(<<CallOn("run", Tail(On))>>)
        /\ UNCHANGED thrown
     \/ /\ On # <<>> /\ Head(On) # top
        /\ Throw(IF Head(On) \in ready THEN "RuntimeError" ELSE "runtime_error")
  /\ UNCHANGED <<source, engine, session, queues, history>>

-----------------------------------------------------------------------------
(* Exceptions *)

Unwinding == todo # <<>> /\ thrown # "none" /\ ~undefined

\* The handlers of compile and addToSession log the error.
Handles(frame) ==
  thrown = "CompilationFailure" /\ frame.call \in {"endCompile", "endAdd"}

Handle ==
  /\ Unwinding /\ Handles(Head(todo))
  /\ error' = TRUE /\ thrown' = "none"
  /\ UNCHANGED <<source, engine, state, top, generated, queues, todo, history>>

\* A defect: no destructor finishes the session.
StateLeft == state

\* ~SessionManager
StateAfter == IF Head(todo).call = "endCompile" THEN "Finished" ELSE state

\* Any other call is left; an error on import is a CompilationFailure.
Leave ==
  /\ Unwinding /\ ~Handles(Head(todo))
  /\ todo' = Tail(todo)
  /\ state' = StateAfter
  /\ UNCHANGED <<source, engine, top, generated, error, queues, thrown, history>>

\* The exception reaches the program.
Escape ==
  /\ todo = <<>> /\ thrown # "none"
  /\ thrown' = "none" /\ result' = thrown
  /\ UNCHANGED <<source, engine, session, queues, todo, done, calls, undefined>>

-----------------------------------------------------------------------------

Step == \/ StartSession \/ EndCompile \/ Clear \/ DestroyScript \/ DestroyNamespace
        \/ Add \/ Declare \/ Unresolved \/ Import \/ Load \/ Added \/ EndAdd \/ Loaded \/ RunModule
        \/ Finalize \/ ProcessAll \/ Reprocess \/ CompileFunction \/ FailTemplate
        \/ EndFunctions \/ Run \/ Handle \/ Leave \/ Escape

Next == \/ \E s \in Scripts : NewScript(s) \/ Compile(s)
        \/ \E m \in Modules : LoadModule(m)
        \/ Step

\* The calls run in the thread of the program: each step is followed by the next.
Spec == Init /\ [][Next]_vars /\ WF_vars(Step)

-----------------------------------------------------------------------------
(* Properties *)

Tasks == {t \in [script : Scripts, at : Nat] : t.at <= Len(source[t.script])}

\* The calls that may be in progress, each with what it was called on.
Frames ==
  [call : {"finalize", "added", "processAll", "reprocess", "compileFunctions", "failTemplate"}]
    \cup [call : {"compile", "add", "endCompile", "destroy"}, on : Scripts]
    \cup [call : {"load", "endAdd", "runModule", "loaded", "destroyScript"}, on : Modules]
    \cup [call : {"declare", "unresolved"}, on : Tasks]
    \cup [call : {"import", "clear", "run"}, on : Seq(Modules)]

Exceptions == {"CompilationFailure", "TemplateInstantiationError", "ModuleLoadingError",
               "RuntimeError", "runtime_error"}

\* What the variables may hold: only modules join the session of a script, the queues
\* hold declarations of the sources, and each call has its own kind of argument.
TypeOK ==
  /\ source \in [Scripts -> Seq(Declarations)]
  /\ id \in [Scripts -> Nat] /\ scripts \in Seq(Scripts \cup {Null})
  /\ ready \subseteq Scripts /\ alive \subseteq Scripts /\ loaded \subseteq Modules
  /\ destroyed \subseteq Modules
  /\ state \in {"Finished", "ProcessingDeclarations", "CompilingFunctions"}
  /\ top \in Scripts \cup {Null} /\ generated \in Seq(Modules) /\ error \in BOOLEAN
  /\ incomplete \in Seq(Tasks) /\ collected \in Seq(Tasks) /\ tasks \in Seq(Tasks)
  /\ uninitialized \in Seq(Tasks) /\ reprocessing \in BOOLEAN
  /\ todo \in Seq(Frames) /\ thrown \in {"none"} \cup Exceptions
  /\ result \in {"none", "compiled", "failed"} \cup Exceptions
  /\ done \subseteq Tasks /\ calls \in Nat /\ undefined \in BOOLEAN

\* A compilation that succeeds has compiled every function and initialized every
\* variable of the script and of the modules it imported, wherever the import stands
\* and whatever earlier compilations left in the queues, and leaves nothing there.
SuccessIsComplete ==
  Idle /\ result = "compiled" =>
    /\ incomplete = <<>> /\ collected = <<>> /\ tasks = <<>> /\ uninitialized = <<>>
    /\ \A s \in {top} \cup ToSet(generated) :
         Parsed(s) /\ \A n \in DOMAIN source[s] :
           source[s][n].is # "import" => Task(s, n) \in done

\* When Script::compile returns false, nothing of what the session declared is left:
\* neither of the script nor of the modules it imported.
FailureUndoes ==
  Idle /\ result = "failed" => (ToSet(generated) \cup {top}) \cap alive = {}

\* A compilation is all or nothing, for the script and for the modules it imports.
AllOrNothing == SuccessIsComplete /\ FailureUndoes

\* No session outlives the call that started it, whichever exception leaves the
\* compiler: a session that stayed active would swallow the next compilation.
NoSessionLeft == todo = <<>> => ~Active

IsAtItsId(s) == id[s] \in DOMAIN scripts /\ scripts[id[s]] = s

\* A script that was not destroyed is in the table of the engine under its id, however
\* many others were, and no place holds a script with another id.  EngineImpl::destroy
\* clears the place of the id that the script once had: when a script is destroyed a
\* second time, nothing else may have that id by then.  The last place is never empty:
\* Engine::tearDown destroys the last script until there is none.
TableIsRight ==
  /\ \A n \in DOMAIN scripts : scripts[n] # Null => id[scripts[n]] = n
  /\ \A s \in Scripts \ destroyed : id[s] # 0 => IsAtItsId(s)
  /\ scripts # <<>> => Last(scripts) # Null

\* A module joins a session once, however many scripts of it import the module,
\* so that it is declared once and its program runs once.
JoinsOnce == IsInjective(generated)

\* A session is that of one compilation, and has each module once.
SessionsAreSeparate == NoSessionLeft /\ JoinsOnce

\* A compilation ends: what cannot be resolved is not put aside for ever.
Terminates == todo # <<>> ~> (todo = <<>> \/ undefined)

\* "Returns true on success, false otherwise": when compile returns false
\* then there is an error in the script, or in a module that it imports.
FailsForItsErrors ==
  Idle /\ result = "failed" =>
    \E s \in {top} \cup ToSet(generated) : \E n \in DOMAIN source[s] :
      source[s][n].is \notin {"function", "late", "importing", "variable", "import"}

\* A module that is loaded has the declarations that its importers look for.
LoadedIsThere == Idle => loaded \subseteq alive
=============================================================================
