------------------------------- MODULE Scopes -------------------------------
(***************************************************************************)
(* The scopes a script is compiled in (Scope, ScopeImpl and its classes),  *)
(* as ScriptCompiler and FunctionCompiler use them.  A Scope is a handle   *)
(* to a node; the nodes are shared, counted and copied before a directive  *)
(* changes them, and the scope of a namespace that has imported others     *)
(* caches the lists of what they hold.  `heap' holds the nodes: an id is   *)
(* in use while a handle or another node refers to it.                     *)
(***************************************************************************)
EXTENDS Integers, FiniteSets, Sequences, SequencesExt

CONSTANTS
  Classes, Functions,  \* the names a script may declare
  Spaces,              \* the names of nested namespaces
  ClassAliases, SpaceAliases, \* the names of type and namespace aliases
  Builtins,            \* the names of built-in types
  Given,               \* the entities of the engine and of the module
  Modules,             \* the namespaces of the modules a script may import
  MaxDeclarations, MaxStatements,  \* bounds: the declarations, the statements of bodies
  MaxBlocks,           \* bound: the blocks of a body that are open
  Ids                  \* bound: the nodes

ASSUME ScopesAssumption ==
  /\ MaxDeclarations \in Nat /\ MaxStatements \in Nat /\ MaxBlocks \in Nat
  /\ IsFiniteSet(Ids) /\ Ids \subseteq Nat /\ 1 \in Ids
  /\ Classes \cap Functions = {}
  /\ \A e \in Given : e.kind \in {"class", "function"}
  /\ SpaceAliases \cap Spaces = {}  \* the lookup of an alias to itself does not return
  /\ \A m \in Modules : m \in Seq(ToSet(m))

VARIABLES
  declared,    \* the classes and functions there are
  spaces,      \* the namespaces there are, as paths
  heap,        \* the nodes
  frames,      \* what mCurrentScope is, outermost declaration first
  tasks,       \* mCompilationTasks
  incomplete,  \* mIncompleteFunctionDeclarations
  body,        \* the function that is being compiled, or None
  phase,       \* of the compilation: declare, reprocess, compile, failed
  steps        \* declarations, or statements of the body, so far

vars == <<declared, spaces, heap, frames, tasks, incomplete, body, phase, steps>>

None == [kind |-> "None"]
Kinds == {"class", "function"}
Engine == <<"engine">>
Script == <<"script">>

Entity(path, kind, name) == [in |-> path, kind |-> kind, name |-> name]

-----------------------------------------------------------------------------
(* Nodes.                                                                   *)

Empty == [k \in Kinds |-> {}]
Node(kind, of) ==
  [kind |-> kind, of |-> of, chain |-> <<>>, imports |-> <<>>, spaceAliases |-> {},
   aliases |-> {}, injected |-> {}, cached |-> Empty]

IsSpace(n) == n.kind \in {"ScriptScope", "NamespaceScope"}

\* The nodes from id to the outermost.  The parent of a node never changes, so that
\* each node has the whole of its chain.
Chain(h, id) == h[id].chain
Parent(n) == IF Len(n.chain) > 1 THEN n.chain[2] ELSE 0

\* The first of a set of numbers, and the n-th (a set of one or of none).
FirstOf(S) == CHOOSE n \in S : \A m \in S : n <= m
AtRank(S, n) == {i \in S : Cardinality({j \in S : j < i}) = n - 1}
Nth(S, n) == CHOOSE i \in AtRank(S, n) : TRUE

\* The handles: what the C++ functions that are running and the queues hold.
Roots(f, t, i, b) ==
  ToSet(f) \cup {t[n].scope : n \in DOMAIN t} \cup {i[n].scope : n \in DOMAIN i}
    \cup (IF b = None THEN {} ELSE {b.base, b.arguments, b.outer, b.top, b.expr})

\* std::shared_ptr::use_count of a node that is mCurrentScope: inside a nested
\* declaration the function that reads it holds another handle.
UseCount(h, id) ==
    Cardinality({n \in DOMAIN frames : frames[n] = id})
  + (IF Len(frames) > 1 /\ Last(frames) = id THEN 1 ELSE 0)
  + Cardinality({n \in DOMAIN tasks : tasks[n].scope = id})
  + Cardinality({n \in DOMAIN incomplete : incomplete[n].scope = id})
  + (IF body = None THEN 0
     ELSE Cardinality({r \in {"base", "arguments", "outer", "top", "expr"} : body[r] = id}))
  + Cardinality({i \in Ids : h[i] # None /\ Parent(h[i]) = id})

\* What no handle reaches any more is freed.
Collected(h, roots) ==
  LET used == UNION {ToSet(Chain(h, id)) : id \in roots}
  IN [i \in Ids |-> IF i \in used THEN h[i] ELSE None]

Free(h) == {i \in Ids : h[i] = None}
NewId(h, n) == Nth(Free(h), n)

\* There are ids for the copies of a node and its parents, and for one more.
HasRoom(id) == \A n \in 1 .. Len(Chain(heap, id)) + 1 : AtRank(Free(heap), n) # {}

WithNode(h, id, node, parent) ==
  [h EXCEPT ![id] = [node EXCEPT !.chain = <<id>> \o Chain(h, parent)]]
Placed(h, node, parent) ==
  [heap |-> WithNode(h, NewId(h, 1), node, parent), id |-> NewId(h, 1)]

\* ScopeImpl::clone copies the parents as well; the copies have no caches.
Cloned(h, id) ==
  LET old == Chain(h, id)
      new == [n \in DOMAIN old |-> NewId(h, n)]
      copy(n) == [h[old[n]] EXCEPT !.cached = Empty, !.chain = SubSeq(new, n, Len(new))]
  IN [heap |-> [i \in Ids |-> IF i \in ToSet(new) THEN copy(CHOOSE n \in DOMAIN new : new[n] = i) ELSE h[i]],
      id |-> new[1]]

-----------------------------------------------------------------------------
(* What a node lists, and the caches of what it lists.                      *)

Own(path, kind) == {e \in declared \cup Given : e.in = path /\ e.kind = kind}

Contents(n, kind) == Own(n.of, kind) \cup UNION {Own(n.imports[i], kind) : i \in DOMAIN n.imports}

\* classes(), functions(): enumerations, typedefs, values, operators and
\* templates are listed the same way.
Listed(n, kind) ==
  IF n.kind = "FunctionScope" THEN {}
  ELSE IF n.imports = <<>> THEN Own(n.of, kind)
  ELSE IF n.cached[kind] = {} THEN Contents(n, kind) ELSE n.cached[kind]

\* Listing fills the cache.
Read(n, kind) ==
  IF IsSpace(n) /\ n.imports # <<>> THEN [n EXCEPT !.cached[kind] = Listed(n, kind)] ELSE n

\* A defect: a declaration leaves the caches alone.
InvalidatedNever(h, id, kind) == h

\* Scope::invalidateCache
Invalidated(h, id, kind) ==
  IF IsSpace(h[id]) THEN [h EXCEPT ![id].cached[kind] = {}] ELSE h

\* NamespaceScope::has_child
HasNested(n, name) ==
  IsSpace(n) /\ \E p \in {n.of} \cup ToSet(n.imports) : Append(p, name) \in spaces

\* The namespaces called name in a namespace scope: its own, then those of the
\* namespaces it has imported, when the namespaces there are are all.
Nested(n, name, all) ==
  LET outer == <<n.of>> \o n.imports
      holders == {i \in DOMAIN outer : Append(outer[i], name) \in all}
  IN [i \in 1 .. Cardinality(holders) |-> Append(outer[Nth(holders, i)], name)]

\* NamespaceScope::child_scope
ChildScope(n, name) ==
  LET paths == Nested(n, name, spaces)
  IN [Node("NamespaceScope", paths[1]) EXCEPT !.imports = Tail(paths)]

-----------------------------------------------------------------------------
(* Lookup.                                                                  *)

Nothing == [space |-> None, types |-> {}, functions |-> {}]

\* ExtensibleScope::lookup: aliases and injected names come before the lists.
Aliased(n, name) == {a.entity : a \in {a \in n.aliases : a.name = name}}
InjectedAs(n, kind, name) == {e \in n.injected : e.kind = kind /\ e.name = name}

\* ScopeImpl::lookup, and ClassScope::lookup in the members of a class.
ListedAs(n, kind, name) == {e \in Listed(n, kind) : e.name = name}

\* Looking a name up in one node: a name in an earlier group hides the later
\* ones, functions gather.
LookupIn(n, name) ==
  IF HasNested(n, name) THEN [Nothing EXCEPT !.space = ChildScope(n, name)]
  ELSE IF Aliased(n, name) # {} THEN [Nothing EXCEPT !.types = Aliased(n, name)]
  ELSE IF InjectedAs(n, "class", name) # {} THEN [Nothing EXCEPT !.types = InjectedAs(n, "class", name)]
  ELSE IF ListedAs(n, "class", name) # {}
       THEN [Nothing EXCEPT !.types = ListedAs(n, "class", name), !.functions = InjectedAs(n, "function", name)]
  ELSE [Nothing EXCEPT !.functions = InjectedAs(n, "function", name) \cup ListedAs(n, "function", name)]

\* The lists that looking a name up in a node has read.
LookupReads(n, name) ==
  LET r == LookupIn(n, name)
      hidden == r.space # None \/ Aliased(n, name) # {} \/ InjectedAs(n, "class", name) # {}
  IN IF hidden THEN n
     ELSE IF r.types # {} THEN Read(n, "class")
     ELSE Read(Read(n, "class"), "function")

\* Scope::lookup goes to the parent when nothing has been found.
Lookup(h, id, name) ==
  LET chain == Chain(h, id)
      found == {n \in DOMAIN chain : LookupIn(h[chain[n]], name) # Nothing}
      last == IF found = {} THEN Len(chain) ELSE FirstOf(found)
      visited == {chain[n] : n \in 1 .. last}
  IN [heap |-> [i \in Ids |-> IF i \in visited THEN LookupReads(h[i], name) ELSE h[i]],
      result |-> LookupIn(h[chain[last]], name)]

\* NameLookup::process: the name of a built-in type is never looked up.
Resolve(h, id, name) ==
  IF name \in Builtins THEN [heap |-> h, result |-> [Nothing EXCEPT !.types = {Entity(Engine, "builtin", name)}]]
  ELSE Lookup(h, id, name)

\* Scope::child: the namespaces called name, or None.  What an alias stands for is
\* never an alias.
Child(n, name) ==
  LET target == {a.target : a \in {a \in n.spaceAliases : a.name = name}}
      meant == IF target = {} THEN name ELSE CHOOSE t \in target : TRUE
  IN IF HasNested(n, meant) THEN ChildScope(n, meant) ELSE None

\* NameLookup::unqualified_scope_lookup of the left side of a qualified name;
\* the lists of classes are read on the way.
SpaceCalled(h, id, name) ==
  LET chain == Chain(h, id)
      found == {n \in DOMAIN chain : Child(h[chain[n]], name) # None}
      last == IF found = {} THEN Len(chain) ELSE FirstOf(found)
      visited == {chain[n] : n \in 1 .. last}
  IN [heap |-> [i \in Ids |-> IF i \in visited THEN Read(h[i], "class") ELSE h[i]],
      space |-> Child(h[chain[last]], name)]

\* NameLookup::qualified_lookup: only the scope itself, not its parents.
QualifiedLookup(h, id, space, name) ==
  LET s == SpaceCalled(h, id, space)
  IN [heap |-> s.heap, result |-> IF s.space = None THEN Nothing ELSE LookupIn(s.space, name)]

-----------------------------------------------------------------------------
(* Injection.  Each returns the new heap and the new node of the handle.    *)

\* A defect: shared nodes are changed where they are.
WritableInPlace(h, id) == [heap |-> h, id |-> id]

\* Scope::inject of an entity or of a type alias.
Writable(h, id) == IF UseCount(h, id) # 1 THEN Cloned(h, id) ELSE [heap |-> h, id |-> id]

InjectEntities(h, id, entities) ==
  LET w == Writable(h, id) IN [w EXCEPT !.heap[w.id].injected = @ \cup entities]

InjectAlias(h, id, name, entity) ==
  LET w == Writable(h, id)
      others == {a \in w.heap[w.id].aliases : a.name # name}
  IN [w EXCEPT !.heap[w.id].aliases = others \cup {[name |-> name, entity |-> entity]}]

\* NamespaceScope::import_namespace
Imported(n, other) ==
  [n EXCEPT !.imports = @ \o <<other.of>> \o other.imports, !.cached = Empty]

\* Scope::inject of a namespace scope: into the innermost namespace scope.
InnermostSpace(h, id) ==
  LET chain == Chain(h, id) IN chain[FirstOf({n \in DOMAIN chain : IsSpace(h[chain[n]])})]

InjectSpace(h, id, space) ==
  LET c == Cloned(h, id)
  IN [c EXCEPT !.heap[InnermostSpace(c.heap, c.id)] = Imported(@, space)]

\* Scope::inject of a namespace alias: where the aliased namespace is a child.
InjectSpaceAlias(h, id, name, target) ==
  LET c == Cloned(h, id)
      chain == Chain(c.heap, c.id)
      into == chain[FirstOf({n \in DOMAIN chain : HasNested(c.heap[chain[n]], target)})]
      others == {a \in c.heap[into].spaceAliases : a.name # name}
  IN [c EXCEPT !.heap[into].spaceAliases = others \cup {[name |-> name, target |-> target]}]

\* A defect: only the outermost namespace scope imports the module.
MergeOutermost(h, id, module) ==
  LET c == Cloned(h, id)
      outermost == Last(Chain(c.heap, c.id))
  IN [c EXCEPT !.heap[outermost] = Imported(@, Node("NamespaceScope", module))]

\* Scope::merge: the outermost namespace scope imports the module, and each one
\* inside it the namespace of the same name that the module has.
Counterpart(module, path) == module \o Tail(path)
HasCounterpart(module, path) ==
  \A n \in 2 .. Len(path) : module \o SubSeq(path, 2, n) \in spaces

Merge(h, id, module) ==
  LET c == Cloned(h, id)
      merged(n) ==
        IF IsSpace(n) /\ HasCounterpart(module, n.of)
        THEN Imported(n, Node("NamespaceScope", Counterpart(module, n.of))) ELSE n
  IN [c EXCEPT !.heap = [i \in Ids |-> IF i \in ToSet(Chain(c.heap, c.id)) THEN merged(c.heap[i]) ELSE c.heap[i]]]

-----------------------------------------------------------------------------
(* What the names in scope are, for the history kept with each function.    *)

\* Own names of the scopes of a chain, and those of what is not in the script.
NamesInScope(h, id) ==
  LET paths(n) == {n.of} \cup {p \in ToSet(n.imports) : p[1] # Script[1]}
      declaredIn(n) == {e \in declared \cup Given : e.in \in paths(n)}
  IN {e.name : e \in UNION {declaredIn(h[i]) : i \in ToSet(Chain(h, id))}}

-----------------------------------------------------------------------------
(* ScriptCompiler: the declarations.                                        *)

Current == Last(frames)
Here == heap[Current].of

Step == steps' = steps + 1

\* The new heap, without the nodes that no handle refers to any more.
Becomes(h, f, t, i, b) ==
  /\ heap' = Collected(h, Roots(f, t, i, b))
  /\ frames' = f /\ tasks' = t /\ incomplete' = i /\ body' = b

Declaring == phase = "declare" /\ steps < MaxDeclarations /\ HasRoom(Current)

\* processOrCollectDeclarations: the scope of the script, merged with the root
\* namespace of the engine, of which the root function takes a copy.
Init ==
  /\ declared = {} /\ spaces = {e.in : e \in Given} \cup {Script}
  /\ heap = [i \in Ids |-> IF i = 1 THEN [Node("ScriptScope", Script) EXCEPT !.chain = <<1>>, !.imports = <<Engine>>]
                            ELSE None]
  /\ frames = <<1>>
  /\ tasks = <<[function |-> None, scope |-> 1, seen |-> {e.name : e \in Own(Engine, "class") \cup Own(Engine, "function")}]>>
  /\ incomplete = <<>> /\ body = None
  /\ phase = "declare" /\ steps = 0

\* processClassDeclaration up to the content of the class.
DeclareClass(name) ==
  /\ Declaring /\ IsSpace(heap[Current])
  /\ Entity(Here, "class", name) \notin declared
  /\ declared' = declared \cup {Entity(Here, "class", name)}
  /\ Becomes(Invalidated(heap, Current, "class"), frames, tasks, incomplete, body)
  /\ Step /\ UNCHANGED <<spaces, phase>>

\* readClassContent of a class that has just been declared.
OpenClass(name) ==
  /\ Declaring /\ IsSpace(heap[Current])
  /\ Entity(Here, "class", name) \notin declared
  /\ declared' = declared \cup {Entity(Here, "class", name)}
  /\ LET new == Placed(Invalidated(heap, Current, "class"), Node("ClassScope", Append(Here, name)), Current)
     IN Becomes(new.heap, Append(frames, new.id), tasks, incomplete, body)
  /\ Step /\ UNCHANGED <<spaces, phase>>

\* An access specifier: ClassScope::withAccessibility.
AccessSpecifier ==
  /\ Declaring /\ heap[Current].kind = "ClassScope"
  /\ LET c == Cloned(heap, Current)
     IN Becomes(c.heap, Append(Front(frames), c.id), tasks, incomplete, body)
  /\ Step /\ UNCHANGED <<declared, spaces, phase>>

\* processNamespaceDecl; the namespace may exist already.
OpenNamespace(name) ==
  /\ Declaring /\ IsSpace(heap[Current]) /\ Len(Here) = 1
  /\ spaces' = spaces \cup {Append(Here, name)}
  /\ LET read == [heap EXCEPT ![Current] = Read(@, "class")]
         child == [Node("NamespaceScope", Append(Here, name))
                     EXCEPT !.imports = Tail(Nested(heap[Current], name, spaces'))]
         new == Placed(read, child, Current)
     IN Becomes(new.heap, Append(frames, new.id), tasks, incomplete, body)
  /\ Step /\ UNCHANGED <<declared, phase>>

\* The end of the namespace or of the class.
Close ==
  /\ phase = "declare" /\ Len(frames) > 1
  /\ Becomes(heap, Front(frames), tasks, incomplete, body)
  /\ UNCHANGED <<declared, spaces, phase, steps>>

\* The scope that the next declaration is processed in: ScopeGuard restores the
\* scope after each declaration in a namespace or class, not in the script.
Processed(r) ==
  Becomes(r.heap, IF Len(frames) = 1 THEN <<r.id>> ELSE frames, tasks, incomplete, body)

\* processFunctionDeclaration: a function with one parameter.  If the type is
\* not found the declaration is put aside for a second pass.
Add(function, h, id) == Invalidated(h, id, function.kind)

DeclareFunction(name, type) ==
  LET function == Entity(Here, "function", name)
      lookup == Resolve(heap, Current, type)
      seen == NamesInScope(heap, Current)
      task == [function |-> function, scope |-> Current, seen |-> seen]
      later == [function |-> function, scope |-> Current, seen |-> seen, type |-> type]
  IN /\ Declaring
     /\ function \notin declared
     /\ \A n \in DOMAIN incomplete : incomplete[n].function # function
     /\ IF lookup.result.types # {}
        THEN /\ declared' = declared \cup {function}
             /\ Becomes(Add(function, lookup.heap, Current), frames, Append(tasks, task), incomplete, body)
        ELSE /\ Becomes(lookup.heap, frames, tasks, Append(incomplete, later), body)
             /\ UNCHANGED declared
     /\ Step /\ UNCHANGED <<spaces, phase>>

\* processUsingDirective
UsingDirective(name) ==
  LET lookup == Lookup(heap, Current, name) IN
  /\ Declaring /\ IsSpace(heap[Current])
  /\ lookup.result.space # None
  /\ Processed(InjectSpace(lookup.heap, Current, lookup.result.space))
  /\ Step /\ UNCHANGED <<declared, spaces, phase>>

\* processUsingDeclaration
UsingDeclaration(space, name) ==
  LET lookup == QualifiedLookup(heap, Current, space, name) IN
  /\ Declaring /\ IsSpace(heap[Current])
  /\ lookup.result.functions # {}
  /\ Processed(InjectEntities(lookup.heap, Current, lookup.result.functions))
  /\ Step /\ UNCHANGED <<declared, spaces, phase>>

\* processTypeAlias
TypeAlias(name, type) ==
  LET lookup == Resolve(heap, Current, type) IN
  /\ Declaring /\ IsSpace(heap[Current])
  /\ lookup.result.types # {}
  /\ \E entity \in lookup.result.types : Processed(InjectAlias(lookup.heap, Current, name, entity))
  /\ Step /\ UNCHANGED <<declared, spaces, phase>>

\* processNamespaceAlias
NamespaceAlias(name, space) ==
  /\ Declaring /\ IsSpace(heap[Current])
  /\ \E i \in ToSet(Chain(heap, Current)) : HasNested(heap[i], space)
  /\ Processed(InjectSpaceAlias(heap, Current, name, space))
  /\ Step /\ UNCHANGED <<declared, spaces, phase>>

\* processImportDirective
Import(module) ==
  /\ Declaring /\ IsSpace(heap[Current])
  /\ Processed(Merge(heap, Current, module))
  /\ Step /\ UNCHANGED <<declared, spaces, phase>>

-----------------------------------------------------------------------------
(* ScriptCompiler::processNext: the second pass over the declarations.      *)

EndOfDeclarations ==
  /\ phase = "declare" /\ Len(frames) = 1
  /\ phase' = IF incomplete = <<>> THEN "compile" ELSE "reprocess"
  /\ steps' = 0
  /\ UNCHANGED <<declared, spaces, heap, frames, tasks, incomplete, body>>

\* reprocess: in the scope the declaration was found in.
Reprocess ==
  LET d == Head(incomplete)
      lookup == Resolve(heap, d.scope, d.type)
      task == [function |-> d.function, scope |-> d.scope, seen |-> d.seen]
  IN /\ phase = "reprocess"
     /\ IF lookup.result.types # {}
        THEN /\ declared' = declared \cup {d.function}
             /\ Becomes(Add(d.function, lookup.heap, d.scope), frames, Append(tasks, task), Tail(incomplete), body)
             /\ phase' = IF Tail(incomplete) = <<>> THEN "compile" ELSE phase
        ELSE /\ phase' = "failed"
             /\ UNCHANGED <<declared, heap, frames, tasks, incomplete, body>>
     /\ UNCHANGED <<spaces, steps>>

-----------------------------------------------------------------------------
(* FunctionCompiler: the scopes of a body.                                  *)

\* compile: the scope of the arguments, and that of the body inside it.
BeginBody ==
  LET task == Head(tasks)
      node == Node("FunctionScope", task.scope)
      arguments == NewId(heap, 1)
      outer == NewId(heap, 2)
  IN /\ phase = "compile" /\ body = None /\ tasks # <<>> /\ HasRoom(task.scope)
     /\ Becomes(WithNode(WithNode(heap, arguments, node, task.scope), outer, node, arguments),
          frames, Tail(tasks), incomplete,
          [kind |-> "body", function |-> task.function, seen |-> task.seen, base |-> task.scope,
           arguments |-> arguments, outer |-> outer, top |-> outer, expr |-> outer, blocks |-> 0])
     /\ steps' = 0 /\ UNCHANGED <<declared, spaces, phase>>

Compiling == body # None /\ steps < MaxStatements /\ HasRoom(body.top)

\* enter_scope, leave_scope
EnterBlock ==
  /\ Compiling /\ body.blocks < MaxBlocks
  /\ LET new == Placed(heap, Node("FunctionScope", body.base), body.top)
     IN Becomes(new.heap, frames, tasks, incomplete,
          [body EXCEPT !.top = new.id, !.expr = new.id, !.blocks = @ + 1])
  /\ Step /\ UNCHANGED <<declared, spaces, phase>>

LeaveBlock ==
  /\ body # None /\ body.blocks > 0
  /\ Becomes(heap, frames, tasks, incomplete, [body EXCEPT !.top = Parent(heap[@]), !.blocks = @ - 1])
  /\ UNCHANGED <<declared, spaces, phase, steps>>

\* An expression that names something: generate sets the scope of expr_.
Mention(name) ==
  /\ Compiling
  /\ Becomes(Lookup(heap, body.top, name).heap, frames, tasks, incomplete, [body EXCEPT !.expr = body.top])
  /\ Step /\ UNCHANGED <<declared, spaces, phase>>

InBody(r) == Becomes(r.heap, frames, tasks, incomplete, [body EXCEPT !.top = r.id])

UsingDirectiveInBody(name) ==
  LET lookup == Lookup(heap, body.top, name) IN
  /\ Compiling
  /\ lookup.result.space # None
  /\ InBody(InjectSpace(lookup.heap, body.top, lookup.result.space))
  /\ Step /\ UNCHANGED <<declared, spaces, phase>>

UsingDeclarationInBody(space, name) ==
  LET lookup == QualifiedLookup(heap, body.top, space, name) IN
  /\ Compiling
  /\ lookup.result.functions # {}
  /\ InBody(InjectEntities(lookup.heap, body.top, lookup.result.functions))
  /\ Step /\ UNCHANGED <<declared, spaces, phase>>

TypeAliasInBody(name, type) ==
  LET lookup == Resolve(heap, body.top, type) IN
  /\ Compiling
  /\ lookup.result.types # {}
  /\ \E entity \in lookup.result.types : InBody(InjectAlias(lookup.heap, body.top, name, entity))
  /\ Step /\ UNCHANGED <<declared, spaces, phase>>

ImportInBody(module) ==
  /\ Compiling
  /\ InBody(Merge(heap, body.top, module))
  /\ Step /\ UNCHANGED <<declared, spaces, phase>>

EndBody ==
  /\ body # None /\ body.blocks = 0
  /\ Becomes(heap, frames, tasks, incomplete, None)
  /\ UNCHANGED <<declared, spaces, phase, steps>>

-----------------------------------------------------------------------------
TypeNames == Builtins \cup Classes \cup ClassAliases \cup {e.name : e \in {e \in Given : e.kind = "class"}}

Declare ==
  \/ \E c \in Classes : DeclareClass(c) \/ OpenClass(c)
  \/ \E s \in Spaces : OpenNamespace(s)
  \/ \E f \in Functions, t \in TypeNames : DeclareFunction(f, t)
  \/ \E s \in Spaces : UsingDirective(s)
  \/ \E s \in Spaces \cup SpaceAliases, f \in Functions : UsingDeclaration(s, f)
  \/ \E a \in ClassAliases, t \in TypeNames : TypeAlias(a, t)
  \/ \E a \in SpaceAliases, s \in Spaces : NamespaceAlias(a, s)
  \/ \E m \in Modules : Import(m)
  \/ AccessSpecifier \/ Close \/ EndOfDeclarations

Compile ==
  \/ \E x \in TypeNames \cup Functions : Mention(x)
  \/ \E s \in Spaces : UsingDirectiveInBody(s)
  \/ \E s \in Spaces \cup SpaceAliases, f \in Functions : UsingDeclarationInBody(s, f)
  \/ \E a \in ClassAliases, t \in TypeNames : TypeAliasInBody(a, t)
  \/ \E m \in Modules : ImportInBody(m)
  \/ BeginBody \/ EnterBlock \/ LeaveBlock \/ EndBody

Next == Declare \/ Reprocess \/ Compile

Spec == Init /\ [][Next]_vars

-----------------------------------------------------------------------------
(* Properties.                                                              *)

Handles == Roots(frames, tasks, incomplete, body)

\* What the directives have made of a scope, without what it has cached.
Directives(h, id) ==
  LET chain == Chain(h, id) IN [n \in DOMAIN chain |-> [h[chain[n]] EXCEPT !.cached = Empty, !.chain = <<>>]]

\* What each function, task and unfinished declaration keeps its scope for.
Kept(f, t, i, b) ==
       {<<"frame", n, f[n]>> : n \in 1 .. Len(f) - 1}
  \cup {<<"task", t[n].function, t[n].scope>> : n \in DOMAIN t}
  \cup {<<"task", i[n].function, i[n].scope>> : n \in DOMAIN i}
  \cup (IF b = None THEN {} ELSE {<<"body", b.function, b.base>>, <<"task", b.function, b.base>>})

\* No directive changes what another scope means: the scope that a declaration,
\* a task or a function that is being compiled was given keeps its imports,
\* aliases and injected names until it is used, though nodes are shared
\* (Scope::inject and merge copy them when anything else may refer to them).
DirectivesStayPut ==
  [][\A k \in Kept(frames, tasks, incomplete, body), l \in Kept(frames', tasks', incomplete', body') :
       k[1] = l[1] /\ k[2] = l[2] => Directives(heap, k[3]) = Directives(heap', l[3])]_vars

\* A name that was declared, or known to the engine or to an imported module,
\* when a function was declared is found from the scope the function is
\* compiled in, whatever the scopes in between have cached; in the first pass
\* over the declarations, everything that is declared is found
\* (ScriptCompiler invalidates the caches that a declaration makes stale).
SeesEarlierDeclarations ==
  /\ \A n \in DOMAIN tasks : \A x \in tasks[n].seen : Lookup(heap, tasks[n].scope, x).result # Nothing
  /\ body # None => \A x \in body.seen : Lookup(heap, body.top, x).result # Nothing
  /\ phase = "declare" => \A x \in NamesInScope(heap, Current) : Lookup(heap, Current, x).result # Nothing

\* Inside a namespace, the namespaces of the same name of what its enclosing
\* scope has imported are imported as well: a module's foo extends the script's
\* foo wherever the import is (Scope::merge, NamespaceScope::import_namespace).
NamespacesImportAlike ==
  \A i \in {i \in Ids : heap[i] # None /\ IsSpace(heap[i]) /\ Parent(heap[i]) # 0} :
    LET outer == heap[Parent(heap[i])]
        inside == {Append(p, Last(heap[i].of)) : p \in {p \in ToSet(outer.imports) : p[1] # Script[1]}}
    IN inside \cap spaces \subseteq ToSet(heap[i].imports)

\* tests/language/two-pass-compil.script:3: "The second pass correctly
\* resolves" the types that are declared after a function that names them.
SecondPassResolves ==
  phase = "failed" => ~\E e \in declared : e.in = Script /\ e.kind = "class" /\ e.name = Head(incomplete).type

=============================================================================
