------------------------------ MODULE TypeSystem ------------------------------
(***************************************************************************)
(* TypeSystemImpl: the vectors of classes, enumerations, closure types and *)
(* function types, whose indices are the ids of the types, and the         *)
(* transactions that listen to them (TypeSystemTransaction).  An object    *)
(* here is what the entries of a vector share: a ClassImpl, an EnumImpl, a *)
(* ClosureTypeImpl or a FunctionType.  Destroying a class destroys what is *)
(* declared in it: `todo' is the C++ recursion, innermost call first.      *)
(***************************************************************************)
EXTENDS Integers, Sequences, SequencesExt

CONSTANTS
  Objects,      \* the objects that may be created
  Namespaces,   \* what may own classes and enumerations: scripts, namespaces
  Prototypes,   \* of function types
  Transactions, \* the transaction objects
  MaxTypes,     \* bound: the size of each vector
  Requests,     \* the indices that a builder may ask for (setId)
  NoOwner, NoObject, Null, Reserved, NoTransaction

ASSUME ObjectsAssumption ==
  /\ {Null, Reserved, NoObject} \cap Objects = {} /\ Null # Reserved
  /\ Namespaces \cap Objects = {} /\ NoOwner \notin Namespaces \cup Objects
  /\ NoTransaction \notin Transactions
  /\ MaxTypes \in Nat /\ MaxTypes > 2 /\ Requests \subseteq 0 .. MaxTypes - 1

VARIABLES
  table,        \* classes, enums, lambdas, prototypes: what is at each index
  size,         \* the sizes of the vectors
  type,         \* the id an object was registered with
  prototype,    \* of a function type
  classes,      \* declared in a namespace or a class
  enums,        \* likewise
  deleted,      \* the objects that were destroyed ("deleted_" in their names)
  listeners,    \* the transactions that listen, in the order of their start
  active,       \* active_transaction
  m_types,      \* what each transaction recorded
  since,        \* history: the objects registered before a transaction started
  todo,         \* what TypeSystemImpl still has to do
  rolledBack,   \* history: has a transaction been rolled back?
  undefined     \* has a null or a missing entry been used?

vars == <<table, size, type, prototype, classes, enums, deleted, listeners,
          active, m_types, since, todo, rolledBack, undefined>>

-----------------------------------------------------------------------------
(* Types, entries and calls *)

Kinds == {"class", "enum", "closure", "function"}
Index == 0 .. MaxTypes - 1
Entries == Objects \cup {Null, Reserved}

\* Type: a category flag and an index.
Types == [kind : Kinds, index : Index]
NoType == [kind |-> "none", index |-> 0]

Calls == [call : {"destroyType"}, type : Types]
    \cup [call : {"destroy", "unregister"}, what : Objects]
    \cup [call : {"endRollback"}]

Entry(t) == IF t.index < size[t.kind] THEN table[t.kind][t.index] ELSE Null

\* What a table holds.
Live == {o \in Objects : \E y \in Types : Entry(y) = o}

\* What has been registered, and perhaps destroyed again.
Registered == {o \in Objects : type[o] # NoType}

\* The constructor reserves the ids of the built-in class and enumeration, 1.
Init ==
  /\ table = [k \in Kinds |-> [i \in Index |->
                IF k \in {"class", "enum"} /\ i = 1 THEN Reserved ELSE Null]]
  /\ size = [k \in Kinds |-> IF k \in {"class", "enum"} THEN 2 ELSE 0]
  /\ type = [o \in Objects |-> NoType]
  /\ prototype = [o \in Objects |-> NoObject]
  /\ classes = [x \in Objects \cup Namespaces |-> <<>>]
  /\ enums = [x \in Objects \cup Namespaces |-> <<>>]
  /\ deleted = {} /\ listeners = <<>> /\ active = NoTransaction
  /\ m_types = [t \in Transactions |-> <<>>]
  /\ since = [t \in Transactions |-> {}]
  /\ todo = <<>> /\ rolledBack = FALSE /\ undefined = FALSE

\* No call is in progress, and nothing undefined has happened.
Idle == todo = <<>> /\ ~undefined
Doing(call) == todo # <<>> /\ ~undefined /\ Head(todo).call = call
Then(calls) == todo' = calls \o Tail(todo)

Listening(t) == \E i \in DOMAIN listeners : listeners[i] = t

\* A defect: only the active transaction is told.
CreatedForActive(t) ==
  [u \in Transactions |-> IF u = active THEN Append(m_types[u], t) ELSE m_types[u]]

\* notify_creation
Created(t) ==
  [u \in Transactions |-> IF Listening(u) THEN Append(m_types[u], t) ELSE m_types[u]]

\* destroyed: std::find, and erase.
Erase(types, t) ==
  IF \E i \in DOMAIN types : types[i] = t
  THEN RemoveAt(types, CHOOSE i \in DOMAIN types : types[i] = t)
  ELSE types

\* notify_destruction
Destroyed(t) ==
  [u \in Transactions |-> IF Listening(u) THEN Erase(m_types[u], t) ELSE m_types[u]]

-----------------------------------------------------------------------------
(* Creation *)

\* An id may be asked for if nothing but a reservation has it.
Free(k, i) == i \in Requests /\ (i >= size[k] \/ table[k][i] \in {Null, Reserved})

\* The vector grows to hold the new index.
Register(o, k, i) ==
  /\ o \notin Registered /\ i \in Index
  /\ table' = [table EXCEPT ![k][i] = o]
  /\ size' = [size EXCEPT ![k] = IF @ <= i THEN i + 1 ELSE @]
  /\ type' = [type EXCEPT ![o] = [kind |-> k, index |-> i]]
  /\ m_types' = Created([kind |-> k, index |-> i])
  /\ UNCHANGED <<deleted, listeners, active, since, todo, rolledBack, undefined>>

\* ClassBuilder::get and register_class, in a namespace or a class; a template
\* instance is a member of nothing.
NewClass(o, owner, i) ==
  /\ Idle
  /\ i = size["class"] \/ Free("class", i)
  /\ Register(o, "class", i)
  /\ classes' = IF owner = NoOwner THEN classes
                ELSE [classes EXCEPT ![owner] = Append(@, o)]
  /\ UNCHANGED <<prototype, enums>>

\* EnumBuilder::get and register_enum
NewEnum(o, owner, i) ==
  /\ Idle /\ owner # NoOwner
  /\ i = size["enum"] \/ Free("enum", i)
  /\ Register(o, "enum", i)
  /\ enums' = [enums EXCEPT ![owner] = Append(@, o)]
  /\ UNCHANGED <<prototype, classes>>

NewLambda(o) ==
  /\ Idle
  /\ Register(o, "closure", size["closure"])
  /\ UNCHANGED <<prototype, classes, enums>>

\* A defect: the search misses the last function type.
KnownButLast(p) ==
  \E i \in 0 .. size["function"] - 2 :
    prototype[Entry([kind |-> "function", index |-> i])] = p

\* The function type of a prototype, if there is one in the table.
Known(p) ==
  \E i \in Index : LET f == Entry([kind |-> "function", index |-> i]) IN
                   f \in Objects /\ prototype[f] = p

\* getFunctionType(prototype) creates the type unless it finds it.
NewFunctionType(o, p) ==
  /\ Idle /\ ~Known(p)
  /\ Register(o, "function", size["function"])
  /\ prototype' = [prototype EXCEPT ![o] = p]
  /\ UNCHANGED <<classes, enums>>

\* TypeSystem::reserve, one id.
Reserve(k) ==
  /\ Idle /\ size[k] \in Index
  /\ table' = [table EXCEPT ![k][size[k]] = Reserved]
  /\ size' = [size EXCEPT ![k] = @ + 1]
  /\ UNCHANGED <<type, prototype, classes, enums, deleted, listeners, active, m_types,
                 since, todo, rolledBack, undefined>>

-----------------------------------------------------------------------------
(* Destruction *)

\* destroy(Enum) and destroy(Class) on each enumeration, then each class.
DestroyMembers(x) ==
  LET list == enums[x] \o classes[x] IN
  [i \in DOMAIN list |-> [call |-> "destroy", what |-> list[i]]]

\* A defect: the namespace keeps its members.
DestroyNamespaceOnly(ns) ==
  /\ Idle
  /\ todo' = DestroyMembers(ns)
  /\ UNCHANGED <<table, size, type, prototype, classes, enums, deleted, listeners, active,
                 m_types, since, rolledBack, undefined>>

\* EngineImpl::destroy(Namespace)
DestroyNamespace(ns) ==
  /\ Idle
  /\ todo' = DestroyMembers(ns)
  /\ classes' = [classes EXCEPT ![ns] = <<>>]
  /\ enums' = [enums EXCEPT ![ns] = <<>>]
  /\ UNCHANGED <<table, size, type, prototype, deleted, listeners, active,
                 m_types, since, rolledBack, undefined>>

\* A defect: squeeze keeps the hole that an entry leaves.
SizeWithHoles(entries, n) == {n}

\* squeeze: the sizes left when the null entries at the end are removed.
Squeezed(entries, n) ==
  {m \in 0 .. n : /\ m > 0 => entries[m - 1] # Null
                  /\ \A i \in m .. n - 1 : entries[i] = Null}

\* The entry becomes null, and the vector shrinks.
Vacate(t) ==
  LET entries == [table[t.kind] EXCEPT ![t.index] = Null] IN
  /\ table' = [table EXCEPT ![t.kind] = entries]
  /\ \E m \in Squeezed(entries, size[t.kind]) : size' = [size EXCEPT ![t.kind] = m]

\* unregister_class and unregister_enum: by the id of the object, whatever is there.
UnregisterObject(o) ==
  /\ type[o].index < size[type[o].kind]
  /\ Vacate(type[o])
  /\ m_types' = Destroyed(type[o])
  /\ deleted' = deleted \cup {o}
  /\ Then(<<>>)
  /\ UNCHANGED <<type, prototype, classes, enums, listeners, active, since,
                 rolledBack, undefined>>

\* destroy(Enum)
DestroyEnum ==
  /\ Doing("destroy") /\ type[Head(todo).what].kind = "enum"
  /\ UnregisterObject(Head(todo).what)

\* destroy(Class) before unregister_class; impl->classes is cleared, impl->enums
\* is not.
DestroyClass ==
  /\ Doing("destroy") /\ type[Head(todo).what].kind = "class"
  /\ LET c == Head(todo).what IN
     /\ Then(DestroyMembers(c) \o <<[call |-> "unregister", what |-> c]>>)
     /\ classes' = [classes EXCEPT ![c] = <<>>]
  /\ UNCHANGED <<table, size, type, prototype, enums, deleted, listeners, active,
                 m_types, since, rolledBack, undefined>>

UnregisterClass ==
  /\ Doing("unregister")
  /\ UnregisterObject(Head(todo).what)

\* destroy(Type) copies the class or the enumeration at the index, and destroys it.
DestroyType ==
  /\ Doing("destroyType")
  /\ LET t == Head(todo).type IN
     /\ t.kind \in {"class", "enum"} /\ Entry(t) \in Objects
     /\ Then(<<[call |-> "destroy", what |-> Entry(t)]>>)
  /\ UNCHANGED <<table, size, type, prototype, classes, enums, deleted, listeners,
                 active, m_types, since, rolledBack, undefined>>

\* unregister_function takes the index from the entry it is given: a null entry
\* has the null type, whose index is 0.
Freed(t) == IF Entry(t) \in Objects THEN t ELSE [t EXCEPT !.index = 0]

\* unregister_closure and unregister_function are given the entry itself and read
\* its id once more after they have cleared it: from a null pointer for a closure,
\* no type at all for a function type.
UnregisterEntry ==
  /\ Doing("destroyType")
  /\ LET t == Head(todo).type IN
     /\ \/ t.kind \in {"closure", "function"} /\ Entry(t) \in Objects
        \/ t.kind = "function" /\ t.index < size["function"]
     /\ Vacate(Freed(t))
     /\ m_types' = Destroyed(NoType)
     /\ deleted' = deleted \cup (Objects \cap {Entry(Freed(t))})
     /\ undefined' = (t.kind = "closure")
  /\ Then(<<>>)
  /\ UNCHANGED <<type, prototype, classes, enums, listeners, active, since, rolledBack>>

\* Destroying a type that is not there, a function type past the end, or writing
\* past the end of a vector: the behaviour is undefined from here on.
Fail ==
  /\ \/ /\ Doing("destroyType") /\ Entry(Head(todo).type) \notin Objects
        /\ Head(todo).type.kind = "function" => Head(todo).type.index >= size["function"]
     \/ /\ Doing("destroy") /\ type[Head(todo).what].kind = "enum"
        /\ type[Head(todo).what].index >= size["enum"]
     \/ Doing("unregister") /\ type[Head(todo).what].index >= size["class"]
  /\ undefined' = TRUE
  /\ UNCHANGED <<table, size, type, prototype, classes, enums, deleted, listeners,
                 active, m_types, since, todo, rolledBack>>

-----------------------------------------------------------------------------
(* Transactions: C++ objects in scopes, the innermost is the last to start *)

Start(t) ==
  /\ Idle /\ ~Listening(t)
  /\ listeners' = Append(listeners, t)
  /\ active' = IF active = NoTransaction THEN t ELSE active
  /\ since' = [since EXCEPT ![t] = Registered]
  /\ UNCHANGED <<table, size, type, prototype, classes, enums, deleted, m_types, todo,
                 rolledBack, undefined>>

\* commit and rollback clear active_transaction if it is the one that ends.
ActiveAfter(t) == IF active = t THEN NoTransaction ELSE active

\* removeListener
Stop(t) ==
  /\ listeners' = Front(listeners)
  /\ active' = ActiveAfter(t)
  /\ m_types' = [m_types EXCEPT ![t] = <<>>]
  /\ since' = [since EXCEPT ![t] = {}]

Commit ==
  /\ Idle /\ listeners # <<>>
  /\ Stop(Last(listeners))
  /\ UNCHANGED <<table, size, type, prototype, classes, enums, deleted, todo, rolledBack,
                 undefined>>

\* A defect: rollback forgets the first of the types.
RolledBackButFirst(types) ==
  [i \in 1 .. Len(types) - 1 |-> [call |-> "destroyType", type |-> types[i + 1]]]

\* rollback: types is what m_types was.
RolledBack(types) ==
  [i \in DOMAIN types |-> [call |-> "destroyType", type |-> types[i]]]

BeginRollback ==
  /\ Idle /\ listeners # <<>>
  /\ todo' = RolledBack(m_types[Last(listeners)]) \o <<[call |-> "endRollback"]>>
  /\ m_types' = [m_types EXCEPT ![Last(listeners)] = <<>>]
  /\ rolledBack' = TRUE
  /\ UNCHANGED <<table, size, type, prototype, classes, enums, deleted, listeners,
                 active, since, undefined>>

EndRollback ==
  /\ Doing("endRollback")
  /\ Stop(Last(listeners))
  /\ Then(<<>>)
  /\ UNCHANGED <<table, size, type, prototype, classes, enums, deleted, rolledBack,
                 undefined>>

-----------------------------------------------------------------------------

\* The classes that exist may have members.
Owners == {NoOwner} \cup Namespaces
            \cup {c \in Objects : type[c].kind = "class" /\ c \notin deleted}

Next ==
  \/ \E o \in Objects, owner \in Owners, i \in Index :
       NewClass(o, owner, i) \/ NewEnum(o, owner, i)
  \/ \E o \in Objects : NewLambda(o)
  \/ \E o \in Objects, p \in Prototypes : NewFunctionType(o, p)
  \/ \E k \in {"class", "enum"} : Reserve(k)
  \/ \E ns \in Namespaces : DestroyNamespace(ns)
  \/ DestroyType \/ DestroyEnum \/ DestroyClass
  \/ UnregisterClass \/ UnregisterEntry \/ Fail
  \/ \E t \in Transactions : Start(t)
  \/ Commit \/ BeginRollback \/ EndRollback

Spec == Init /\ [][Next]_vars

-----------------------------------------------------------------------------
(* Properties *)

TypeOK ==
  /\ table \in [Kinds -> [Index -> Entries]]
  /\ size \in [Kinds -> 0 .. MaxTypes]
  /\ type \in [Objects -> Types \cup {NoType}]
  /\ prototype \in [Objects -> Prototypes \cup {NoObject}]
  /\ classes \in [Objects \cup Namespaces -> Seq(Objects)]
  /\ enums \in [Objects \cup Namespaces -> Seq(Objects)]
  /\ deleted \in SUBSET Objects
  /\ listeners \in Seq(Transactions)
  /\ active \in Transactions \cup {NoTransaction}
  /\ m_types \in [Transactions -> Seq(Types)]
  /\ since \in [Transactions -> SUBSET Objects]
  /\ todo \in Seq(Calls)
  /\ rolledBack \in BOOLEAN /\ undefined \in BOOLEAN

\* An entry is found under the id that its object was given, so no object is in
\* two entries; a vector ends with an entry, so that the next id is new and as
\* small as squeeze allows (register_class, register_enum, squeeze).
IdsNameEntries ==
  /\ \A y \in Types : Entry(y) \in Objects => type[Entry(y)] = y
  /\ \A k \in Kinds :
       /\ size[k] > 0 => table[k][size[k] - 1] # Null
       /\ \A i \in Index : i >= size[k] => table[k][i] = Null

\* Until a transaction is rolled back, every type that was registered and not
\* destroyed is found under its id: whatever is destroyed, with its members, the
\* ids it frees are its own (TypeSystem::exists, getClass).
FoundUnderItsId ==
  ~rolledBack =>
    \A o \in Registered \ deleted : Entry(type[o]) = o

\* Two function types never have the same prototype: types are compared by id
\* (getFunctionType, Conversion).
OneTypePerPrototype ==
  \A f, g \in Live :
    /\ type[f].kind = "function" /\ type[g].kind = "function"
    /\ prototype[f] = prototype[g]
    => f = g

Rolling == todo # <<>> /\ Last(todo).call = "endRollback"

\* Between two operations, and while others are destroyed, a transaction has
\* recorded once each type made since it started that still exists, and nothing
\* else: neither what an inner transaction has undone, nor an id that now names
\* another type (created, destroyed).  Function types are left out: destroying
\* one notifies nobody.
RecordsWhatItMade ==
  ~undefined =>
    \A n \in DOMAIN listeners : n < Len(listeners) \/ ~Rolling =>
      LET types == m_types[listeners[n]] IN
      \A y \in Types : y.kind # "function" =>
        /\ (\E i \in DOMAIN types : types[i] = y)
             <=> Entry(y) \in Objects \ since[listeners[n]]
        /\ \A i, j \in DOMAIN types : types[i] = y /\ types[j] = y => i = j

\* hasActiveTransaction() tells whether any transaction is running, and the
\* active one is alive: the outermost.
ActiveIsOutermost ==
  active = IF listeners = <<>> THEN NoTransaction ELSE listeners[1]

\* A transaction knows what to reverse, and the engine which one is to be told
\* first, however transactions are nested and end.
TransactionsAreSound == RecordsWhatItMade /\ ActiveIsOutermost

\* The types whose destruction is announced to no transaction.
Unannounced == {o \in Registered : type[o].kind = "function"}

\* "Reverse all changes made since the beginning of the transaction": when a
\* transaction is rolled back, the types made since it started are removed, all of
\* them, and of the older ones none but, perhaps, function types (see
\* RollbackSparesOlder).  TypeTransactions says what that means.
Transactional ==
  INSTANCE TypeTransactions WITH
    types <- Live,
    ever <- Registered,
    unannounced <- Unannounced,
    marks <- [n \in DOMAIN listeners |-> since[listeners[n]]],
    undoing <- Rolling

ImplementsTransactions == Transactional!Spec

\* The same line of the documentation, and "Provides safe way to modify the
\* type-system": a rollback comes to its end.
RollbackIsSafe == Rolling => ~undefined

\* The same line again, for all types: a rollback removes nothing older than its
\* transaction.  A function type made and removed in an inner transaction stays in
\* the record of the outer one; if its index has been given again, the rollback
\* of the outer one clears it twice, the second time the entry at index 0.
RollbackSparesOlder ==
  [][Rolling => Live \cap since[Last(listeners)] \subseteq Live']_vars

=============================================================================
