---------------------------- MODULE ScopesProofs ----------------------------
(***************************************************************************)
(* What Scopes promises, for any declarations, modules and bounds.         *)
(***************************************************************************)
EXTENDS Scopes, FiniteSetTheorems, WellFoundedInduction, TLAPS

NodeKinds == {"ScriptScope", "NamespaceScope", "ClassScope", "FunctionScope"}

\* The fields of a node, each of which may hold anything but for its chain.
IsNode(n) ==
  n \in [kind : NodeKinds, of : {n.of}, chain : Seq(Ids), imports : Seq(ToSet(n.imports)),
         spaceAliases : {n.spaceAliases}, aliases : {n.aliases}, injected : {n.injected},
         cached : [Kinds -> {n.cached["class"], n.cached["function"]}]]

Live(h) == {i \in Ids : h[i] # None}

\* The chain of the n-th node of a chain is the rest of that chain.
HasTails(h, i) ==
  \A n \in 1 .. Len(Chain(h, i)) :
    LET tail == Chain(h, Chain(h, i)[n])
    IN /\ Len(tail) = Len(Chain(h, i)) - n + 1
       /\ \A m \in 1 .. Len(tail) : tail[m] = Chain(h, i)[n + m - 1]

\* A chain begins with the node that it is the chain of, and ends with a namespace.
HasChain(h, i) ==
  /\ Chain(h, i) \in Seq(Live(h)) /\ Len(Chain(h, i)) > 0
  /\ Chain(h, i)[1] = i
  /\ IsSpace(h[Chain(h, i)[Len(Chain(h, i))]])
  /\ HasTails(h, i)

Good(h) ==
  /\ h = [i \in Ids |-> h[i]]
  /\ \A i \in Live(h) : IsNode(h[i]) /\ HasChain(h, i)

\* Nodes that differ in nothing but their caches, in nothing but what the
\* directives make of them.
Same(n, m) == IsNode(m) /\ \A field \in DOMAIN n \ {"cached"} : m[field] = n[field]
SameShape(n, m) == IsNode(m) /\ m.kind = n.kind /\ m.of = n.of /\ m.chain = n.chain

Reread(h, g) ==
  /\ g = [i \in Ids |-> g[i]]
  /\ \A i \in Ids : IF h[i] = None THEN g[i] = None ELSE Same(h[i], g[i])

Rewritten(h, g) ==
  /\ g = [i \in Ids |-> g[i]]
  /\ \A i \in Ids : IF h[i] = None THEN g[i] = None ELSE SameShape(h[i], g[i])

-----------------------------------------------------------------------------
(* Nodes. *)

LEMMA NodeFields ==
  ASSUME NEW n, IsNode(n)
  PROVE  /\ n # None /\ n.kind \in NodeKinds /\ n.chain \in Seq(Ids)
         /\ n.imports \in Seq(ToSet(n.imports))
         /\ DOMAIN n = {"kind", "of", "chain", "imports", "spaceAliases", "aliases", "injected", "cached"}
         /\ n.cached \in [Kinds -> {n.cached["class"], n.cached["function"]}]
<1>1. n # None /\ n.kind \in NodeKinds /\ n.chain \in Seq(Ids) /\ n.imports \in Seq(ToSet(n.imports))
      /\ n.cached \in [Kinds -> {n.cached["class"], n.cached["function"]}]
  BY DEF IsNode, None, NodeKinds
<1>2. DOMAIN n = {"kind", "of", "chain", "imports", "spaceAliases", "aliases", "injected", "cached"}
  BY DEF IsNode
<1> QED BY <1>1, <1>2

\* Each field of a node can be replaced.
LEMMA NodeMade ==
  ASSUME NEW kind \in NodeKinds, NEW of, NEW chain \in Seq(Ids), NEW imports, imports \in Seq(ToSet(imports)),
         NEW spaceAliases, NEW aliases, NEW injected, NEW cached,
         cached \in [Kinds -> {cached["class"], cached["function"]}]
  PROVE  IsNode([kind |-> kind, of |-> of, chain |-> chain, imports |-> imports, spaceAliases |-> spaceAliases,
                 aliases |-> aliases, injected |-> injected, cached |-> cached])
BY DEF IsNode

LEMMA NodeRead ==
  ASSUME NEW n, IsNode(n), NEW k \in Kinds, NEW x
  PROVE  /\ Same(n, [n EXCEPT !.cached[k] = x]) /\ Same(n, n)
         /\ [n EXCEPT !.cached[k] = x].cached = [n.cached EXCEPT ![k] = x]
<1>1. DOMAIN n = {"kind", "of", "chain", "imports", "spaceAliases", "aliases", "injected", "cached"}
  BY NodeFields
<1> DEFINE m == [n EXCEPT !.cached[k] = x]
<1>2. m.cached = [n.cached EXCEPT ![k] = x] /\ \A field \in DOMAIN n \ {"cached"} : m[field] = n[field]
  BY <1>1
<1>3. IsNode(m)
  BY <1>2 DEF IsNode, Kinds
<1> QED BY <1>2, <1>3 DEF Same

LEMMA SameTrans ==
  ASSUME NEW n, NEW m, NEW o, IsNode(n), Same(n, m), Same(m, o)
  PROVE  Same(n, o)
<1>1. DOMAIN n = DOMAIN m
  BY NodeFields DEF Same
<1> QED BY <1>1 DEF Same

LEMMA SameIsShape ==
  ASSUME NEW n, NEW m, IsNode(n), Same(n, m)
  PROVE  SameShape(n, m) /\ m.imports = n.imports /\ m.aliases = n.aliases /\ m.injected = n.injected
         /\ m.spaceAliases = n.spaceAliases
BY NodeFields DEF Same, SameShape

\* Listing what a node holds changes its caches at most.
LEMMA ReadSame ==
  ASSUME NEW n, IsNode(n), NEW k \in Kinds
  PROVE  Same(n, Read(n, k))
BY NodeRead DEF Read

LEMMA LookupReadsSame ==
  ASSUME NEW n, IsNode(n), NEW name
  PROVE  Same(n, LookupReads(n, name))
<1>1. Same(n, Read(n, "class")) /\ IsNode(Read(n, "class")) /\ Same(n, n)
  BY ReadSame, NodeRead DEF Kinds, Same
<1>2. Same(Read(n, "class"), Read(Read(n, "class"), "function"))
  BY <1>1, ReadSame DEF Kinds
<1>3. Same(n, Read(Read(n, "class"), "function"))
  BY <1>1, <1>2, SameTrans
<1> QED BY <1>1, <1>3 DEF LookupReads

-----------------------------------------------------------------------------
(* Heaps. *)

LEMMA GoodNode ==
  ASSUME NEW h, Good(h), NEW i \in Live(h)
  PROVE  IsNode(h[i]) /\ HasChain(h, i) /\ i \in Ids /\ h[i] # None
BY DEF Good, Live

LEMMA ChainElement ==
  ASSUME NEW h, Good(h), NEW i \in Live(h), NEW n \in 1 .. Len(Chain(h, i))
  PROVE  Chain(h, i)[n] \in Live(h) /\ Chain(h, i)[n] \in ToSet(Chain(h, i))
<1>1. Chain(h, i) \in Seq(Live(h))
  BY GoodNode DEF HasChain
<1> QED BY <1>1 DEF ToSet

LEMMA ChainMembers ==
  ASSUME NEW h, Good(h), NEW i \in Live(h)
  PROVE  /\ ToSet(Chain(h, i)) \subseteq Live(h) /\ i \in ToSet(Chain(h, i))
         /\ \A j \in ToSet(Chain(h, i)) : \E n \in 1 .. Len(Chain(h, i)) : Chain(h, i)[n] = j
<1>1. Chain(h, i) \in Seq(Live(h)) /\ Len(Chain(h, i)) > 0 /\ Chain(h, i)[1] = i
  BY GoodNode DEF HasChain
<1> QED BY <1>1 DEF ToSet

LEMMA ChainNodes ==
  ASSUME NEW h, Good(h), NEW i \in Live(h)
  PROVE  /\ Chain(h, i) \in Seq(Live(h)) /\ Len(Chain(h, i)) \in Nat \ {0}
         /\ IsSpace(h[Chain(h, i)[Len(Chain(h, i))]])
         /\ \A m \in 1 .. Len(Chain(h, i)) : Chain(h, i)[m] \in Live(h) /\ IsNode(h[Chain(h, i)[m]])
<1>1. HasChain(h, i)
  BY GoodNode
<1>2. /\ Chain(h, i) \in Seq(Live(h)) /\ Len(Chain(h, i)) \in Nat \ {0}
      /\ IsSpace(h[Chain(h, i)[Len(Chain(h, i))]])
  BY <1>1 DEF HasChain
<1>3. ASSUME NEW m \in 1 .. Len(Chain(h, i)) PROVE Chain(h, i)[m] \in Live(h) /\ IsNode(h[Chain(h, i)[m]])
  <2>1. Chain(h, i)[m] \in Live(h)
    BY ChainElement
  <2> QED BY <2>1, GoodNode
<1> QED BY <1>2, <1>3

\* What keeps the kinds and chains of the nodes keeps the heap well-formed.
LEMMA RewrittenGood ==
  ASSUME NEW h, NEW g, Good(h), Rewritten(h, g)
  PROVE  Good(g) /\ Live(g) = Live(h) /\ \A i \in Live(h) : Chain(g, i) = Chain(h, i)
<1>1. Live(g) = Live(h)
  <2>1. ASSUME NEW i \in Ids, h[i] # None PROVE g[i] # None
    BY <2>1, NodeFields DEF Rewritten, SameShape
  <2> QED BY <2>1 DEF Live, Rewritten
<1>2. \A i \in Live(h) : SameShape(h[i], g[i]) /\ Chain(g, i) = Chain(h, i)
  BY DEF Live, Rewritten, SameShape, Chain
<1>3. ASSUME NEW i \in Live(h) PROVE IsNode(g[i]) /\ HasChain(g, i)
  <2>1. HasChain(h, i)
    BY GoodNode
  <2>2. \A n \in 1 .. Len(Chain(h, i)) : Chain(h, i)[n] \in Live(h)
    BY ChainElement
  <2>3. HasTails(g, i)
    <3>1. HasTails(h, i)
      BY <2>1 DEF HasChain
    <3>2. Chain(g, i) = Chain(h, i) /\ \A n \in 1 .. Len(Chain(h, i)) : Chain(g, Chain(h, i)[n]) = Chain(h, Chain(h, i)[n])
      BY <1>2, <2>2
    <3> QED BY <3>1, <3>2 DEF HasTails
  <2>4. IsSpace(g[Chain(g, i)[Len(Chain(g, i))]])
    BY <1>2, <2>1, <2>2 DEF HasChain, IsSpace, SameShape
  <2> QED BY <1>1, <1>2, <2>1, <2>3, <2>4 DEF HasChain, SameShape
<1> QED BY <1>1, <1>2, <1>3 DEF Good, Rewritten

LEMMA RereadRewritten ==
  ASSUME NEW h, NEW g, Good(h), Reread(h, g)
  PROVE  Rewritten(h, g)
<1>1. ASSUME NEW i \in Ids, h[i] # None PROVE SameShape(h[i], g[i])
  BY <1>1, GoodNode, SameIsShape DEF Reread, Live
<1> QED BY <1>1 DEF Reread, Rewritten

LEMMA RereadSelf ==
  ASSUME NEW h, Good(h)
  PROVE  Reread(h, h) /\ Rewritten(h, h)
<1>1. ASSUME NEW i \in Ids, h[i] # None PROVE Same(h[i], h[i])
  BY <1>1, GoodNode DEF Same, Live
<1>2. Reread(h, h)
  BY <1>1 DEF Reread, Good
<1> QED BY <1>2, RereadRewritten

\* The first of some positions.
LEMMA FirstIsLeast ==
  ASSUME NEW S, S \subseteq Nat, S # {}
  PROVE  FirstOf(S) \in S /\ \A m \in S : FirstOf(S) <= m
<1>1. IsWellFoundedOn(OpToRel(<, Nat), Nat)
  BY NatLessThanWellFounded
<1>2. \E n \in S : \A m \in S : ~(<<m, n>> \in OpToRel(<, Nat))
  BY <1>1, WFMin
<1> DEFINE less == OpToRel(<, Nat)
<1>3. less = {p \in Nat \X Nat : p[1] < p[2]}
  BY DEF OpToRel
<1>4. \E n \in S : \A m \in S : ~(<<m, n>> \in less)
  BY <1>2
<1> HIDE DEF less
<1>5. PICK n \in S : \A m \in S : ~(<<m, n>> \in less)
  BY <1>4
<1>6. ASSUME NEW m \in S PROVE n <= m
  <2>1. <<m, n>> \in Nat \X Nat /\ <<m, n>>[1] = m /\ <<m, n>>[2] = n /\ m \in Nat /\ n \in Nat
    OBVIOUS
  <2>2. ~(<<m, n>>[1] < <<m, n>>[2])
    BY ONLY <1>3, <1>5, <2>1, m \in S, Zenon
  <2> QED BY ONLY <2>1, <2>2
<1> QED BY <1>6 DEF FirstOf

\* The search in a chain stays in it.
LEMMA VisitedInChain ==
  ASSUME NEW S, NEW chain \in Seq(S), NEW found, found \subseteq 1 .. Len(chain)
  PROVE  \A i \in {chain[n] : n \in 1 .. (IF found = {} THEN Len(chain) ELSE FirstOf(found))} : i \in S
<1>1. found # {} => FirstOf(found) \in 1 .. Len(chain)
  <2>1. found \subseteq Nat
    OBVIOUS
  <2> QED BY <2>1, FirstIsLeast
<1> QED BY <1>1

LEMMA LookupRereads ==
  ASSUME NEW h, Good(h), NEW id \in Live(h), NEW name
  PROVE  Reread(h, Lookup(h, id, name).heap)
<1> DEFINE chain == Chain(h, id)
           found == {n \in DOMAIN chain : LookupIn(h[chain[n]], name) # Nothing}
           last == IF found = {} THEN Len(chain) ELSE FirstOf(found)
           visited == {chain[n] : n \in 1 .. last}
           g == Lookup(h, id, name).heap
<1>1. chain \in Seq(Live(h))
  BY GoodNode DEF HasChain
<1>2. found \subseteq 1 .. Len(chain)
  BY <1>1
<1>3. \A i \in visited : i \in Live(h)
  BY ONLY <1>1, <1>2, VisitedInChain
<1>4. g = [i \in Ids |-> IF i \in visited THEN LookupReads(h[i], name) ELSE h[i]]
  BY DEF Lookup
<1> HIDE DEF visited, g
<1>5. ASSUME NEW i \in Ids PROVE IF h[i] = None THEN g[i] = None ELSE Same(h[i], g[i])
  <2>1. CASE h[i] = None
    BY <1>3, <1>4, <2>1 DEF Live
  <2>2. CASE h[i] # None
    <3>1. IsNode(h[i]) /\ Same(h[i], LookupReads(h[i], name)) /\ Same(h[i], h[i])
      BY <2>2, GoodNode, LookupReadsSame DEF Live, Same
    <3> QED BY <1>4, <2>2, <3>1
  <2> QED BY <2>1, <2>2
<1>6. Reread(h, g)
  BY <1>4, <1>5 DEF Reread
<1> QED BY <1>6 DEF g

LEMMA ResolveRereads ==
  ASSUME NEW h, Good(h), NEW id \in Live(h), NEW name
  PROVE  Reread(h, Resolve(h, id, name).heap)
BY LookupRereads, RereadSelf DEF Resolve

LEMMA QualifiedRereads ==
  ASSUME NEW h, Good(h), NEW id \in Live(h), NEW space, NEW name
  PROVE  Reread(h, QualifiedLookup(h, id, space, name).heap)
<1> DEFINE chain == Chain(h, id)
           found == {n \in DOMAIN chain : Child(h[chain[n]], space) # None}
           last == IF found = {} THEN Len(chain) ELSE FirstOf(found)
           visited == {chain[n] : n \in 1 .. last}
           g == SpaceCalled(h, id, space).heap
<1>1. chain \in Seq(Live(h))
  BY GoodNode DEF HasChain
<1>2. found \subseteq 1 .. Len(chain)
  BY <1>1
<1>3. \A i \in visited : i \in Live(h)
  BY ONLY <1>1, <1>2, VisitedInChain
<1>4. g = [i \in Ids |-> IF i \in visited THEN Read(h[i], "class") ELSE h[i]]
  BY DEF SpaceCalled
<1> HIDE DEF visited, g
<1>5. ASSUME NEW i \in Ids PROVE IF h[i] = None THEN g[i] = None ELSE Same(h[i], g[i])
  <2>1. CASE h[i] = None
    BY <1>3, <1>4, <2>1 DEF Live
  <2>2. CASE h[i] # None
    <3>1. IsNode(h[i]) /\ Same(h[i], Read(h[i], "class")) /\ Same(h[i], h[i])
      BY <2>2, GoodNode, ReadSame DEF Live, Same, Kinds
    <3> QED BY <1>4, <2>2, <3>1
  <2> QED BY <2>1, <2>2
<1>6. Reread(h, g)
  BY <1>4, <1>5 DEF Reread
<1> QED BY <1>6 DEF QualifiedLookup, g

LEMMA InvalidatedRereads ==
  ASSUME NEW h, Good(h), NEW id \in Live(h), NEW kind \in Kinds
  PROVE  Reread(h, Invalidated(h, id, kind))
<1> DEFINE g == Invalidated(h, id, kind)
<1>1. CASE ~IsSpace(h[id])
  BY <1>1, RereadSelf DEF Invalidated
<1>2. CASE IsSpace(h[id])
  <2>1. g = [i \in Ids |-> IF i = id THEN [h[i] EXCEPT !.cached[kind] = {}] ELSE h[i]]
    BY <1>2 DEF Invalidated, Good
  <2> HIDE DEF g
  <2>2. ASSUME NEW i \in Ids PROVE IF h[i] = None THEN g[i] = None ELSE Same(h[i], g[i])
    <3>1. CASE h[i] = None
      BY <2>1, <3>1 DEF Live
    <3>2. CASE h[i] # None
      <4>1. Same(h[i], [h[i] EXCEPT !.cached[kind] = {}]) /\ Same(h[i], h[i])
        BY <3>2, GoodNode, NodeRead DEF Live
      <4> QED BY <2>1, <3>2, <4>1
    <3> QED BY <3>1, <3>2
  <2>3. Reread(h, g)
    BY <2>1, <2>2 DEF Reread
  <2> QED BY <2>3 DEF g
<1> QED BY <1>1, <1>2

-----------------------------------------------------------------------------
(* New nodes. *)

\* There is a node for each of the first n copies.
Room(h, n) == \A m \in 1 .. n : AtRank(Free(h), m) # {}

LEMMA NewIdIsFree ==
  ASSUME NEW h, NEW n \in Nat, NEW m \in 1 .. n, Room(h, n)
  PROVE  NewId(h, m) \in Ids /\ h[NewId(h, m)] = None /\ NewId(h, m) \in AtRank(Free(h), m)
<1>1. NewId(h, m) \in AtRank(Free(h), m)
  BY DEF Room, NewId, Nth
<1> QED BY <1>1 DEF AtRank, Free

LEMMA NewIdsDiffer ==
  ASSUME NEW h, NEW n \in Nat, NEW m \in 1 .. n, NEW o \in 1 .. n, Room(h, n), NewId(h, m) = NewId(h, o)
  PROVE  m = o
<1>1. NewId(h, m) \in AtRank(Free(h), m) /\ NewId(h, m) \in AtRank(Free(h), o)
  BY NewIdIsFree
<1>2. m - 1 = o - 1
  BY <1>1 DEF AtRank
<1> QED BY <1>2

\* The ids of the copies of a chain.
NewIds(h, n) == [m \in 1 .. n |-> NewId(h, m)]

LEMMA NewIdsSequence ==
  ASSUME NEW h, NEW n \in Nat \ {0}, Room(h, n)
  PROVE  /\ NewIds(h, n) \in Seq(Ids) /\ Len(NewIds(h, n)) = n /\ DOMAIN NewIds(h, n) = 1 .. n
         /\ NewIds(h, n) = SubSeq(NewIds(h, n), 1, n)
         /\ \A m \in 1 .. n : NewIds(h, n)[m] = NewId(h, m) /\ NewIds(h, n)[m] \in Ids
                              /\ h[NewIds(h, n)[m]] = None
<1>1. \A m \in 1 .. n : NewId(h, m) \in Ids /\ h[NewId(h, m)] = None
  BY NewIdIsFree
<1>2. NewIds(h, n) \in Seq(Ids) /\ Len(NewIds(h, n)) = n /\ DOMAIN NewIds(h, n) = 1 .. n
  BY <1>1 DEF NewIds
<1>3. \A m \in 1 .. n : NewIds(h, n)[m] = NewId(h, m)
  BY DEF NewIds
<1>4. NewIds(h, n) = SubSeq(NewIds(h, n), 1, n)
  BY <1>2
<1> QED BY <1>1, <1>2, <1>3, <1>4

\* The chain of a node, without the node's caches and in a new place.
Copied(n, new, m) == [n EXCEPT !.cached = Empty, !.chain = SubSeq(new, m, Len(new))]

LEMMA CopiedNode ==
  ASSUME NEW n, IsNode(n), NEW new \in Seq(Ids), NEW m \in 1 .. Len(new)
  PROVE  /\ IsNode(Copied(n, new, m)) /\ Copied(n, new, m).chain = SubSeq(new, m, Len(new))
         /\ Copied(n, new, m).cached = Empty
         /\ \A field \in DOMAIN n \ {"cached", "chain"} : Copied(n, new, m)[field] = n[field]
<1>1. SubSeq(new, m, Len(new)) \in Seq(Ids)
  OBVIOUS
<1>2. Empty = [k \in Kinds |-> {}] /\ Empty \in [Kinds -> {Empty["class"], Empty["function"]}]
  BY DEF Empty, Kinds
<1>3. DOMAIN n = {"kind", "of", "chain", "imports", "spaceAliases", "aliases", "injected", "cached"}
  BY NodeFields
<1>4. Copied(n, new, m).chain = SubSeq(new, m, Len(new)) /\ Copied(n, new, m).cached = Empty
      /\ \A field \in DOMAIN n \ {"cached", "chain"} : Copied(n, new, m)[field] = n[field]
  BY <1>3 DEF Copied
<1>5. IsNode(Copied(n, new, m))
  BY <1>1, <1>2, <1>4 DEF IsNode, Copied
<1> QED BY <1>4, <1>5

\* c is the heap h with copies of the nodes old at new, and the first of them.
CopyOf(h, old, c, new) ==
  /\ c.id = new[1] /\ c.heap = [i \in Ids |-> c.heap[i]]
  /\ \A i \in Ids \ ToSet(new) : c.heap[i] = h[i]
  /\ \A m \in 1 .. Len(old) : c.heap[new[m]] = Copied(h[old[m]], new, m)

LEMMA ClonedHeap ==
  ASSUME NEW h, Good(h), NEW id \in Live(h), Room(h, Len(Chain(h, id)))
  PROVE  CopyOf(h, Chain(h, id), Cloned(h, id), NewIds(h, Len(Chain(h, id))))
<1> DEFINE old == Chain(h, id)
           new == NewIds(h, Len(old))
           c == Cloned(h, id)
<1>1. old \in Seq(Live(h)) /\ Len(old) \in Nat \ {0}
  BY GoodNode DEF HasChain
<1>2. new \in Seq(Ids) /\ Len(new) = Len(old) /\ DOMAIN new = 1 .. Len(old) /\ \A m \in 1 .. Len(new) : new[m] \in Ids
  BY <1>1, NewIdsSequence
<1>3. new = [n \in DOMAIN old |-> NewId(h, n)]
  BY <1>1 DEF NewIds
<1>4. /\ c.id = new[1]
      /\ c.heap = [i \in Ids |-> IF i \in ToSet(new)
                                 THEN Copied(h[old[CHOOSE n \in DOMAIN new : new[n] = i]], new, CHOOSE n \in DOMAIN new : new[n] = i)
                                 ELSE h[i]]
  BY <1>3 DEF Cloned, Copied
<1>5. ASSUME NEW m \in 1 .. Len(new) PROVE (CHOOSE n \in DOMAIN new : new[n] = new[m]) = m
  <2> DEFINE o == CHOOSE n \in DOMAIN new : new[n] = new[m]
  <2>1. o \in DOMAIN new /\ new[o] = new[m]
    BY <1>2
  <2>2. NewId(h, o) = NewId(h, m) /\ o \in 1 .. Len(old) /\ m \in 1 .. Len(old)
    BY <1>1, <1>2, <2>1, NewIdsSequence
  <2> HIDE DEF o
  <2>3. o = m
    BY <1>1, <2>2, NewIdsDiffer
  <2> QED BY <2>3 DEF o
<1>6. ASSUME NEW m \in 1 .. Len(old) PROVE c.heap[new[m]] = Copied(h[old[m]], new, m)
  <2> DEFINE place(i) == CHOOSE n \in DOMAIN new : new[n] = i
  <2>1. new[m] \in Ids /\ new[m] \in ToSet(new) /\ place(new[m]) = m
    BY <1>2, <1>5 DEF ToSet
  <2>2. c.heap = [i \in Ids |-> IF i \in ToSet(new) THEN Copied(h[old[place(i)]], new, place(i)) ELSE h[i]]
    BY <1>4
  <2> HIDE DEF new, c, old, place
  <2>3. c.heap[new[m]] = Copied(h[old[place(new[m])]], new, place(new[m]))
    BY <2>1, <2>2
  <2> QED BY <2>1, <2>3
<1>7. c.heap = [i \in Ids |-> c.heap[i]] /\ \A i \in Ids \ ToSet(new) : c.heap[i] = h[i]
  <2> DEFINE value(i) == IF i \in ToSet(new)
                         THEN Copied(h[old[CHOOSE n \in DOMAIN new : new[n] = i]], new, CHOOSE n \in DOMAIN new : new[n] = i)
                         ELSE h[i]
  <2>1. c.heap = [i \in Ids |-> value(i)] /\ \A i \in Ids \ ToSet(new) : value(i) = h[i]
    BY <1>4
  <2> HIDE DEF value, new, c
  <2> QED BY <2>1
<1> HIDE DEF old, new, c
<1>8. CopyOf(h, old, c, new)
  BY <1>4, <1>6, <1>7 DEF CopyOf
<1> QED BY <1>8 DEF old, new, c

\* The nodes that were there stay what they are when there are more.
LEMMA GrownOld ==
  ASSUME NEW h, Good(h), NEW g, \A i \in Live(h) : g[i] = h[i]
  PROVE  \A i \in Live(h) : i \in Live(g) /\ IsNode(g[i]) /\ HasChain(g, i)
<1>1. SUFFICES ASSUME NEW i \in Live(h) PROVE i \in Live(g) /\ IsNode(g[i]) /\ HasChain(g, i)
  OBVIOUS
<1>2. IsNode(h[i]) /\ HasChain(h, i) /\ g[i] = h[i]
  BY GoodNode
<1>3. \A j \in Live(h) : j \in Live(g) /\ Chain(g, j) = Chain(h, j)
  BY DEF Live, Chain
<1>4. \A n \in 1 .. Len(Chain(h, i)) : Chain(h, i)[n] \in Live(h)
  BY ChainElement
<1>5. HasTails(g, i)
  <2> DEFINE c == Chain(h, i)
  <2>1. Chain(g, i) = c
    BY <1>3
  <2>2. SUFFICES ASSUME NEW n \in 1 .. Len(c)
                 PROVE  LET t == Chain(g, c[n])
                        IN Len(t) = Len(c) - n + 1 /\ \A m \in 1 .. Len(t) : t[m] = c[n + m - 1]
    BY <2>1 DEF HasTails
  <2>3. Chain(g, c[n]) = Chain(h, c[n])
    BY <1>3, <1>4
  <2> QED BY <1>2, <2>3 DEF HasTails, HasChain
<1>6. Chain(g, i) \in Seq(Live(g))
  BY <1>2, <1>3 DEF HasChain
<1>7. IsSpace(g[Chain(g, i)[Len(Chain(g, i))]])
  BY <1>2, <1>3, <1>4 DEF HasChain
<1> QED BY <1>2, <1>3, <1>5, <1>6, <1>7 DEF HasChain

\* A copy of the nodes of a chain: the others stay, and the new ones are chained alike.
LEMMA ClonedGood ==
  ASSUME NEW h, Good(h), NEW id \in Live(h), Room(h, Len(Chain(h, id)))
  PROVE  LET c == Cloned(h, id)
             new == NewIds(h, Len(Chain(h, id)))
         IN /\ Good(c.heap) /\ Live(c.heap) = Live(h) \cup ToSet(new)
            /\ Live(h) \cap ToSet(new) = {}
            /\ \A i \in Live(h) : c.heap[i] = h[i]
            /\ c.id \in Live(c.heap) /\ Chain(c.heap, c.id) = new
<1> DEFINE old == Chain(h, id)
           new == NewIds(h, Len(old))
           c == Cloned(h, id)
           g == c.heap
           L == Len(old)
<1>1. old \in Seq(Live(h)) /\ L \in Nat \ {0} /\ IsSpace(h[old[L]])
      /\ \A m \in 1 .. L : old[m] \in Live(h) /\ IsNode(h[old[m]])
  BY ChainNodes
<1>2. new \in Seq(Ids) /\ Len(new) = L /\ DOMAIN new = 1 .. L /\ new = SubSeq(new, 1, L)
      /\ \A m \in 1 .. L : new[m] \in Ids /\ h[new[m]] = None
  BY <1>1, NewIdsSequence
<1>3. /\ c.id = new[1] /\ g = [i \in Ids |-> g[i]]
      /\ \A i \in Ids \ ToSet(new) : g[i] = h[i]
      /\ \A m \in 1 .. L : g[new[m]] = Copied(h[old[m]], new, m)
  <2>1. CopyOf(h, old, c, new)
    BY ClonedHeap
  <2> HIDE DEF new, c, old
  <2> QED BY <2>1 DEF CopyOf
<1> HIDE DEF new, c, old, L, g
<1>4. Live(h) \cap ToSet(new) = {} /\ \A i \in Live(h) : g[i] = h[i]
  BY <1>2, <1>3 DEF Live, ToSet
<1>5. ASSUME NEW m \in 1 .. L
      PROVE  IsNode(g[new[m]]) /\ new[m] \in Live(g) /\ Chain(g, new[m]) = SubSeq(new, m, L)
             /\ g[new[m]].kind = h[old[m]].kind
  <2>1. IsNode(g[new[m]]) /\ g[new[m]].chain = SubSeq(new, m, L) /\ g[new[m]].kind = h[old[m]].kind
    <3>1. IsNode(h[old[m]]) /\ g[new[m]] = Copied(h[old[m]], new, m) /\ m \in 1 .. Len(new) /\ Len(new) = L
      BY <1>1, <1>2, <1>3
    <3>2. DOMAIN h[old[m]] = {"kind", "of", "chain", "imports", "spaceAliases", "aliases", "injected", "cached"}
      BY <3>1, NodeFields
    <3> DEFINE copy == Copied(h[old[m]], new, m)
    <3>3. /\ IsNode(copy) /\ copy.chain = SubSeq(new, m, Len(new))
          /\ \A field \in DOMAIN h[old[m]] \ {"cached", "chain"} : copy[field] = h[old[m]][field]
      BY <1>2, <3>1, CopiedNode
    <3> HIDE DEF copy
    <3>4. copy.kind = h[old[m]].kind
      BY <3>2, <3>3
    <3> QED BY <1>2, <3>1, <3>3, <3>4 DEF copy
  <2> QED BY <1>2, <2>1, NodeFields DEF Live, Chain
<1>6. Live(g) = Live(h) \cup ToSet(new)
  <2>1. ToSet(new) \subseteq Live(g)
    BY <1>2, <1>5 DEF ToSet
  <2>2. \A i \in Ids : i \in Live(g) => i \in Live(h) \/ i \in ToSet(new)
    BY <1>3 DEF Live
  <2>3. Live(h) \subseteq Live(g)
    BY <1>4 DEF Live
  <2> QED BY <2>1, <2>2, <2>3 DEF Live
<1>7. ASSUME NEW m \in 1 .. L PROVE HasChain(g, new[m])
  <2> DEFINE tail == SubSeq(new, m, L)
  <2>1. /\ Chain(g, new[m]) = tail /\ Len(tail) = L - m + 1 /\ L - m + 1 \in Nat \ {0}
        /\ \A n \in 1 .. Len(tail) : tail[n] = new[n + m - 1] /\ n + m - 1 \in 1 .. L
    BY <1>1, <1>2, <1>5
  <2>2. tail \in Seq(Live(g))
    <3>1. \A n \in 1 .. L : new[n] \in Live(g)
      BY <1>5
    <3>2. tail \in Seq(Ids)
      BY <1>1, <1>2
    <3>3. \A n \in 1 .. Len(tail) : tail[n] \in Live(g)
      BY <2>1, <3>1
    <3> HIDE DEF tail
    <3> QED BY <3>2, <3>3
  <2>3. tail[1] = new[m] /\ tail[Len(tail)] = new[L]
    BY <1>1, <2>1
  <2>4. IsSpace(g[new[L]])
    BY <1>1, <1>5 DEF IsSpace
  <2>5. HasTails(g, new[m])
    <3>1. SUFFICES ASSUME NEW n \in 1 .. Len(tail)
                   PROVE  LET t == Chain(g, tail[n])
                          IN Len(t) = Len(tail) - n + 1 /\ \A o \in 1 .. Len(t) : t[o] = tail[n + o - 1]
      <4>1. Chain(g, new[m]) = tail
        BY <2>1
      <4> HIDE DEF tail
      <4> QED BY <4>1 DEF HasTails
    <3>2. Chain(g, tail[n]) = SubSeq(new, n + m - 1, L)
      BY <1>5, <2>1
    <3>3. Len(SubSeq(new, n + m - 1, L)) = L - (n + m - 1) + 1
          /\ \A o \in 1 .. L - (n + m - 1) + 1 : SubSeq(new, n + m - 1, L)[o] = new[o + (n + m - 1) - 1]
      BY <1>1, <1>2, <2>1
    <3>4. \A o \in 1 .. L - (n + m - 1) + 1 : tail[n + o - 1] = new[(n + o - 1) + m - 1]
      BY <1>1, <2>1
    <3>5. n + m - 1 \in Nat /\ Len(tail) - n + 1 = L - (n + m - 1) + 1
      BY <1>1, <2>1
    <3>6. \A o \in 1 .. L - (n + m - 1) + 1 : new[o + (n + m - 1) - 1] = new[(n + o - 1) + m - 1]
      <4>1. \A o \in Nat : o + (n + m - 1) - 1 = (n + o - 1) + m - 1
        BY <1>1, <2>1
      <4> QED BY <3>5, <4>1
    <3> HIDE DEF tail
    <3> QED BY <3>2, <3>3, <3>4, <3>5, <3>6
  <2> QED BY <2>1, <2>2, <2>3, <2>4, <2>5 DEF HasChain
<1>8. \A i \in Live(g) : IsNode(g[i]) /\ HasChain(g, i)
  <2>1. ASSUME NEW i \in Live(h) PROVE IsNode(g[i]) /\ HasChain(g, i)
    BY <1>4, GrownOld
  <2>2. ASSUME NEW i \in ToSet(new) PROVE IsNode(g[i]) /\ HasChain(g, i)
    BY <1>2, <1>5, <1>7 DEF ToSet
  <2> QED BY <1>6, <2>1, <2>2
<1>9. Good(g)
  BY <1>3, <1>8 DEF Good
<1>10. c.id \in Live(g) /\ Chain(g, c.id) = new
  <2>1. 1 \in 1 .. L
    BY <1>1
  <2>2. new[1] \in Live(g) /\ Chain(g, new[1]) = SubSeq(new, 1, L)
    BY <1>5, <2>1
  <2> QED BY <1>2, <1>3, <2>2
<1> QED BY <1>4, <1>6, <1>9, <1>10 DEF new, c, old, L, g

LEMMA NodeChained ==
  ASSUME NEW n, IsNode(n), NEW chain \in Seq(Ids)
  PROVE  LET m == [n EXCEPT !.chain = chain]
         IN IsNode(m) /\ m.chain = chain /\ \A field \in DOMAIN n \ {"chain"} : m[field] = n[field]
<1> DEFINE m == [n EXCEPT !.chain = chain]
<1>1. DOMAIN n = {"kind", "of", "chain", "imports", "spaceAliases", "aliases", "injected", "cached"}
  BY NodeFields
<1>2. m.chain = chain /\ \A field \in DOMAIN n \ {"chain"} : m[field] = n[field]
  BY <1>1
<1>3. IsNode(m)
  BY <1>2 DEF IsNode
<1> QED BY <1>2, <1>3

\* A heap with one more node.
OneMore(h, g, id) == Good(g) /\ Live(g) = Live(h) \cup {id} /\ \A i \in Live(h) : g[i] = h[i]

\* A new node inside another one.
LEMMA WithNodeGood ==
  ASSUME NEW h, Good(h), NEW parent \in Live(h), NEW id \in Ids, h[id] = None, NEW n, IsNode(n)
  PROVE  /\ OneMore(h, WithNode(h, id, n, parent), id)
         /\ Chain(WithNode(h, id, n, parent), id) = <<id>> \o Chain(h, parent)
<1> DEFINE up == Chain(h, parent)
           chain == <<id>> \o up
           new == [n EXCEPT !.chain = chain]
           g == WithNode(h, id, n, parent)
<1>1. up \in Seq(Live(h)) /\ Len(up) \in Nat \ {0} /\ up[1] = parent /\ IsSpace(h[up[Len(up)]]) /\ HasTails(h, parent)
      /\ \A m \in 1 .. Len(up) : up[m] \in Live(h)
  BY GoodNode DEF HasChain
<1>2. chain \in Seq(Ids)
  BY <1>1 DEF Live
<1>3. /\ Len(chain) = Len(up) + 1 /\ chain[1] = id
      /\ \A m \in 1 .. Len(up) : chain[m + 1] = up[m]
  BY <1>1
<1> HIDE DEF chain
<1>4. IsNode(new) /\ new.chain = chain
  BY <1>2, NodeChained
<1>5. g = [i \in Ids |-> IF i = id THEN new ELSE h[i]]
  BY DEF WithNode, Good, chain
<1> HIDE DEF new, g, up
<1>6. id \notin Live(h) /\ (\A i \in Live(h) : g[i] = h[i]) /\ g[id] = new /\ Chain(g, id) = chain
  BY <1>4, <1>5 DEF Live, Chain
<1>7. Live(g) = Live(h) \cup {id}
  <2>1. new # None
    BY <1>4, NodeFields
  <2> QED BY <1>5, <2>1 DEF Live
<1>8. HasChain(g, id)
  <2>1. chain \in Seq(Live(g))
    <3>1. id \in Live(g) /\ \A m \in 1 .. Len(up) : up[m] \in Live(g)
      BY <1>1, <1>7
    <3>2. up \in Seq(Live(g))
      BY <1>1, <3>1
    <3> QED BY <3>1, <3>2 DEF chain
  <2>2. chain[Len(chain)] = up[Len(up)]
    BY <1>1, <1>3
  <2>3. IsSpace(g[up[Len(up)]])
    BY <1>1, <1>6
  <2>4. ASSUME NEW k \in 1 .. Len(chain)
        PROVE  LET t == Chain(g, chain[k])
               IN Len(t) = Len(chain) - k + 1 /\ \A o \in 1 .. Len(t) : t[o] = chain[k + o - 1]
    <3>1. CASE k = 1
      BY <1>1, <1>3, <1>6, <3>1
    <3>2. CASE k # 1
      <4>1. k - 1 \in 1 .. Len(up) /\ chain[k] = up[k - 1]
        <5>1. k - 1 \in 1 .. Len(up) /\ k = (k - 1) + 1
          BY <1>1, <1>3, <3>2
        <5> QED BY <1>3, <5>1
      <4>2. Chain(g, chain[k]) = Chain(h, up[k - 1])
        BY <1>1, <1>6, <4>1 DEF Chain
      <4> DEFINE t == Chain(h, up[k - 1])
      <4>3. Len(t) = Len(up) - (k - 1) + 1 /\ \A o \in 1 .. Len(t) : t[o] = up[(k - 1) + o - 1]
        BY <1>1, <4>1 DEF HasTails, up
      <4> HIDE DEF t
      <4>4. ASSUME NEW o \in 1 .. Len(t) PROVE up[(k - 1) + o - 1] = chain[k + o - 1]
        <5>1. (k - 1) + o - 1 \in 1 .. Len(up) /\ k + o - 1 = ((k - 1) + o - 1) + 1
          BY <1>1, <4>1, <4>3
        <5> QED BY <1>3, <5>1
      <4>5. Len(t) = Len(chain) - k + 1
        BY <1>1, <1>3, <4>1, <4>3
      <4> QED BY <4>2, <4>3, <4>4, <4>5 DEF t
    <3> QED BY <3>1, <3>2
  <2>5. HasTails(g, id)
    BY <1>6, <2>4 DEF HasTails
  <2> QED BY <1>1, <1>3, <1>6, <2>1, <2>2, <2>3, <2>5 DEF HasChain
<1>9. \A i \in Live(g) : IsNode(g[i]) /\ HasChain(g, i)
  <2>1. ASSUME NEW i \in Live(h) PROVE IsNode(g[i]) /\ HasChain(g, i)
    BY <1>6, GrownOld
  <2> QED BY <1>4, <1>6, <1>7, <1>8, <2>1
<1>10. Good(g)
  BY <1>5, <1>9 DEF Good
<1> QED BY <1>6, <1>7, <1>10 DEF OneMore, g, new, chain, up

LEMMA NodeNew ==
  ASSUME NEW kind \in NodeKinds, NEW of
  PROVE  /\ IsNode(Node(kind, of)) /\ Node(kind, of).kind = kind /\ Node(kind, of).of = of
         /\ Node(kind, of).imports = <<>> /\ Node(kind, of).cached = Empty
         /\ Node(kind, of).injected = {} /\ Node(kind, of).aliases = {} /\ Node(kind, of).spaceAliases = {}
<1>1. Empty \in [Kinds -> {Empty["class"], Empty["function"]}]
  BY DEF Empty, Kinds
<1>2. <<>> \in Seq(Ids) /\ <<>> \in Seq(ToSet(<<>>))
  OBVIOUS
<1> QED BY <1>1, <1>2, NodeMade DEF Node

\* What the handles reach is kept, with all that it refers to.
LEMMA CollectedGood ==
  ASSUME NEW h, Good(h), NEW R, R \subseteq Live(h)
  PROVE  LET c == Collected(h, R)
         IN /\ Good(c) /\ R \subseteq Live(c) /\ Live(c) \subseteq Live(h)
            /\ \A i \in Live(c) : c[i] = h[i]
            /\ \A id \in R : ToSet(Chain(h, id)) \subseteq Live(c)
<1> DEFINE used == UNION {ToSet(Chain(h, id)) : id \in R}
           c == Collected(h, R)
<1>1. c = [i \in Ids |-> IF i \in used THEN h[i] ELSE None]
  BY DEF Collected
<1>2. used \subseteq Live(h) /\ R \subseteq used
  BY ChainMembers
<1>3. \A id \in R : ToSet(Chain(h, id)) \subseteq used
  OBVIOUS
<1>4. ASSUME NEW i \in used PROVE ToSet(Chain(h, i)) \subseteq used
  <2>1. PICK id \in R : i \in ToSet(Chain(h, id))
    OBVIOUS
  <2>2. PICK n \in 1 .. Len(Chain(h, id)) : Chain(h, id)[n] = i
    BY <2>1, ChainMembers
  <2> HIDE DEF used
  <2>7. SUFFICES ASSUME NEW j \in ToSet(Chain(h, i)) PROVE j \in ToSet(Chain(h, id))
    BY <1>3
  <2>3. PICK m \in 1 .. Len(Chain(h, i)) : Chain(h, i)[m] = j
    BY <1>2, ChainMembers
  <2>4. Chain(h, id) \in Seq(Live(h)) /\ HasTails(h, id) /\ Chain(h, i) \in Seq(Live(h))
    BY <1>2, GoodNode DEF HasChain
  <2>5. Len(Chain(h, i)) = Len(Chain(h, id)) - n + 1 /\ Chain(h, i)[m] = Chain(h, id)[n + m - 1]
    BY <2>2, <2>3, <2>4 DEF HasTails
  <2>6. n + m - 1 \in 1 .. Len(Chain(h, id))
    BY <2>4, <2>5
  <2> QED BY <2>3, <2>5, <2>6, ChainElement
<1> HIDE DEF used, c
<1>5. Live(c) = used /\ \A i \in used : c[i] = h[i] /\ Chain(c, i) = Chain(h, i)
  BY <1>1, <1>2 DEF Live, Chain
<1>6. ASSUME NEW i \in used PROVE IsNode(c[i]) /\ HasChain(c, i)
  <2> DEFINE chain == Chain(h, i)
  <2>1. IsNode(h[i]) /\ HasChain(h, i) /\ chain \in Seq(Live(h)) /\ Len(chain) > 0 /\ chain[1] = i /\ HasTails(h, i)
        /\ IsSpace(h[chain[Len(chain)]])
    BY <1>2, GoodNode DEF HasChain
  <2>2. \A n \in 1 .. Len(chain) : chain[n] \in used /\ Chain(c, chain[n]) = Chain(h, chain[n])
    <3>1. \A n \in 1 .. Len(chain) : chain[n] \in ToSet(chain)
      BY <1>2, ChainElement
    <3> QED BY <1>4, <1>5, <3>1
  <2>3. Chain(c, i) = chain
    BY <1>5
  <2> HIDE DEF chain
  <2>4. HasTails(c, i)
    <3>1. SUFFICES ASSUME NEW n \in 1 .. Len(chain)
                   PROVE  LET t == Chain(c, chain[n])
                          IN Len(t) = Len(chain) - n + 1 /\ \A m \in 1 .. Len(t) : t[m] = chain[n + m - 1]
      BY <2>3 DEF HasTails
    <3> QED BY <2>1, <2>2 DEF HasTails, chain
  <2>5. chain \in Seq(Live(c))
    BY <1>5, <2>1, <2>2
  <2>6. IsSpace(c[chain[Len(chain)]])
    BY <1>5, <2>1, <2>2
  <2> QED BY <1>5, <2>1, <2>3, <2>4, <2>5, <2>6 DEF HasChain
<1>7. Good(c)
  BY <1>1, <1>5, <1>6 DEF Good
<1> QED BY <1>2, <1>3, <1>5, <1>7 DEF c, used

-----------------------------------------------------------------------------
(* Directives. *)

Names(aliases) == {a.name : a \in aliases}

\* A node that finds what another one finds, and more perhaps.
Wider(n, m) ==
  /\ IsNode(m) /\ m.kind = n.kind /\ m.of = n.of
  /\ ToSet(n.imports) \subseteq ToSet(m.imports)
  /\ Names(n.aliases) \subseteq Names(m.aliases) /\ n.injected \subseteq m.injected
  /\ m.cached = Empty \/ (m.cached = n.cached /\ m.imports = n.imports)

LEMMA WiderTrans ==
  ASSUME NEW n, NEW m, NEW o, Wider(n, m), Wider(m, o)
  PROVE  Wider(n, o)
BY DEF Wider

LEMMA EntitiesWider ==
  ASSUME NEW n, IsNode(n), NEW entities
  PROVE  LET m == [n EXCEPT !.injected = @ \cup entities]
         IN Wider(n, m) /\ m.chain = n.chain
<1> DEFINE m == [n EXCEPT !.injected = @ \cup entities]
<1>1. DOMAIN n = {"kind", "of", "chain", "imports", "spaceAliases", "aliases", "injected", "cached"}
  BY NodeFields
<1>2. m.injected = n.injected \cup entities /\ \A field \in DOMAIN n \ {"injected"} : m[field] = n[field]
  BY <1>1
<1>3. IsNode(m)
  BY <1>2 DEF IsNode
<1> QED BY <1>1, <1>2, <1>3 DEF Wider

LEMMA AliasWider ==
  ASSUME NEW n, IsNode(n), NEW name, NEW entity
  PROVE  LET others == {a \in n.aliases : a.name # name}
             m == [n EXCEPT !.aliases = others \cup {[name |-> name, entity |-> entity]}]
         IN Wider(n, m) /\ m.chain = n.chain
<1> DEFINE others == {a \in n.aliases : a.name # name}
           aliases == others \cup {[name |-> name, entity |-> entity]}
           m == [n EXCEPT !.aliases = aliases]
<1>4. Names(n.aliases) \subseteq Names(aliases)
  <2>1. ASSUME NEW a \in n.aliases PROVE \E b \in aliases : b.name = a.name
    <3>1. CASE a.name = name
      <4>1. [name |-> name, entity |-> entity] \in aliases /\ [name |-> name, entity |-> entity].name = name
        OBVIOUS
      <4> QED BY <3>1, <4>1
    <3> QED BY <3>1
  <2> HIDE DEF aliases
  <2> QED BY <2>1 DEF Names
<1> HIDE DEF aliases
<1>1. DOMAIN n = {"kind", "of", "chain", "imports", "spaceAliases", "aliases", "injected", "cached"}
  BY NodeFields
<1>2. m.aliases = aliases /\ \A field \in DOMAIN n \ {"aliases"} : m[field] = n[field]
  BY <1>1
<1>3. IsNode(m)
  BY <1>2 DEF IsNode
<1> QED BY <1>1, <1>2, <1>3, <1>4 DEF Wider, aliases

LEMMA SpaceAliasWider ==
  ASSUME NEW n, IsNode(n), NEW spaceAliases
  PROVE  LET m == [n EXCEPT !.spaceAliases = spaceAliases]
         IN Wider(n, m) /\ m.chain = n.chain
<1> DEFINE m == [n EXCEPT !.spaceAliases = spaceAliases]
<1>1. DOMAIN n = {"kind", "of", "chain", "imports", "spaceAliases", "aliases", "injected", "cached"}
  BY NodeFields
<1>2. \A field \in DOMAIN n \ {"spaceAliases"} : m[field] = n[field]
  BY <1>1
<1>3. IsNode(m)
  BY <1>2 DEF IsNode
<1> QED BY <1>1, <1>2, <1>3 DEF Wider

LEMMA JoinedSets ==
  ASSUME NEW s, s \in Seq(ToSet(s)), NEW t, t \in Seq(ToSet(t))
  PROVE  ToSet(s \o t) = ToSet(s) \cup ToSet(t) /\ s \o t \in Seq(ToSet(s \o t))
<1> DEFINE S == ToSet(s) \cup ToSet(t)
           u == s \o t
<1>1. s \in Seq(S) /\ t \in Seq(S)
  OBVIOUS
<1> HIDE DEF S
<1>2. /\ u \in Seq(S) /\ Len(u) = Len(s) + Len(t) /\ Len(s) \in Nat /\ Len(t) \in Nat
      /\ \A k \in 1 .. Len(s) : u[k] = s[k]
  BY <1>1
<1>3. \A k \in 1 .. Len(t) : u[Len(s) + k] = t[k] /\ Len(s) + k \in 1 .. Len(u)
  BY <1>1
<1>4. DOMAIN u = 1 .. Len(u) /\ DOMAIN s = 1 .. Len(s) /\ DOMAIN t = 1 .. Len(t)
  BY <1>1, <1>2
<1> HIDE DEF u
<1>5. ToSet(u) \subseteq S
  BY <1>2 DEF ToSet
<1>6. ToSet(s) \subseteq ToSet(u)
  <2>1. \A k \in 1 .. Len(s) : k \in 1 .. Len(u)
    BY <1>2
  <2> QED BY <1>2, <1>4, <2>1 DEF ToSet
<1>7. ToSet(t) \subseteq ToSet(u)
  <2>1. \A k \in DOMAIN t : \E n \in DOMAIN u : u[n] = t[k]
    BY <1>3, <1>4
  <2> QED BY <2>1 DEF ToSet
<1>8. ToSet(u) = S
  BY <1>5, <1>6, <1>7 DEF S
<1> QED BY <1>2, <1>8 DEF S, u

LEMMA SingleSet ==
  ASSUME NEW x
  PROVE  ToSet(<<x>>) = {x} /\ <<x>> \in Seq(ToSet(<<x>>))
<1>1. ToSet(<<x>>) = {x}
  BY DEF ToSet
<1> QED BY <1>1

LEMMA NodeImports ==
  ASSUME NEW n, IsNode(n), NEW s, s \in Seq(ToSet(s)), NEW c, c \in [Kinds -> {c["class"], c["function"]}]
  PROVE  LET m == [n EXCEPT !.imports = s, !.cached = c]
         IN /\ IsNode(m) /\ m.imports = s /\ m.cached = c
            /\ \A field \in DOMAIN n \ {"imports", "cached"} : m[field] = n[field]
<1> DEFINE m == [n EXCEPT !.imports = s, !.cached = c]
<1>1. DOMAIN n = {"kind", "of", "chain", "imports", "spaceAliases", "aliases", "injected", "cached"}
  BY NodeFields
<1>2. m.imports = s /\ m.cached = c /\ \A field \in DOMAIN n \ {"imports", "cached"} : m[field] = n[field]
  BY <1>1
<1>3. IsNode(m)
  BY <1>2 DEF IsNode
<1> QED BY <1>2, <1>3

LEMMA ImportedWider ==
  ASSUME NEW n, IsNode(n), NEW other, other.imports \in Seq(ToSet(other.imports))
  PROVE  LET m == Imported(n, other)
         IN /\ Wider(n, m) /\ m.chain = n.chain
            /\ ToSet(m.imports) = ToSet(n.imports) \cup {other.of} \cup ToSet(other.imports)
<1> DEFINE imports == n.imports \o <<other.of>> \o other.imports
           m == Imported(n, other)
<1>1. DOMAIN n = {"kind", "of", "chain", "imports", "spaceAliases", "aliases", "injected", "cached"}
      /\ n.imports \in Seq(ToSet(n.imports))
  BY NodeFields
<1>2. ToSet(imports) = ToSet(n.imports) \cup {other.of} \cup ToSet(other.imports) /\ imports \in Seq(ToSet(imports))
  <2> DEFINE first == n.imports \o <<other.of>>
  <2>1. ToSet(first) = ToSet(n.imports) \cup {other.of} /\ first \in Seq(ToSet(first))
    <3> DEFINE one == <<other.of>>
    <3>1. ToSet(one) = {other.of} /\ one \in Seq(ToSet(one))
      BY SingleSet
    <3> HIDE DEF one
    <3>2. ToSet(n.imports \o one) = ToSet(n.imports) \cup ToSet(one) /\ n.imports \o one \in Seq(ToSet(n.imports \o one))
      BY <1>1, <3>1, JoinedSets
    <3> QED BY <3>1, <3>2 DEF one
  <2> HIDE DEF first
  <2>2. ToSet(first \o other.imports) = ToSet(first) \cup ToSet(other.imports)
        /\ first \o other.imports \in Seq(ToSet(first \o other.imports))
    BY <2>1, JoinedSets
  <2> QED BY <2>1, <2>2 DEF first
<1>3. Empty \in [Kinds -> {Empty["class"], Empty["function"]}]
  BY DEF Empty, Kinds
<1> HIDE DEF imports
<1>4. /\ IsNode(m) /\ m.imports = imports /\ m.cached = Empty
      /\ \A field \in DOMAIN n \ {"imports", "cached"} : m[field] = n[field]
  BY <1>2, <1>3, NodeImports DEF Imported, imports
<1> HIDE DEF m
<1>5. m.kind = n.kind /\ m.of = n.of /\ m.aliases = n.aliases /\ m.injected = n.injected /\ m.chain = n.chain
  BY <1>1, <1>4
<1>6. Wider(n, m)
  BY <1>2, <1>4, <1>5 DEF Wider
<1> QED BY <1>2, <1>4, <1>5, <1>6 DEF m

\* What a directive in a scope makes of the heap: a chain of nodes that find no less,
\* and nothing else changes, but for a node that nothing else refers to.
Directs(h, id, r) ==
  /\ Good(r.heap) /\ r.id \in Live(r.heap) /\ Live(h) \subseteq Live(r.heap)
  /\ Live(r.heap) \subseteq Live(h) \cup ToSet(Chain(r.heap, r.id))
  /\ Len(Chain(r.heap, r.id)) = Len(Chain(h, id))
  /\ \A n \in 1 .. Len(Chain(h, id)) : Wider(h[Chain(h, id)[n]], r.heap[Chain(r.heap, r.id)[n]])
  /\ \A i \in Live(h) : r.heap[i] = h[i] \/ (i = id /\ r.id = id /\ UseCount(h, id) = 1)

LEMMA WiderSelf ==
  ASSUME NEW n, IsNode(n)
  PROVE  Wider(n, n)
BY DEF Wider

\* One node of a heap is replaced.
LEMMA OneNode ==
  ASSUME NEW h, Good(h), NEW into \in Live(h), NEW m, Wider(h[into], m), m.chain = h[into].chain
  PROVE  LET g == [h EXCEPT ![into] = m]
         IN /\ Rewritten(h, g) /\ g[into] = m
            /\ \A i \in Live(h) : Wider(h[i], g[i]) /\ (i # into => g[i] = h[i])
<1> DEFINE g == [h EXCEPT ![into] = m]
<1>1. g = [i \in Ids |-> IF i = into THEN m ELSE h[i]]
  BY DEF Good
<1> HIDE DEF g
<1>2. g[into] = m /\ \A i \in Ids : i # into => g[i] = h[i]
  BY <1>1 DEF Live
<1>3. ASSUME NEW i \in Live(h) PROVE Wider(h[i], g[i]) /\ SameShape(h[i], g[i])
  <2>1. CASE i = into
    BY <1>2, <2>1 DEF Wider, SameShape
  <2>2. CASE i # into
    BY <1>2, <2>2, GoodNode, WiderSelf DEF Live, SameShape
  <2> QED BY <2>1, <2>2
<1>4. Rewritten(h, g)
  <2>1. ASSUME NEW i \in Ids PROVE IF h[i] = None THEN g[i] = None ELSE SameShape(h[i], g[i])
    <3>1. CASE h[i] = None
      BY <1>2, <3>1 DEF Live
    <3>2. CASE h[i] # None
      BY <1>3, <3>2 DEF Live
    <3> QED BY <3>1, <3>2
  <2> QED BY <1>1, <2>1 DEF Rewritten
<1> QED BY <1>2, <1>3, <1>4 DEF Live, g

\* The nodes of a copy find what the nodes they are copies of find.
LEMMA CopyWider ==
  ASSUME NEW h, Good(h), NEW id \in Live(h), Room(h, Len(Chain(h, id)))
  PROVE  LET c == Cloned(h, id)
         IN /\ Len(Chain(c.heap, c.id)) = Len(Chain(h, id))
            /\ \A n \in 1 .. Len(Chain(h, id)) :
                 LET i == Chain(c.heap, c.id)[n]
                 IN /\ i \in Live(c.heap) /\ i \notin Live(h)
                    /\ Wider(h[Chain(h, id)[n]], c.heap[i])
                    /\ \A field \in {"kind", "of", "imports", "spaceAliases", "aliases", "injected"} :
                         c.heap[i][field] = h[Chain(h, id)[n]][field]
<1> DEFINE old == Chain(h, id)
           new == NewIds(h, Len(old))
           c == Cloned(h, id)
           g == c.heap
<1>1. old \in Seq(Live(h)) /\ Len(old) \in Nat \ {0} /\ \A m \in 1 .. Len(old) : old[m] \in Live(h) /\ IsNode(h[old[m]])
  BY ChainNodes
<1>2. new \in Seq(Ids) /\ Len(new) = Len(old) /\ \A m \in 1 .. Len(new) : new[m] \in Ids /\ h[new[m]] = None
  BY <1>1, NewIdsSequence
<1>3. /\ c.id = new[1] /\ \A m \in 1 .. Len(old) : g[new[m]] = Copied(h[old[m]], new, m)
  <2>1. CopyOf(h, old, c, new)
    BY ClonedHeap
  <2> HIDE DEF new, c, old
  <2> QED BY <2>1 DEF CopyOf
<1>4. Chain(g, c.id) = new /\ Live(g) = Live(h) \cup ToSet(new)
  BY ClonedGood
<1> HIDE DEF new, c, old, g
<1>5. ASSUME NEW n \in 1 .. Len(old)
      PROVE  /\ new[n] \in Live(g) /\ new[n] \notin Live(h)
             /\ Wider(h[old[n]], g[new[n]])
             /\ \A field \in {"kind", "of", "imports", "spaceAliases", "aliases", "injected"} :
                  g[new[n]][field] = h[old[n]][field]
  <2> DEFINE copy == Copied(h[old[n]], new, n)
  <2>1. /\ IsNode(copy) /\ copy.cached = Empty
        /\ \A field \in DOMAIN h[old[n]] \ {"cached", "chain"} : copy[field] = h[old[n]][field]
    BY <1>1, <1>2, CopiedNode
  <2>2. DOMAIN h[old[n]] = {"kind", "of", "chain", "imports", "spaceAliases", "aliases", "injected", "cached"}
    BY <1>1, NodeFields
  <2>3. g[new[n]] = copy
    BY <1>3
  <2> HIDE DEF copy
  <2>4. Wider(h[old[n]], copy)
    <3>1. copy.kind = h[old[n]].kind /\ copy.of = h[old[n]].of /\ copy.imports = h[old[n]].imports
          /\ copy.aliases = h[old[n]].aliases /\ copy.injected = h[old[n]].injected
      BY <2>1, <2>2
    <3> QED BY <2>1, <3>1 DEF Wider
  <2>5. new[n] \in ToSet(new) /\ new[n] \notin Live(h)
    BY <1>2 DEF ToSet, Live
  <2> QED BY <1>4, <2>1, <2>2, <2>3, <2>4, <2>5
<1> QED BY <1>2, <1>4, <1>5 DEF c, old, g

\* The copy of a chain, with nodes that find more perhaps.
LEMMA ReworkedClone ==
  ASSUME NEW h, Good(h), NEW id \in Live(h), Room(h, Len(Chain(h, id))), NEW r, r.id = Cloned(h, id).id,
         Rewritten(Cloned(h, id).heap, r.heap), \A i \in Live(h) : r.heap[i] = h[i],
         \A i \in ToSet(Chain(Cloned(h, id).heap, Cloned(h, id).id)) : Wider(Cloned(h, id).heap[i], r.heap[i])
  PROVE  Directs(h, id, r)
<1> DEFINE c == Cloned(h, id)
           new == Chain(c.heap, c.id)
<1>1. /\ Good(c.heap) /\ c.id \in Live(c.heap) /\ Live(h) \subseteq Live(c.heap)
      /\ Live(c.heap) = Live(h) \cup ToSet(new)
  BY ClonedGood
<1>2. Good(r.heap) /\ Live(r.heap) = Live(c.heap) /\ Chain(r.heap, r.id) = new
  BY <1>1, RewrittenGood
<1>3. Len(new) = Len(Chain(h, id)) /\ \A n \in 1 .. Len(Chain(h, id)) : Wider(h[Chain(h, id)[n]], c.heap[new[n]])
  BY CopyWider
<1>4. \A n \in 1 .. Len(new) : new[n] \in ToSet(new)
  BY <1>1, ChainElement
<1> HIDE DEF c, new
<1>5. ASSUME NEW n \in 1 .. Len(Chain(h, id)) PROVE Wider(h[Chain(h, id)[n]], r.heap[new[n]])
  <2>1. Wider(h[Chain(h, id)[n]], c.heap[new[n]])
    BY <1>3
  <2>2. Wider(c.heap[new[n]], r.heap[new[n]])
    BY <1>3, <1>4 DEF c, new
  <2> QED BY <2>1, <2>2, WiderTrans
<1> QED BY <1>1, <1>2, <1>3, <1>5 DEF Directs, c

\* A node of the copy is replaced.
LEMMA CopyWritten ==
  ASSUME NEW h, Good(h), NEW id \in Live(h), Room(h, Len(Chain(h, id))), NEW r, r.id = Cloned(h, id).id,
         NEW into \in ToSet(Chain(Cloned(h, id).heap, Cloned(h, id).id)), NEW m,
         Wider(Cloned(h, id).heap[into], m), m.chain = Cloned(h, id).heap[into].chain,
         r.heap = [Cloned(h, id).heap EXCEPT ![into] = m]
  PROVE  Directs(h, id, r)
<1> DEFINE c == Cloned(h, id)
           new == Chain(c.heap, c.id)
<1>1. /\ Good(c.heap) /\ c.id \in Live(c.heap) /\ Live(h) \subseteq Live(c.heap)
      /\ \A i \in Live(h) : c.heap[i] = h[i]
  BY ClonedGood
<1>2. ToSet(new) \subseteq Live(c.heap) /\ ToSet(new) \cap Live(h) = {}
  <2>1. ToSet(new) \subseteq Live(c.heap) /\ \A j \in ToSet(new) : \E n \in 1 .. Len(new) : new[n] = j
    BY <1>1, ChainMembers
  <2>2. Len(new) = Len(Chain(h, id)) /\ \A n \in 1 .. Len(Chain(h, id)) : new[n] \notin Live(h)
    BY CopyWider
  <2> HIDE DEF new, c
  <2> QED BY <2>1, <2>2
<1>3. /\ Rewritten(c.heap, r.heap)
      /\ \A i \in Live(c.heap) : Wider(c.heap[i], r.heap[i]) /\ (i # into => r.heap[i] = c.heap[i])
  <2>1. into \in Live(c.heap)
    BY <1>2
  <2> QED BY <1>1, <2>1, OneNode
<1>4. \A i \in Live(h) : r.heap[i] = h[i]
  BY <1>1, <1>2, <1>3
<1>5. \A i \in ToSet(new) : Wider(c.heap[i], r.heap[i])
  BY <1>2, <1>3
<1> QED BY <1>3, <1>4, <1>5, ReworkedClone

\* The node of the scope itself is replaced.
LEMMA WritableWritten ==
  ASSUME NEW h, Good(h), NEW id \in Live(h), Room(h, Len(Chain(h, id))), NEW r, r.id = Writable(h, id).id,
         NEW m, Wider(Writable(h, id).heap[r.id], m), m.chain = Writable(h, id).heap[r.id].chain,
         r.heap = [Writable(h, id).heap EXCEPT ![r.id] = m]
  PROVE  Directs(h, id, r)
<1>1. CASE UseCount(h, id) # 1
  <2> DEFINE c == Cloned(h, id)
  <2>1. Writable(h, id) = c
    BY <1>1 DEF Writable
  <2>2. c.id \in ToSet(Chain(c.heap, c.id))
    <3>1. Good(c.heap) /\ c.id \in Live(c.heap)
      BY ClonedGood
    <3> QED BY <3>1, ChainMembers
  <2> QED BY <2>1, <2>2, CopyWritten
<1>2. CASE UseCount(h, id) = 1
  <2>1. Writable(h, id).heap = h /\ Writable(h, id).id = id
    BY <1>2 DEF Writable
  <2>2. Wider(h[id], m) /\ m.chain = h[id].chain /\ r.heap = [h EXCEPT ![id] = m] /\ r.id = id
    BY <2>1
  <2>3. /\ Rewritten(h, r.heap)
        /\ \A i \in Live(h) : Wider(h[i], r.heap[i]) /\ (i # id => r.heap[i] = h[i])
    <3> DEFINE g == [h EXCEPT ![id] = m]
    <3>1. Rewritten(h, g) /\ \A i \in Live(h) : Wider(h[i], g[i]) /\ (i # id => g[i] = h[i])
      BY <2>2, OneNode
    <3>2. r.heap = g
      BY <2>2
    <3> HIDE DEF g
    <3> QED BY <3>1, <3>2
  <2>4. Good(r.heap) /\ Live(r.heap) = Live(h) /\ Chain(r.heap, id) = Chain(h, id)
    BY <2>3, RewrittenGood
  <2>5. \A n \in 1 .. Len(Chain(h, id)) : Chain(h, id)[n] \in Live(h)
    BY ChainElement
  <2> QED BY <1>2, <2>2, <2>3, <2>4, <2>5 DEF Directs
<1> QED BY <1>1, <1>2

LEMMA WritableNode ==
  ASSUME NEW h, Good(h), NEW id \in Live(h), Room(h, Len(Chain(h, id)))
  PROVE  LET w == Writable(h, id)
         IN w.id \in Live(w.heap) /\ IsNode(w.heap[w.id])
<1>1. CASE UseCount(h, id) # 1
  <2>1. Writable(h, id) = Cloned(h, id)
    BY <1>1 DEF Writable
  <2>2. Good(Cloned(h, id).heap) /\ Cloned(h, id).id \in Live(Cloned(h, id).heap)
    BY ClonedGood
  <2> QED BY <2>1, <2>2, GoodNode
<1>2. CASE UseCount(h, id) = 1
  BY <1>2, GoodNode DEF Writable
<1> QED BY <1>1, <1>2

LEMMA EntitiesDirect ==
  ASSUME NEW h, Good(h), NEW id \in Live(h), Room(h, Len(Chain(h, id))), NEW entities
  PROVE  Directs(h, id, InjectEntities(h, id, entities))
<1> DEFINE w == Writable(h, id)
           r == InjectEntities(h, id, entities)
           n == w.heap[w.id]
           m == [n EXCEPT !.injected = @ \cup entities]
<1>1. IsNode(n)
  BY WritableNode
<1>2. Wider(n, m) /\ m.chain = n.chain
  BY <1>1, EntitiesWider
<1>3. r.id = w.id /\ r.heap = [w.heap EXCEPT ![w.id] = m]
  BY DEF InjectEntities, Writable, Cloned
<1> HIDE DEF w, r, m
<1> QED BY <1>2, <1>3, WritableWritten DEF w, r

LEMMA AliasDirects ==
  ASSUME NEW h, Good(h), NEW id \in Live(h), Room(h, Len(Chain(h, id))), NEW name, NEW entity
  PROVE  Directs(h, id, InjectAlias(h, id, name, entity))
<1> DEFINE w == Writable(h, id)
           r == InjectAlias(h, id, name, entity)
           n == w.heap[w.id]
           others == {a \in n.aliases : a.name # name}
           m == [n EXCEPT !.aliases = others \cup {[name |-> name, entity |-> entity]}]
<1>1. IsNode(n)
  BY WritableNode
<1>2. Wider(n, m) /\ m.chain = n.chain
  BY <1>1, AliasWider
<1>3. r.id = w.id /\ r.heap = [w.heap EXCEPT ![w.id] = m]
  BY DEF InjectAlias, Writable, Cloned
<1> HIDE DEF w, r, m
<1> QED BY <1>2, <1>3, WritableWritten DEF w, r

\* The namespaces called name that are nested in those of a scope.
Outer(n) == <<n.of>> \o n.imports
Holders(n, name, all) == {i \in DOMAIN Outer(n) : Append(Outer(n)[i], name) \in all}

LEMMA OuterSequence ==
  ASSUME NEW n, IsNode(n)
  PROVE  /\ Outer(n) \in Seq(ToSet(Outer(n))) /\ ToSet(Outer(n)) = {n.of} \cup ToSet(n.imports)
         /\ DOMAIN Outer(n) = 1 .. Len(Outer(n)) /\ Outer(n)[1] = n.of
         /\ Len(Outer(n)) \in Nat /\ Len(Outer(n)) > 0
<1> DEFINE one == <<n.of>>
<1>1. n.imports \in Seq(ToSet(n.imports))
  BY NodeFields
<1>2. ToSet(one) = {n.of} /\ one \in Seq(ToSet(one)) /\ Len(one) = 1 /\ one[1] = n.of
  BY SingleSet
<1> HIDE DEF one
<1>3. ToSet(one \o n.imports) = ToSet(one) \cup ToSet(n.imports) /\ one \o n.imports \in Seq(ToSet(one \o n.imports))
  BY <1>1, <1>2, JoinedSets
<1>4. (one \o n.imports)[1] = n.of /\ Len(one \o n.imports) > 0
  BY <1>1, <1>2
<1>5. Outer(n) = one \o n.imports
  BY DEF Outer, one
<1> QED BY <1>2, <1>3, <1>4, <1>5

LEMMA HoldersCounted ==
  ASSUME NEW n, IsNode(n), NEW name, NEW all
  PROVE  /\ IsFiniteSet(Holders(n, name, all)) /\ Cardinality(Holders(n, name, all)) \in Nat
         /\ Holders(n, name, all) \subseteq 1 .. Len(Outer(n))
<1>1. Len(Outer(n)) \in Nat /\ Holders(n, name, all) \subseteq 1 .. Len(Outer(n))
  BY OuterSequence DEF Holders
<1>2. IsFiniteSet(1 .. Len(Outer(n)))
  BY <1>1, FS_Interval
<1>3. IsFiniteSet(Holders(n, name, all))
  BY <1>1, <1>2, FS_Subset
<1> QED BY <1>1, <1>3, FS_CardinalityType

LEMMA NestedIsSequence ==
  ASSUME NEW n, IsNode(n), NEW name, NEW all
  PROVE  /\ Nested(n, name, all) \in Seq(ToSet(Nested(n, name, all)))
         /\ Len(Nested(n, name, all)) = Cardinality(Holders(n, name, all))
         /\ \A k \in 1 .. Cardinality(Holders(n, name, all)) :
              Nested(n, name, all)[k] = Append(Outer(n)[Nth(Holders(n, name, all), k)], name)
<1> DEFINE s == Nested(n, name, all)
           L == Cardinality(Holders(n, name, all))
<1>1. L \in Nat
  BY HoldersCounted
<1>2. s = [i \in 1 .. L |-> Append(Outer(n)[Nth(Holders(n, name, all), i)], name)]
  BY DEF Nested, Holders, Outer
<1> HIDE DEF s, L
<1>3. \A i \in 1 .. L : s[i] \in ToSet(s)
  <2>1. DOMAIN s = 1 .. L
    BY <1>2
  <2> QED BY <2>1 DEF ToSet
<1>4. s \in Seq(ToSet(s)) /\ Len(s) = L
  <2>1. DOMAIN s = 1 .. L /\ s = [i \in 1 .. L |-> s[i]]
    BY <1>2
  <2> DEFINE S == ToSet(s)
  <2>2. \A i \in 1 .. L : s[i] \in S
    BY <1>3
  <2> HIDE DEF S
  <2>3. s \in Seq(S)
    BY <1>1, <2>1, <2>2
  <2> QED BY <1>1, <2>1, <2>3 DEF S
<1> QED BY <1>2, <1>4 DEF s, L

LEMMA TailSequence ==
  ASSUME NEW s, s \in Seq(ToSet(s)), Len(s) > 0
  PROVE  Tail(s) \in Seq(ToSet(Tail(s))) /\ ToSet(s) \subseteq {s[1]} \cup ToSet(Tail(s))
<1> DEFINE S == ToSet(s)
           t == Tail(s)
<1>1. s \in Seq(S)
  OBVIOUS
<1> HIDE DEF S
<1>2. /\ t \in Seq(S) /\ Len(t) = Len(s) - 1 /\ Len(s) \in Nat /\ DOMAIN t = 1 .. Len(t) /\ DOMAIN s = 1 .. Len(s)
      /\ \A k \in 1 .. Len(s) - 1 : t[k] = s[k + 1]
  BY <1>1
<1> HIDE DEF t
<1>3. t \in Seq(ToSet(t))
  <2>1. \A k \in 1 .. Len(t) : t[k] \in ToSet(t)
    BY <1>2 DEF ToSet
  <2> QED BY <1>2, <2>1
<1>4. ASSUME NEW k \in 1 .. Len(s), k # 1 PROVE s[k] \in ToSet(t)
  <2>1. k - 1 \in 1 .. Len(s) - 1 /\ (k - 1) + 1 = k
    BY <1>2, <1>4
  <2>2. t[k - 1] = s[k] /\ k - 1 \in DOMAIN t
    BY <1>2, <2>1
  <2> QED BY <2>2 DEF ToSet
<1>5. ToSet(s) \subseteq {s[1]} \cup ToSet(t)
  BY <1>2, <1>4 DEF ToSet
<1> QED BY <1>3, <1>5 DEF t

LEMMA NestedSome ==
  ASSUME NEW n, IsNode(n), NEW name, HasNested(n, name)
  PROVE  Len(Nested(n, name, spaces)) \in Nat /\ Len(Nested(n, name, spaces)) > 0
<1>1. PICK p \in ToSet(Outer(n)) : Append(p, name) \in spaces
  BY OuterSequence DEF HasNested
<1>2. Holders(n, name, spaces) # {}
  BY <1>1 DEF ToSet, Holders
<1>3. Cardinality(Holders(n, name, spaces)) # 0
  BY <1>2, HoldersCounted, FS_EmptySet
<1> QED BY <1>3, HoldersCounted, NestedIsSequence

LEMMA SpaceNode ==
  ASSUME NEW of, NEW s, s \in Seq(ToSet(s))
  PROVE  LET m == [Node("NamespaceScope", of) EXCEPT !.imports = s]
         IN IsNode(m) /\ m.of = of /\ m.imports = s
<1> DEFINE base == Node("NamespaceScope", of)
<1>2. IsNode(base) /\ base.of = of
  BY NodeNew DEF NodeKinds
<1> HIDE DEF base
<1>3. DOMAIN base = {"kind", "of", "chain", "imports", "spaceAliases", "aliases", "injected", "cached"}
  BY <1>2, NodeFields
<1> DEFINE m == [base EXCEPT !.imports = s]
<1>4. m.imports = s /\ \A field \in DOMAIN base \ {"imports"} : m[field] = base[field]
  BY <1>3
<1>5. IsNode(m)
  BY <1>2, <1>4 DEF IsNode
<1>6. m.of = of
  BY <1>2, <1>3, <1>4
<1> QED BY <1>4, <1>5, <1>6 DEF base

\* NamespaceScope::child_scope makes a node.
LEMMA ChildScopeNode ==
  ASSUME NEW n, IsNode(n), NEW name, HasNested(n, name)
  PROVE  /\ IsNode(ChildScope(n, name)) /\ ChildScope(n, name).of = Nested(n, name, spaces)[1]
         /\ ChildScope(n, name).imports = Tail(Nested(n, name, spaces))
         /\ ChildScope(n, name).imports \in Seq(ToSet(ChildScope(n, name).imports))
<1> DEFINE paths == Nested(n, name, spaces)
<1>1. Tail(paths) \in Seq(ToSet(Tail(paths)))
  BY NestedSome, NestedIsSequence, TailSequence
<1>2. ChildScope(n, name) = [Node("NamespaceScope", paths[1]) EXCEPT !.imports = Tail(paths)]
  BY DEF ChildScope
<1> DEFINE of == paths[1]
           s == Tail(paths)
<1>3. ChildScope(n, name) = [Node("NamespaceScope", of) EXCEPT !.imports = s] /\ s \in Seq(ToSet(s))
  BY <1>1, <1>2
<1> HIDE DEF s, of
<1>4. IsNode(ChildScope(n, name)) /\ ChildScope(n, name).of = of /\ ChildScope(n, name).imports = s
  BY <1>3, SpaceNode
<1> QED BY <1>3, <1>4 DEF s, of

LEMMA SpaceDirects ==
  ASSUME NEW h, Good(h), NEW id \in Live(h), Room(h, Len(Chain(h, id))),
         NEW space, space.imports \in Seq(ToSet(space.imports))
  PROVE  Directs(h, id, InjectSpace(h, id, space))
<1> DEFINE c == Cloned(h, id)
           chain == Chain(c.heap, c.id)
           into == InnermostSpace(c.heap, c.id)
           n == c.heap[into]
           m == Imported(n, space)
           r == InjectSpace(h, id, space)
<1>1. Good(c.heap) /\ c.id \in Live(c.heap)
  BY ClonedGood
<1>2. chain \in Seq(Live(c.heap)) /\ Len(chain) > 0 /\ IsSpace(c.heap[chain[Len(chain)]])
  BY <1>1, GoodNode DEF HasChain
<1> HIDE DEF c, chain
<1>3. into \in ToSet(chain)
  <2> DEFINE S == {k \in DOMAIN chain : IsSpace(c.heap[chain[k]])}
  <2>1. S \subseteq Nat /\ Len(chain) \in S
    BY <1>2
  <2>2. into = chain[FirstOf(S)]
    BY DEF InnermostSpace, chain
  <2> HIDE DEF into
  <2>3. FirstOf(S) \in S
    BY <2>1, FirstIsLeast
  <2> QED BY <2>2, <2>3 DEF ToSet
<1>4. IsNode(n)
  <2>1. into \in Live(c.heap)
    BY <1>1, <1>3, ChainMembers DEF chain
  <2> QED BY <1>1, <2>1, GoodNode
<1>5. Wider(n, m) /\ m.chain = n.chain
  BY <1>4, ImportedWider
<1>6. r.id = c.id /\ r.heap = [c.heap EXCEPT ![into] = m]
  BY DEF InjectSpace, Cloned, c
<1> HIDE DEF m, r, into
<1> QED BY <1>3, <1>5, <1>6, CopyWritten DEF c, chain, r

LEMMA SpaceAliasDirects ==
  ASSUME NEW h, Good(h), NEW id \in Live(h), Room(h, Len(Chain(h, id))), NEW name, NEW target,
         \E i \in ToSet(Chain(h, id)) : HasNested(h[i], target)
  PROVE  Directs(h, id, InjectSpaceAlias(h, id, name, target))
<1> DEFINE c == Cloned(h, id)
           chain == Chain(c.heap, c.id)
           S == {k \in DOMAIN chain : HasNested(c.heap[chain[k]], target)}
           into == chain[FirstOf(S)]
           n == c.heap[into]
           aliases == {a \in n.spaceAliases : a.name # name} \cup {[name |-> name, target |-> target]}
           m == [n EXCEPT !.spaceAliases = aliases]
           r == InjectSpaceAlias(h, id, name, target)
<1>1. Good(c.heap) /\ c.id \in Live(c.heap)
  BY ClonedGood
<1>2. chain \in Seq(Live(c.heap)) /\ Len(chain) = Len(Chain(h, id))
  BY <1>1, GoodNode, CopyWider DEF HasChain
<1>3. S \subseteq Nat /\ S # {}
  <2>1. PICK k \in 1 .. Len(Chain(h, id)) : HasNested(h[Chain(h, id)[k]], target)
    BY ChainMembers
  <2>2. c.heap[chain[k]].kind = h[Chain(h, id)[k]].kind /\ c.heap[chain[k]].of = h[Chain(h, id)[k]].of
        /\ c.heap[chain[k]].imports = h[Chain(h, id)[k]].imports
    BY CopyWider
  <2> HIDE DEF c, chain
  <2>3. HasNested(c.heap[chain[k]], target)
    BY <2>1, <2>2 DEF HasNested, IsSpace
  <2> QED BY <1>2, <2>3
<1> HIDE DEF c, chain
<1>4. into \in ToSet(chain)
  <2>1. FirstOf(S) \in S
    BY <1>3, FirstIsLeast
  <2> QED BY <2>1 DEF ToSet
<1> HIDE DEF S
<1>5. IsNode(n)
  <2>1. into \in Live(c.heap)
    BY <1>1, <1>4, ChainMembers DEF chain
  <2> QED BY <1>1, <2>1, GoodNode
<1> HIDE DEF aliases
<1>6. Wider(n, m) /\ m.chain = n.chain
  BY <1>5, SpaceAliasWider
<1>7. r.id = c.id /\ r.heap = [c.heap EXCEPT ![into] = m]
  BY DEF InjectSpaceAlias, Cloned, c, S, aliases, chain
<1> HIDE DEF m, r, into
<1> QED BY <1>4, <1>6, <1>7, CopyWritten DEF c, chain, r

LEMMA MergeDirects ==
  ASSUME NEW h, Good(h), NEW id \in Live(h), Room(h, Len(Chain(h, id))), NEW module
  PROVE  Directs(h, id, Merge(h, id, module))
<1> DEFINE c == Cloned(h, id)
           chain == Chain(c.heap, c.id)
           other(n) == Node("NamespaceScope", Counterpart(module, n.of))
           merged(n) == IF IsSpace(n) /\ HasCounterpart(module, n.of) THEN Imported(n, other(n)) ELSE n
           r == Merge(h, id, module)
<1>1. Good(c.heap) /\ c.id \in Live(c.heap) /\ c.heap = [i \in Ids |-> c.heap[i]] /\ \A i \in Live(h) : c.heap[i] = h[i]
  <2>1. Good(c.heap) /\ c.id \in Live(c.heap) /\ \A i \in Live(h) : c.heap[i] = h[i]
    BY ClonedGood
  <2>2. CopyOf(h, Chain(h, id), c, NewIds(h, Len(Chain(h, id))))
    BY ClonedHeap
  <2> HIDE DEF c
  <2> QED BY <2>1, <2>2 DEF CopyOf
<1>2. ToSet(chain) \subseteq Live(c.heap) /\ ToSet(chain) \cap Live(h) = {}
  <2>1. ToSet(chain) \subseteq Live(c.heap) /\ \A j \in ToSet(chain) : \E n \in 1 .. Len(chain) : chain[n] = j
    BY <1>1, ChainMembers
  <2>2. Len(chain) = Len(Chain(h, id)) /\ \A n \in 1 .. Len(Chain(h, id)) : chain[n] \notin Live(h)
    BY CopyWider
  <2> HIDE DEF chain, c
  <2> QED BY <2>1, <2>2
<1>3. r.id = c.id /\ r.heap = [i \in Ids |-> IF i \in ToSet(chain) THEN merged(c.heap[i]) ELSE c.heap[i]]
  BY DEF Merge, Cloned
<1>4. ASSUME NEW n, IsNode(n) PROVE Wider(n, merged(n)) /\ merged(n).chain = n.chain
  <2> DEFINE o == other(n)
  <2>1. o.imports = <<>>
    BY NodeNew DEF NodeKinds
  <2> HIDE DEF o
  <2>2. o.imports \in Seq(ToSet(o.imports))
    <3>1. <<>> \in Seq(ToSet(<<>>))
      OBVIOUS
    <3> QED BY <2>1, <3>1
  <2>3. Wider(n, Imported(n, o)) /\ Imported(n, o).chain = n.chain
    BY <1>4, <2>2, ImportedWider
  <2> QED BY <1>4, <2>3, WiderSelf DEF o
<1> HIDE DEF merged, r, c, chain
<1>5. \A i \in ToSet(chain) : Wider(c.heap[i], r.heap[i]) /\ r.heap[i].chain = c.heap[i].chain
  <2>1. ASSUME NEW i \in ToSet(chain) PROVE IsNode(c.heap[i]) /\ i \in Ids
    BY <1>1, <1>2, GoodNode
  <2> QED BY <1>3, <1>4, <2>1
<1>6. Rewritten(c.heap, r.heap)
  <2>1. ASSUME NEW i \in Ids PROVE IF c.heap[i] = None THEN r.heap[i] = None ELSE SameShape(c.heap[i], r.heap[i])
    <3>1. CASE i \in ToSet(chain)
      <4>1. c.heap[i] # None /\ SameShape(c.heap[i], r.heap[i])
        BY <1>2, <1>5, <3>1 DEF Live, Wider, SameShape
      <4> QED BY <4>1
    <3>2. CASE i \notin ToSet(chain)
      <4>1. r.heap[i] = c.heap[i]
        BY <1>3, <3>2
      <4>2. c.heap[i] # None => SameShape(c.heap[i], c.heap[i])
        BY <1>1, GoodNode DEF Live, SameShape
      <4> QED BY <4>1, <4>2
    <3> QED BY <3>1, <3>2
  <2> QED BY <1>3, <2>1 DEF Rewritten
<1>7. \A i \in Live(h) : r.heap[i] = h[i]
  BY <1>1, <1>2, <1>3 DEF Live
<1> QED BY <1>3, <1>5, <1>6, <1>7, ReworkedClone DEF c, chain, r

LEMMA CloneDirects ==
  ASSUME NEW h, Good(h), NEW id \in Live(h), Room(h, Len(Chain(h, id)))
  PROVE  Directs(h, id, Cloned(h, id))
<1> DEFINE c == Cloned(h, id)
<1>1. Good(c.heap) /\ c.id \in Live(c.heap) /\ \A i \in Live(h) : c.heap[i] = h[i]
  BY ClonedGood
<1>2. \A i \in ToSet(Chain(c.heap, c.id)) : Wider(c.heap[i], c.heap[i])
  BY <1>1, ChainMembers, GoodNode, WiderSelf
<1>3. Rewritten(c.heap, c.heap)
  BY <1>1, RereadSelf
<1> QED BY <1>1, <1>2, <1>3, ReworkedClone

-----------------------------------------------------------------------------
(* The invariant. *)

IsBody(b) ==
  b \in [kind : {"body"}, function : {b.function}, seen : {b.seen}, base : Ids, arguments : Ids,
         outer : Ids, top : Ids, expr : Ids, blocks : Nat]

QueueInv ==
  /\ frames \in Seq(Ids) /\ Len(frames) > 0
  /\ tasks \in Seq(ToSet(tasks)) /\ incomplete \in Seq(ToSet(incomplete))
  /\ body # None => IsBody(body)

\* What the handles refer to is there, and leaving a block leaves a scope.
HeapInv ==
  /\ Good(heap) /\ Handles \subseteq Live(heap)
  /\ body # None => Len(Chain(heap, body.top)) > body.blocks

\* A function is in one queue, once.
FunctionInv ==
  /\ \A n, m \in DOMAIN tasks : tasks[n].function = tasks[m].function => n = m
  /\ \A n, m \in DOMAIN incomplete : incomplete[n].function = incomplete[m].function => n = m
  /\ \A n \in DOMAIN tasks : tasks[n].function \in declared \cup {None}
  /\ \A n \in DOMAIN incomplete : incomplete[n].function \notin declared /\ incomplete[n].function.kind = "function"
  /\ body # None => phase = "compile" /\ \A n \in DOMAIN tasks : tasks[n].function # body.function
  /\ phase = "compile" => incomplete = <<>>
  /\ phase = "reprocess" => incomplete # <<>>

ScopeInv == QueueInv /\ HeapInv /\ FunctionInv

\* The scope that declarations, or the statements of a body, are processed in.
Active == IF body = None THEN Current ELSE body.top

-----------------------------------------------------------------------------
(* Who refers to a node. *)

LEMMA ActiveIsLive ==
  ASSUME ScopeInv
  PROVE  /\ Active \in Live(heap) /\ Current \in Live(heap) /\ Current = frames[Len(frames)]
         /\ body # None => IsBody(body) /\ body.top \in Live(heap) /\ body.base \in Live(heap)
<1>1. Current = frames[Len(frames)] /\ Current \in ToSet(frames)
  BY DEF Current, Last, ScopeInv, QueueInv, ToSet
<1>2. Current \in Handles
  BY <1>1 DEF Handles, Roots
<1>3. body # None => IsBody(body) /\ body.top \in Handles /\ body.base \in Handles
  BY DEF Handles, Roots, ScopeInv, QueueInv
<1> QED BY <1>1, <1>2, <1>3 DEF ScopeInv, HeapInv, Active

\* The parts of UseCount.
FrameUses(id) == {n \in DOMAIN frames : frames[n] = id}
TaskUses(id) == {n \in DOMAIN tasks : tasks[n].scope = id}
LaterUses(id) == {n \in DOMAIN incomplete : incomplete[n].scope = id}
BodyUses(id) == {r \in {"base", "arguments", "outer", "top", "expr"} : body[r] = id}
NodeUses(h, id) == {i \in Ids : h[i] # None /\ Parent(h[i]) = id}

LEMMA PlacesFinite ==
  ASSUME NEW L \in Nat, NEW S, S \subseteq 1 .. L
  PROVE  IsFiniteSet(S)
<1>1. IsFiniteSet(1 .. L)
  BY FS_Interval
<1> QED BY <1>1, FS_Subset

LEMMA UsesCounted ==
  ASSUME QueueInv, NEW h, NEW id
  PROVE  /\ IsFiniteSet(FrameUses(id)) /\ IsFiniteSet(TaskUses(id)) /\ IsFiniteSet(LaterUses(id))
         /\ IsFiniteSet(BodyUses(id)) /\ IsFiniteSet(NodeUses(h, id))
<1>1. IsFiniteSet(FrameUses(id))
  <2>1. FrameUses(id) \subseteq 1 .. Len(frames) /\ Len(frames) \in Nat
    BY DEF FrameUses, QueueInv
  <2> QED BY <2>1, PlacesFinite
<1>2. IsFiniteSet(TaskUses(id))
  <2>1. TaskUses(id) \subseteq 1 .. Len(tasks) /\ Len(tasks) \in Nat
    BY DEF TaskUses, QueueInv
  <2> QED BY <2>1, PlacesFinite
<1>3. IsFiniteSet(LaterUses(id))
  <2>1. LaterUses(id) \subseteq 1 .. Len(incomplete) /\ Len(incomplete) \in Nat
    BY DEF LaterUses, QueueInv
  <2> QED BY <2>1, PlacesFinite
<1>4. IsFiniteSet(BodyUses(id))
  <2> DEFINE S == {"base", "arguments", "outer", "top", "expr"}
  <2>1. IsFiniteSet({"base", "arguments", "outer", "top"} \cup {"expr"})
    <3>1. IsFiniteSet({"base"} \cup {"arguments"})
      BY FS_Singleton, FS_Union
    <3>2. IsFiniteSet(({"base"} \cup {"arguments"}) \cup {"outer"})
      BY <3>1, FS_Singleton, FS_Union
    <3>3. IsFiniteSet((({"base"} \cup {"arguments"}) \cup {"outer"}) \cup {"top"})
      BY <3>2, FS_Singleton, FS_Union
    <3>4. {"base", "arguments", "outer", "top"} = (({"base"} \cup {"arguments"}) \cup {"outer"}) \cup {"top"}
      OBVIOUS
    <3> QED BY <3>3, <3>4, FS_Singleton, FS_Union
  <2>2. S = {"base", "arguments", "outer", "top"} \cup {"expr"} /\ BodyUses(id) \subseteq S
    BY DEF BodyUses
  <2> QED BY <2>1, <2>2, FS_Subset
<1>5. IsFiniteSet(NodeUses(h, id))
  BY ScopesAssumption, FS_Subset DEF NodeUses
<1> QED BY <1>1, <1>2, <1>3, <1>4, <1>5

LEMMA CountedNone ==
  ASSUME NEW S, IsFiniteSet(S)
  PROVE  Cardinality(S) \in Nat /\ (Cardinality(S) = 0 <=> S = {})
BY FS_CardinalityType, FS_EmptySet

\* A set with two elements counts two.
LEMMA CountedTwo ==
  ASSUME NEW S, IsFiniteSet(S), NEW a \in S, NEW b \in S, a # b
  PROVE  Cardinality(S) >= 2
<1>1. IsFiniteSet(S \ {a}) /\ Cardinality(S \ {a}) = Cardinality(S) - 1
  BY FS_RemoveElement
<1>2. Cardinality(S \ {a}) # 0
  BY <1>1, CountedNone
<1> QED BY <1>1, <1>2, CountedNone

\* When nothing but the scope that is being processed refers to its node, the
\* node is in no scope that something is kept in.
LEMMA Unshared ==
  ASSUME ScopeInv, NEW h, Reread(heap, h), UseCount(h, Active) = 1,
         NEW k \in Kept(frames, tasks, incomplete, body)
  PROVE  k[3] \in Live(heap) /\ Active \notin ToSet(Chain(heap, k[3]))
<1> DEFINE id == Active
           a == Cardinality(FrameUses(id))
           l == IF Len(frames) > 1 /\ Last(frames) = id THEN 1 ELSE 0
           t == Cardinality(TaskUses(id))
           i == Cardinality(LaterUses(id))
           b == IF body = None THEN 0 ELSE Cardinality(BodyUses(id))
           n == Cardinality(NodeUses(h, id))
<1>1. QueueInv /\ Good(heap) /\ Handles \subseteq Live(heap) /\ id \in Live(heap)
  BY ActiveIsLive DEF ScopeInv, HeapInv
<1>2. a \in Nat /\ l \in Nat /\ t \in Nat /\ i \in Nat /\ b \in Nat /\ n \in Nat
  BY <1>1, UsesCounted, CountedNone
<1>3. a + l + t + i + b + n = 1
  BY DEF UseCount, FrameUses, TaskUses, LaterUses, BodyUses, NodeUses
<1>4. /\ n = 0 /\ t = 0 /\ i = 0
      /\ \A m \in 1 .. Len(frames) - 1 : frames[m] # id
      /\ body # None => body.base # id
  <2>1. CASE body = None
    <3>1. id = Current /\ Last(frames) = id /\ Len(frames) \in FrameUses(id) /\ Len(frames) \in Nat
      BY <1>1, <2>1, ActiveIsLive DEF Active, FrameUses, QueueInv, Last
    <3>2. a # 0
      BY <1>1, <3>1, UsesCounted, CountedNone
    <3> HIDE DEF id, a, t, i, b, n
    <3>3. l = 0 /\ t = 0 /\ i = 0 /\ n = 0
      BY <1>2, <1>3, <3>2
    <3>4. Len(frames) = 1
      <4>1. ~(Len(frames) > 1)
        BY <3>1, <3>3
      <4>2. Len(frames) > 0 /\ Len(frames) \in Nat
        BY <1>1 DEF QueueInv
      <4> DEFINE L == Len(frames)
      <4>3. ~(L > 1) /\ L > 0 /\ L \in Nat
        BY <4>1, <4>2
      <4> HIDE DEF L
      <4>4. L = 1
        BY ONLY <4>3
      <4> QED BY <4>4 DEF L
    <3> QED BY <2>1, <3>3, <3>4
  <2>2. CASE body # None
    <3>1. "top" \in BodyUses(id) /\ (body.base = id => "base" \in BodyUses(id))
      BY <2>2 DEF Active, BodyUses
    <3>2. b # 0
      BY <1>1, <2>2, <3>1, UsesCounted, CountedNone
    <3>3. body.base = id => b >= 2
      BY <1>1, <2>2, <3>1, UsesCounted, CountedTwo
    <3>4. a = 0 => FrameUses(id) = {}
      BY <1>1, UsesCounted, CountedNone
    <3> HIDE DEF id, a, t, i, b, n
    <3>5. a = 0 /\ t = 0 /\ i = 0 /\ n = 0 /\ b = 1
      BY <1>2, <1>3, <3>2
    <3>6. \A m \in 1 .. Len(frames) - 1 : frames[m] # id
      BY <1>1, <3>4, <3>5 DEF FrameUses, QueueInv
    <3> QED BY <3>3, <3>5, <3>6
  <2> QED BY <2>1, <2>2
<1>5. TaskUses(id) = {} /\ LaterUses(id) = {} /\ NodeUses(h, id) = {}
  BY <1>1, <1>4, UsesCounted, CountedNone
<1> HIDE DEF id
<1>6. k[3] \in Handles /\ k[3] # id
  <2>1. CASE \E m \in 1 .. Len(frames) - 1 : k = <<"frame", m, frames[m]>>
    BY <1>1, <1>4, <2>1 DEF Handles, Roots, QueueInv, ToSet
  <2>2. CASE \E m \in DOMAIN tasks : k = <<"task", tasks[m].function, tasks[m].scope>>
    BY <1>5, <2>2 DEF Handles, Roots, TaskUses
  <2>3. CASE \E m \in DOMAIN incomplete : k = <<"task", incomplete[m].function, incomplete[m].scope>>
    BY <1>5, <2>3 DEF Handles, Roots, LaterUses
  <2>4. CASE body # None /\ k \in {<<"body", body.function, body.base>>, <<"task", body.function, body.base>>}
    <3>1. k[3] = body.base
      BY <2>4
    <3>2. body.base \in Handles
      BY <2>4 DEF Handles, Roots
    <3>3. body.base # id
      BY <1>4, <2>4
    <3> QED BY ONLY <3>1, <3>2, <3>3
  <2> QED BY <2>1, <2>2, <2>3, <2>4 DEF Kept
<1>7. k[3] \in Live(heap)
  BY <1>1, <1>6
<1>8. ASSUME id \in ToSet(Chain(heap, k[3])) PROVE FALSE
  <2> DEFINE c == Chain(heap, k[3])
  <2>1. PICK m \in 1 .. Len(c) : c[m] = id
    BY <1>1, <1>7, <1>8, ChainMembers
  <2>2. c \in Seq(Live(heap)) /\ c[1] = k[3] /\ HasTails(heap, k[3])
    BY <1>1, <1>7, GoodNode DEF HasChain
  <2> DEFINE j == c[m - 1]
  <2>3. m - 1 \in 1 .. Len(c) /\ m \in Nat /\ Len(c) \in Nat /\ j \in Live(heap)
    BY <1>6, <2>1, <2>2
  <2>4. Len(Chain(heap, j)) = Len(c) - (m - 1) + 1 /\ \A o \in 1 .. Len(Chain(heap, j)) : Chain(heap, j)[o] = c[(m - 1) + o - 1]
    BY <2>2, <2>3 DEF HasTails
  <2> HIDE DEF j
  <2>5. Len(Chain(heap, j)) > 1 /\ Chain(heap, j)[2] = id
    <3>1. 2 \in 1 .. Len(c) - (m - 1) + 1 /\ (m - 1) + 2 - 1 = m
      BY <2>1, <2>3
    <3> QED BY <2>1, <2>4, <3>1
  <2>6. j \in Ids /\ h[j] # None /\ Chain(h, j) = Chain(heap, j)
    <3>1. Live(h) = Live(heap) /\ Chain(h, j) = Chain(heap, j)
      BY <1>1, <2>3, RereadRewritten, RewrittenGood
    <3> QED BY <2>3, <3>1 DEF Live
  <2>7. j \in NodeUses(h, id)
    BY <2>5, <2>6 DEF NodeUses, Parent, Chain
  <2> QED BY <1>5, <2>7
<1> QED BY <1>7, <1>8 DEF id

-----------------------------------------------------------------------------
(* What stays put. *)

LEMMA DirectivesSame ==
  ASSUME NEW h, Good(h), NEW id \in Live(h), NEW g, \A j \in ToSet(Chain(h, id)) : Same(h[j], g[j])
  PROVE  Directives(g, id) = Directives(h, id) /\ Chain(g, id) = Chain(h, id)
<1> DEFINE c == Chain(h, id)
           plain(n) == [n EXCEPT !.cached = Empty, !.chain = <<>>]
<1>1. c \in Seq(Live(h)) /\ id \in ToSet(c) /\ \A n \in DOMAIN c : c[n] \in ToSet(c) /\ c[n] \in Live(h)
  BY GoodNode, ChainMembers DEF HasChain, ToSet
<1>2. Chain(g, id) = c
  <2>1. IsNode(h[id]) /\ Same(h[id], g[id])
    BY <1>1, GoodNode
  <2> QED BY <2>1, SameIsShape DEF SameShape, Chain
<1> HIDE DEF c
<1>3. ASSUME NEW n \in DOMAIN c PROVE plain(h[c[n]]) = plain(g[c[n]])
  <2>1. IsNode(h[c[n]]) /\ Same(h[c[n]], g[c[n]])
    BY <1>1, GoodNode DEF c
  <2> DEFINE x == h[c[n]]
             y == g[c[n]]
  <2> HIDE DEF x, y
  <2>2. DOMAIN x = DOMAIN y /\ \A field \in DOMAIN x \ {"cached"} : y[field] = x[field]
    BY <2>1, NodeFields DEF Same, x, y
  <2>3. plain(x) = plain(y)
    BY <2>2
  <2> QED BY <2>3 DEF x, y
<1>4. Directives(h, id) = [n \in DOMAIN c |-> plain(h[c[n]])] /\ Directives(g, id) = [n \in DOMAIN c |-> plain(g[c[n]])]
  BY <1>2 DEF Directives, c
<1> HIDE DEF plain
<1> QED BY <1>2, <1>3, <1>4 DEF c

\* What a step makes of the nodes, before those that are not needed are freed.
Grows(h, g) ==
  /\ Good(g) /\ Live(h) \subseteq Live(g)
  /\ \A i \in Live(h) : g[i] = h[i] \/ (i = Active /\ UseCount(h, Active) = 1)

\* The functions of the queues with their scopes.
Queued(t, i, b) ==
       {<<t[n].function, t[n].scope>> : n \in DOMAIN t}
  \cup {<<i[n].function, i[n].scope>> : n \in DOMAIN i}
  \cup (IF b = None THEN {} ELSE {<<b.function, b.base>>})

\* A function that is in the queues before and after a step has the same scope.
QueuesAgree(f, t, i, b) ==
  /\ \A n \in 1 .. Len(f) - 1 : n \in 1 .. Len(frames) - 1 => f[n] = frames[n]
  /\ \A p \in Queued(tasks, incomplete, body), q \in Queued(t, i, b) : p[1] = q[1] => p[2] = q[2]
  /\ body # None /\ b # None => b.base = body.base

LEMMA KeptIsRooted ==
  ASSUME NEW f \in Seq(Ids), NEW t, NEW i, NEW b, NEW k \in Kept(f, t, i, b)
  PROVE  k[3] \in Roots(f, t, i, b)
<1>1. CASE \E m \in 1 .. Len(f) - 1 : k = <<"frame", m, f[m]>>
  BY <1>1 DEF Roots, ToSet
<1>2. CASE \E m \in DOMAIN t : k = <<"task", t[m].function, t[m].scope>>
  BY <1>2 DEF Roots
<1>3. CASE \E m \in DOMAIN i : k = <<"task", i[m].function, i[m].scope>>
  BY <1>3 DEF Roots
<1>4. CASE b # None /\ k \in {<<"body", b.function, b.base>>, <<"task", b.function, b.base>>}
  <2>1. k[3] = b.base
    BY <1>4
  <2> QED BY <1>4, <2>1 DEF Roots
<1> QED BY <1>1, <1>2, <1>3, <1>4 DEF Kept

LEMMA KeptNodesStay ==
  ASSUME ScopeInv, NEW h, Reread(heap, h), NEW g, Grows(h, g), NEW k \in Kept(frames, tasks, incomplete, body)
  PROVE  k[3] \in Live(heap) /\ \A j \in ToSet(Chain(heap, k[3])) : Same(heap[j], g[j])
<1>4. Good(heap)
  BY DEF ScopeInv, HeapInv
<1>5. k[3] \in Handles
  BY KeptIsRooted DEF Handles, ScopeInv, QueueInv
<1>1. Good(heap) /\ k[3] \in Handles
  BY <1>4, <1>5
<1>2. k[3] \in Live(heap) /\ ToSet(Chain(heap, k[3])) \subseteq Live(heap)
  BY <1>1, ChainMembers DEF ScopeInv, HeapInv
<1>3. ASSUME NEW j \in ToSet(Chain(heap, k[3])) PROVE Same(heap[j], g[j])
  <2>1. Same(heap[j], h[j]) /\ j \in Live(h)
    BY <1>1, <1>2, RereadRewritten, RewrittenGood DEF Reread, Live
  <2>2. ~(j = Active /\ UseCount(h, Active) = 1)
    BY Unshared
  <2> QED BY <2>1, <2>2 DEF Grows
<1> QED BY <1>2, <1>3

StaysPut ==
  \A k \in Kept(frames, tasks, incomplete, body), l \in Kept(frames', tasks', incomplete', body') :
    k[1] = l[1] /\ k[2] = l[2] => Directives(heap, k[3]) = Directives(heap', l[3])

LEMMA SamePlace ==
  ASSUME NEW f, NEW t, NEW i, NEW b, QueuesAgree(f, t, i, b),
         NEW k \in Kept(frames, tasks, incomplete, body), NEW l \in Kept(f, t, i, b), k[1] = l[1], k[2] = l[2]
  PROVE  k[3] = l[3]
<1>1. CASE k[1] = "frame"
  <2>1. \A p \in Kept(frames, tasks, incomplete, body) : p[1] = "frame" => p[2] \in 1 .. Len(frames) - 1 /\ p[3] = frames[p[2]]
    BY DEF Kept
  <2>2. \A p \in Kept(f, t, i, b) : p[1] = "frame" => p[2] \in 1 .. Len(f) - 1 /\ p[3] = f[p[2]]
    BY DEF Kept
  <2>3. k[2] \in 1 .. Len(frames) - 1 /\ k[3] = frames[k[2]] /\ k[2] \in 1 .. Len(f) - 1 /\ l[3] = f[k[2]]
    BY <1>1, <2>1, <2>2
  <2>4. f[k[2]] = frames[k[2]]
    BY <2>3 DEF QueuesAgree
  <2> QED BY <2>3, <2>4
<1>2. CASE k[1] = "task"
  <2>1. \A p \in Kept(frames, tasks, incomplete, body) : p[1] = "task" => <<p[2], p[3]>> \in Queued(tasks, incomplete, body)
    BY DEF Kept, Queued
  <2>2. \A p \in Kept(f, t, i, b) : p[1] = "task" => <<p[2], p[3]>> \in Queued(t, i, b)
    BY DEF Kept, Queued
  <2>3. <<k[2], k[3]>> \in Queued(tasks, incomplete, body) /\ <<l[2], l[3]>> \in Queued(t, i, b)
    BY <1>2, <2>1, <2>2
  <2> QED BY <2>3 DEF QueuesAgree
<1>3. CASE k[1] = "body"
  <2>1. \A p \in Kept(frames, tasks, incomplete, body) : p[1] = "body" => body # None /\ p[3] = body.base
    BY DEF Kept
  <2>2. \A p \in Kept(f, t, i, b) : p[1] = "body" => b # None /\ p[3] = b.base
    BY DEF Kept
  <2> QED BY <1>3, <2>1, <2>2 DEF QueuesAgree
<1>4. k[1] \in {"frame", "task", "body"}
  BY DEF Kept
<1> QED BY <1>1, <1>2, <1>3, <1>4

\* A step that leaves the shared nodes alone, whatever it frees.
LEMMA HeapStep ==
  ASSUME ScopeInv, NEW h, Reread(heap, h), NEW g, Grows(h, g),
         NEW f \in Seq(Ids), NEW t, NEW i, NEW b, Becomes(g, f, t, i, b),
         Roots(f, t, i, b) \subseteq Live(g), QueuesAgree(f, t, i, b)
  PROVE  /\ Good(heap') /\ Handles' \subseteq Live(heap') /\ StaysPut
         /\ Live(heap') \subseteq Live(g) /\ \A j \in Live(heap') : heap'[j] = g[j]
         /\ \A id \in Roots(f, t, i, b) : id \in Live(heap') /\ Chain(heap', id) = Chain(g, id)
                                          /\ ToSet(Chain(g, id)) \subseteq Live(heap')
<1> DEFINE R == Roots(f, t, i, b)
<1>1. heap' = Collected(g, R) /\ frames' = f /\ tasks' = t /\ incomplete' = i /\ body' = b
  BY DEF Becomes
<1>2. /\ Good(Collected(g, R)) /\ R \subseteq Live(Collected(g, R)) /\ Live(Collected(g, R)) \subseteq Live(g)
      /\ \A j \in Live(Collected(g, R)) : Collected(g, R)[j] = g[j]
      /\ \A id \in R : ToSet(Chain(g, id)) \subseteq Live(Collected(g, R))
  BY CollectedGood DEF Grows
<1>3. /\ Good(heap') /\ R \subseteq Live(heap') /\ Live(heap') \subseteq Live(g)
      /\ \A j \in Live(heap') : heap'[j] = g[j]
      /\ \A id \in R : ToSet(Chain(g, id)) \subseteq Live(heap')
  BY <1>1, <1>2
<1>4. Handles' = R
  BY <1>1 DEF Handles
<1>5. \A id \in R : Chain(heap', id) = Chain(g, id)
  BY <1>3 DEF Chain
<1>6. StaysPut
  <2>1. SUFFICES ASSUME NEW k \in Kept(frames, tasks, incomplete, body), NEW l \in Kept(f, t, i, b),
                        k[1] = l[1], k[2] = l[2]
                 PROVE  Directives(heap, k[3]) = Directives(heap', l[3])
    BY <1>1 DEF StaysPut
  <2>2. k[3] = l[3] /\ l[3] \in R
    BY <2>1, SamePlace, KeptIsRooted
  <2>3. k[3] \in Live(heap) /\ \A j \in ToSet(Chain(heap, k[3])) : Same(heap[j], g[j])
    BY KeptNodesStay
  <2>4. Good(heap)
    BY DEF ScopeInv, HeapInv
  <2>5. Chain(g, k[3]) = Chain(heap, k[3])
    BY <2>3, <2>4, DirectivesSame
  <2>6. \A j \in ToSet(Chain(heap, k[3])) : heap'[j] = g[j]
    BY <1>3, <2>2, <2>5
  <2>7. Directives(heap', k[3]) = Directives(heap, k[3])
    <3>1. \A x : x = heap' => (\A j \in ToSet(Chain(heap, k[3])) : Same(heap[j], x[j]))
      BY <2>3, <2>6
    <3>2. \A x : (\A j \in ToSet(Chain(heap, k[3])) : Same(heap[j], x[j])) => Directives(x, k[3]) = Directives(heap, k[3])
      BY <2>3, <2>4, DirectivesSame
    <3> QED BY <3>1, <3>2
  <2> QED BY <2>2, <2>7
<1> QED BY <1>3, <1>4, <1>5, <1>6

-----------------------------------------------------------------------------
(* Declarations. *)

LEMMA RereadTrans ==
  ASSUME NEW h, Good(h), NEW g, Reread(h, g), NEW k, Reread(g, k)
  PROVE  Reread(h, k)
<1>1. ASSUME NEW i \in Ids PROVE IF h[i] = None THEN k[i] = None ELSE Same(h[i], k[i])
  <2>1. CASE h[i] = None
    BY <2>1 DEF Reread
  <2>2. CASE h[i] # None
    <3>1. IsNode(h[i]) /\ Same(h[i], g[i])
      BY <2>2, GoodNode DEF Reread, Live
    <3>2. g[i] # None
      BY <3>1, NodeFields DEF Same
    <3>3. Same(g[i], k[i])
      BY <3>2 DEF Reread
    <3> QED BY <2>2, <3>1, <3>3, SameTrans
  <2> QED BY <2>1, <2>2
<1> QED BY <1>1 DEF Reread

LEMMA RereadFacts ==
  ASSUME NEW h, Good(h), NEW g, Reread(h, g)
  PROVE  /\ Good(g) /\ Live(g) = Live(h) /\ Free(g) = Free(h)
         /\ \A i \in Live(h) : Chain(g, i) = Chain(h, i) /\ Same(h[i], g[i])
<1>1. Good(g) /\ Live(g) = Live(h) /\ \A i \in Live(h) : Chain(g, i) = Chain(h, i)
  BY RereadRewritten, RewrittenGood
<1>2. Free(g) = Ids \ Live(g) /\ Free(h) = Ids \ Live(h)
  BY DEF Free, Live
<1> QED BY <1>1, <1>2 DEF Reread, Live

LEMMA GrowsSelf ==
  ASSUME NEW h, Good(h)
  PROVE  Grows(h, h)
BY DEF Grows

LEMMA DirectsGrows ==
  ASSUME NEW h, NEW r, Directs(h, Active, r)
  PROVE  Grows(h, r.heap)
BY DEF Directs, Grows

LEMMA HasRoomThere ==
  ASSUME Good(heap), NEW h, Reread(heap, h), NEW id \in Live(heap), HasRoom(id)
  PROVE  Room(h, Len(Chain(h, id))) /\ Room(h, Len(Chain(h, id)) + 1) /\ Len(Chain(h, id)) \in Nat \ {0}
<1>1. Free(h) = Free(heap) /\ Chain(h, id) = Chain(heap, id)
  BY RereadFacts
<1>2. Len(Chain(heap, id)) \in Nat \ {0}
  BY GoodNode DEF HasChain
<1>3. Room(h, Len(Chain(h, id)) + 1)
  BY <1>1 DEF Room, HasRoom
<1> QED BY <1>1, <1>2, <1>3 DEF Room

LEMMA NoBody ==
  ASSUME ScopeInv, phase # "compile"
  PROVE  body = None /\ Active = Current /\ Current \in Live(heap) /\ Good(heap)
BY ActiveIsLive DEF ScopeInv, HeapInv, FunctionInv, Active

\* A declaration that leaves the queues alone.
LEMMA FramesStep ==
  ASSUME ScopeInv, phase # "compile", phase' = phase, NEW h, Reread(heap, h), NEW g, Grows(h, g),
         NEW f \in Seq(Ids), Len(f) > 0, ToSet(f) \subseteq Live(g), Becomes(g, f, tasks, incomplete, body),
         \A n \in 1 .. Len(f) - 1 : n \in 1 .. Len(frames) - 1 => f[n] = frames[n],
         NEW new, declared' = declared \cup new, \A e \in new : e.kind = "class"
  PROVE  ScopeInv' /\ StaysPut
<1>1. body = None /\ Good(heap) /\ Handles \subseteq Live(heap)
  BY NoBody DEF ScopeInv, HeapInv
<1>2. frames' = f /\ tasks' = tasks /\ incomplete' = incomplete /\ body' = body
  BY DEF Becomes
<1>3. Roots(f, tasks, incomplete, body) \subseteq Live(g)
  <2>1. Live(heap) \subseteq Live(g)
    BY <1>1, RereadFacts DEF Grows
  <2> QED BY <1>1, <2>1 DEF Roots, Handles
<1>4. QueuesAgree(f, tasks, incomplete, body)
  <2>1. ASSUME NEW p \in Queued(tasks, incomplete, body), NEW q \in Queued(tasks, incomplete, body), p[1] = q[1]
        PROVE  p[2] = q[2]
    <3>1. (\E n \in DOMAIN tasks : p = <<tasks[n].function, tasks[n].scope>>)
          \/ (\E n \in DOMAIN incomplete : p = <<incomplete[n].function, incomplete[n].scope>>)
      BY <1>1 DEF Queued
    <3>2. (\E n \in DOMAIN tasks : q = <<tasks[n].function, tasks[n].scope>>)
          \/ (\E n \in DOMAIN incomplete : q = <<incomplete[n].function, incomplete[n].scope>>)
      BY <1>1 DEF Queued
    <3> QED BY <2>1, <3>1, <3>2 DEF ScopeInv, FunctionInv, None
  <2> QED BY <1>1, <2>1 DEF QueuesAgree
<1>5. Good(heap') /\ Handles' \subseteq Live(heap') /\ StaysPut
  BY <1>3, <1>4, HeapStep
<1>6. QueueInv'
  BY <1>1, <1>2 DEF ScopeInv, QueueInv
<1>7. FunctionInv'
  BY <1>1, <1>2 DEF ScopeInv, FunctionInv
<1>8. HeapInv'
  BY <1>1, <1>2, <1>5 DEF HeapInv
<1> QED BY <1>5, <1>6, <1>7, <1>8 DEF ScopeInv

\* The handles of the declarations that are open.
LEMMA FrameFacts ==
  ASSUME ScopeInv
  PROVE  /\ frames \in Seq(Live(heap)) /\ frames \in Seq(Ids) /\ Len(frames) \in Nat /\ Len(frames) > 0
         /\ \A n \in 1 .. Len(frames) : frames[n] \in Live(heap)
<1>1. frames \in Seq(Ids) /\ Len(frames) \in Nat /\ Len(frames) > 0
  BY DEF ScopeInv, QueueInv
<1>2. ASSUME NEW n \in 1 .. Len(frames) PROVE frames[n] \in Live(heap)
  <2>1. frames[n] \in ToSet(frames)
    BY <1>1 DEF ToSet
  <2> QED BY <2>1 DEF ScopeInv, HeapInv, Handles, Roots
<1> QED BY <1>1, <1>2

LEMMA FramesReplaced ==
  ASSUME NEW S, NEW s \in Seq(S), Len(s) > 0, NEW x \in S
  PROVE  /\ Append(Front(s), x) \in Seq(S) /\ Len(Append(Front(s), x)) = Len(s)
         /\ \A n \in 1 .. Len(s) - 1 : Append(Front(s), x)[n] = s[n]
         /\ Front(s) \in Seq(S) /\ Len(Front(s)) = Len(s) - 1
         /\ \A n \in 1 .. Len(s) - 1 : Front(s)[n] = s[n]
<1>1. Front(s) \in Seq(S) /\ Len(Front(s)) = Len(s) - 1 /\ \A n \in 1 .. Len(s) - 1 : Front(s)[n] = s[n]
  <2> DEFINE L == Len(s)
  <2>1. L \in Nat /\ L > 0 /\ \A n \in 1 .. L - 1 : s[n] \in S /\ n + 1 - 1 = n
    OBVIOUS
  <2>2. Front(s) = [n \in 1 .. L - 1 |-> s[n]]
    BY <2>1 DEF Front
  <2> HIDE DEF L
  <2>3. L - 1 \in Nat
    BY <2>1
  <2>4. Front(s) \in Seq(S) /\ Len(Front(s)) = L - 1
    BY <2>1, <2>2, <2>3
  <2> QED BY <2>2, <2>4 DEF L
<1>2. Len(Append(Front(s), x)) = Len(Front(s)) + 1 /\ Append(Front(s), x) \in Seq(S)
  BY <1>1
<1>3. \A n \in 1 .. Len(Front(s)) : Append(Front(s), x)[n] = Front(s)[n]
  BY <1>1
<1> QED BY <1>1, <1>2, <1>3

\* A directive, or an access specifier, puts another node in the place of the current one.
LEMMA DirectiveStep ==
  ASSUME ScopeInv, phase # "compile", phase' = phase, declared' = declared,
         NEW h, Reread(heap, h), NEW r, Directs(h, Current, r), NEW f,
         f = frames \/ f = Append(Front(frames), r.id), Becomes(r.heap, f, tasks, incomplete, body)
  PROVE  ScopeInv' /\ StaysPut
<1>1. body = None /\ Active = Current /\ Current \in Live(heap) /\ Good(heap)
  BY NoBody
<1>2. Grows(h, r.heap)
  BY <1>1, DirectsGrows
<1>3. Live(heap) \subseteq Live(r.heap) /\ r.id \in Live(r.heap) /\ Live(r.heap) \subseteq Ids
  BY <1>1, RereadFacts DEF Directs, Live
<1>4. frames \in Seq(Live(r.heap)) /\ Len(frames) \in Nat /\ Len(frames) > 0
  BY <1>3, FrameFacts
<1>5. f \in Seq(Live(r.heap)) /\ Len(f) = Len(frames) /\ \A n \in 1 .. Len(frames) - 1 : f[n] = frames[n]
  <2> DEFINE S == Live(r.heap)
             x == r.id
  <2>1. frames \in Seq(S) /\ Len(frames) > 0 /\ x \in S
    BY <1>3, <1>4
  <2> HIDE DEF S, x
  <2>2. Append(Front(frames), x) \in Seq(S) /\ Len(Append(Front(frames), x)) = Len(frames)
        /\ \A n \in 1 .. Len(frames) - 1 : Append(Front(frames), x)[n] = frames[n]
    BY <2>1, FramesReplaced
  <2> QED BY <2>1, <2>2 DEF S, x
<1>6. f \in Seq(Ids) /\ Len(f) > 0 /\ ToSet(f) \subseteq Live(r.heap)
  BY <1>3, <1>4, <1>5 DEF ToSet
<1>7. \A n \in 1 .. Len(f) - 1 : n \in 1 .. Len(frames) - 1 => f[n] = frames[n]
  BY <1>5
<1> DEFINE new == {}
<1>8. declared' = declared \cup new /\ \A e \in new : e.kind = "class"
  OBVIOUS
<1> HIDE DEF new
<1> QED BY <1>2, <1>6, <1>7, <1>8, FramesStep

LEMMA ProcessedStep ==
  ASSUME ScopeInv, phase # "compile", phase' = phase, declared' = declared,
         NEW h, Reread(heap, h), NEW r, Directs(h, Current, r), Processed(r)
  PROVE  ScopeInv' /\ StaysPut
<1> DEFINE f == IF Len(frames) = 1 THEN <<r.id>> ELSE frames
<1>1. f = frames \/ f = Append(Front(frames), r.id)
  <2>1. CASE Len(frames) = 1
    <3>1. frames \in Seq(Ids) /\ Front(frames) = <<>>
      BY <2>1, FrameFacts DEF Front
    <3> QED BY <2>1, <3>1
  <2> QED BY <2>1
<1>2. Becomes(r.heap, f, tasks, incomplete, body)
  BY DEF Processed
<1> HIDE DEF f
<1> QED BY <1>1, <1>2, DirectiveStep

\* A declaration that opens a scope of its own.
LEMMA OpenStep ==
  ASSUME ScopeInv, phase # "compile", phase' = phase, HasRoom(Current),
         NEW h, Reread(heap, h), NEW node, IsNode(node),
         Becomes(Placed(h, node, Current).heap, Append(frames, Placed(h, node, Current).id), tasks, incomplete, body),
         NEW new, declared' = declared \cup new, \A e \in new : e.kind = "class"
  PROVE  ScopeInv' /\ StaysPut
<1> DEFINE id == NewId(h, 1)
           g == WithNode(h, id, node, Current)
           f == Append(frames, id)
<1>1. body = None /\ Active = Current /\ Current \in Live(heap) /\ Good(heap)
  BY NoBody
<1>2. Good(h) /\ Live(h) = Live(heap) /\ Room(h, Len(Chain(h, Current))) /\ Len(Chain(h, Current)) \in Nat \ {0}
  BY <1>1, RereadFacts, HasRoomThere
<1>3. id \in Ids /\ h[id] = None
  BY <1>2, NewIdIsFree
<1>4. Becomes(g, f, tasks, incomplete, body)
  BY DEF Placed
<1> HIDE DEF id
<1>5. Good(g) /\ Live(g) = Live(h) \cup {id} /\ \A i \in Live(h) : g[i] = h[i]
  <2>1. Current \in Live(h)
    BY <1>1, <1>2
  <2>2. OneMore(h, g, id)
    BY <1>2, <1>3, <2>1, WithNodeGood, Zenon
  <2> QED BY <2>2 DEF OneMore
<1> HIDE DEF g
<1>6. Grows(h, g)
  BY <1>5 DEF Grows
<1>7. frames \in Seq(Live(g)) /\ Len(frames) \in Nat /\ Len(frames) > 0 /\ id \in Live(g) /\ Live(g) \subseteq Ids
  BY <1>2, <1>5, FrameFacts DEF Live
<1>8. f \in Seq(Live(g)) /\ Len(f) = Len(frames) + 1 /\ \A n \in 1 .. Len(frames) : f[n] = frames[n]
  BY <1>7
<1> HIDE DEF f
<1>9. f \in Seq(Ids) /\ Len(f) > 0 /\ ToSet(f) \subseteq Live(g)
      /\ \A n \in 1 .. Len(f) - 1 : n \in 1 .. Len(frames) - 1 => f[n] = frames[n]
  BY <1>7, <1>8 DEF ToSet
<1> QED BY <1>4, <1>6, <1>9, FramesStep

\* A namespace that a lookup has found is a node.
LEMMA FoundSpace ==
  ASSUME NEW h, Good(h), NEW id \in Live(h), NEW name, Lookup(h, id, name).result.space # None
  PROVE  LET space == Lookup(h, id, name).result.space IN space.imports \in Seq(ToSet(space.imports))
<1> DEFINE chain == Chain(h, id)
           found == {n \in DOMAIN chain : LookupIn(h[chain[n]], name) # Nothing}
           last == IF found = {} THEN Len(chain) ELSE FirstOf(found)
           r == Lookup(h, id, name).result
<1>1. chain \in Seq(Live(h)) /\ Len(chain) > 0 /\ Len(chain) \in Nat
  BY GoodNode DEF HasChain
<1>2. found \subseteq 1 .. Len(chain)
  BY <1>1
<1>3. last \in 1 .. Len(chain)
  <2>1. found \subseteq Nat
    BY <1>1, <1>2
  <2> HIDE DEF found, chain
  <2>2. CASE found = {}
    <3>1. last = Len(chain)
      BY <2>2
    <3> QED BY <1>1, <3>1
  <2>3. CASE found # {}
    <3>1. last = FirstOf(found) /\ FirstOf(found) \in found
      BY <2>1, <2>3, FirstIsLeast
    <3> QED BY <1>2, <3>1
  <2> QED BY <2>2, <2>3
<1>4. r = LookupIn(h[chain[last]], name)
  BY DEF Lookup
<1> HIDE DEF last
<1>5. chain[last] \in Live(h) /\ IsNode(h[chain[last]])
  BY <1>1, <1>3, GoodNode
<1>6. HasNested(h[chain[last]], name) /\ r.space = ChildScope(h[chain[last]], name)
  BY <1>4 DEF LookupIn, Nothing
<1> QED BY <1>5, <1>6, ChildScopeNode

LEMMA DeclareClassStep ==
  ASSUME ScopeInv, NEW name, DeclareClass(name)
  PROVE  ScopeInv' /\ StaysPut
<1> DEFINE h == Invalidated(heap, Current, "class")
           new == {Entity(Here, "class", name)}
<1>1. phase # "compile" /\ phase' = phase
  BY DEF DeclareClass, Declaring
<1>2. Current \in Live(heap) /\ Good(heap)
  BY <1>1, NoBody
<1>3. Reread(heap, h)
  BY <1>2, InvalidatedRereads DEF Kinds
<1>4. Good(h) /\ Live(h) = Live(heap) /\ Grows(h, h)
  BY <1>2, <1>3, RereadFacts, GrowsSelf
<1>5. Becomes(h, frames, tasks, incomplete, body) /\ declared' = declared \cup new
  BY DEF DeclareClass
<1>6. \A e \in new : e.kind = "class"
  BY DEF Entity
<1>7. frames \in Seq(Ids) /\ Len(frames) > 0 /\ ToSet(frames) \subseteq Live(h)
  BY <1>4, FrameFacts DEF ToSet
<1> HIDE DEF h, new
<1> QED BY <1>1, <1>3, <1>4, <1>5, <1>6, <1>7, FramesStep

LEMMA OpenClassStep ==
  ASSUME ScopeInv, NEW name, OpenClass(name)
  PROVE  ScopeInv' /\ StaysPut
<1> DEFINE h == Invalidated(heap, Current, "class")
           node == Node("ClassScope", Append(Here, name))
           new == {Entity(Here, "class", name)}
<1>1. phase # "compile" /\ phase' = phase /\ HasRoom(Current)
  BY DEF OpenClass, Declaring
<1>2. Current \in Live(heap) /\ Good(heap)
  BY <1>1, NoBody
<1>3. Reread(heap, h)
  BY <1>2, InvalidatedRereads DEF Kinds
<1>4. IsNode(node)
  BY NodeNew DEF NodeKinds
<1>5. Becomes(Placed(h, node, Current).heap, Append(frames, Placed(h, node, Current).id), tasks, incomplete, body)
  BY DEF OpenClass
<1>6. declared' = declared \cup new /\ \A e \in new : e.kind = "class"
  BY DEF OpenClass, Entity
<1> HIDE DEF h, node, new
<1> QED BY <1>1, <1>3, <1>4, <1>5, <1>6, OpenStep

LEMMA OpenNamespaceStep ==
  ASSUME ScopeInv, NEW name, OpenNamespace(name)
  PROVE  ScopeInv' /\ StaysPut
<1> DEFINE n == heap[Current]
           paths == Nested(n, name, spaces')
           node == [Node("NamespaceScope", Append(Here, name)) EXCEPT !.imports = Tail(paths)]
           h == [heap EXCEPT ![Current] = Read(@, "class")]
           new == {}
<1>1. phase # "compile" /\ phase' = phase /\ HasRoom(Current)
  BY DEF OpenNamespace, Declaring
<1>2. Current \in Live(heap) /\ Good(heap) /\ IsNode(n)
  BY <1>1, NoBody, GoodNode
<1>3. Reread(heap, h)
  <2>1. h = [i \in Ids |-> IF i = Current THEN Read(heap[i], "class") ELSE heap[i]]
    BY <1>2 DEF Good, Live
  <2>2. ASSUME NEW i \in Ids PROVE IF heap[i] = None THEN h[i] = None ELSE Same(heap[i], h[i])
    <3>1. CASE heap[i] = None
      BY <1>2, <2>1, <3>1 DEF Live
    <3>2. CASE heap[i] # None
      <4>1. IsNode(heap[i]) /\ Same(heap[i], Read(heap[i], "class")) /\ Same(heap[i], heap[i])
        BY <1>2, <3>2, GoodNode, ReadSame DEF Live, Same, Kinds
      <4> HIDE DEF h
      <4> QED BY <2>1, <3>2, <4>1
    <3> QED BY <3>1, <3>2
  <2> HIDE DEF h
  <2> QED BY <2>1, <2>2 DEF Reread
<1>4. IsNode(node)
  <2> DEFINE H == Holders(n, name, spaces')
  <2>1. 1 \in H
    <3>1. Append(Here, name) \in spaces'
      BY DEF OpenNamespace
    <3> QED BY <1>2, <3>1, OuterSequence DEF Holders, Here
  <2>2. \A x : /\ IsFiniteSet(Holders(n, name, x)) /\ Cardinality(Holders(n, name, x)) \in Nat
               /\ Nested(n, name, x) \in Seq(ToSet(Nested(n, name, x)))
               /\ Len(Nested(n, name, x)) = Cardinality(Holders(n, name, x))
    BY <1>2, HoldersCounted, NestedIsSequence
  <2>3. IsFiniteSet(H) /\ paths \in Seq(ToSet(paths)) /\ Len(paths) = Cardinality(H) /\ Cardinality(H) \in Nat
    BY <2>2
  <2> HIDE DEF H, paths
  <2>4. Len(paths) > 0
    BY <2>1, <2>3, CountedNone
  <2>5. Tail(paths) \in Seq(ToSet(Tail(paths)))
    BY <2>3, <2>4, TailSequence
  <2> QED BY <2>5, SpaceNode
<1>5. Becomes(Placed(h, node, Current).heap, Append(frames, Placed(h, node, Current).id), tasks, incomplete, body)
  BY DEF OpenNamespace
<1>6. declared' = declared \cup new /\ \A e \in new : e.kind = "class"
  BY DEF OpenNamespace
<1> HIDE DEF h, node, new
<1> QED BY <1>1, <1>3, <1>4, <1>5, <1>6, OpenStep

\* Where a directive in a declaration finds the heap, after its lookup.
LEMMA DeclaringThere ==
  ASSUME ScopeInv, Declaring, NEW h, Reread(heap, h)
  PROVE  /\ phase # "compile" /\ Good(h) /\ Current \in Live(h) /\ Room(h, Len(Chain(h, Current)))
<1>1. phase # "compile" /\ HasRoom(Current)
  BY DEF Declaring
<1>2. Current \in Live(heap) /\ Good(heap)
  BY <1>1, NoBody
<1>3. Good(h) /\ Live(h) = Live(heap) /\ Room(h, Len(Chain(h, Current)))
  BY <1>1, <1>2, RereadFacts, HasRoomThere
<1> QED BY <1>1, <1>2, <1>3

LEMMA UsingDirectiveStep ==
  ASSUME ScopeInv, NEW name, UsingDirective(name)
  PROVE  ScopeInv' /\ StaysPut
<1> DEFINE lookup == Lookup(heap, Current, name)
           h == lookup.heap
           space == lookup.result.space
           r == InjectSpace(h, Current, space)
<1>1. Declaring /\ phase' = phase /\ declared' = declared /\ space # None /\ Processed(r)
  BY DEF UsingDirective
<1>2. Good(heap) /\ Current \in Live(heap)
  BY ActiveIsLive DEF ScopeInv, HeapInv
<1>3. Reread(heap, h) /\ space.imports \in Seq(ToSet(space.imports))
  BY <1>1, <1>2, LookupRereads, FoundSpace
<1>4. phase # "compile" /\ Good(h) /\ Current \in Live(h) /\ Room(h, Len(Chain(h, Current)))
  BY <1>1, <1>3, DeclaringThere
<1> HIDE DEF h, space
<1>5. Directs(h, Current, r)
  BY <1>3, <1>4, SpaceDirects
<1> HIDE DEF r
<1> QED BY <1>1, <1>3, <1>4, <1>5, ProcessedStep

LEMMA UsingDeclarationStep ==
  ASSUME ScopeInv, NEW space, NEW name, UsingDeclaration(space, name)
  PROVE  ScopeInv' /\ StaysPut
<1> DEFINE lookup == QualifiedLookup(heap, Current, space, name)
           h == lookup.heap
           r == InjectEntities(h, Current, lookup.result.functions)
<1>1. Declaring /\ phase' = phase /\ declared' = declared /\ Processed(r)
  BY DEF UsingDeclaration
<1>2. Good(heap) /\ Current \in Live(heap)
  BY ActiveIsLive DEF ScopeInv, HeapInv
<1>3. Reread(heap, h)
  BY <1>2, QualifiedRereads
<1>4. phase # "compile" /\ Good(h) /\ Current \in Live(h) /\ Room(h, Len(Chain(h, Current)))
  BY <1>1, <1>3, DeclaringThere
<1> HIDE DEF h
<1>5. Directs(h, Current, r)
  BY <1>4, EntitiesDirect
<1> HIDE DEF r
<1> QED BY <1>1, <1>3, <1>4, <1>5, ProcessedStep

LEMMA TypeAliasStep ==
  ASSUME ScopeInv, NEW name, NEW type, TypeAlias(name, type)
  PROVE  ScopeInv' /\ StaysPut
<1> DEFINE lookup == Resolve(heap, Current, type)
           h == lookup.heap
<1>1. PICK entity : Declaring /\ phase' = phase /\ declared' = declared /\ Processed(InjectAlias(h, Current, name, entity))
  BY DEF TypeAlias
<1> DEFINE r == InjectAlias(h, Current, name, entity)
<1>2. Good(heap) /\ Current \in Live(heap)
  BY ActiveIsLive DEF ScopeInv, HeapInv
<1>3. Reread(heap, h)
  BY <1>2, ResolveRereads
<1>4. phase # "compile" /\ Good(h) /\ Current \in Live(h) /\ Room(h, Len(Chain(h, Current)))
  BY <1>1, <1>3, DeclaringThere
<1> HIDE DEF h
<1>5. Directs(h, Current, r) /\ Processed(r)
  BY <1>1, <1>4, AliasDirects
<1> HIDE DEF r
<1> QED BY <1>1, <1>3, <1>4, <1>5, ProcessedStep

LEMMA NamespaceAliasStep ==
  ASSUME ScopeInv, NEW name, NEW space, NamespaceAlias(name, space)
  PROVE  ScopeInv' /\ StaysPut
<1> DEFINE r == InjectSpaceAlias(heap, Current, name, space)
<1>1. Declaring /\ phase' = phase /\ declared' = declared /\ Processed(r)
      /\ \E i \in ToSet(Chain(heap, Current)) : HasNested(heap[i], space)
  BY DEF NamespaceAlias
<1>2. Reread(heap, heap)
  BY RereadSelf DEF ScopeInv, HeapInv
<1>3. phase # "compile" /\ Good(heap) /\ Current \in Live(heap) /\ Room(heap, Len(Chain(heap, Current)))
  BY <1>1, <1>2, DeclaringThere
<1>4. Directs(heap, Current, r)
  BY <1>1, <1>3, SpaceAliasDirects
<1> HIDE DEF r
<1> QED BY <1>1, <1>2, <1>3, <1>4, ProcessedStep

LEMMA ImportStep ==
  ASSUME ScopeInv, NEW module, Import(module)
  PROVE  ScopeInv' /\ StaysPut
<1> DEFINE r == Merge(heap, Current, module)
<1>1. Declaring /\ phase' = phase /\ declared' = declared /\ Processed(r)
  BY DEF Import
<1>2. Reread(heap, heap)
  BY RereadSelf DEF ScopeInv, HeapInv
<1>3. phase # "compile" /\ Good(heap) /\ Current \in Live(heap) /\ Room(heap, Len(Chain(heap, Current)))
  BY <1>1, <1>2, DeclaringThere
<1>4. Directs(heap, Current, r)
  BY <1>3, MergeDirects
<1> HIDE DEF r
<1> QED BY <1>1, <1>2, <1>3, <1>4, ProcessedStep

LEMMA AccessSpecifierStep ==
  ASSUME ScopeInv, AccessSpecifier
  PROVE  ScopeInv' /\ StaysPut
<1> DEFINE r == Cloned(heap, Current)
           f == Append(Front(frames), r.id)
<1>1. Declaring /\ phase' = phase /\ declared' = declared /\ Becomes(r.heap, f, tasks, incomplete, body)
  BY DEF AccessSpecifier
<1>2. Reread(heap, heap)
  BY RereadSelf DEF ScopeInv, HeapInv
<1>3. phase # "compile" /\ Good(heap) /\ Current \in Live(heap) /\ Room(heap, Len(Chain(heap, Current)))
  BY <1>1, <1>2, DeclaringThere
<1>4. Directs(heap, Current, r)
  BY <1>3, CloneDirects
<1>5. f = frames \/ f = Append(Front(frames), r.id)
  OBVIOUS
<1> HIDE DEF r, f
<1> QED BY <1>1, <1>2, <1>3, <1>4, <1>5, DirectiveStep

LEMMA CloseStep ==
  ASSUME ScopeInv, Close
  PROVE  ScopeInv' /\ StaysPut
<1> DEFINE f == Front(frames)
           new == {}
<1>1. phase # "compile" /\ phase' = phase /\ Becomes(heap, f, tasks, incomplete, body) /\ Len(frames) > 1
      /\ declared' = declared \cup new /\ \A e \in new : e.kind = "class"
  BY DEF Close
<1>2. Reread(heap, heap) /\ Grows(heap, heap)
  BY RereadSelf, GrowsSelf DEF ScopeInv, HeapInv
<1>3. frames \in Seq(Live(heap)) /\ Len(frames) \in Nat /\ Len(frames) > 0 /\ frames[1] \in Live(heap)
      /\ Live(heap) \subseteq Ids
  BY FrameFacts DEF Live
<1>4. f \in Seq(Live(heap)) /\ Len(f) = Len(frames) - 1 /\ \A n \in 1 .. Len(frames) - 1 : f[n] = frames[n]
  BY <1>3, FramesReplaced
<1> HIDE DEF f, new
<1>5. f \in Seq(Ids) /\ Len(f) > 0 /\ ToSet(f) \subseteq Live(heap)
      /\ \A n \in 1 .. Len(f) - 1 : n \in 1 .. Len(frames) - 1 => f[n] = frames[n]
  BY <1>1, <1>3, <1>4 DEF ToSet
<1> QED BY <1>1, <1>2, <1>5, FramesStep

-----------------------------------------------------------------------------
(* The queues, and the bodies. *)

\* A function is queued with one scope.
LEMMA QueuedOnce ==
  ASSUME ScopeInv, NEW p \in Queued(tasks, incomplete, body), NEW q \in Queued(tasks, incomplete, body), p[1] = q[1]
  PROVE  p[2] = q[2]
<1> DEFINE Task(x) == \E n \in DOMAIN tasks : x = <<tasks[n].function, tasks[n].scope>>
           Later(x) == \E n \in DOMAIN incomplete : x = <<incomplete[n].function, incomplete[n].scope>>
           Body(x) == body # None /\ x = <<body.function, body.base>>
<1>1. (Task(p) \/ Later(p) \/ Body(p)) /\ (Task(q) \/ Later(q) \/ Body(q))
  BY DEF Queued
<1>2. Task(p) /\ Task(q) => p[2] = q[2]
  BY DEF ScopeInv, FunctionInv
<1>3. Later(p) /\ Later(q) => p[2] = q[2]
  BY DEF ScopeInv, FunctionInv
<1>4. \A x, y : Task(x) /\ Later(y) => x[1] # y[1]
  BY DEF ScopeInv, FunctionInv, None
<1>5. \A x, y : Task(x) /\ Body(y) => x[1] # y[1]
  BY DEF ScopeInv, FunctionInv
<1>6. \A x, y : Later(x) /\ Body(y) => x[1] # y[1]
  BY DEF ScopeInv, FunctionInv
<1>7. Body(p) /\ Body(q) => p[2] = q[2]
  OBVIOUS
<1> HIDE DEF Task, Later, Body
<1> QED BY <1>1, <1>2, <1>3, <1>4, <1>5, <1>6, <1>7

\* A step of the queues: a function that is queued is new, or was queued with the same scope.
LEMMA QueueStep ==
  ASSUME ScopeInv, NEW h, Reread(heap, h), NEW g, Grows(h, g), NEW f \in Seq(Ids), NEW t, NEW i, NEW b,
         Becomes(g, f, t, i, b), Roots(f, t, i, b) \subseteq Live(g),
         \A n \in 1 .. Len(f) - 1 : n \in 1 .. Len(frames) - 1 => f[n] = frames[n],
         \A q \in Queued(t, i, b) : q \in Queued(tasks, incomplete, body)
                                    \/ \A p \in Queued(tasks, incomplete, body) : p[1] # q[1],
         body # None /\ b # None => b.base = body.base,
         b # None => Len(Chain(g, b.top)) > b.blocks,
         QueueInv', FunctionInv'
  PROVE  ScopeInv' /\ StaysPut
<1>1. QueuesAgree(f, t, i, b)
  <2>1. ASSUME NEW p \in Queued(tasks, incomplete, body), NEW q \in Queued(t, i, b), p[1] = q[1]
        PROVE  p[2] = q[2]
    BY <2>1, QueuedOnce
  <2> QED BY <2>1 DEF QueuesAgree
<1>2. /\ Good(heap') /\ Handles' \subseteq Live(heap') /\ StaysPut
      /\ \A id \in Roots(f, t, i, b) : Chain(heap', id) = Chain(g, id)
  BY <1>1, HeapStep
<1>3. body' = b
  BY DEF Becomes
<1>4. b # None => Len(Chain(heap', b.top)) > b.blocks
  <2>1. b # None => b.top \in Roots(f, t, i, b)
    BY DEF Roots
  <2> QED BY <1>2, <2>1
<1>5. HeapInv'
  BY <1>2, <1>3, <1>4 DEF HeapInv
<1> QED BY <1>2, <1>5 DEF ScopeInv

\* The queues after a function has been added, or taken.
LEMMA Appended ==
  ASSUME NEW s, s \in Seq(ToSet(s)), NEW x
  PROVE  /\ Append(s, x) \in Seq(ToSet(Append(s, x))) /\ DOMAIN Append(s, x) = DOMAIN s \cup {Len(s) + 1}
         /\ \A n \in DOMAIN s : Append(s, x)[n] = s[n]
         /\ Append(s, x)[Len(s) + 1] = x /\ Len(s) + 1 \notin DOMAIN s
<1> DEFINE S == ToSet(s) \cup {x}
           a == Append(s, x)
<1>1. s \in Seq(S) /\ x \in S
  OBVIOUS
<1>2. a \in Seq(S) /\ Len(a) = Len(s) + 1 /\ DOMAIN s = 1 .. Len(s) /\ Len(s) \in Nat
      /\ (\A n \in 1 .. Len(s) : a[n] = s[n]) /\ a[Len(s) + 1] = x
  BY <1>1
<1> HIDE DEF a
<1>3. DOMAIN a = DOMAIN s \cup {Len(s) + 1} /\ Len(s) + 1 \notin DOMAIN s
  BY <1>2
<1>4. a \in Seq(ToSet(a))
  BY <1>2 DEF ToSet
<1> QED BY <1>2, <1>3, <1>4 DEF a

LEMMA Taken ==
  ASSUME NEW s, s \in Seq(ToSet(s)), s # <<>>
  PROVE  /\ Tail(s) \in Seq(ToSet(Tail(s))) /\ Head(s) = s[1] /\ 1 \in DOMAIN s
         /\ \A n \in DOMAIN Tail(s) : n + 1 \in DOMAIN s /\ Tail(s)[n] = s[n + 1] /\ n + 1 # 1
         /\ \A n, m \in DOMAIN Tail(s) : n + 1 = m + 1 => n = m
<1> DEFINE L == Len(s)
           r == Tail(s)
<1>1. L \in Nat /\ L > 0 /\ DOMAIN s = 1 .. L /\ Head(s) = s[1]
  OBVIOUS
<1>2. Len(s) > 0
  BY <1>1
<1>3. r \in Seq(ToSet(r))
  BY <1>2, TailSequence
<1>4. Len(r) = L - 1 /\ \A n \in 1 .. L - 1 : r[n] = s[n + 1]
  BY <1>1
<1>5. DOMAIN r = 1 .. L - 1
  BY <1>3, <1>4
<1> HIDE DEF L, r
<1>6. \A n \in DOMAIN r : n + 1 \in DOMAIN s /\ r[n] = s[n + 1] /\ n + 1 # 1
  BY <1>1, <1>4, <1>5
<1>7. \A n, m \in DOMAIN r : n + 1 = m + 1 => n = m
  BY <1>1, <1>5
<1> QED BY <1>1, <1>3, <1>6, <1>7 DEF r

\* A function that is declared is in no queue yet.
LEMMA DeclaredFresh ==
  ASSUME ScopeInv, phase # "compile", NEW function, function \notin declared, function.kind = "function",
         \A n \in DOMAIN incomplete : incomplete[n].function # function
  PROVE  /\ \A p \in Queued(tasks, incomplete, body) : p[1] # function
         /\ \A n \in DOMAIN tasks : tasks[n].function # function
<1>1. body = None
  BY NoBody
<1>2. \A n \in DOMAIN tasks : tasks[n].function # function
  BY DEF ScopeInv, FunctionInv, None
<1> QED BY <1>1, <1>2 DEF Queued

\* What a declaration whose type is found does.
LEMMA TaskAdded ==
  ASSUME ScopeInv, phase # "compile", phase' = phase, NEW h, Reread(heap, h), NEW task, task.scope = Current,
         task.function \notin declared, task.function.kind = "function",
         \A n \in DOMAIN incomplete : incomplete[n].function # task.function,
         declared' = declared \cup {task.function}, Becomes(h, frames, Append(tasks, task), incomplete, body)
  PROVE  ScopeInv' /\ StaysPut
<1> DEFINE t == Append(tasks, task)
<1>1. body = None /\ Current \in Live(heap) /\ Good(heap) /\ Handles \subseteq Live(heap)
  BY NoBody DEF ScopeInv, HeapInv
<1>2. Live(h) = Live(heap) /\ Good(h) /\ Grows(h, h)
  BY <1>1, RereadFacts, GrowsSelf
<1>3. /\ t \in Seq(ToSet(t)) /\ DOMAIN t = DOMAIN tasks \cup {Len(tasks) + 1}
      /\ \A n \in DOMAIN tasks : t[n] = tasks[n]
      /\ t[Len(tasks) + 1] = task /\ Len(tasks) + 1 \notin DOMAIN tasks
  BY Appended DEF ScopeInv, QueueInv
<1>4. /\ \A p \in Queued(tasks, incomplete, body) : p[1] # task.function
      /\ \A n \in DOMAIN tasks : tasks[n].function # task.function
  BY DeclaredFresh
<1>5. frames' = frames /\ tasks' = t /\ incomplete' = incomplete /\ body' = body /\ Becomes(h, frames, t, incomplete, body)
  BY DEF Becomes
<1> HIDE DEF t
<1>6. Roots(frames, t, incomplete, body) \subseteq Live(h)
  <2>1. \A n \in DOMAIN t : t[n].scope \in Live(h)
    <3>1. \A n \in DOMAIN tasks : tasks[n].scope \in Live(heap)
      BY <1>1 DEF Handles, Roots
    <3> QED BY <1>1, <1>2, <1>3, <3>1
  <2> QED BY <1>1, <1>2, <2>1 DEF Handles, Roots
<1>7. \A q \in Queued(t, incomplete, body) : q \in Queued(tasks, incomplete, body) \/ q = <<task.function, task.scope>>
  BY <1>1, <1>3 DEF Queued
<1>8. QueueInv'
  BY <1>1, <1>3, <1>5 DEF ScopeInv, QueueInv
<1>9. FunctionInv'
  <2>1. \A n, m \in DOMAIN t : t[n].function = t[m].function => n = m
    BY <1>3, <1>4 DEF ScopeInv, FunctionInv
  <2>2. \A n \in DOMAIN t : t[n].function \in declared' \cup {None}
    BY <1>3 DEF ScopeInv, FunctionInv
  <2>3. \A n \in DOMAIN incomplete : incomplete[n].function \notin declared'
    BY DEF ScopeInv, FunctionInv
  <2> QED BY <1>1, <1>5, <2>1, <2>2, <2>3 DEF ScopeInv, FunctionInv
<1>10. frames \in Seq(Ids)
  BY FrameFacts
<1>11. \A q \in Queued(t, incomplete, body) : q \in Queued(tasks, incomplete, body)
                                              \/ \A p \in Queued(tasks, incomplete, body) : p[1] # q[1]
  BY <1>4, <1>7
<1> QED BY <1>1, <1>2, <1>5, <1>6, <1>8, <1>9, <1>10, <1>11, QueueStep

\* What a declaration whose type is not found does.
LEMMA LaterAdded ==
  ASSUME ScopeInv, phase # "compile", phase' = phase, NEW h, Reread(heap, h), NEW later, later.scope = Current,
         later.function \notin declared, later.function.kind = "function",
         \A n \in DOMAIN incomplete : incomplete[n].function # later.function,
         declared' = declared, Becomes(h, frames, tasks, Append(incomplete, later), body)
  PROVE  ScopeInv' /\ StaysPut
<1> DEFINE i == Append(incomplete, later)
<1>1. body = None /\ Current \in Live(heap) /\ Good(heap) /\ Handles \subseteq Live(heap)
  BY NoBody DEF ScopeInv, HeapInv
<1>2. Live(h) = Live(heap) /\ Good(h) /\ Grows(h, h)
  BY <1>1, RereadFacts, GrowsSelf
<1>3. /\ i \in Seq(ToSet(i)) /\ DOMAIN i = DOMAIN incomplete \cup {Len(incomplete) + 1}
      /\ \A n \in DOMAIN incomplete : i[n] = incomplete[n]
      /\ i[Len(incomplete) + 1] = later /\ Len(incomplete) + 1 \notin DOMAIN incomplete
  BY Appended DEF ScopeInv, QueueInv
<1>4. \A p \in Queued(tasks, incomplete, body) : p[1] # later.function
  BY DeclaredFresh
<1>5. frames' = frames /\ tasks' = tasks /\ incomplete' = i /\ body' = body /\ Becomes(h, frames, tasks, i, body)
  BY DEF Becomes
<1> HIDE DEF i
<1>6. Roots(frames, tasks, i, body) \subseteq Live(h)
  <2>1. \A n \in DOMAIN i : i[n].scope \in Live(h)
    <3>1. \A n \in DOMAIN incomplete : incomplete[n].scope \in Live(heap)
      BY <1>1 DEF Handles, Roots
    <3> QED BY <1>1, <1>2, <1>3, <3>1
  <2> QED BY <1>1, <1>2, <2>1 DEF Handles, Roots
<1>7. \A q \in Queued(tasks, i, body) : q \in Queued(tasks, incomplete, body) \/ q = <<later.function, later.scope>>
  BY <1>1, <1>3 DEF Queued
<1>8. QueueInv'
  BY <1>1, <1>3, <1>5 DEF ScopeInv, QueueInv
<1>9. FunctionInv'
  <2>1. \A n, m \in DOMAIN i : i[n].function = i[m].function => n = m
    BY <1>3 DEF ScopeInv, FunctionInv
  <2>2. \A n \in DOMAIN i : i[n].function \notin declared' /\ i[n].function.kind = "function"
    BY <1>3 DEF ScopeInv, FunctionInv
  <2>3. i # <<>>
    BY <1>3
  <2> QED BY <1>1, <1>5, <2>1, <2>2, <2>3 DEF ScopeInv, FunctionInv
<1>10. frames \in Seq(Ids)
  BY FrameFacts
<1>11. \A q \in Queued(tasks, i, body) : q \in Queued(tasks, incomplete, body)
                                         \/ \A p \in Queued(tasks, incomplete, body) : p[1] # q[1]
  BY <1>4, <1>7
<1> QED BY <1>1, <1>2, <1>5, <1>6, <1>8, <1>9, <1>10, <1>11, QueueStep

LEMMA DeclareFunctionStep ==
  ASSUME ScopeInv, NEW name, NEW type, DeclareFunction(name, type)
  PROVE  ScopeInv' /\ StaysPut
<1> DEFINE function == Entity(Here, "function", name)
           lookup == Resolve(heap, Current, type)
           h == lookup.heap
           seen == NamesInScope(heap, Current)
           task == [function |-> function, scope |-> Current, seen |-> seen]
           later == [function |-> function, scope |-> Current, seen |-> seen, type |-> type]
           g == Invalidated(h, Current, "function")
<1>1. phase # "compile" /\ phase' = phase /\ function \notin declared
      /\ \A n \in DOMAIN incomplete : incomplete[n].function # function
  BY DEF DeclareFunction, Declaring
<1>2. Current \in Live(heap) /\ Good(heap)
  BY <1>1, NoBody
<1>3. Reread(heap, h)
  BY <1>2, ResolveRereads
<1>4. function.kind = "function"
  BY DEF Entity
<1>5. CASE lookup.result.types # {}
  <2>1. declared' = declared \cup {function} /\ Becomes(g, frames, Append(tasks, task), incomplete, body)
    BY <1>4, <1>5 DEF DeclareFunction, Add
  <2>2. task.scope = Current /\ task.function = function
    OBVIOUS
  <2>3. Good(h) /\ Current \in Live(h)
    BY <1>2, <1>3, RereadFacts
  <2>4. Reread(h, g)
    BY <2>3, InvalidatedRereads DEF Kinds
  <2> HIDE DEF task, function, g, h
  <2>5. Reread(heap, g)
    BY <1>2, <1>3, <2>4, RereadTrans
  <2> QED BY <1>1, <1>4, <2>1, <2>2, <2>5, TaskAdded
<1>6. CASE lookup.result.types = {}
  <2>1. declared' = declared /\ Becomes(h, frames, tasks, Append(incomplete, later), body)
    BY <1>6 DEF DeclareFunction
  <2>2. later.scope = Current /\ later.function = function
    OBVIOUS
  <2> HIDE DEF later, function, h
  <2> QED BY <1>1, <1>3, <1>4, <2>1, <2>2, LaterAdded
<1> QED BY <1>5, <1>6

\* A step that leaves the scopes and the queues alone.
LEMMA StandStill ==
  ASSUME ScopeInv, UNCHANGED <<heap, frames, tasks, incomplete, body>>
  PROVE  QueueInv' /\ HeapInv' /\ StaysPut
<1>1. heap' = heap /\ frames' = frames /\ tasks' = tasks /\ incomplete' = incomplete /\ body' = body
  OBVIOUS
<1>2. QueueInv'
  BY <1>1 DEF ScopeInv, QueueInv
<1>3. HeapInv'
  BY <1>1 DEF ScopeInv, HeapInv, Handles
<1>4. QueuesAgree(frames, tasks, incomplete, body)
  BY QueuedOnce DEF QueuesAgree
<1>5. StaysPut
  <2>1. ASSUME NEW k \in Kept(frames, tasks, incomplete, body), NEW l \in Kept(frames, tasks, incomplete, body),
               k[1] = l[1], k[2] = l[2]
        PROVE  k[3] = l[3]
    BY <1>4, <2>1, SamePlace
  <2> QED BY <1>1, <2>1 DEF StaysPut
<1> QED BY <1>2, <1>3, <1>5

LEMMA EndOfDeclarationsStep ==
  ASSUME ScopeInv, EndOfDeclarations
  PROVE  ScopeInv' /\ StaysPut
<1>1. /\ phase = "declare" /\ phase' = (IF incomplete = <<>> THEN "compile" ELSE "reprocess")
      /\ UNCHANGED <<declared, heap, frames, tasks, incomplete, body>>
  BY DEF EndOfDeclarations
<1>2. QueueInv' /\ HeapInv' /\ StaysPut /\ body = None
  BY <1>1, StandStill, NoBody
<1>3. FunctionInv'
  BY <1>1, <1>2 DEF ScopeInv, FunctionInv
<1> QED BY <1>2, <1>3 DEF ScopeInv

LEMMA ReprocessStep ==
  ASSUME ScopeInv, Reprocess
  PROVE  ScopeInv' /\ StaysPut
<1> DEFINE d == Head(incomplete)
           i == Tail(incomplete)
           lookup == Resolve(heap, d.scope, d.type)
           h == lookup.heap
           task == [function |-> d.function, scope |-> d.scope, seen |-> d.seen]
           t == Append(tasks, task)
           g == Invalidated(h, d.scope, d.function.kind)
<1>1. phase = "reprocess" /\ incomplete # <<>>
  BY DEF Reprocess, ScopeInv, FunctionInv
<1>2. body = None /\ Good(heap) /\ Handles \subseteq Live(heap)
  BY <1>1, NoBody DEF ScopeInv, HeapInv
<1>3. /\ i \in Seq(ToSet(i)) /\ d = incomplete[1] /\ 1 \in DOMAIN incomplete
      /\ \A n \in DOMAIN i : n + 1 \in DOMAIN incomplete /\ i[n] = incomplete[n + 1] /\ n + 1 # 1
      /\ \A n, m \in DOMAIN i : n + 1 = m + 1 => n = m
  BY <1>1, Taken DEF ScopeInv, QueueInv
<1> HIDE DEF d, i
<1>4. d.scope \in Live(heap) /\ d.function.kind = "function" /\ d.function \notin declared
  BY <1>2, <1>3 DEF Handles, Roots, ScopeInv, FunctionInv
<1>5. CASE lookup.result.types # {}
  <2>1. /\ declared' = declared \cup {d.function} /\ Becomes(g, frames, t, i, body)
        /\ phase' = IF i = <<>> THEN "compile" ELSE phase
    BY <1>5 DEF Reprocess, Add, d, i
  <2>2. Reread(heap, h)
    BY <1>2, <1>4, ResolveRereads
  <2>3. Good(h) /\ d.scope \in Live(h)
    BY <1>2, <1>4, <2>2, RereadFacts
  <2>4. Reread(h, g)
    BY <1>4, <2>3, InvalidatedRereads DEF Kinds
  <2>5. task.scope = d.scope /\ task.function = d.function
    OBVIOUS
  <2> HIDE DEF h, g, task
  <2>6. Reread(heap, g)
    BY <1>2, <2>2, <2>4, RereadTrans
  <2>7. Good(g) /\ Live(g) = Live(heap) /\ Grows(g, g)
    BY <1>2, <2>6, RereadFacts, GrowsSelf
  <2>8. /\ t \in Seq(ToSet(t)) /\ DOMAIN t = DOMAIN tasks \cup {Len(tasks) + 1}
        /\ \A n \in DOMAIN tasks : t[n] = tasks[n]
        /\ t[Len(tasks) + 1] = task /\ Len(tasks) + 1 \notin DOMAIN tasks
    BY Appended DEF ScopeInv, QueueInv
  <2> HIDE DEF t
  <2>9. frames' = frames /\ tasks' = t /\ incomplete' = i /\ body' = body
    BY <2>1 DEF Becomes
  <2>10. Roots(frames, t, i, body) \subseteq Live(g)
    <3>1. \A n \in DOMAIN t : t[n].scope \in Live(g)
      BY <1>2, <1>4, <2>5, <2>7, <2>8 DEF Handles, Roots
    <3>2. \A n \in DOMAIN i : i[n].scope \in Live(g)
      BY <1>2, <1>3, <2>7 DEF Handles, Roots
    <3>3. ToSet(frames) \subseteq Live(g)
      BY <1>2, <2>7 DEF Handles, Roots
    <3> QED BY <1>2, <3>1, <3>2, <3>3 DEF Roots
  <2>11. \A q \in Queued(t, i, body) : q \in Queued(tasks, incomplete, body)
    <3>1. \A n \in DOMAIN t : <<t[n].function, t[n].scope>> \in Queued(tasks, incomplete, body)
      BY <1>3, <2>5, <2>8 DEF Queued
    <3>2. \A n \in DOMAIN i : <<i[n].function, i[n].scope>> \in Queued(tasks, incomplete, body)
      BY <1>3 DEF Queued
    <3> QED BY <1>2, <3>1, <3>2 DEF Queued
  <2>12. QueueInv'
    BY <1>2, <1>3, <2>8, <2>9 DEF ScopeInv, QueueInv
  <2>13. \A n \in DOMAIN i : i[n].function # d.function
    BY <1>3 DEF ScopeInv, FunctionInv
  <2>14. FunctionInv'
    <3>1. \A n \in DOMAIN tasks : tasks[n].function # d.function
      BY <1>4 DEF ScopeInv, FunctionInv, None
    <3>2. \A n, m \in DOMAIN t : t[n].function = t[m].function => n = m
      BY <2>5, <2>8, <3>1 DEF ScopeInv, FunctionInv
    <3>3. \A n, m \in DOMAIN i : i[n].function = i[m].function => n = m
      BY <1>3 DEF ScopeInv, FunctionInv
    <3>4. \A n \in DOMAIN t : t[n].function \in declared' \cup {None}
      BY <2>1, <2>5, <2>8 DEF ScopeInv, FunctionInv
    <3>5. \A n \in DOMAIN i : i[n].function \notin declared' /\ i[n].function.kind = "function"
      BY <1>3, <2>1, <2>13 DEF ScopeInv, FunctionInv
    <3>6. (phase' = "compile" => i = <<>>) /\ (phase' = "reprocess" => i # <<>>)
      BY <1>1, <2>1
    <3> QED BY <1>2, <2>9, <3>2, <3>3, <3>4, <3>5, <3>6 DEF FunctionInv
  <2>15. frames \in Seq(Ids)
    BY FrameFacts
  <2> QED BY <1>2, <2>1, <2>6, <2>7, <2>10, <2>11, <2>12, <2>14, <2>15, QueueStep
<1>6. CASE lookup.result.types = {}
  <2>1. phase' = "failed" /\ UNCHANGED <<declared, heap, frames, tasks, incomplete, body>>
    BY <1>6 DEF Reprocess, d
  <2>2. QueueInv' /\ HeapInv' /\ StaysPut
    BY <2>1, StandStill
  <2>3. FunctionInv'
    BY <1>2, <2>1 DEF ScopeInv, FunctionInv
  <2> QED BY <2>2, <2>3 DEF ScopeInv
<1> QED BY <1>5, <1>6

LEMMA BeginBodyStep ==
  ASSUME ScopeInv, BeginBody
  PROVE  ScopeInv' /\ StaysPut
<1> DEFINE task == Head(tasks)
           t == Tail(tasks)
           node == Node("FunctionScope", task.scope)
           arguments == NewId(heap, 1)
           outer == NewId(heap, 2)
           h == WithNode(heap, arguments, node, task.scope)
           g == WithNode(h, outer, node, arguments)
           b == [kind |-> "body", function |-> task.function, seen |-> task.seen, base |-> task.scope,
                 arguments |-> arguments, outer |-> outer, top |-> outer, expr |-> outer, blocks |-> 0]
<1>1. /\ phase = "compile" /\ body = None /\ tasks # <<>> /\ HasRoom(task.scope)
      /\ Becomes(g, frames, t, incomplete, b) /\ phase' = phase /\ declared' = declared
  BY DEF BeginBody
<1>2. Good(heap) /\ Handles \subseteq Live(heap) /\ incomplete = <<>> /\ Reread(heap, heap)
  BY <1>1, RereadSelf DEF ScopeInv, HeapInv, FunctionInv
<1>3. /\ t \in Seq(ToSet(t)) /\ task = tasks[1] /\ 1 \in DOMAIN tasks
      /\ \A n \in DOMAIN t : n + 1 \in DOMAIN tasks /\ t[n] = tasks[n + 1] /\ n + 1 # 1
      /\ \A n, m \in DOMAIN t : n + 1 = m + 1 => n = m
  BY <1>1, Taken DEF ScopeInv, QueueInv
<1> HIDE DEF task, t
<1>4. task.scope \in Live(heap)
  BY <1>2, <1>3 DEF Handles, Roots
<1>5. Room(heap, Len(Chain(heap, task.scope)) + 1) /\ Len(Chain(heap, task.scope)) \in Nat \ {0}
  BY <1>1, <1>2, <1>4, HasRoomThere
<1>6. /\ arguments \in Ids /\ heap[arguments] = None
      /\ outer \in Ids /\ heap[outer] = None /\ outer # arguments
  <2> DEFINE L == Len(Chain(heap, task.scope)) + 1
  <2>1. L \in Nat /\ 1 \in 1 .. L /\ 2 \in 1 .. L /\ Room(heap, L)
    BY <1>5
  <2> HIDE DEF L
  <2>2. arguments \in Ids /\ heap[arguments] = None /\ outer \in Ids /\ heap[outer] = None
    BY <2>1, NewIdIsFree
  <2>3. outer # arguments
    BY <2>1, NewIdsDiffer
  <2> QED BY <2>2, <2>3
<1>7. IsNode(node)
  BY NodeNew DEF NodeKinds
<1> HIDE DEF node, arguments, outer
<1>8. OneMore(heap, h, arguments)
  BY <1>2, <1>4, <1>6, <1>7, WithNodeGood
<1>9. Good(h) /\ arguments \in Live(h) /\ h[outer] = None /\ Live(heap) \subseteq Live(h)
  BY <1>6, <1>8 DEF OneMore, Live
<1> HIDE DEF h
<1>10. OneMore(h, g, outer) /\ Chain(g, outer) = <<outer>> \o Chain(h, arguments)
  BY <1>6, <1>7, <1>9, WithNodeGood
<1> HIDE DEF g
<1>11. /\ Good(g) /\ Live(heap) \subseteq Live(g) /\ arguments \in Live(g) /\ outer \in Live(g)
       /\ \A i \in Live(heap) : g[i] = heap[i]
  BY <1>8, <1>9, <1>10 DEF OneMore
<1>12. Grows(heap, g)
  BY <1>11 DEF Grows
<1>13. /\ b.function = task.function /\ b.base = task.scope /\ b.arguments = arguments /\ b.outer = outer
       /\ b.top = outer /\ b.expr = outer /\ b.blocks = 0 /\ IsBody(b)
  BY <1>2, <1>4, <1>6 DEF IsBody, Live
<1>14. b # None
  BY DEF None
<1> HIDE DEF b
<1>15. Len(Chain(g, b.top)) > b.blocks
  <2>1. HasChain(g, outer)
    BY <1>11, GoodNode
  <2> QED BY <1>13, <2>1 DEF HasChain
<1>16. Roots(frames, t, incomplete, b) \subseteq Live(g)
  <2>1. \A n \in DOMAIN t : t[n].scope \in Live(g)
    BY <1>2, <1>3, <1>11 DEF Handles, Roots
  <2>2. ToSet(frames) \subseteq Live(g)
    BY <1>2, <1>11 DEF Handles, Roots
  <2>3. \A n \in DOMAIN incomplete : incomplete[n].scope \in Live(g)
    BY <1>2, <1>11 DEF Handles, Roots
  <2>4. {b.base, b.arguments, b.outer, b.top, b.expr} \subseteq Live(g)
    BY <1>4, <1>11, <1>13
  <2> QED BY <2>1, <2>2, <2>3, <2>4 DEF Roots
<1>17. \A q \in Queued(t, incomplete, b) : q \in Queued(tasks, incomplete, body)
  <2>1. \A n \in DOMAIN t : <<t[n].function, t[n].scope>> \in Queued(tasks, incomplete, body)
    BY <1>3 DEF Queued
  <2>2. <<b.function, b.base>> \in Queued(tasks, incomplete, body)
    BY <1>3, <1>13 DEF Queued
  <2>3. \A n \in DOMAIN incomplete : <<incomplete[n].function, incomplete[n].scope>> \in Queued(tasks, incomplete, body)
    BY DEF Queued
  <2> QED BY <2>1, <2>2, <2>3 DEF Queued
<1>18. frames' = frames /\ tasks' = t /\ incomplete' = incomplete /\ body' = b
  BY <1>1 DEF Becomes
<1>19. QueueInv'
  BY <1>3, <1>13, <1>18 DEF ScopeInv, QueueInv
<1>20. FunctionInv'
  <2>1. \A n, m \in DOMAIN t : t[n].function = t[m].function => n = m
    BY <1>3 DEF ScopeInv, FunctionInv
  <2>2. \A n \in DOMAIN t : t[n].function \in declared \cup {None} /\ t[n].function # b.function
    BY <1>3, <1>13 DEF ScopeInv, FunctionInv
  <2> QED BY <1>1, <1>2, <1>18, <2>1, <2>2 DEF ScopeInv, FunctionInv
<1>21. frames \in Seq(Ids)
  BY FrameFacts
<1> QED BY <1>1, <1>2, <1>12, <1>15, <1>16, <1>17, <1>19, <1>20, <1>21, QueueStep

\* A step of the body that is being compiled.
LEMMA BodyStep ==
  ASSUME ScopeInv, body # None, phase' = phase, declared' = declared, NEW h, Reread(heap, h), NEW g, Grows(h, g),
         NEW b, IsBody(b), b # None, b.function = body.function, b.base = body.base,
         b.arguments \in Live(g), b.outer \in Live(g), b.top \in Live(g), b.expr \in Live(g),
         Len(Chain(g, b.top)) > b.blocks, Becomes(g, frames, tasks, incomplete, b)
  PROVE  ScopeInv' /\ StaysPut
<1>1. Good(heap) /\ Handles \subseteq Live(heap) /\ Live(heap) \subseteq Live(g) /\ body.base \in Live(heap)
  <2>1. Good(heap) /\ Handles \subseteq Live(heap) /\ body.base \in Live(heap)
    BY ActiveIsLive DEF ScopeInv, HeapInv
  <2> QED BY <2>1, RereadFacts DEF Grows
<1>2. frames' = frames /\ tasks' = tasks /\ incomplete' = incomplete /\ body' = b
  BY DEF Becomes
<1>3. Roots(frames, tasks, incomplete, b) \subseteq Live(g)
  BY <1>1 DEF Handles, Roots
<1>4. \A q \in Queued(tasks, incomplete, b) : q \in Queued(tasks, incomplete, body)
  BY DEF Queued
<1>5. QueueInv'
  BY <1>2 DEF ScopeInv, QueueInv
<1>6. FunctionInv'
  BY <1>2 DEF ScopeInv, FunctionInv
<1>7. frames \in Seq(Ids)
  BY FrameFacts
<1> QED BY <1>3, <1>4, <1>5, <1>6, <1>7, QueueStep

LEMMA BodyFields ==
  ASSUME NEW b, IsBody(b)
  PROVE  /\ DOMAIN b = {"kind", "function", "seen", "base", "arguments", "outer", "top", "expr", "blocks"}
         /\ b.base \in Ids /\ b.arguments \in Ids /\ b.outer \in Ids /\ b.top \in Ids /\ b.expr \in Ids
         /\ b.blocks \in Nat /\ b # None /\ b.kind = "body"
<1>1. DOMAIN b = {"kind", "function", "seen", "base", "arguments", "outer", "top", "expr", "blocks"}
  BY DEF IsBody
<1>2. /\ b.base \in Ids /\ b.arguments \in Ids /\ b.outer \in Ids /\ b.top \in Ids /\ b.expr \in Ids
      /\ b.blocks \in Nat /\ b.kind = "body"
  BY DEF IsBody
<1> QED BY <1>1, <1>2 DEF None

\* The body with other scopes.
Moved(b, top, expr, blocks) == [b EXCEPT !.top = top, !.expr = expr, !.blocks = blocks]

HasMoved(b, c, top, expr, blocks) ==
  /\ IsBody(c) /\ c # None /\ c.top = top /\ c.expr = expr /\ c.blocks = blocks
  /\ c.function = b.function /\ c.base = b.base /\ c.arguments = b.arguments /\ c.outer = b.outer
  /\ c.seen = b.seen

LEMMA BodyMoved ==
  ASSUME NEW b, IsBody(b), NEW top \in Ids, NEW expr \in Ids, NEW blocks \in Nat
  PROVE  HasMoved(b, Moved(b, top, expr, blocks), top, expr, blocks)
<1> DEFINE c == [b EXCEPT !.top = top, !.expr = expr, !.blocks = blocks]
<1>1. DOMAIN b = {"kind", "function", "seen", "base", "arguments", "outer", "top", "expr", "blocks"}
  BY BodyFields
<1>2. /\ c.top = top /\ c.expr = expr /\ c.blocks = blocks
      /\ \A field \in DOMAIN b \ {"top", "expr", "blocks"} : c[field] = b[field]
  BY <1>1
<1>3. IsBody(c)
  BY <1>2 DEF IsBody
<1> QED BY <1>1, <1>2, <1>3, BodyFields DEF Moved, HasMoved

\* The body that is being compiled, with the handles that the compiler has.
LEMMA BodyThere ==
  ASSUME ScopeInv, body # None
  PROVE  /\ IsBody(body) /\ Active = body.top /\ Good(heap) /\ Reread(heap, heap)
         /\ body.base \in Live(heap) /\ body.arguments \in Live(heap) /\ body.outer \in Live(heap)
         /\ body.top \in Live(heap) /\ body.expr \in Live(heap)
         /\ Len(Chain(heap, body.top)) > body.blocks /\ body.blocks \in Nat /\ Live(heap) \subseteq Ids
<1>1. IsBody(body) /\ Active = body.top /\ Good(heap) /\ Handles \subseteq Live(heap)
      /\ Len(Chain(heap, body.top)) > body.blocks
  BY DEF ScopeInv, QueueInv, HeapInv, Active
<1>2. {body.base, body.arguments, body.outer, body.top, body.expr} \subseteq Handles
  BY DEF Handles, Roots
<1> QED BY <1>1, <1>2, BodyFields, RereadSelf DEF Live

\* A directive in a body.
LEMMA InBodyStep ==
  ASSUME ScopeInv, body # None, phase' = phase, declared' = declared,
         NEW h, Reread(heap, h), NEW r, Directs(h, body.top, r), InBody(r)
  PROVE  ScopeInv' /\ StaysPut
<1> DEFINE b == [body EXCEPT !.top = r.id]
<1>1. /\ IsBody(body) /\ Active = body.top /\ Good(heap)
      /\ body.base \in Live(heap) /\ body.arguments \in Live(heap) /\ body.outer \in Live(heap)
      /\ body.top \in Live(heap) /\ body.expr \in Live(heap)
      /\ Len(Chain(heap, body.top)) > body.blocks /\ body.blocks \in Nat /\ Live(heap) \subseteq Ids
  BY BodyThere
<1>2. Live(h) = Live(heap) /\ Chain(h, body.top) = Chain(heap, body.top)
  BY <1>1, RereadFacts
<1>3. /\ r.id \in Live(r.heap) /\ Live(heap) \subseteq Live(r.heap) /\ Live(r.heap) \subseteq Ids
      /\ Len(Chain(r.heap, r.id)) = Len(Chain(heap, body.top)) /\ Grows(h, r.heap)
  BY <1>1, <1>2, DirectsGrows DEF Directs, Live
<1>4. b = Moved(body, r.id, body.expr, body.blocks)
  BY <1>1, BodyFields DEF Moved
<1> HIDE DEF b
<1>5. /\ IsBody(b) /\ b # None /\ b.top = r.id /\ b.expr = body.expr /\ b.blocks = body.blocks
      /\ b.function = body.function /\ b.base = body.base /\ b.arguments = body.arguments /\ b.outer = body.outer
  <2>1. r.id \in Ids /\ body.expr \in Ids
    BY <1>1, <1>3
  <2>2. HasMoved(body, b, r.id, body.expr, body.blocks)
    BY <1>1, <1>4, <2>1, BodyMoved
  <2> QED BY <2>2 DEF HasMoved
<1>6. Becomes(r.heap, frames, tasks, incomplete, b)
  BY DEF InBody, b
<1>7. /\ b.arguments \in Live(r.heap) /\ b.outer \in Live(r.heap) /\ b.top \in Live(r.heap) /\ b.expr \in Live(r.heap)
      /\ Len(Chain(r.heap, b.top)) > b.blocks
  BY <1>1, <1>3, <1>5
<1> QED BY <1>3, <1>5, <1>6, <1>7, BodyStep

LEMMA CompilingThere ==
  ASSUME ScopeInv, Compiling, NEW h, Reread(heap, h)
  PROVE  body # None /\ Good(h) /\ body.top \in Live(h) /\ Room(h, Len(Chain(h, body.top)))
<1>1. body # None /\ HasRoom(body.top)
  BY DEF Compiling
<1>2. Good(heap) /\ body.top \in Live(heap)
  BY <1>1, BodyThere
<1> QED BY <1>1, <1>2, RereadFacts, HasRoomThere

LEMMA UsingDirectiveInBodyStep ==
  ASSUME ScopeInv, NEW name, UsingDirectiveInBody(name)
  PROVE  ScopeInv' /\ StaysPut
<1> DEFINE lookup == Lookup(heap, body.top, name)
           h == lookup.heap
           space == lookup.result.space
           r == InjectSpace(h, body.top, space)
<1>1. Compiling /\ body # None /\ phase' = phase /\ declared' = declared /\ space # None /\ InBody(r)
  BY DEF UsingDirectiveInBody, Compiling
<1>2. Good(heap) /\ body.top \in Live(heap)
  BY <1>1, BodyThere
<1>3. Reread(heap, h) /\ space.imports \in Seq(ToSet(space.imports))
  BY <1>1, <1>2, LookupRereads, FoundSpace
<1>4. Good(h) /\ body.top \in Live(h) /\ Room(h, Len(Chain(h, body.top)))
  BY <1>1, <1>3, CompilingThere
<1> HIDE DEF h, space
<1>5. Directs(h, body.top, r)
  BY <1>3, <1>4, SpaceDirects
<1> HIDE DEF r
<1> QED BY <1>1, <1>3, <1>5, InBodyStep

LEMMA UsingDeclarationInBodyStep ==
  ASSUME ScopeInv, NEW space, NEW name, UsingDeclarationInBody(space, name)
  PROVE  ScopeInv' /\ StaysPut
<1> DEFINE lookup == QualifiedLookup(heap, body.top, space, name)
           h == lookup.heap
           r == InjectEntities(h, body.top, lookup.result.functions)
<1>1. Compiling /\ body # None /\ phase' = phase /\ declared' = declared /\ InBody(r)
  BY DEF UsingDeclarationInBody, Compiling
<1>2. Good(heap) /\ body.top \in Live(heap)
  BY <1>1, BodyThere
<1>3. Reread(heap, h)
  BY <1>2, QualifiedRereads
<1>4. Good(h) /\ body.top \in Live(h) /\ Room(h, Len(Chain(h, body.top)))
  BY <1>1, <1>3, CompilingThere
<1> HIDE DEF h
<1>5. Directs(h, body.top, r)
  BY <1>4, EntitiesDirect
<1> HIDE DEF r
<1> QED BY <1>1, <1>3, <1>5, InBodyStep

LEMMA TypeAliasInBodyStep ==
  ASSUME ScopeInv, NEW name, NEW type, TypeAliasInBody(name, type)
  PROVE  ScopeInv' /\ StaysPut
<1> DEFINE lookup == Resolve(heap, body.top, type)
           h == lookup.heap
<1>1. PICK entity : /\ Compiling /\ body # None /\ phase' = phase /\ declared' = declared
                    /\ InBody(InjectAlias(h, body.top, name, entity))
  BY DEF TypeAliasInBody, Compiling
<1> DEFINE r == InjectAlias(h, body.top, name, entity)
<1>2. Good(heap) /\ body.top \in Live(heap)
  BY <1>1, BodyThere
<1>3. Reread(heap, h)
  BY <1>2, ResolveRereads
<1>4. Good(h) /\ body.top \in Live(h) /\ Room(h, Len(Chain(h, body.top)))
  BY <1>1, <1>3, CompilingThere
<1> HIDE DEF h
<1>5. Directs(h, body.top, r) /\ InBody(r)
  BY <1>1, <1>4, AliasDirects
<1> HIDE DEF r
<1> QED BY <1>1, <1>3, <1>5, InBodyStep

LEMMA ImportInBodyStep ==
  ASSUME ScopeInv, NEW module, ImportInBody(module)
  PROVE  ScopeInv' /\ StaysPut
<1> DEFINE r == Merge(heap, body.top, module)
<1>1. Compiling /\ body # None /\ phase' = phase /\ declared' = declared /\ InBody(r)
  BY DEF ImportInBody, Compiling
<1>2. Reread(heap, heap)
  BY <1>1, BodyThere
<1>3. Good(heap) /\ body.top \in Live(heap) /\ Room(heap, Len(Chain(heap, body.top)))
  BY <1>1, <1>2, CompilingThere
<1>4. Directs(heap, body.top, r)
  BY <1>3, MergeDirects
<1> HIDE DEF r
<1> QED BY <1>1, <1>2, <1>4, InBodyStep

LEMMA EnterBlockStep ==
  ASSUME ScopeInv, EnterBlock
  PROVE  ScopeInv' /\ StaysPut
<1> DEFINE node == Node("FunctionScope", body.base)
           id == NewId(heap, 1)
           g == WithNode(heap, id, node, body.top)
           b == [body EXCEPT !.top = id, !.expr = id, !.blocks = @ + 1]
<1>1. /\ Compiling /\ body # None /\ phase' = phase /\ declared' = declared
      /\ Becomes(g, frames, tasks, incomplete, b)
  BY DEF EnterBlock, Compiling, Placed
<1>2. /\ IsBody(body) /\ Active = body.top /\ Good(heap) /\ Reread(heap, heap)
      /\ body.arguments \in Live(heap) /\ body.outer \in Live(heap)
      /\ body.top \in Live(heap) /\ Len(Chain(heap, body.top)) > body.blocks /\ body.blocks \in Nat
      /\ Len(Chain(heap, body.top)) \in Nat \ {0}
  BY <1>1, BodyThere, GoodNode DEF HasChain
<1>3. Room(heap, Len(Chain(heap, body.top)))
  BY <1>1, <1>2, CompilingThere
<1>4. id \in Ids /\ heap[id] = None /\ IsNode(node)
  BY <1>2, <1>3, NewIdIsFree, NodeNew DEF NodeKinds
<1>5. b = Moved(body, id, id, body.blocks + 1)
  BY DEF Moved
<1> HIDE DEF id, node, b
<1>6. OneMore(heap, g, id) /\ Chain(g, id) = <<id>> \o Chain(heap, body.top)
  BY <1>2, <1>4, WithNodeGood
<1> HIDE DEF g
<1>7. Good(g) /\ Live(g) = Live(heap) \cup {id} /\ Grows(heap, g)
  BY <1>6 DEF OneMore, Grows
<1>8. /\ IsBody(b) /\ b # None /\ b.top = id /\ b.expr = id /\ b.blocks = body.blocks + 1
      /\ b.function = body.function /\ b.base = body.base /\ b.arguments = body.arguments /\ b.outer = body.outer
  <2>1. body.blocks + 1 \in Nat
    BY <1>2
  <2>2. HasMoved(body, b, id, id, body.blocks + 1)
    BY <1>2, <1>4, <1>5, <2>1, BodyMoved
  <2> QED BY <2>2 DEF HasMoved
<1>9. Len(Chain(g, b.top)) > b.blocks
  <2> DEFINE chain == Chain(heap, body.top)
  <2>1. chain \in Seq(Live(heap))
    BY <1>2, GoodNode DEF HasChain
  <2>2. Len(<<id>> \o chain) = Len(chain) + 1
    BY <2>1
  <2> HIDE DEF chain
  <2>3. Len(chain) > body.blocks /\ Len(chain) \in Nat
    BY <1>2 DEF chain
  <2> QED BY <1>2, <1>6, <1>8, <2>2, <2>3 DEF chain
<1>10. b.arguments \in Live(g) /\ b.outer \in Live(g) /\ b.top \in Live(g) /\ b.expr \in Live(g)
  BY <1>2, <1>7, <1>8
<1> QED BY <1>1, <1>2, <1>7, <1>8, <1>9, <1>10, BodyStep

\* The parent of a node is the next one of its chain.
LEMMA ParentThere ==
  ASSUME NEW h, Good(h), NEW id \in Live(h), Len(Chain(h, id)) > 1
  PROVE  Parent(h[id]) \in Live(h) /\ Len(Chain(h, Parent(h[id]))) = Len(Chain(h, id)) - 1
<1> DEFINE chain == Chain(h, id)
<1>1. HasChain(h, id) /\ Len(chain) \in Nat
  BY GoodNode DEF HasChain
<1>2. 2 \in 1 .. Len(chain) /\ Parent(h[id]) = chain[2]
  BY <1>1 DEF Parent, Chain
<1>3. chain[2] \in Live(h)
  BY <1>2, ChainElement
<1>4. Len(Chain(h, chain[2])) = Len(chain) - 2 + 1
  BY <1>1, <1>2 DEF HasChain, HasTails
<1> DEFINE L == Len(chain)
<1>5. L \in Nat /\ Len(Chain(h, chain[2])) = L - 2 + 1
  BY <1>1, <1>4
<1> HIDE DEF L
<1>6. Len(Chain(h, chain[2])) = L - 1
  BY <1>5
<1> QED BY <1>2, <1>3, <1>6 DEF L

LEMMA LeaveBlockStep ==
  ASSUME ScopeInv, LeaveBlock
  PROVE  ScopeInv' /\ StaysPut
<1> DEFINE up == Parent(heap[body.top])
           b == [body EXCEPT !.top = Parent(heap[@]), !.blocks = @ - 1]
<1>1. /\ body # None /\ body.blocks > 0 /\ phase' = phase /\ declared' = declared
      /\ Becomes(heap, frames, tasks, incomplete, b)
  BY DEF LeaveBlock
<1>2. /\ IsBody(body) /\ Good(heap) /\ Reread(heap, heap) /\ Live(heap) \subseteq Ids
      /\ body.arguments \in Live(heap) /\ body.outer \in Live(heap) /\ body.expr \in Live(heap)
      /\ body.top \in Live(heap) /\ Len(Chain(heap, body.top)) > body.blocks /\ body.blocks \in Nat
      /\ Len(Chain(heap, body.top)) \in Nat
  <2>1. /\ IsBody(body) /\ Good(heap) /\ Reread(heap, heap) /\ Live(heap) \subseteq Ids
        /\ body.arguments \in Live(heap) /\ body.outer \in Live(heap) /\ body.expr \in Live(heap)
        /\ body.top \in Live(heap) /\ Len(Chain(heap, body.top)) > body.blocks /\ body.blocks \in Nat
    BY <1>1, BodyThere
  <2>2. HasChain(heap, body.top)
    BY <2>1, GoodNode
  <2> QED BY <2>1, <2>2 DEF HasChain
<1>3. Grows(heap, heap)
  BY <1>2, GrowsSelf
<1>4. up \in Live(heap) /\ Len(Chain(heap, up)) = Len(Chain(heap, body.top)) - 1
  <2> DEFINE L == Len(Chain(heap, body.top))
             n == body.blocks
  <2>1. L > n /\ n > 0 /\ L \in Nat /\ n \in Nat
    BY <1>1, <1>2
  <2> HIDE DEF L, n
  <2>2. L > 1
    BY <2>1
  <2> QED BY <1>2, <2>2, ParentThere DEF L
<1>5. b = Moved(body, up, body.expr, body.blocks - 1)
  BY <1>2, BodyFields DEF Moved
<1> HIDE DEF up, b
<1>6. /\ IsBody(b) /\ b # None /\ b.top = up /\ b.expr = body.expr /\ b.blocks = body.blocks - 1
      /\ b.function = body.function /\ b.base = body.base /\ b.arguments = body.arguments /\ b.outer = body.outer
  <2>1. body.blocks - 1 \in Nat /\ up \in Ids /\ body.expr \in Ids
    BY <1>1, <1>2, <1>4
  <2>2. HasMoved(body, b, up, body.expr, body.blocks - 1)
    BY <1>2, <1>5, <2>1, BodyMoved
  <2> QED BY <2>2 DEF HasMoved
<1>7. Len(Chain(heap, b.top)) > b.blocks
  BY <1>2, <1>4, <1>6
<1> QED BY <1>1, <1>2, <1>3, <1>4, <1>6, <1>7, BodyStep

LEMMA MentionStep ==
  ASSUME ScopeInv, NEW name, Mention(name)
  PROVE  ScopeInv' /\ StaysPut
<1> DEFINE h == Lookup(heap, body.top, name).heap
           b == [body EXCEPT !.expr = body.top]
<1>1. /\ body # None /\ phase' = phase /\ declared' = declared /\ Becomes(h, frames, tasks, incomplete, b)
  BY DEF Mention, Compiling
<1>2. /\ IsBody(body) /\ Good(heap) /\ Live(heap) \subseteq Ids
      /\ body.arguments \in Live(heap) /\ body.outer \in Live(heap)
      /\ body.top \in Live(heap) /\ Len(Chain(heap, body.top)) > body.blocks /\ body.blocks \in Nat
  BY <1>1, BodyThere
<1>3. Reread(heap, h)
  BY <1>2, LookupRereads
<1> HIDE DEF h
<1>4. Good(h) /\ Live(h) = Live(heap) /\ Chain(h, body.top) = Chain(heap, body.top) /\ Grows(h, h)
  BY <1>2, <1>3, RereadFacts, GrowsSelf
<1>5. b = Moved(body, body.top, body.top, body.blocks)
  BY <1>2, BodyFields DEF Moved
<1> HIDE DEF b
<1>6. /\ IsBody(b) /\ b # None /\ b.top = body.top /\ b.expr = body.top /\ b.blocks = body.blocks
      /\ b.function = body.function /\ b.base = body.base /\ b.arguments = body.arguments /\ b.outer = body.outer
  <2>1. body.top \in Ids
    BY <1>2
  <2>2. HasMoved(body, b, body.top, body.top, body.blocks)
    BY <1>2, <1>5, <2>1, BodyMoved
  <2> QED BY <2>2 DEF HasMoved
<1>7. Len(Chain(h, b.top)) > b.blocks
  BY <1>2, <1>4, <1>6
<1> QED BY <1>1, <1>2, <1>3, <1>4, <1>6, <1>7, BodyStep

LEMMA EndBodyStep ==
  ASSUME ScopeInv, EndBody
  PROVE  ScopeInv' /\ StaysPut
<1>1. body # None /\ phase' = phase /\ declared' = declared /\ Becomes(heap, frames, tasks, incomplete, None)
  BY DEF EndBody
<1>2. Good(heap) /\ Handles \subseteq Live(heap) /\ Reread(heap, heap) /\ Grows(heap, heap)
  BY RereadSelf, GrowsSelf DEF ScopeInv, HeapInv
<1>3. frames' = frames /\ tasks' = tasks /\ incomplete' = incomplete /\ body' = None
  BY <1>1 DEF Becomes
<1>4. Roots(frames, tasks, incomplete, None) \subseteq Live(heap)
  BY <1>2 DEF Handles, Roots
<1>5. \A q \in Queued(tasks, incomplete, None) : q \in Queued(tasks, incomplete, body)
  BY DEF Queued
<1>6. QueueInv'
  BY <1>3 DEF ScopeInv, QueueInv
<1>7. FunctionInv'
  BY <1>1, <1>3 DEF ScopeInv, FunctionInv
<1>8. frames \in Seq(Ids)
  BY FrameFacts
<1> DEFINE b == None
<1>9. /\ Becomes(heap, frames, tasks, incomplete, b) /\ Roots(frames, tasks, incomplete, b) \subseteq Live(heap)
      /\ \A q \in Queued(tasks, incomplete, b) : q \in Queued(tasks, incomplete, body)
      /\ b = None
  BY <1>1, <1>4, <1>5
<1> HIDE DEF b
<1> QED BY <1>2, <1>6, <1>7, <1>8, <1>9, QueueStep

-----------------------------------------------------------------------------
(* The theorems. *)

LEMMA InitScopes == Init => ScopeInv
<1> SUFFICES ASSUME Init PROVE ScopeInv
  OBVIOUS
<1> DEFINE n == [Node("ScriptScope", Script) EXCEPT !.chain = <<1>>, !.imports = <<Engine>>]
<1>1. /\ heap = [i \in Ids |-> IF i = 1 THEN n ELSE None] /\ frames = <<1>> /\ Len(tasks) = 1
      /\ incomplete = <<>> /\ body = None /\ declared = {} /\ phase = "declare"
      /\ DOMAIN tasks = {1} /\ tasks[1].function = None /\ tasks[1].scope = 1 /\ \E x : tasks = <<x>>
  BY DEF Init
<1>2. 1 \in Ids
  BY ScopesAssumption
<1>3. IsNode(n) /\ n.chain = <<1>> /\ IsSpace(n)
  <2>1. /\ n.kind = "ScriptScope" /\ n.chain = <<1>> /\ n.imports = <<Engine>> /\ n.cached = Empty
        /\ n \in [kind : NodeKinds, of : {n.of}, chain : {<<1>>}, imports : {<<Engine>>},
                  spaceAliases : {n.spaceAliases}, aliases : {n.aliases}, injected : {n.injected}, cached : {Empty}]
    BY DEF Node, NodeKinds
  <2>2. <<1>> \in Seq(Ids) /\ <<Engine>> \in Seq(ToSet(<<Engine>>))
    BY <1>2, SingleSet
  <2>3. Empty \in [Kinds -> {Empty["class"], Empty["function"]}]
    BY DEF Empty, Kinds
  <2> HIDE DEF n
  <2> QED BY <2>1, <2>2, <2>3 DEF IsNode, IsSpace
<1> HIDE DEF n
<1>4. Live(heap) = {1} /\ heap[1] = n
  <2>1. n # None
    BY <1>3, NodeFields
  <2> QED BY <1>1, <1>2, <2>1 DEF Live
<1>5. HasChain(heap, 1)
  <2> DEFINE c == <<1>>
  <2>1. Chain(heap, 1) = c /\ c \in Seq(Live(heap)) /\ Len(c) = 1 /\ c[1] = 1
    BY <1>3, <1>4 DEF Chain
  <2> HIDE DEF c
  <2>2. \A k \in 1 .. Len(c) : k = 1 /\ c[k] = 1
    BY <2>1
  <2>3. \A m \in 1 .. Len(c) : c[m] = c[1 + m - 1]
    BY <2>1
  <2>4. Len(c) = Len(c) - 1 + 1
    BY <2>1
  <2>5. HasTails(heap, 1)
    <3>1. SUFFICES ASSUME NEW k \in 1 .. Len(c)
                   PROVE  LET tail == Chain(heap, c[k])
                          IN Len(tail) = Len(c) - k + 1 /\ \A m \in 1 .. Len(tail) : tail[m] = c[k + m - 1]
      BY <2>1 DEF HasTails
    <3>2. k = 1 /\ Chain(heap, c[k]) = c
      BY <2>1, <2>2
    <3>3. \A m \in 1 .. Len(c) : c[m] = c[k + m - 1]
      BY <2>3, <3>2
    <3>4. Len(c) = Len(c) - k + 1
      BY <2>4, <3>2
    <3> DEFINE t == Chain(heap, c[k])
    <3>5. t = c
      BY <3>2
    <3> HIDE DEF t
    <3>6. Len(t) = Len(c) - k + 1 /\ \A m \in 1 .. Len(t) : t[m] = c[k + m - 1]
      BY <3>3, <3>4, <3>5
    <3> QED BY <3>6 DEF t
  <2>6. Chain(heap, 1)[Len(Chain(heap, 1))] = 1
    BY <2>1
  <2>7. IsSpace(heap[Chain(heap, 1)[Len(Chain(heap, 1))]])
    BY <1>3, <1>4, <2>6
  <2>8. Chain(heap, 1) \in Seq(Live(heap)) /\ Len(Chain(heap, 1)) > 0 /\ Chain(heap, 1)[1] = 1
    BY <2>1
  <2> QED BY <2>5, <2>7, <2>8 DEF HasChain
<1>6. Good(heap)
  BY <1>1, <1>3, <1>4, <1>5 DEF Good
<1>7. Handles \subseteq Live(heap)
  <2>1. ToSet(frames) = {1}
    BY <1>1, SingleSet
  <2> QED BY <1>1, <1>4, <2>1 DEF Handles, Roots
<1>8. QueueInv
  <2>1. tasks \in Seq(ToSet(tasks))
    <3>1. PICK x : tasks = <<x>>
      BY <1>1
    <3>2. <<x>> \in Seq(ToSet(<<x>>))
      BY SingleSet
    <3> QED BY <3>1, <3>2
  <2>2. incomplete \in Seq(ToSet(incomplete))
    <3>1. <<>> \in Seq(ToSet(<<>>))
      OBVIOUS
    <3> QED BY <1>1, <3>1
  <2>3. frames \in Seq(Ids) /\ Len(frames) > 0
    BY <1>1, <1>2
  <2> QED BY <1>1, <2>1, <2>2, <2>3 DEF QueueInv
<1>9. FunctionInv
  BY <1>1 DEF FunctionInv
<1> QED BY <1>1, <1>6, <1>7, <1>8, <1>9 DEF ScopeInv, HeapInv

\* Each step keeps the invariant, and the meaning of the scopes that are kept.
LEMMA StepScopes == ScopeInv /\ [Next]_vars => ScopeInv' /\ StaysPut
<1> SUFFICES ASSUME ScopeInv, [Next]_vars PROVE ScopeInv' /\ StaysPut
  OBVIOUS
<1>1. CASE Declare
  BY <1>1, DeclareClassStep, OpenClassStep, OpenNamespaceStep, DeclareFunctionStep, UsingDirectiveStep,
     UsingDeclarationStep, TypeAliasStep, NamespaceAliasStep, ImportStep, AccessSpecifierStep, CloseStep,
     EndOfDeclarationsStep DEF Declare
<1>2. CASE Reprocess
  BY <1>2, ReprocessStep
<1>3. CASE Compile
  BY <1>3, MentionStep, UsingDirectiveInBodyStep, UsingDeclarationInBodyStep, TypeAliasInBodyStep,
     ImportInBodyStep, BeginBodyStep, EnterBlockStep, LeaveBlockStep, EndBodyStep DEF Compile
<1>4. CASE UNCHANGED vars
  <2>1. QueueInv' /\ HeapInv' /\ StaysPut
    BY <1>4, StandStill DEF vars
  <2>2. FunctionInv'
    BY <1>4 DEF vars, ScopeInv, FunctionInv
  <2> QED BY <2>1, <2>2 DEF ScopeInv
<1> QED BY <1>1, <1>2, <1>3, <1>4 DEF Next

\* The nodes that the handles reach are always there and well-formed, and a
\* function waits in one queue, with one scope (ScriptCompiler, FunctionCompiler).
THEOREM ScopesHold == Spec => []ScopeInv
<1> QED BY InitScopes, StepScopes, PTL DEF Spec

\* No directive changes what another scope means (Scope::inject, Scope::merge).
THEOREM DirectivesStay == Spec => DirectivesStayPut
<1>1. ScopeInv /\ [Next]_vars => [StaysPut]_vars
  BY StepScopes
<1>2. Spec => [][StaysPut]_vars
  BY <1>1, ScopesHold, PTL DEF Spec
<1> QED BY <1>2 DEF DirectivesStayPut, StaysPut

\* A scope that nothing else refers to, which a directive changes in place, is part
\* of no scope that a function or a declaration keeps (Scope::inject, use_count).
THEOREM WrittenInPlaceAlone ==
  Spec => [](UseCount(heap, Active) = 1 =>
               \A k \in Kept(frames, tasks, incomplete, body) : Active \notin ToSet(Chain(heap, k[3])))
<1> DEFINE Alone == UseCount(heap, Active) = 1 =>
                      \A k \in Kept(frames, tasks, incomplete, body) : Active \notin ToSet(Chain(heap, k[3]))
<1>1. ScopeInv => Alone
  <2> SUFFICES ASSUME ScopeInv, UseCount(heap, Active) = 1, NEW k \in Kept(frames, tasks, incomplete, body)
               PROVE  Active \notin ToSet(Chain(heap, k[3]))
    OBVIOUS
  <2>1. Reread(heap, heap)
    BY RereadSelf DEF ScopeInv, HeapInv
  <2> QED BY <2>1, Unshared
<1> HIDE DEF Alone
<1>2. Spec => []Alone
  BY <1>1, ScopesHold, PTL
<1> QED BY <1>2 DEF Alone
=============================================================================
