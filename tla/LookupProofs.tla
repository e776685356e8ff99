---------------------------- MODULE LookupProofs ----------------------------
(***************************************************************************)
(* What was declared is found, for any declarations, modules and bounds:   *)
(* the caches of the scopes may be stale, but never so that a name that    *)
(* somebody has seen is hidden; and the namespaces of a module extend      *)
(* those of the script that have their names.                              *)
(***************************************************************************)
EXTENDS ScopesProofs

\* What a node lists and finds when d are the declarations and s the namespaces:
\* Own, Contents, Listed and LookupIn, for the values that a step leads to as well.
OwnIn(d, path, kind) == {e \in d \cup Given : e.in = path /\ e.kind = kind}

ContentsIn(d, n, kind) ==
  OwnIn(d, n.of, kind) \cup UNION {OwnIn(d, p, kind) : p \in ToSet(n.imports)}

ListedIn(d, n, kind) ==
  IF n.kind = "FunctionScope" THEN {}
  ELSE IF n.imports = <<>> THEN OwnIn(d, n.of, kind)
  ELSE IF n.cached[kind] = {} THEN ContentsIn(d, n, kind) ELSE n.cached[kind]

FoundIn(d, s, n, name) ==
  \/ IsSpace(n) /\ \E p \in {n.of} \cup ToSet(n.imports) : Append(p, name) \in s
  \/ name \in Names(n.aliases)
  \/ \E e \in n.injected : e.kind \in Kinds /\ e.name = name
  \/ \E k \in Kinds : \E e \in ListedIn(d, n, k) : e.name = name

\* A scope finds a name, in the first node or behind it.
Sees(d, s, h, id, first, name) ==
  \E n \in first .. Len(Chain(h, id)) : FoundIn(d, s, h[Chain(h, id)[n]], name)

\* A cache holds nothing that is not there, and only a namespace has one.
Sound(d, n) ==
  \A k \in Kinds : IF IsSpace(n) THEN n.cached[k] \subseteq ContentsIn(d, n, k) ELSE n.cached[k] = {}

\* The namespaces whose names a scope is to find: its own, and those that are not the
\* script's, which declarations do not change.
Fixed(n) == {p \in ToSet(n.imports) : p[1] # Script[1]}

\* A cache, if there is one, holds all there is in them.
Complete(d, n) ==
  \A k \in Kinds : n.cached[k] = {} \/ \A p \in {n.of} \cup Fixed(n) : OwnIn(d, p, k) \subseteq n.cached[k]

\* The scope of a declaration at depth k of the script: the node at position m of its
\* chain is that of a namespace or class that is nested in k - m others.
IsDepth(n, depth) ==
  /\ n.kind # "FunctionScope"
  /\ n.of \in Seq(ToSet(n.of)) /\ Len(n.of) = depth /\ n.of[1] = Script[1]

Stacked(d, h, id, k) ==
  /\ Len(Chain(h, id)) = k
  /\ \A m \in 1 .. k : IsDepth(h[Chain(h, id)[m]], k - m + 1) /\ Complete(d, h[Chain(h, id)[m]])

-----------------------------------------------------------------------------
(* The invariant. *)

\* What the queues have: a scope, and the names that are to be found from it.
Waiting(t, i) ==
  {<<t[n].scope, t[n].seen>> : n \in DOMAIN t} \cup {<<i[n].scope, i[n].seen>> : n \in DOMAIN i}

CacheInv == \A i \in Live(heap) : Sound(declared, heap[i])

WaitingInv == \A w \in Waiting(tasks, incomplete) : \A x \in w[2] : Sees(declared, spaces, heap, w[1], 1, x)

\* The blocks of a body are left: a name is found outside of them.
BodyInv == body # None => \A x \in body.seen : Sees(declared, spaces, heap, body.top, body.blocks + 1, x)

DepthInv ==
  /\ \A e \in declared : e.kind \in Kinds
  /\ phase = "declare" => \A k \in 1 .. Len(frames) : Stacked(declared, heap, frames[k], k)

LookupInv == CacheInv /\ WaitingInv /\ BodyInv /\ DepthInv


-----------------------------------------------------------------------------
(* Nodes that list no less. *)

\* A node that finds what another one finds: what it has cached is what the other had
\* cached, if both import the same, or what there is.
Better(d, n, m) ==
  /\ IsNode(m) /\ m.kind = n.kind /\ m.of = n.of
  /\ ToSet(n.imports) \subseteq ToSet(m.imports)
  /\ Names(n.aliases) \subseteq Names(m.aliases) /\ n.injected \subseteq m.injected
  /\ \A k \in Kinds : \/ m.cached[k] = {}
                      \/ m.imports = n.imports /\ m.cached[k] = n.cached[k]
                      \/ IsSpace(m) /\ m.cached[k] = ContentsIn(d, m, k)

LEMMA BetterSelf ==
  ASSUME NEW d, NEW n, IsNode(n)
  PROVE  Better(d, n, n)
BY DEF Better

LEMMA SameContents ==
  ASSUME NEW d, NEW n, NEW m, m.of = n.of, m.imports = n.imports, NEW k
  PROVE  ContentsIn(d, m, k) = ContentsIn(d, n, k)
BY DEF ContentsIn

LEMMA BetterTrans ==
  ASSUME NEW d, NEW n, NEW m, NEW o, Better(d, n, m), Better(d, m, o)
  PROVE  Better(d, n, o)
<1>1. ASSUME NEW k \in Kinds
      PROVE  \/ o.cached[k] = {}
             \/ o.imports = n.imports /\ o.cached[k] = n.cached[k]
             \/ IsSpace(o) /\ o.cached[k] = ContentsIn(d, o, k)
  <2>1. CASE o.imports = m.imports /\ o.cached[k] = m.cached[k]
    <3>1. ContentsIn(d, o, k) = ContentsIn(d, m, k) /\ (IsSpace(m) => IsSpace(o))
      BY <2>1, SameContents DEF Better, IsSpace
    <3> QED BY <2>1, <3>1 DEF Better
  <2> QED BY <2>1 DEF Better
<1> QED BY <1>1 DEF Better

LEMMA SomeImport ==
  ASSUME NEW n, IsNode(n)
  PROVE  n.imports = <<>> <=> ToSet(n.imports) = {}
<1>1. n.imports \in Seq(ToSet(n.imports))
  BY NodeFields
<1> DEFINE s == n.imports
<1>2. s = <<>> => ToSet(s) = {}
  BY DEF ToSet
<1>3. s # <<>> => 1 \in DOMAIN s
  BY <1>1
<1> HIDE DEF s
<1>4. 1 \in DOMAIN s => s[1] \in ToSet(s)
  BY DEF ToSet
<1> QED BY <1>2, <1>3, <1>4 DEF s

LEMMA MoreContents ==
  ASSUME NEW d, NEW e, d \subseteq e, NEW n, NEW m, m.of = n.of, ToSet(n.imports) \subseteq ToSet(m.imports), NEW k
  PROVE  ContentsIn(d, n, k) \subseteq ContentsIn(e, m, k) /\ OwnIn(d, n.of, k) \subseteq ContentsIn(e, m, k)
         /\ \A p : OwnIn(d, p, k) \subseteq OwnIn(e, p, k)
BY DEF ContentsIn, OwnIn

LEMMA BetterLists ==
  ASSUME NEW d, NEW e, d \subseteq e, NEW n, IsNode(n), Sound(d, n), NEW m, Better(d, n, m), NEW k \in Kinds
  PROVE  ListedIn(d, n, k) \subseteq ListedIn(e, m, k)
<1>1. /\ ContentsIn(d, n, k) \subseteq ContentsIn(e, m, k) /\ OwnIn(d, n.of, k) \subseteq ContentsIn(e, m, k)
      /\ OwnIn(d, n.of, k) \subseteq OwnIn(e, n.of, k)
      /\ ContentsIn(d, n, k) \subseteq ContentsIn(d, m, k) /\ OwnIn(d, n.of, k) \subseteq ContentsIn(d, m, k)
      /\ ContentsIn(d, m, k) \subseteq ContentsIn(e, m, k)
  BY MoreContents DEF Better
<1>2. /\ IsNode(m) /\ m.kind = n.kind /\ m.of = n.of
      /\ n.imports = <<>> <=> ToSet(n.imports) = {}
      /\ m.imports = <<>> <=> ToSet(m.imports) = {}
      /\ ToSet(n.imports) \subseteq ToSet(m.imports)
  BY SomeImport DEF Better
<1>3. ListedIn(d, n, k) \subseteq ContentsIn(d, n, k)
  <2>1. n.cached[k] \subseteq ContentsIn(d, n, k)
    BY DEF Sound
  <2> QED BY <2>1 DEF ListedIn, ContentsIn
<1>4. CASE n.kind = "FunctionScope"
  BY <1>4 DEF ListedIn
<1>5. CASE n.kind # "FunctionScope" /\ m.imports = <<>>
  BY <1>1, <1>2, <1>5 DEF ListedIn
<1>6. CASE n.kind # "FunctionScope" /\ m.imports # <<>> /\ m.cached[k] = {}
  BY <1>1, <1>2, <1>3, <1>6 DEF ListedIn
<1>7. CASE n.kind # "FunctionScope" /\ m.imports # <<>> /\ m.cached[k] # {} /\ m.imports = n.imports /\ m.cached[k] = n.cached[k]
  BY <1>2, <1>7 DEF ListedIn
<1>8. CASE n.kind # "FunctionScope" /\ m.imports # <<>> /\ m.cached[k] # {} /\ m.cached[k] = ContentsIn(d, m, k)
  BY <1>1, <1>2, <1>3, <1>8 DEF ListedIn
<1> QED BY <1>2, <1>4, <1>5, <1>6, <1>7, <1>8 DEF Better

LEMMA BetterFinds ==
  ASSUME NEW d, NEW e, d \subseteq e, NEW s, NEW t, s \subseteq t,
         NEW n, IsNode(n), Sound(d, n), NEW m, Better(d, n, m), NEW name, FoundIn(d, s, n, name)
  PROVE  FoundIn(e, t, m, name)
<1>1. CASE IsSpace(n) /\ \E p \in {n.of} \cup ToSet(n.imports) : Append(p, name) \in s
  <2>1. IsSpace(m) /\ \E p \in {m.of} \cup ToSet(m.imports) : Append(p, name) \in t
    BY <1>1 DEF Better, IsSpace
  <2> QED BY <2>1 DEF FoundIn
<1>2. CASE name \in Names(n.aliases)
  BY <1>2 DEF Better, FoundIn
<1>3. CASE \E x \in n.injected : x.kind \in Kinds /\ x.name = name
  BY <1>3 DEF Better, FoundIn
<1>4. CASE \E k \in Kinds : \E x \in ListedIn(d, n, k) : x.name = name
  <2>1. \A k \in Kinds : ListedIn(d, n, k) \subseteq ListedIn(e, m, k)
    BY BetterLists
  <2> QED BY <1>4, <2>1 DEF FoundIn
<1> QED BY <1>1, <1>2, <1>3, <1>4 DEF FoundIn

LEMMA BetterSound ==
  ASSUME NEW d, NEW e, d \subseteq e, NEW n, Sound(d, n), NEW m, Better(d, n, m)
  PROVE  Sound(e, m)
<1>1. ASSUME NEW k \in Kinds
      PROVE  IF IsSpace(m) THEN m.cached[k] \subseteq ContentsIn(e, m, k) ELSE m.cached[k] = {}
  <2>1. /\ IsSpace(m) <=> IsSpace(n)
        /\ ContentsIn(d, n, k) \subseteq ContentsIn(e, m, k) /\ ContentsIn(d, m, k) \subseteq ContentsIn(e, m, k)
    BY MoreContents DEF Better, IsSpace
  <2> QED BY <2>1 DEF Better, Sound
<1> QED BY <1>1 DEF Sound

LEMMA BetterComplete ==
  ASSUME NEW d, NEW n, Complete(d, n), NEW m, Better(d, n, m)
  PROVE  Complete(d, m)
<1>1. ASSUME NEW k \in Kinds
      PROVE  m.cached[k] = {} \/ \A p \in {m.of} \cup Fixed(m) : OwnIn(d, p, k) \subseteq m.cached[k]
  <2>1. CASE m.imports = n.imports /\ m.cached[k] = n.cached[k]
    <3>1. Fixed(m) = Fixed(n) /\ m.of = n.of
      BY <2>1 DEF Fixed, Better
    <3> QED BY <2>1, <3>1 DEF Complete
  <2>2. CASE m.cached[k] = ContentsIn(d, m, k)
    BY <2>2 DEF ContentsIn, Fixed
  <2> QED BY <2>1, <2>2 DEF Better
<1> QED BY <1>1 DEF Complete

-----------------------------------------------------------------------------
(* What lookups and declarations do to the caches, and to nothing else. *)

LEMMA ReadBetter ==
  ASSUME NEW n, IsNode(n), NEW k \in Kinds
  PROVE  Better(declared, n, Read(n, k))
<1>1. CASE IsSpace(n) /\ n.imports # <<>>
  <2> DEFINE m == [n EXCEPT !.cached[k] = Listed(n, k)]
  <2>1. Same(n, m) /\ m.cached = [n.cached EXCEPT ![k] = Listed(n, k)]
    BY NodeRead
  <2>2. n.cached \in [Kinds -> {n.cached["class"], n.cached["function"]}]
    BY NodeFields
  <2>3. Read(n, k) = m
    BY <1>1 DEF Read
  <2> HIDE DEF m
  <2>4. m.imports = n.imports /\ m.aliases = n.aliases /\ m.injected = n.injected /\ m.kind = n.kind /\ m.of = n.of /\ IsNode(m)
    BY <2>1, SameIsShape DEF SameShape
  <2>5. m.cached[k] = n.cached[k] \/ m.cached[k] = ContentsIn(declared, m, k)
    <3>1. m.cached[k] = Listed(n, k)
      BY <2>1, <2>2
    <3>2. Contents(n, k) = ContentsIn(declared, n, k)
      BY DEF Contents, ContentsIn, Own, OwnIn, ToSet
    <3>3. ContentsIn(declared, m, k) = ContentsIn(declared, n, k)
      BY <2>4, SameContents
    <3> QED BY <1>1, <3>1, <3>2, <3>3 DEF Listed, IsSpace
  <2>6. \A o \in Kinds : o # k => m.cached[o] = n.cached[o]
    BY <2>1, <2>2
  <2>7. IsSpace(m)
    BY <1>1, <2>4 DEF IsSpace
  <2> QED BY <2>3, <2>4, <2>5, <2>6, <2>7 DEF Better
<1>2. CASE ~(IsSpace(n) /\ n.imports # <<>>)
  BY <1>2, BetterSelf DEF Read
<1> QED BY <1>1, <1>2

LEMMA LookupReadsBetter ==
  ASSUME NEW n, IsNode(n), NEW name
  PROVE  Better(declared, n, LookupReads(n, name))
<1>1. "class" \in Kinds /\ "function" \in Kinds
  BY DEF Kinds
<1>2. Better(declared, n, Read(n, "class")) /\ IsNode(Read(n, "class"))
  BY <1>1, ReadBetter DEF Better
<1>3. Better(declared, n, Read(Read(n, "class"), "function"))
  BY <1>1, <1>2, ReadBetter, BetterTrans
<1> QED BY <1>2, <1>3, BetterSelf DEF LookupReads

\* All the nodes of a heap.
Bettered(h, g) == Reread(h, g) /\ \A i \in Live(h) : Better(declared, h[i], g[i])

LEMMA BetteredSelf ==
  ASSUME NEW h, Good(h)
  PROVE  Bettered(h, h)
BY RereadSelf, GoodNode, BetterSelf DEF Bettered

LEMMA BetteredTrans ==
  ASSUME NEW h, Good(h), NEW g, Bettered(h, g), NEW k, Bettered(g, k)
  PROVE  Bettered(h, k)
<1>1. Reread(h, k) /\ Live(g) = Live(h)
  BY RereadTrans, RereadFacts DEF Bettered
<1> QED BY <1>1, BetterTrans DEF Bettered

LEMMA LookupBetters ==
  ASSUME NEW h, Good(h), NEW id, id \in Live(h), NEW name
  PROVE  Bettered(h, Lookup(h, id, name).heap)
<1> DEFINE g == Lookup(h, id, name).heap
<1>1. Reread(h, g)
  BY LookupRereads
<1>2. \A i \in Ids : g[i] = h[i] \/ g[i] = LookupReads(h[i], name)
  BY DEF Lookup
<1> HIDE DEF g
<1>3. \A i \in Live(h) : Better(declared, h[i], g[i])
  BY <1>2, GoodNode, BetterSelf, LookupReadsBetter
<1> QED BY <1>1, <1>3 DEF Bettered, g

LEMMA ResolveBetters ==
  ASSUME NEW h, Good(h), NEW id, id \in Live(h), NEW name
  PROVE  Bettered(h, Resolve(h, id, name).heap)
BY LookupBetters, BetteredSelf DEF Resolve

LEMMA QualifiedBetters ==
  ASSUME NEW h, Good(h), NEW id, id \in Live(h), NEW space, NEW name
  PROVE  Bettered(h, QualifiedLookup(h, id, space, name).heap)
<1> DEFINE g == QualifiedLookup(h, id, space, name).heap
<1>1. Reread(h, g)
  BY QualifiedRereads
<1>2. \A i \in Ids : g[i] = h[i] \/ g[i] = Read(h[i], "class")
  BY DEF QualifiedLookup, SpaceCalled
<1> HIDE DEF g
<1>3. \A i \in Live(h) : Better(declared, h[i], g[i])
  BY <1>2, GoodNode, BetterSelf, ReadBetter DEF Kinds
<1> QED BY <1>1, <1>3 DEF Bettered, g

LEMMA InvalidatedBetters ==
  ASSUME NEW h, Good(h), NEW id, id \in Live(h), NEW kind \in Kinds
  PROVE  /\ Bettered(h, Invalidated(h, id, kind))
         /\ (\A k \in Kinds : ~IsSpace(h[id]) => h[id].cached[k] = {}) => Invalidated(h, id, kind)[id].cached[kind] = {}
<1> DEFINE g == Invalidated(h, id, kind)
           m == [h[id] EXCEPT !.cached[kind] = {}]
<1>1. Reread(h, g)
  BY InvalidatedRereads
<1>2. IsNode(h[id]) /\ id \in Ids /\ h[id].cached \in [Kinds -> {h[id].cached["class"], h[id].cached["function"]}]
  BY GoodNode, NodeFields
<1>3. Same(h[id], m) /\ m.cached = [h[id].cached EXCEPT ![kind] = {}]
  BY <1>2, NodeRead
<1> HIDE DEF m
<1>4. Better(declared, h[id], m) /\ m.cached[kind] = {}
  <2>1. m.imports = h[id].imports /\ m.aliases = h[id].aliases /\ m.injected = h[id].injected
        /\ m.kind = h[id].kind /\ m.of = h[id].of /\ IsNode(m)
    BY <1>2, <1>3, SameIsShape DEF SameShape
  <2>2. m.cached[kind] = {} /\ \A k \in Kinds : k # kind => m.cached[k] = h[id].cached[k]
    BY <1>2, <1>3
  <2> QED BY <2>1, <2>2 DEF Better
<1>5. IF IsSpace(h[id]) THEN g = [h EXCEPT ![id] = m] ELSE g = h
  BY DEF Invalidated, m
<1>6. h = [i \in Ids |-> h[i]]
  BY DEF Good
<1> HIDE DEF g
<1>7. \A i \in Live(h) : Better(declared, h[i], g[i])
  BY <1>2, <1>4, <1>5, <1>6, GoodNode, BetterSelf
<1>8. IsSpace(h[id]) => g[id] = m
  BY <1>2, <1>5, <1>6
<1>9. (\A k \in Kinds : ~IsSpace(h[id]) => h[id].cached[k] = {}) => g[id].cached[kind] = {}
  BY <1>4, <1>5, <1>8
<1> QED BY <1>1, <1>7, <1>9 DEF Bettered, g

LEMMA WiderBetter ==
  ASSUME NEW d, NEW n, IsNode(n), NEW m, Wider(n, m)
  PROVE  Better(d, n, m)
BY DEF Wider, Better, Empty

-----------------------------------------------------------------------------
(* What is found in a node, and in a chain of them, is what a lookup returns. *)

LEMMA ListedHere ==
  ASSUME NEW n, NEW k
  PROVE  ListedIn(declared, n, k) = Listed(n, k) /\ ContentsIn(declared, n, k) = Contents(n, k)
<1>1. \A p : OwnIn(declared, p, k) = Own(p, k)
  BY DEF OwnIn, Own
<1>2. UNION {OwnIn(declared, p, k) : p \in ToSet(n.imports)} = UNION {Own(n.imports[i], k) : i \in DOMAIN n.imports}
  BY <1>1 DEF ToSet
<1>3. ContentsIn(declared, n, k) = Contents(n, k)
  BY <1>1, <1>2 DEF ContentsIn, Contents
<1> QED BY <1>1, <1>3 DEF ListedIn, Listed

LEMMA FoundLooked ==
  ASSUME NEW n, NEW name, FoundIn(declared, spaces, n, name)
  PROVE  LookupIn(n, name) # Nothing
<1>1. CASE HasNested(n, name)
  <2>1. ChildScope(n, name).kind = "NamespaceScope"
    BY DEF ChildScope, Node
  <2>2. ChildScope(n, name) # None
    BY <2>1 DEF None
  <2>3. LookupIn(n, name).space = ChildScope(n, name) /\ Nothing.space = None
    BY <1>1 DEF LookupIn, Nothing
  <2> QED BY <2>2, <2>3
<1>2. CASE ~HasNested(n, name) /\ Aliased(n, name) # {}
  BY <1>2 DEF LookupIn, Nothing
<1>3. CASE ~HasNested(n, name) /\ Aliased(n, name) = {} /\ InjectedAs(n, "class", name) # {}
  BY <1>3 DEF LookupIn, Nothing
<1>4. CASE /\ ~HasNested(n, name) /\ Aliased(n, name) = {} /\ InjectedAs(n, "class", name) = {}
           /\ ListedAs(n, "class", name) # {}
  BY <1>4 DEF LookupIn, Nothing
<1>5. CASE /\ ~HasNested(n, name) /\ Aliased(n, name) = {} /\ InjectedAs(n, "class", name) = {}
           /\ ListedAs(n, "class", name) = {}
  <2>1. ~(IsSpace(n) /\ \E p \in {n.of} \cup ToSet(n.imports) : Append(p, name) \in spaces)
    BY <1>5 DEF HasNested
  <2>2. name \notin Names(n.aliases)
    BY <1>5 DEF Aliased, Names
  <2>3. \A k \in Kinds : ListedIn(declared, n, k) = Listed(n, k)
    BY ListedHere
  <2>4. InjectedAs(n, "function", name) # {} \/ ListedAs(n, "function", name) # {}
    <3>1. CASE \E x \in n.injected : x.kind \in Kinds /\ x.name = name
      BY <1>5, <3>1 DEF InjectedAs, Kinds
    <3>2. CASE \E k \in Kinds : \E x \in ListedIn(declared, n, k) : x.name = name
      BY <1>5, <2>3, <3>2 DEF ListedAs, Kinds
    <3> QED BY <2>1, <2>2, <3>1, <3>2 DEF FoundIn
  <2> QED BY <1>5, <2>4 DEF LookupIn, Nothing
<1> QED BY <1>1, <1>2, <1>3, <1>4, <1>5

LEMMA SeenLooked ==
  ASSUME NEW h, Good(h), NEW id, id \in Live(h), NEW first \in Nat \ {0}, NEW name,
         Sees(declared, spaces, h, id, first, name)
  PROVE  Lookup(h, id, name).result # Nothing
<1> DEFINE chain == Chain(h, id)
           found == {n \in DOMAIN chain : LookupIn(h[chain[n]], name) # Nothing}
           last == IF found = {} THEN Len(chain) ELSE FirstOf(found)
<1>1. chain \in Seq(Live(h)) /\ Len(chain) \in Nat
  BY GoodNode DEF HasChain
<1>2. PICK n \in first .. Len(chain) : FoundIn(declared, spaces, h[chain[n]], name)
  BY DEF Sees
<1>3. n \in found
  BY <1>1, <1>2, FoundLooked
<1>4. found \subseteq Nat
  BY <1>1
<1>5. last \in found
  BY ONLY <1>3, <1>4, FirstIsLeast
<1>6. Lookup(h, id, name).result = LookupIn(h[chain[last]], name)
  BY DEF Lookup
<1> QED BY <1>5, <1>6

\* A scope that goes on as another one: node by node, it finds no less.
Continues(d, h, id, g, jd) ==
  /\ Len(Chain(g, jd)) = Len(Chain(h, id))
  /\ \A n \in 1 .. Len(Chain(h, id)) : Better(d, h[Chain(h, id)[n]], g[Chain(g, jd)[n]])

AllSound(d, h) == \A i \in Live(h) : Sound(d, h[i])

LEMMA ContinuesSees ==
  ASSUME NEW d, NEW e, d \subseteq e, NEW s, NEW t, s \subseteq t,
         NEW h, Good(h), AllSound(d, h), NEW id, id \in Live(h), NEW g, NEW jd, Continues(d, h, id, g, jd),
         NEW first \in Nat \ {0}, NEW name, Sees(d, s, h, id, first, name)
  PROVE  Sees(e, t, g, jd, first, name)
<1>1. PICK n \in first .. Len(Chain(h, id)) : FoundIn(d, s, h[Chain(h, id)[n]], name)
  BY DEF Sees
<1>2. Len(Chain(h, id)) \in Nat
  BY GoodNode DEF HasChain
<1>3. n \in 1 .. Len(Chain(h, id))
  BY <1>2
<1>4. Chain(h, id)[n] \in Live(h)
  BY <1>3, ChainElement
<1>5. IsNode(h[Chain(h, id)[n]]) /\ Sound(d, h[Chain(h, id)[n]])
  BY <1>4, GoodNode DEF AllSound
<1>6. Better(d, h[Chain(h, id)[n]], g[Chain(g, jd)[n]]) /\ Len(Chain(g, jd)) = Len(Chain(h, id))
  BY <1>3 DEF Continues
<1>7. FoundIn(e, t, g[Chain(g, jd)[n]], name)
  BY <1>1, <1>5, <1>6, BetterFinds
<1> QED BY <1>6, <1>7 DEF Sees

\* The scope of a directive goes on as what the directive makes of it.
LEMMA DirectsContinues ==
  ASSUME NEW h, Good(h), NEW g, Bettered(h, g), NEW id, id \in Live(h), NEW r, Directs(g, id, r)
  PROVE  Continues(declared, h, id, r.heap, r.id)
<1>1. Good(g) /\ Live(g) = Live(h) /\ Chain(g, id) = Chain(h, id)
  BY RereadFacts DEF Bettered
<1>2. ASSUME NEW n \in 1 .. Len(Chain(h, id))
      PROVE  Better(declared, h[Chain(h, id)[n]], r.heap[Chain(r.heap, r.id)[n]])
  <2>1. Chain(h, id)[n] \in Live(h) /\ Chain(h, id)[n] \in Live(g)
    BY <1>1, ChainElement
  <2>2. IsNode(g[Chain(h, id)[n]]) /\ Wider(g[Chain(h, id)[n]], r.heap[Chain(r.heap, r.id)[n]])
    BY <1>1, <2>1, GoodNode DEF Directs
  <2>3. Better(declared, g[Chain(h, id)[n]], r.heap[Chain(r.heap, r.id)[n]])
    BY <2>2, WiderBetter
  <2>4. Better(declared, h[Chain(h, id)[n]], g[Chain(h, id)[n]])
    BY <2>1 DEF Bettered
  <2> QED BY <2>3, <2>4, BetterTrans
<1> QED BY <1>1, <1>2 DEF Continues, Directs

\* A scope goes on as itself when its nodes stay, or are read.
LEMMA UntouchedContinues ==
  ASSUME NEW h, Good(h), NEW g, Bettered(h, g), NEW id, id \in Live(h),
         NEW k, \A j \in ToSet(Chain(h, id)) : k[j] = g[j]
  PROVE  Continues(declared, h, id, k, id)
<1>1. Good(g) /\ Live(g) = Live(h) /\ Chain(g, id) = Chain(h, id)
  BY RereadFacts DEF Bettered
<1>2. id \in ToSet(Chain(h, id))
  BY ChainMembers
<1>3. Chain(k, id) = Chain(h, id)
  BY <1>1, <1>2 DEF Chain
<1>4. ASSUME NEW n \in 1 .. Len(Chain(h, id))
      PROVE  Better(declared, h[Chain(h, id)[n]], k[Chain(h, id)[n]])
  BY ChainElement DEF Bettered
<1> QED BY <1>3, <1>4 DEF Continues

\* What the handles of a step keep is there after it.
LEMMA FreedStep ==
  ASSUME NEW g, Good(g), NEW f, NEW t, NEW i, NEW b, Becomes(g, f, t, i, b), ScopeInv'
  PROVE  /\ Live(heap') \subseteq Live(g) /\ \A j \in Live(heap') : heap'[j] = g[j]
         /\ \A id \in Roots(f, t, i, b) : id \in Live(g) /\ id \in Live(heap')
                                          /\ \A j \in ToSet(Chain(g, id)) : heap'[j] = g[j]
<1> DEFINE R == Roots(f, t, i, b)
           c == Collected(g, R)
<1>2. heap' = c /\ Handles' = R
  BY DEF Becomes, Handles
<1>4. R \subseteq Live(g)
  <2>1. Handles' \subseteq Live(heap')
    BY DEF ScopeInv, HeapInv
  <2>2. Live(c) \subseteq Live(g)
    BY DEF Collected, Live
  <2> HIDE DEF R, c
  <2> QED BY <1>2, <2>1, <2>2
<1>1. /\ R \subseteq Live(c) /\ Live(c) \subseteq Live(g)
      /\ \A j \in Live(c) : c[j] = g[j]
      /\ \A id \in R : ToSet(Chain(g, id)) \subseteq Live(c)
  BY <1>4, CollectedGood
<1> HIDE DEF R, c
<1>3. /\ Live(heap') \subseteq Live(g) /\ \A j \in Live(heap') : heap'[j] = g[j]
      /\ \A id \in R : id \in Live(g) /\ id \in Live(heap') /\ \A j \in ToSet(Chain(g, id)) : heap'[j] = g[j]
  BY <1>1, <1>2, <1>4
<1> QED BY <1>3 DEF R

-----------------------------------------------------------------------------
(* What is kept goes on as it is. *)

LEMMA BetteredSound ==
  ASSUME NEW h, Good(h), AllSound(declared, h), NEW g, Bettered(h, g)
  PROVE  Good(g) /\ Live(g) = Live(h) /\ AllSound(declared, g)
<1>1. Good(g) /\ Live(g) = Live(h)
  BY RereadFacts DEF Bettered
<1>2. \A i \in Live(h) : Sound(declared, h[i]) /\ Better(declared, h[i], g[i])
  BY DEF Bettered, AllSound
<1> QED BY <1>1, <1>2, BetterSound DEF AllSound

LEMMA DirectsSound ==
  ASSUME NEW h, Good(h), AllSound(declared, h), NEW id, id \in Live(h), NEW r, Directs(h, id, r)
  PROVE  AllSound(declared, r.heap)
<1>1. Good(r.heap) /\ r.id \in Live(r.heap)
  BY DEF Directs
<1>2. ASSUME NEW i \in ToSet(Chain(r.heap, r.id)) PROVE Sound(declared, r.heap[i])
  <2>1. PICK n \in 1 .. Len(Chain(r.heap, r.id)) : Chain(r.heap, r.id)[n] = i
    BY <1>1, ChainMembers
  <2>2. n \in 1 .. Len(Chain(h, id))
    BY <2>1 DEF Directs
  <2>3. Chain(h, id)[n] \in Live(h) /\ Wider(h[Chain(h, id)[n]], r.heap[i])
    BY <2>1, <2>2, ChainElement DEF Directs
  <2>4. IsNode(h[Chain(h, id)[n]]) /\ Sound(declared, h[Chain(h, id)[n]])
    BY <2>3, GoodNode DEF AllSound
  <2>5. Better(declared, h[Chain(h, id)[n]], r.heap[i])
    BY <2>3, <2>4, WiderBetter
  <2> QED BY <2>4, <2>5, BetterSound
<1>3. r.id \in ToSet(Chain(r.heap, r.id))
  BY <1>1, ChainMembers
<1>4. ASSUME NEW i \in Live(r.heap) PROVE Sound(declared, r.heap[i])
  <2>1. i \in Live(h) \/ i \in ToSet(Chain(r.heap, r.id))
    BY DEF Directs
  <2>2. CASE i \in Live(h)
    <3>1. r.heap[i] = h[i] \/ i = r.id
      BY <2>2 DEF Directs
    <3> QED BY <1>2, <1>3, <2>2, <3>1 DEF AllSound
  <2> QED BY <1>2, <2>1, <2>2
<1> QED BY <1>4 DEF AllSound

LEMMA KeptContinues ==
  ASSUME ScopeInv, NEW h, Bettered(heap, h), NEW g, Grows(h, g), NEW k \in Kept(frames, tasks, incomplete, body)
  PROVE  k[3] \in Live(heap) /\ Continues(declared, heap, k[3], g, k[3])
<1>1. Good(heap) /\ Reread(heap, h) /\ Live(h) = Live(heap)
  BY RereadFacts DEF ScopeInv, HeapInv, Bettered
<1>2. k[3] \in Live(heap) /\ \A j \in ToSet(Chain(heap, k[3])) : j \in Live(h)
  BY <1>1, KeptNodesStay, ChainMembers
<1>3. \A j \in ToSet(Chain(heap, k[3])) : ~(j = Active /\ UseCount(h, Active) = 1)
  BY <1>1, Unshared
<1>4. \A j \in ToSet(Chain(heap, k[3])) : g[j] = h[j]
  BY <1>2, <1>3 DEF Grows
<1> QED BY <1>1, <1>2, <1>4, UntouchedContinues

\* The scopes of the queues are kept.
LEMMA WaitingKept ==
  ASSUME NEW f, NEW t, NEW i, NEW b, NEW w \in Waiting(t, i)
  PROVE  w[1] \in Roots(f, t, i, b) /\ \E k \in Kept(f, t, i, b) : k[3] = w[1]
<1>1. CASE \E n \in DOMAIN t : w = <<t[n].scope, t[n].seen>>
  <2>1. PICK n \in DOMAIN t : w = <<t[n].scope, t[n].seen>>
    BY <1>1
  <2>2. <<"task", t[n].function, t[n].scope>> \in Kept(f, t, i, b)
    BY DEF Kept
  <2> QED BY <2>1, <2>2 DEF Roots
<1>2. CASE \E n \in DOMAIN i : w = <<i[n].scope, i[n].seen>>
  <2>1. PICK n \in DOMAIN i : w = <<i[n].scope, i[n].seen>>
    BY <1>2
  <2>2. <<"task", i[n].function, i[n].scope>> \in Kept(f, t, i, b)
    BY DEF Kept
  <2> QED BY <2>1, <2>2 DEF Roots
<1> QED BY <1>1, <1>2 DEF Waiting

\* What a step adds to the queues has to see what it is to see; the rest does.
LEMMA QueuesSee ==
  ASSUME ScopeInv, LookupInv, ScopeInv', declared \subseteq declared', spaces \subseteq spaces',
         NEW h, Bettered(heap, h), NEW g, Grows(h, g), AllSound(declared, g),
         NEW f, NEW t, NEW i, NEW b, Becomes(g, f, t, i, b),
         \A w \in Waiting(t, i) : w \in Waiting(tasks, incomplete)
                                  \/ \A x \in w[2] : Sees(declared, spaces, g, w[1], 1, x)
  PROVE  CacheInv' /\ WaitingInv'
<1>1. Good(g) /\ Good(heap) /\ AllSound(declared, heap)
  BY DEF Grows, ScopeInv, HeapInv, LookupInv, CacheInv, AllSound
<1>2. /\ Live(heap') \subseteq Live(g) /\ \A j \in Live(heap') : heap'[j] = g[j]
      /\ \A id \in Roots(f, t, i, b) : id \in Live(g) /\ \A j \in ToSet(Chain(g, id)) : heap'[j] = g[j]
  BY <1>1, FreedStep
<1>3. \A j \in Live(g) : Sound(declared', g[j])
  <2> SUFFICES ASSUME NEW j \in Live(g) PROVE Sound(declared', g[j])
    OBVIOUS
  <2>1. IsNode(g[j]) /\ Sound(declared, g[j])
    BY <1>1, GoodNode DEF AllSound
  <2>2. Better(declared, g[j], g[j])
    BY <2>1, BetterSelf
  <2> QED BY <2>1, <2>2, BetterSound
<1>4. CacheInv'
  BY <1>2, <1>3 DEF CacheInv
<1>5. ASSUME NEW w \in Waiting(t, i), NEW x \in w[2] PROVE Sees(declared, spaces, g, w[1], 1, x)
  <2>1. CASE w \in Waiting(tasks, incomplete)
    <3>1. PICK k \in Kept(frames, tasks, incomplete, body) : k[3] = w[1]
      BY <2>1, WaitingKept
    <3>2. w[1] \in Live(heap) /\ Continues(declared, heap, w[1], g, w[1])
      BY <3>1, KeptContinues
    <3>3. Sees(declared, spaces, heap, w[1], 1, x)
      BY <2>1 DEF LookupInv, WaitingInv
    <3> QED BY <1>1, <3>2, <3>3, ContinuesSees
  <2> QED BY <2>1
<1>6. ASSUME NEW w \in Waiting(t, i), NEW x \in w[2] PROVE Sees(declared', spaces', heap', w[1], 1, x)
  <2>1. w[1] \in Roots(f, t, i, b)
    BY WaitingKept
  <2>2. w[1] \in Live(g) /\ \A j \in ToSet(Chain(g, w[1])) : heap'[j] = g[j]
    BY <1>2, <2>1
  <2>3. Continues(declared, g, w[1], heap', w[1])
    BY <1>1, <2>2, BetteredSelf, UntouchedContinues
  <2> QED BY <1>1, <1>5, <2>2, <2>3, ContinuesSees
<1>7. WaitingInv'
  BY <1>6 DEF WaitingInv, Becomes
<1> QED BY <1>4, <1>7

LEMMA BodySees ==
  ASSUME ScopeInv', declared \subseteq declared', spaces \subseteq spaces',
         NEW g, Good(g), AllSound(declared, g), NEW f, NEW t, NEW i, NEW b, Becomes(g, f, t, i, b),
         b # None, \A x \in b.seen : Sees(declared, spaces, g, b.top, b.blocks + 1, x)
  PROVE  BodyInv'
<1>1. body' = b /\ b.top \in Roots(f, t, i, b)
  BY DEF Becomes, Roots
<1>2. b.top \in Live(g) /\ \A j \in ToSet(Chain(g, b.top)) : heap'[j] = g[j]
  BY <1>1, FreedStep
<1>3. Continues(declared, g, b.top, heap', b.top)
  BY <1>2, BetteredSelf, UntouchedContinues
<1>4. b.blocks + 1 \in Nat \ {0}
  <2>1. IsBody(b)
    BY <1>1 DEF ScopeInv, QueueInv
  <2> QED BY <2>1, BodyFields
<1>5. ASSUME NEW x \in b.seen PROVE Sees(declared', spaces', heap', b.top, b.blocks + 1, x)
  BY <1>2, <1>3, <1>4, ContinuesSees
<1> QED BY <1>1, <1>5 DEF BodyInv

-----------------------------------------------------------------------------
(* The scopes of the declarations that are open. *)

LEMMA ContinuesStacked ==
  ASSUME NEW d, NEW h, NEW id, NEW g, NEW jd, Continues(d, h, id, g, jd), NEW k \in Nat, Stacked(d, h, id, k)
  PROVE  Stacked(d, g, jd, k)
<1>1. Len(Chain(g, jd)) = k /\ Len(Chain(h, id)) = k
  BY DEF Continues, Stacked
<1>2. ASSUME NEW m \in 1 .. k
      PROVE  IsDepth(g[Chain(g, jd)[m]], k - m + 1) /\ Complete(d, g[Chain(g, jd)[m]])
  <2>1. Better(d, h[Chain(h, id)[m]], g[Chain(g, jd)[m]])
    BY <1>1 DEF Continues
  <2>2. IsDepth(h[Chain(h, id)[m]], k - m + 1) /\ Complete(d, h[Chain(h, id)[m]])
    BY DEF Stacked
  <2>3. Complete(d, g[Chain(g, jd)[m]])
    BY <2>1, <2>2, BetterComplete
  <2>4. g[Chain(g, jd)[m]].kind = h[Chain(h, id)[m]].kind /\ g[Chain(g, jd)[m]].of = h[Chain(h, id)[m]].of
    BY <2>1 DEF Better
  <2>5. IsDepth(g[Chain(g, jd)[m]], k - m + 1)
    BY <2>2, <2>4 DEF IsDepth
  <2> QED BY <2>3, <2>5
<1> QED BY <1>1, <1>2 DEF Stacked

LEMMA SameStacked ==
  ASSUME NEW d, NEW h, Good(h), NEW id, id \in Live(h), NEW k \in Nat, Stacked(d, h, id, k),
         NEW g, \A j \in ToSet(Chain(h, id)) : g[j] = h[j]
  PROVE  Stacked(d, g, id, k)
<1>1. id \in ToSet(Chain(h, id))
  BY ChainMembers
<1>2. Chain(g, id) = Chain(h, id)
  BY <1>1 DEF Chain
<1>3. \A m \in 1 .. k : g[Chain(h, id)[m]] = h[Chain(h, id)[m]]
  BY ChainElement DEF Stacked
<1> QED BY <1>2, <1>3 DEF Stacked

\* What is declared is in a cache, or in a namespace that the node does not have.
LEMMA MoreComplete ==
  ASSUME NEW d, NEW n, Complete(d, n), NEW new,
         \A e \in new : (e.in # n.of /\ e.in[1] = Script[1]) \/ n.cached[e.kind] = {}
  PROVE  Complete(d \cup new, n)
<1>1. ASSUME NEW k \in Kinds, n.cached[k] # {}, NEW p \in {n.of} \cup Fixed(n)
      PROVE  OwnIn(d \cup new, p, k) \subseteq n.cached[k]
  <2>1. OwnIn(d, p, k) \subseteq n.cached[k]
    BY <1>1 DEF Complete
  <2>2. ASSUME NEW e \in new, e.in = p, e.kind = k PROVE FALSE
    BY <1>1, <2>2 DEF Fixed
  <2> QED BY <2>1, <2>2 DEF OwnIn
<1> QED BY <1>1 DEF Complete

\* The declarations that are open, after a step.
LEMMA DepthStep ==
  ASSUME ScopeInv', NEW g, Good(g), NEW f \in Seq(Ids), NEW t, NEW i, NEW b, Becomes(g, f, t, i, b),
         \A e \in declared' : e.kind \in Kinds,
         \A k \in 1 .. Len(f) : Stacked(declared', g, f[k], k)
  PROVE  DepthInv'
<1>1. frames' = f
  BY DEF Becomes
<1>2. ASSUME NEW k \in 1 .. Len(f) PROVE Stacked(declared', heap', f[k], k)
  <2>1. f[k] \in Roots(f, t, i, b) /\ k \in Nat
    BY DEF Roots, ToSet
  <2>2. f[k] \in Live(g) /\ \A j \in ToSet(Chain(g, f[k])) : heap'[j] = g[j]
    BY <2>1, FreedStep
  <2> QED BY <2>1, <2>2, SameStacked
<1> QED BY <1>1, <1>2 DEF DepthInv

\* The open declarations that a step does not touch.
LEMMA OuterStacked ==
  ASSUME ScopeInv, LookupInv, phase = "declare", NEW h, Bettered(heap, h), NEW g, Grows(h, g), NEW k \in 1 .. Len(frames) - 1
  PROVE  Stacked(declared, g, frames[k], k)
<1>1. <<"frame", k, frames[k]>> \in Kept(frames, tasks, incomplete, body)
  BY DEF Kept
<1>2. Continues(declared, heap, frames[k], g, frames[k])
  BY <1>1, KeptContinues
<1>3. k \in 1 .. Len(frames) /\ k \in Nat
  BY FrameFacts
<1>4. Stacked(declared, heap, frames[k], k)
  BY <1>3 DEF LookupInv, DepthInv
<1> QED BY <1>2, <1>3, <1>4, ContinuesStacked

\* The current declaration, in a step that puts r.id in its place, or leaves it.
LEMMA CurrentStacked ==
  ASSUME ScopeInv, LookupInv, phase = "declare", NEW h, Bettered(heap, h), NEW r, Directs(h, Current, r)
  PROVE  /\ Stacked(declared, r.heap, r.id, Len(frames)) /\ Stacked(declared, r.heap, Current, Len(frames))
<1>1. Good(heap) /\ Current \in Live(heap) /\ Current = frames[Len(frames)] /\ Len(frames) \in 1 .. Len(frames) /\ Len(frames) \in Nat
  BY ActiveIsLive, FrameFacts DEF ScopeInv, HeapInv
<1>2. Stacked(declared, heap, Current, Len(frames))
  BY <1>1 DEF LookupInv, DepthInv
<1>3. Continues(declared, heap, Current, r.heap, r.id)
  BY <1>1, DirectsContinues
<1>4. Stacked(declared, r.heap, r.id, Len(frames))
  BY <1>1, <1>2, <1>3, ContinuesStacked
<1>5. ASSUME r.id # Current PROVE Stacked(declared, r.heap, Current, Len(frames))
  <2>1. \A j \in ToSet(Chain(heap, Current)) : r.heap[j] = h[j]
    <3>1. Live(h) = Live(heap) /\ ToSet(Chain(heap, Current)) \subseteq Live(heap)
      BY <1>1, RereadFacts, ChainMembers DEF Bettered
    <3> QED BY <1>5, <3>1 DEF Directs
  <2>2. Continues(declared, heap, Current, r.heap, Current)
    BY <1>1, <2>1, UntouchedContinues
  <2> QED BY <1>1, <1>2, <2>2, ContinuesStacked
<1> QED BY <1>4, <1>5

\* A directive, or an access specifier.
LEMMA DirectiveSees ==
  ASSUME ScopeInv, LookupInv, ScopeInv', phase = "declare", declared' = declared, spaces' = spaces,
         NEW h, Bettered(heap, h), NEW r, Directs(h, Current, r), NEW f,
         f = frames \/ f = Append(Front(frames), r.id), Becomes(r.heap, f, tasks, incomplete, body)
  PROVE  LookupInv'
<1>1. body = None /\ Active = Current /\ Current \in Live(heap) /\ Good(heap)
  BY NoBody
<1>2. Grows(h, r.heap) /\ Good(r.heap)
  BY <1>1, DirectsGrows DEF Directs
<1>3. Good(h) /\ Current \in Live(h) /\ AllSound(declared, h)
  BY <1>1, BetteredSound DEF LookupInv, CacheInv, AllSound
<1>4. AllSound(declared, r.heap)
  BY <1>3, DirectsSound
<1>5. CacheInv' /\ WaitingInv'
  BY <1>2, <1>4, QueuesSee
<1>6. BodyInv'
  BY <1>1 DEF BodyInv, Becomes
<1>7. frames \in Seq(Ids) /\ Len(frames) \in Nat /\ Len(frames) > 0 /\ Current = frames[Len(frames)]
  BY FrameFacts, ActiveIsLive
<1>8. f \in Seq(Ids) /\ Len(f) = Len(frames) /\ (\A n \in 1 .. Len(frames) - 1 : f[n] = frames[n])
      /\ f[Len(frames)] \in {Current, r.id}
  <2> DEFINE x == r.id
  <2>1. x \in Ids
    BY DEF Directs, Live
  <2> HIDE DEF x
  <2>2. /\ Append(Front(frames), x) \in Seq(Ids) /\ Len(Append(Front(frames), x)) = Len(frames)
        /\ \A n \in 1 .. Len(frames) - 1 : Append(Front(frames), x)[n] = frames[n]
        /\ Front(frames) \in Seq(Ids) /\ Len(Front(frames)) = Len(frames) - 1
    BY <1>7, <2>1, FramesReplaced
  <2>3. Append(Front(frames), x)[Len(frames)] = x
    BY <1>7, <2>2
  <2> QED BY <1>7, <2>2, <2>3 DEF x
<1>9. ASSUME NEW k \in 1 .. Len(f) PROVE Stacked(declared, r.heap, f[k], k)
  <2>1. CASE k = Len(frames)
    BY <1>8, <2>1, CurrentStacked
  <2>2. CASE k # Len(frames)
    <3>1. k \in 1 .. Len(frames) - 1
      BY <1>7, <1>8, <2>2
    <3> QED BY <1>2, <1>8, <3>1, OuterStacked
  <2> QED BY <2>1, <2>2
<1>10. DepthInv'
  BY <1>2, <1>8, <1>9, DepthStep DEF LookupInv, DepthInv
<1> QED BY <1>5, <1>6, <1>10 DEF LookupInv

LEMMA ProcessedSees ==
  ASSUME ScopeInv, LookupInv, ScopeInv', phase = "declare", declared' = declared, spaces' = spaces,
         NEW h, Bettered(heap, h), NEW r, Directs(h, Current, r), Processed(r)
  PROVE  LookupInv'
<1> DEFINE f == IF Len(frames) = 1 THEN <<r.id>> ELSE frames
<1>1. f = frames \/ f = Append(Front(frames), r.id)
  <2>1. CASE Len(frames) = 1
    <3>1. frames \in Seq(Ids) /\ Front(frames) = <<>>
      BY <2>1, FrameFacts DEF Front
    <3> QED BY <2>1, <3>1
  <2> QED BY <2>1
<1>2. Becomes(r.heap, f, tasks, incomplete, body)
  BY DEF Processed
<1> HIDE DEF f
<1> QED BY <1>1, <1>2, DirectiveSees

LEMMA UsingDirectiveSees ==
  ASSUME ScopeInv, LookupInv, NEW name, UsingDirective(name)
  PROVE  LookupInv'
<1> DEFINE lookup == Lookup(heap, Current, name)
           h == lookup.heap
           space == lookup.result.space
           r == InjectSpace(h, Current, space)
<1>1. /\ Declaring /\ phase = "declare" /\ declared' = declared /\ spaces' = spaces
      /\ space # None /\ Processed(r)
  BY DEF UsingDirective, Declaring
<1>2. Good(heap) /\ Current \in Live(heap)
  BY ActiveIsLive DEF ScopeInv, HeapInv
<1>3. Bettered(heap, h) /\ Reread(heap, h) /\ space.imports \in Seq(ToSet(space.imports))
  BY <1>1, <1>2, LookupBetters, FoundSpace DEF Bettered
<1>4. Good(h) /\ Current \in Live(h) /\ Room(h, Len(Chain(h, Current)))
  BY <1>1, <1>3, DeclaringThere
<1> HIDE DEF h, space
<1>5. Directs(h, Current, r)
  BY <1>3, <1>4, SpaceDirects
<1> HIDE DEF r
<1>6. ScopeInv'
  BY UsingDirectiveStep
<1> QED BY <1>1, <1>3, <1>5, <1>6, ProcessedSees

LEMMA UsingDeclarationSees ==
  ASSUME ScopeInv, LookupInv, NEW space, NEW name, UsingDeclaration(space, name)
  PROVE  LookupInv'
<1> DEFINE lookup == QualifiedLookup(heap, Current, space, name)
           h == lookup.heap
           r == InjectEntities(h, Current, lookup.result.functions)
<1>1. Declaring /\ phase = "declare" /\ declared' = declared /\ spaces' = spaces /\ Processed(r)
  BY DEF UsingDeclaration, Declaring
<1>2. Good(heap) /\ Current \in Live(heap)
  BY ActiveIsLive DEF ScopeInv, HeapInv
<1>3. Bettered(heap, h) /\ Reread(heap, h)
  BY <1>2, QualifiedBetters DEF Bettered
<1>4. Good(h) /\ Current \in Live(h) /\ Room(h, Len(Chain(h, Current)))
  BY <1>1, <1>3, DeclaringThere
<1> HIDE DEF h
<1>5. Directs(h, Current, r)
  BY <1>4, EntitiesDirect
<1> HIDE DEF r
<1>6. ScopeInv'
  BY UsingDeclarationStep
<1> QED BY <1>1, <1>3, <1>5, <1>6, ProcessedSees

LEMMA TypeAliasSees ==
  ASSUME ScopeInv, LookupInv, NEW name, NEW type, TypeAlias(name, type)
  PROVE  LookupInv'
<1> DEFINE lookup == Resolve(heap, Current, type)
           h == lookup.heap
<1>1. PICK entity : /\ Declaring /\ phase = "declare" /\ declared' = declared /\ spaces' = spaces
                    /\ Processed(InjectAlias(h, Current, name, entity))
  BY DEF TypeAlias, Declaring
<1> DEFINE r == InjectAlias(h, Current, name, entity)
<1>2. Good(heap) /\ Current \in Live(heap)
  BY ActiveIsLive DEF ScopeInv, HeapInv
<1>3. Bettered(heap, h) /\ Reread(heap, h)
  BY <1>2, ResolveBetters DEF Bettered
<1>4. Good(h) /\ Current \in Live(h) /\ Room(h, Len(Chain(h, Current)))
  BY <1>1, <1>3, DeclaringThere
<1> HIDE DEF h
<1>5. Directs(h, Current, r) /\ Processed(r)
  BY <1>1, <1>4, AliasDirects
<1> HIDE DEF r
<1>6. ScopeInv'
  BY TypeAliasStep
<1> QED BY <1>1, <1>3, <1>5, <1>6, ProcessedSees

LEMMA NamespaceAliasSees ==
  ASSUME ScopeInv, LookupInv, NEW name, NEW space, NamespaceAlias(name, space)
  PROVE  LookupInv'
<1> DEFINE r == InjectSpaceAlias(heap, Current, name, space)
<1>1. /\ Declaring /\ phase = "declare" /\ declared' = declared /\ spaces' = spaces /\ Processed(r)
      /\ \E i \in ToSet(Chain(heap, Current)) : HasNested(heap[i], space)
  BY DEF NamespaceAlias, Declaring
<1>2. Bettered(heap, heap) /\ Reread(heap, heap)
  BY BetteredSelf, RereadSelf DEF ScopeInv, HeapInv
<1>3. Good(heap) /\ Current \in Live(heap) /\ Room(heap, Len(Chain(heap, Current)))
  BY <1>1, <1>2, DeclaringThere
<1>4. Directs(heap, Current, r)
  BY <1>1, <1>3, SpaceAliasDirects
<1> HIDE DEF r
<1>5. ScopeInv'
  BY NamespaceAliasStep
<1> QED BY <1>1, <1>2, <1>4, <1>5, ProcessedSees

LEMMA ImportSees ==
  ASSUME ScopeInv, LookupInv, NEW module, Import(module)
  PROVE  LookupInv'
<1> DEFINE r == Merge(heap, Current, module)
<1>1. Declaring /\ phase = "declare" /\ declared' = declared /\ spaces' = spaces /\ Processed(r)
  BY DEF Import, Declaring
<1>2. Bettered(heap, heap) /\ Reread(heap, heap)
  BY BetteredSelf, RereadSelf DEF ScopeInv, HeapInv
<1>3. Good(heap) /\ Current \in Live(heap) /\ Room(heap, Len(Chain(heap, Current)))
  BY <1>1, <1>2, DeclaringThere
<1>4. Directs(heap, Current, r)
  BY <1>3, MergeDirects
<1> HIDE DEF r
<1>5. ScopeInv'
  BY ImportStep
<1> QED BY <1>1, <1>2, <1>4, <1>5, ProcessedSees

LEMMA AccessSpecifierSees ==
  ASSUME ScopeInv, LookupInv, AccessSpecifier
  PROVE  LookupInv'
<1> DEFINE r == Cloned(heap, Current)
           f == Append(Front(frames), r.id)
<1>1. /\ Declaring /\ phase = "declare" /\ declared' = declared /\ spaces' = spaces
      /\ Becomes(r.heap, f, tasks, incomplete, body)
  BY DEF AccessSpecifier, Declaring
<1>2. Bettered(heap, heap) /\ Reread(heap, heap)
  BY BetteredSelf, RereadSelf DEF ScopeInv, HeapInv
<1>3. Good(heap) /\ Current \in Live(heap) /\ Room(heap, Len(Chain(heap, Current)))
  BY <1>1, <1>2, DeclaringThere
<1>4. Directs(heap, Current, r)
  BY <1>3, CloneDirects
<1>5. f = frames \/ f = Append(Front(frames), r.id)
  OBVIOUS
<1> HIDE DEF r, f
<1>6. ScopeInv'
  BY AccessSpecifierStep
<1> QED BY <1>1, <1>2, <1>4, <1>5, <1>6, DirectiveSees

LEMMA CloseSees ==
  ASSUME ScopeInv, LookupInv, Close
  PROVE  LookupInv'
<1> DEFINE f == Front(frames)
<1>1. /\ phase = "declare" /\ Becomes(heap, f, tasks, incomplete, body) /\ Len(frames) > 1
      /\ declared' = declared /\ spaces' = spaces
  BY DEF Close
<1>2. Good(heap) /\ Bettered(heap, heap) /\ Grows(heap, heap) /\ AllSound(declared, heap) /\ body = None
  BY <1>1, BetteredSelf, GrowsSelf, NoBody DEF ScopeInv, HeapInv, LookupInv, CacheInv, AllSound
<1>3. ScopeInv'
  BY CloseStep
<1>4. CacheInv' /\ WaitingInv'
  BY <1>1, <1>2, <1>3, QueuesSee
<1>5. BodyInv'
  BY <1>1, <1>2 DEF BodyInv, Becomes
<1>6. f \in Seq(Ids) /\ Len(f) = Len(frames) - 1 /\ \A n \in 1 .. Len(frames) - 1 : f[n] = frames[n]
  BY FrameFacts, FramesReplaced
<1>7. \A k \in 1 .. Len(f) : Stacked(declared, heap, f[k], k)
  BY <1>1, <1>2, <1>6, OuterStacked
<1>8. DepthInv'
  BY <1>1, <1>2, <1>3, <1>6, <1>7, DepthStep DEF LookupInv, DepthInv
<1> QED BY <1>4, <1>5, <1>8 DEF LookupInv

-----------------------------------------------------------------------------
(* Declarations. *)

\* The current declaration is nested in all the others that are open.
LEMMA HereNested ==
  ASSUME ScopeInv, LookupInv, phase = "declare"
  PROVE  /\ body = None /\ Good(heap) /\ Current \in Live(heap) /\ Len(frames) \in Nat /\ Len(frames) > 0
         /\ Current = frames[Len(frames)] /\ Stacked(declared, heap, Current, Len(frames))
         /\ Here \in Seq(ToSet(Here)) /\ Len(Here) = Len(frames) /\ Here[1] = Script[1]
         /\ AllSound(declared, heap) /\ Bettered(heap, heap)
         /\ \A k \in 1 .. Len(frames) : frames[k] \in Live(heap) /\ Stacked(declared, heap, frames[k], k)
<1>1. /\ body = None /\ Good(heap) /\ Current \in Live(heap) /\ Len(frames) \in Nat /\ Len(frames) > 0
      /\ Current = frames[Len(frames)] /\ \A k \in 1 .. Len(frames) : frames[k] \in Live(heap)
  BY NoBody, ActiveIsLive, FrameFacts
<1>2. Stacked(declared, heap, Current, Len(frames)) /\ \A k \in 1 .. Len(frames) : Stacked(declared, heap, frames[k], k)
  BY <1>1 DEF LookupInv, DepthInv
<1>3. Chain(heap, Current)[1] = Current
  BY <1>1, GoodNode DEF HasChain
<1> DEFINE L == Len(frames)
<1>4. 1 \in 1 .. L /\ L - 1 + 1 = L
  BY <1>1
<1>5. IsDepth(heap[Current], L)
  BY <1>2, <1>3, <1>4 DEF Stacked
<1>6. AllSound(declared, heap) /\ Bettered(heap, heap)
  BY <1>1, BetteredSelf DEF LookupInv, CacheInv, AllSound
<1> QED BY <1>1, <1>2, <1>5, <1>6 DEF IsDepth, Here

\* The scopes that are open stay complete when the current one has no cache of what
\* is declared in it: no other one has its name.
LEMMA DeclaredStacked ==
  ASSUME ScopeInv, LookupInv, phase = "declare", NEW e, e.in = Here, NEW g, Good(g), Current \in Live(g),
         g[Current].cached[e.kind] = {}, NEW k \in 1 .. Len(frames), Stacked(declared, g, frames[k], k)
  PROVE  Stacked(declared \cup {e}, g, frames[k], k)
<1> DEFINE L == Len(frames)
           new == {e}
<1>1. L \in Nat /\ Current = frames[L] /\ Len(Here) = L /\ Here[1] = Script[1]
  BY HereNested
<1>2. Chain(g, Current)[1] = Current
  BY GoodNode DEF HasChain
<1> HIDE DEF L
<1>3. ASSUME NEW m \in 1 .. k PROVE Complete(declared \cup new, g[Chain(g, frames[k])[m]])
  <2> DEFINE n == g[Chain(g, frames[k])[m]]
  <2> SUFFICES Complete(declared \cup new, n)
    OBVIOUS
  <2>1. IsDepth(n, k - m + 1) /\ Complete(declared, n)
    BY DEF Stacked
  <2> HIDE DEF n
  <2>2. CASE k = L /\ m = 1
    <3>1. n = g[Current]
      BY <1>1, <1>2, <2>2 DEF n
    <3>2. \A x \in new : (x.in # n.of /\ x.in[1] = Script[1]) \/ n.cached[x.kind] = {}
      BY <3>1
    <3> HIDE DEF new
    <3> QED BY <2>1, <3>2, MoreComplete
  <2>3. CASE ~(k = L /\ m = 1)
    <3>1. k - m + 1 # L
      BY <1>1, <2>3 DEF L
    <3>2. e.in # n.of
      BY <1>1, <2>1, <3>1 DEF IsDepth
    <3>3. \A x \in new : (x.in # n.of /\ x.in[1] = Script[1]) \/ n.cached[x.kind] = {}
      BY <1>1, <3>2
    <3> HIDE DEF new
    <3> QED BY <2>1, <3>3, MoreComplete
  <2> QED BY <2>2, <2>3
<1> QED BY <1>3 DEF Stacked

\* Every name that is declared in the scopes around a declaration is found in it.
LEMMA NamesSeen ==
  ASSUME ScopeInv, LookupInv, phase = "declare", NEW x \in NamesInScope(heap, Current)
  PROVE  Sees(declared, spaces, heap, Current, 1, x)
<1>1. PICK i \in ToSet(Chain(heap, Current)), e \in declared \cup Given :
        e.name = x /\ e.in \in {heap[i].of} \cup Fixed(heap[i])
  BY DEF NamesInScope, Fixed
<1>2. Good(heap) /\ Current \in Live(heap) /\ Stacked(declared, heap, Current, Len(frames))
  BY HereNested
<1>3. PICK m \in 1 .. Len(Chain(heap, Current)) : Chain(heap, Current)[m] = i
  BY <1>2, ChainMembers
<1> DEFINE n == heap[i]
<1>4. IsDepth(n, Len(frames) - m + 1) /\ Complete(declared, n)
  BY <1>2, <1>3 DEF Stacked
<1>5. IsNode(n)
  BY <1>2, <1>3, ChainElement, GoodNode
<1>6. e.kind \in Kinds
  BY <1>1, ScopesAssumption DEF LookupInv, DepthInv, Kinds
<1> HIDE DEF n
<1>7. e \in ListedIn(declared, n, e.kind)
  <2>1. e \in OwnIn(declared, e.in, e.kind) /\ (e.in = n.of \/ e.in \in Fixed(n))
    BY <1>1 DEF OwnIn, n
  <2>2. CASE n.imports = <<>>
    <3>1. ToSet(n.imports) = {}
      BY <1>5, <2>2, SomeImport
    <3> QED BY <1>4, <2>1, <2>2, <3>1 DEF ListedIn, Fixed, IsDepth
  <2>3. CASE n.imports # <<>> /\ n.cached[e.kind] = {}
    BY <1>4, <2>1, <2>3 DEF ListedIn, ContentsIn, Fixed, IsDepth
  <2>4. CASE n.imports # <<>> /\ n.cached[e.kind] # {}
    <3>1. OwnIn(declared, e.in, e.kind) \subseteq n.cached[e.kind]
      BY <1>4, <1>6, <2>1, <2>4 DEF Complete
    <3> QED BY <1>4, <2>1, <2>4, <3>1 DEF ListedIn, IsDepth
  <2> QED BY <2>2, <2>3, <2>4
<1>8. FoundIn(declared, spaces, n, x)
  BY <1>1, <1>6, <1>7 DEF FoundIn
<1> QED BY <1>3, <1>8 DEF Sees, n

LEMMA InvalidatedHere ==
  ASSUME ScopeInv, LookupInv, phase = "declare", NEW h, Bettered(heap, h), NEW kind \in Kinds
  PROVE  LET g == Invalidated(h, Current, kind)
         IN Bettered(heap, g) /\ g[Current].cached[kind] = {}
<1>1. Good(heap) /\ Current \in Live(heap) /\ AllSound(declared, heap)
  BY HereNested
<1>2. Good(h) /\ Live(h) = Live(heap) /\ AllSound(declared, h)
  BY <1>1, BetteredSound
<1>3. \A k \in Kinds : ~IsSpace(h[Current]) => h[Current].cached[k] = {}
  BY <1>1, <1>2 DEF AllSound, Sound
<1>4. Bettered(h, Invalidated(h, Current, kind)) /\ Invalidated(h, Current, kind)[Current].cached[kind] = {}
  BY <1>1, <1>2, <1>3, InvalidatedBetters
<1> QED BY <1>1, <1>4, BetteredTrans

\* The open scopes when their caches change at most.
LEMMA BetteredStacked ==
  ASSUME ScopeInv, LookupInv, phase = "declare", NEW h, Bettered(heap, h)
  PROVE  /\ Good(h) /\ Live(h) = Live(heap) /\ AllSound(declared, h) /\ Grows(h, h)
         /\ \A k \in 1 .. Len(frames) : Stacked(declared, h, frames[k], k)
         /\ Continues(declared, heap, Current, h, Current)
<1>1. Good(heap) /\ Current \in Live(heap) /\ AllSound(declared, heap)
      /\ \A k \in 1 .. Len(frames) : frames[k] \in Live(heap) /\ Stacked(declared, heap, frames[k], k)
  BY HereNested
<1>2. Good(h) /\ Live(h) = Live(heap) /\ AllSound(declared, h) /\ Grows(h, h)
  BY <1>1, BetteredSound, GrowsSelf
<1>3. \A id \in Live(heap) : Continues(declared, heap, id, h, id)
  BY <1>1, UntouchedContinues
<1>4. ASSUME NEW k \in 1 .. Len(frames) PROVE Stacked(declared, h, frames[k], k)
  BY <1>1, <1>3, ContinuesStacked
<1> QED BY <1>1, <1>2, <1>3, <1>4

LEMMA DeclareClassSees ==
  ASSUME ScopeInv, LookupInv, NEW name, DeclareClass(name)
  PROVE  LookupInv'
<1> DEFINE g == Invalidated(heap, Current, "class")
           e == Entity(Here, "class", name)
<1>1. /\ phase = "declare" /\ Becomes(g, frames, tasks, incomplete, body)
      /\ declared' = declared \cup {e} /\ spaces' = spaces
  BY DEF DeclareClass, Declaring
<1>2. ScopeInv'
  BY DeclareClassStep
<1>3. body = None /\ Bettered(heap, heap) /\ Current \in Live(heap) /\ frames \in Seq(Ids)
  BY <1>1, HereNested, FrameFacts
<1>4. e.kind = "class" /\ e.in = Here /\ "class" \in Kinds
  BY DEF Entity, Kinds
<1>5. Bettered(heap, g) /\ g[Current].cached[e.kind] = {}
  BY <1>1, <1>3, <1>4, InvalidatedHere
<1> HIDE DEF g, e
<1>6. Good(g) /\ Live(g) = Live(heap) /\ AllSound(declared, g) /\ Grows(g, g)
      /\ \A k \in 1 .. Len(frames) : Stacked(declared, g, frames[k], k)
  BY <1>1, <1>5, BetteredStacked
<1>7. \A k \in 1 .. Len(frames) : Stacked(declared', g, frames[k], k)
  BY <1>1, <1>3, <1>4, <1>5, <1>6, DeclaredStacked
<1>8. CacheInv' /\ WaitingInv'
  BY <1>1, <1>2, <1>5, <1>6, QueuesSee
<1>9. BodyInv'
  BY <1>1, <1>3 DEF BodyInv, Becomes
<1>10. \A x \in declared' : x.kind \in Kinds
  BY <1>1, <1>4 DEF LookupInv, DepthInv
<1>11. DepthInv'
  BY <1>1, <1>2, <1>3, <1>6, <1>7, <1>10, DepthStep
<1> QED BY <1>8, <1>9, <1>11 DEF LookupInv

\* A declaration that opens a scope of its own.
LEMMA OpenSees ==
  ASSUME ScopeInv, LookupInv, ScopeInv', phase = "declare", HasRoom(Current),
         declared \subseteq declared', spaces \subseteq spaces', \A x \in declared' : x.kind \in Kinds,
         NEW h, Bettered(heap, h), \A k \in 1 .. Len(frames) : Stacked(declared', h, frames[k], k),
         NEW node, IsNode(node), node.kind # "FunctionScope", node.cached = Empty, NEW name, node.of = Append(Here, name),
         Becomes(Placed(h, node, Current).heap, Append(frames, Placed(h, node, Current).id), tasks, incomplete, body)
  PROVE  LookupInv'
<1> DEFINE id == NewId(h, 1)
           g == WithNode(h, id, node, Current)
           f == Append(frames, id)
           L == Len(frames)
<1>1. /\ body = None /\ Good(heap) /\ Current \in Live(heap) /\ L \in Nat /\ L > 0 /\ Current = frames[L]
      /\ Here \in Seq(ToSet(Here)) /\ Len(Here) = L /\ Here[1] = Script[1]
      /\ \A k \in 1 .. L : frames[k] \in Live(heap)
  BY HereNested
<1>2. Good(h) /\ Live(h) = Live(heap) /\ AllSound(declared, h) /\ Reread(heap, h)
  BY BetteredStacked DEF Bettered
<1>3. Room(h, Len(Chain(h, Current))) /\ Len(Chain(h, Current)) \in Nat \ {0}
  BY <1>1, <1>2, HasRoomThere
<1>4. id \in Ids /\ h[id] = None
  BY <1>3, NewIdIsFree
<1>5. Becomes(g, f, tasks, incomplete, body)
  BY DEF Placed
<1> DEFINE m == [node EXCEPT !.chain = <<id>> \o Chain(h, Current)]
<1>6. /\ OneMore(h, g, id) /\ Chain(g, id) = <<id>> \o Chain(h, Current)
      /\ m.kind = node.kind /\ m.of = node.of /\ m.cached = Empty /\ m.imports = node.imports
  <2>1. Current \in Live(h)
    BY <1>1, <1>2
  <2>2. OneMore(h, g, id) /\ Chain(g, id) = <<id>> \o Chain(h, Current)
    BY <1>2, <1>4, <2>1, WithNodeGood, Zenon
  <2>3. DOMAIN node = {"kind", "of", "chain", "imports", "spaceAliases", "aliases", "injected", "cached"}
    BY NodeFields
  <2>4. m.kind = node.kind /\ m.of = node.of /\ m.cached = node.cached /\ m.imports = node.imports
    BY <2>3
  <2> QED BY <2>2, <2>4
<1>7. g[id] = m
  BY <1>2, <1>4 DEF WithNode, Good
<1> HIDE DEF id, g, m
<1>8. /\ Good(g) /\ Live(g) = Live(h) \cup {id} /\ \A i \in Live(h) : g[i] = h[i]
      /\ id \in Live(g) /\ Live(h) \subseteq Live(g) /\ Live(g) \subseteq Ids
  BY <1>6 DEF OneMore, Live
<1>9. Grows(h, g)
  BY <1>8 DEF Grows
<1>10. AllSound(declared, g)
  <2>1. Sound(declared, g[id])
    BY <1>6, <1>7 DEF Sound, Empty
  <2>2. \A i \in Live(h) : Sound(declared, g[i])
    BY <1>2, <1>8 DEF AllSound
  <2> QED BY <1>8, <2>1, <2>2 DEF AllSound
<1>11. CacheInv' /\ WaitingInv'
  BY <1>5, <1>9, <1>10, QueuesSee
<1>12. BodyInv'
  BY <1>1, <1>5 DEF BodyInv, Becomes
<1>13. frames \in Seq(Ids)
  BY FrameFacts
<1>14. f \in Seq(Ids) /\ Len(f) = L + 1 /\ f[L + 1] = id /\ \A k \in 1 .. L : f[k] = frames[k]
  BY <1>1, <1>4, <1>13
<1>15. ASSUME NEW k \in 1 .. L PROVE Stacked(declared', g, frames[k], k)
  <2>1. frames[k] \in Live(h) /\ Stacked(declared', h, frames[k], k) /\ k \in Nat
    BY <1>1, <1>2
  <2>2. \A j \in ToSet(Chain(h, frames[k])) : g[j] = h[j]
    BY <1>2, <1>8, <2>1, ChainMembers
  <2> QED BY <1>2, <2>1, <2>2, SameStacked
<1>16. Stacked(declared', g, id, L + 1)
  <2> DEFINE c == Chain(h, Current)
  <2>1. c \in Seq(Live(h)) /\ Len(c) = L /\ Stacked(declared', h, Current, L)
        /\ \A o \in 1 .. L : g[c[o]] = h[c[o]]
    <3>1. Stacked(declared', h, Current, L) /\ Current \in Live(h)
      BY <1>1, <1>2
    <3>2. c \in Seq(Live(h)) /\ Len(c) = L
      BY <1>2, <3>1, GoodNode DEF HasChain, Stacked
    <3>3. \A o \in 1 .. L : c[o] \in Live(h)
      BY <3>2
    <3> QED BY <1>8, <3>1, <3>2, <3>3
  <2>2. Chain(g, id) = <<id>> \o c
    BY <1>6
  <2>3. ASSUME NEW o \in 1 .. L PROVE IsDepth(g[c[o]], L - o + 1) /\ Complete(declared', g[c[o]])
    BY <2>1 DEF Stacked
  <2> HIDE DEF c
  <2>4. Len(Chain(g, id)) = L + 1 /\ Chain(g, id)[1] = id /\ \A o \in 1 .. L + 1 : o # 1 => o - 1 \in 1 .. L /\ Chain(g, id)[o] = c[o - 1]
    BY <1>1, <2>1, <2>2
  <2>5. IsDepth(g[id], L + 1)
    <3>1. node.of \in Seq(ToSet(node.of)) /\ Len(node.of) = L + 1 /\ node.of[1] = Script[1]
      <4>1. /\ Append(Here, name) \in Seq(ToSet(Append(Here, name))) /\ Len(Append(Here, name)) = L + 1
            /\ Append(Here, name)[1] = Here[1]
        <5> DEFINE s == Here
        <5>1. s \in Seq(ToSet(s)) /\ Len(s) = L /\ L \in Nat /\ L > 0
          BY <1>1
        <5> HIDE DEF s, L
        <5>2. Append(s, name) \in Seq(ToSet(Append(s, name))) /\ DOMAIN s = 1 .. Len(s)
              /\ \A n \in DOMAIN s : Append(s, name)[n] = s[n]
          BY <5>1, Appended
        <5>3. Len(Append(s, name)) = L + 1 /\ 1 \in DOMAIN s
          BY <5>1
        <5> QED BY <5>2, <5>3 DEF s
      <4> QED BY <1>1, <4>1
    <3> QED BY <1>6, <1>7, <3>1 DEF IsDepth
  <2>6. Complete(declared', g[id])
    BY <1>6, <1>7 DEF Complete, Empty
  <2>7. ASSUME NEW o \in 1 .. L + 1
        PROVE  IsDepth(g[Chain(g, id)[o]], (L + 1) - o + 1) /\ Complete(declared', g[Chain(g, id)[o]])
    <3>1. CASE o = 1
      BY <1>1, <2>4, <2>5, <2>6, <3>1
    <3>2. CASE o # 1
      <4>1. o - 1 \in 1 .. L /\ Chain(g, id)[o] = c[o - 1] /\ L - (o - 1) + 1 = (L + 1) - o + 1
        BY <1>1, <2>4, <3>2
      <4> QED BY <2>3, <4>1
    <3> QED BY <3>1, <3>2
  <2> QED BY <2>4, <2>7 DEF Stacked
<1>17. \A k \in 1 .. Len(f) : Stacked(declared', g, f[k], k)
  <2> SUFFICES ASSUME NEW k \in 1 .. Len(f) PROVE Stacked(declared', g, f[k], k)
    OBVIOUS
  <2>1. k \in 1 .. L \/ k = L + 1
    BY <1>1, <1>14
  <2> QED BY <1>14, <1>15, <1>16, <2>1
<1>18. DepthInv'
  BY <1>5, <1>8, <1>14, <1>17, DepthStep
<1> QED BY <1>11, <1>12, <1>18 DEF LookupInv

LEMMA OpenClassSees ==
  ASSUME ScopeInv, LookupInv, NEW name, OpenClass(name)
  PROVE  LookupInv'
<1> DEFINE h == Invalidated(heap, Current, "class")
           node == Node("ClassScope", Append(Here, name))
           e == Entity(Here, "class", name)
<1>1. /\ phase = "declare" /\ HasRoom(Current) /\ declared' = declared \cup {e} /\ spaces' = spaces
      /\ Becomes(Placed(h, node, Current).heap, Append(frames, Placed(h, node, Current).id), tasks, incomplete, body)
  BY DEF OpenClass, Declaring
<1>2. ScopeInv'
  BY OpenClassStep
<1>3. Bettered(heap, heap) /\ Current \in Live(heap)
  BY <1>1, HereNested
<1>4. e.kind = "class" /\ e.in = Here /\ "class" \in Kinds
  BY DEF Entity, Kinds
<1>5. Bettered(heap, h) /\ h[Current].cached[e.kind] = {}
  BY <1>1, <1>3, <1>4, InvalidatedHere
<1>6. IsNode(node) /\ node.kind # "FunctionScope" /\ node.cached = Empty /\ node.of = Append(Here, name)
  BY NodeNew DEF NodeKinds
<1> HIDE DEF h, node, e
<1>7. Good(h) /\ Live(h) = Live(heap) /\ \A k \in 1 .. Len(frames) : Stacked(declared, h, frames[k], k)
  BY <1>1, <1>5, BetteredStacked
<1>8. \A k \in 1 .. Len(frames) : Stacked(declared', h, frames[k], k)
  BY <1>1, <1>3, <1>4, <1>5, <1>7, DeclaredStacked
<1>9. \A x \in declared' : x.kind \in Kinds
  BY <1>1, <1>4 DEF LookupInv, DepthInv
<1> QED BY <1>1, <1>2, <1>5, <1>6, <1>8, <1>9, OpenSees

LEMMA OpenNamespaceSees ==
  ASSUME ScopeInv, LookupInv, NEW name, OpenNamespace(name)
  PROVE  LookupInv'
<1> DEFINE n == heap[Current]
           paths == Nested(n, name, spaces')
           new == Node("NamespaceScope", Append(Here, name))
           node == [new EXCEPT !.imports = Tail(paths)]
           h == [heap EXCEPT ![Current] = Read(@, "class")]
<1>1. /\ phase = "declare" /\ HasRoom(Current) /\ declared' = declared /\ spaces \subseteq spaces'
      /\ Becomes(Placed(h, node, Current).heap, Append(frames, Placed(h, node, Current).id), tasks, incomplete, body)
  BY DEF OpenNamespace, Declaring
<1>2. ScopeInv'
  BY OpenNamespaceStep
<1>3. Good(heap) /\ Current \in Live(heap) /\ IsNode(n)
  BY <1>1, HereNested, GoodNode
<1>4. Bettered(heap, h)
  <2>1. h = [i \in Ids |-> IF i = Current THEN Read(heap[i], "class") ELSE heap[i]]
    BY <1>3 DEF Good, Live
  <2> HIDE DEF h
  <2>2. ASSUME NEW i \in Ids PROVE IF heap[i] = None THEN h[i] = None ELSE Same(heap[i], h[i])
    <3>1. CASE heap[i] = None
      BY <1>3, <2>1, <3>1 DEF Live
    <3>2. CASE heap[i] # None
      <4>1. IsNode(heap[i]) /\ Same(heap[i], Read(heap[i], "class")) /\ Same(heap[i], heap[i])
        BY <1>3, <3>2, GoodNode, ReadSame DEF Live, Same, Kinds
      <4> QED BY <2>1, <3>2, <4>1
    <3> QED BY <3>1, <3>2
  <2>3. \A i \in Live(heap) : Better(declared, heap[i], h[i])
    <3> SUFFICES ASSUME NEW i \in Live(heap) PROVE Better(declared, heap[i], h[i])
      OBVIOUS
    <3>1. IsNode(heap[i]) /\ i \in Ids
      BY <1>3, GoodNode DEF Live
    <3>2. Better(declared, heap[i], heap[i]) /\ Better(declared, heap[i], Read(heap[i], "class"))
      BY <3>1, BetterSelf, ReadBetter DEF Kinds
    <3> QED BY <2>1, <3>1, <3>2
  <2>4. Reread(heap, h)
    BY <2>1, <2>2 DEF Reread
  <2> QED BY <2>3, <2>4 DEF Bettered
<1>5. IsNode(node)
  <2> DEFINE H == Holders(n, name, spaces')
  <2>1. 1 \in H
    <3>1. Append(Here, name) \in spaces'
      BY DEF OpenNamespace
    <3> QED BY <1>3, <3>1, OuterSequence DEF Holders, Here
  <2>2. \A x : /\ IsFiniteSet(Holders(n, name, x)) /\ Cardinality(Holders(n, name, x)) \in Nat
               /\ Nested(n, name, x) \in Seq(ToSet(Nested(n, name, x)))
               /\ Len(Nested(n, name, x)) = Cardinality(Holders(n, name, x))
    BY <1>3, HoldersCounted, NestedIsSequence
  <2>3. IsFiniteSet(H) /\ paths \in Seq(ToSet(paths)) /\ Len(paths) = Cardinality(H) /\ Cardinality(H) \in Nat
    BY <2>2
  <2> HIDE DEF H, paths
  <2>4. Len(paths) > 0
    BY <2>1, <2>3, CountedNone
  <2>5. Tail(paths) \in Seq(ToSet(Tail(paths)))
    BY <2>3, <2>4, TailSequence
  <2> QED BY <2>5, SpaceNode
<1>6. node.kind # "FunctionScope" /\ node.cached = Empty /\ node.of = Append(Here, name)
  BY DEF Node
<1> HIDE DEF h, node
<1>7. \A k \in 1 .. Len(frames) : Stacked(declared', h, frames[k], k)
  BY <1>1, <1>4, BetteredStacked
<1>8. \A x \in declared' : x.kind \in Kinds
  BY <1>1 DEF LookupInv, DepthInv
<1> QED BY <1>1, <1>2, <1>4, <1>5, <1>6, <1>7, <1>8, OpenSees

\* What waits when something has been added to a queue, or taken from it.
LEMMA WaitingMore ==
  ASSUME NEW t, t \in Seq(ToSet(t)), NEW i, i \in Seq(ToSet(i)), NEW x
  PROVE  /\ \A w \in Waiting(Append(t, x), i) : w \in Waiting(t, i) \/ w = <<x.scope, x.seen>>
         /\ \A w \in Waiting(t, Append(i, x)) : w \in Waiting(t, i) \/ w = <<x.scope, x.seen>>
<1>1. ASSUME NEW s, s \in Seq(ToSet(s)), NEW n \in DOMAIN Append(s, x)
      PROVE  (n \in DOMAIN s /\ Append(s, x)[n] = s[n]) \/ Append(s, x)[n] = x
  BY <1>1, Appended
<1>2. \A n \in DOMAIN Append(t, x) : (n \in DOMAIN t /\ Append(t, x)[n] = t[n]) \/ Append(t, x)[n] = x
  BY <1>1
<1>3. \A n \in DOMAIN Append(i, x) : (n \in DOMAIN i /\ Append(i, x)[n] = i[n]) \/ Append(i, x)[n] = x
  BY <1>1
<1> DEFINE u == Append(t, x)
           j == Append(i, x)
<1> HIDE DEF u, j
<1>4. ASSUME NEW w \in Waiting(u, i) PROVE w \in Waiting(t, i) \/ w = <<x.scope, x.seen>>
  BY <1>2 DEF Waiting, u
<1>5. ASSUME NEW w \in Waiting(t, j) PROVE w \in Waiting(t, i) \/ w = <<x.scope, x.seen>>
  BY <1>3 DEF Waiting, j
<1> QED BY <1>4, <1>5 DEF u, j

LEMMA WaitingLess ==
  ASSUME NEW t, t \in Seq(ToSet(t)), NEW i, i \in Seq(ToSet(i))
  PROVE  /\ t # <<>> => /\ \A w \in Waiting(Tail(t), i) : w \in Waiting(t, i)
                        /\ <<Head(t).scope, Head(t).seen>> \in Waiting(t, i)
         /\ i # <<>> => /\ \A w \in Waiting(t, Tail(i)) : w \in Waiting(t, i)
                        /\ <<Head(i).scope, Head(i).seen>> \in Waiting(t, i)
<1>1. ASSUME NEW s, s \in Seq(ToSet(s)), s # <<>>
      PROVE  Head(s) = s[1] /\ 1 \in DOMAIN s /\ \A n \in DOMAIN Tail(s) : n + 1 \in DOMAIN s /\ Tail(s)[n] = s[n + 1]
  BY <1>1, Taken
<1>2. ASSUME t # <<>>
      PROVE  /\ \A w \in Waiting(Tail(t), i) : w \in Waiting(t, i)
             /\ <<Head(t).scope, Head(t).seen>> \in Waiting(t, i)
  <2> DEFINE u == Tail(t)
  <2>1. Head(t) = t[1] /\ 1 \in DOMAIN t /\ \A n \in DOMAIN u : n + 1 \in DOMAIN t /\ u[n] = t[n + 1]
    BY <1>1, <1>2
  <2> HIDE DEF u
  <2>2. \A w \in Waiting(u, i) : w \in Waiting(t, i)
    BY <2>1 DEF Waiting
  <2>3. <<t[1].scope, t[1].seen>> \in Waiting(t, i)
    BY <2>1 DEF Waiting
  <2> QED BY <2>1, <2>2, <2>3 DEF u
<1>3. ASSUME i # <<>>
      PROVE  /\ \A w \in Waiting(t, Tail(i)) : w \in Waiting(t, i)
             /\ <<Head(i).scope, Head(i).seen>> \in Waiting(t, i)
  <2> DEFINE u == Tail(i)
  <2>1. Head(i) = i[1] /\ 1 \in DOMAIN i /\ \A n \in DOMAIN u : n + 1 \in DOMAIN i /\ u[n] = i[n + 1]
    BY <1>1, <1>3
  <2> HIDE DEF u
  <2>2. \A w \in Waiting(t, u) : w \in Waiting(t, i)
    BY <2>1 DEF Waiting
  <2>3. <<i[1].scope, i[1].seen>> \in Waiting(t, i)
    BY <2>1 DEF Waiting
  <2> QED BY <2>1, <2>2, <2>3 DEF u
<1> QED BY <1>2, <1>3

\* The names that a function has seen where it was declared.
LEMMA NamesSeenAfter ==
  ASSUME ScopeInv, LookupInv, phase = "declare", NEW h, Bettered(heap, h), NEW x \in NamesInScope(heap, Current)
  PROVE  Sees(declared, spaces, h, Current, 1, x)
<1>1. Good(heap) /\ Current \in Live(heap) /\ AllSound(declared, heap)
  BY HereNested
<1>2. Continues(declared, heap, Current, h, Current)
  BY BetteredStacked
<1>3. Sees(declared, spaces, heap, Current, 1, x)
  BY NamesSeen
<1> QED BY <1>1, <1>2, <1>3, ContinuesSees

LEMMA DeclareFunctionSees ==
  ASSUME ScopeInv, LookupInv, NEW name, NEW type, DeclareFunction(name, type)
  PROVE  LookupInv'
<1> DEFINE function == Entity(Here, "function", name)
           lookup == Resolve(heap, Current, type)
           h == lookup.heap
           seen == NamesInScope(heap, Current)
           task == [function |-> function, scope |-> Current, seen |-> seen]
           later == [function |-> function, scope |-> Current, seen |-> seen, type |-> type]
           g == Invalidated(h, Current, "function")
<1>1. phase = "declare" /\ spaces' = spaces
  BY DEF DeclareFunction, Declaring
<1>2. ScopeInv'
  BY DeclareFunctionStep
<1>3. Good(heap) /\ Current \in Live(heap) /\ body = None
  BY <1>1, HereNested
<1>4. function.kind = "function" /\ function.in = Here /\ "function" \in Kinds
  BY DEF Entity, Kinds
<1>5. Bettered(heap, h)
  BY <1>3, ResolveBetters
<1>6. frames \in Seq(Ids) /\ tasks \in Seq(ToSet(tasks)) /\ incomplete \in Seq(ToSet(incomplete))
  BY DEF ScopeInv, QueueInv
<1>7. CASE lookup.result.types # {}
  <2>1. declared' = declared \cup {function} /\ Becomes(g, frames, Append(tasks, task), incomplete, body)
    BY <1>4, <1>7 DEF DeclareFunction, Add
  <2>2. task.scope = Current /\ task.seen = seen
    OBVIOUS
  <2> HIDE DEF h, function, task, seen
  <2>3. Bettered(heap, g) /\ g[Current].cached[function.kind] = {}
    BY <1>1, <1>4, <1>5, InvalidatedHere
  <2> HIDE DEF g
  <2>4. /\ Good(g) /\ Live(g) = Live(heap) /\ AllSound(declared, g) /\ Grows(g, g)
        /\ \A k \in 1 .. Len(frames) : Stacked(declared, g, frames[k], k)
    BY <1>1, <2>3, BetteredStacked
  <2>5. \A k \in 1 .. Len(frames) : Stacked(declared', g, frames[k], k)
    BY <1>1, <1>3, <1>4, <2>1, <2>3, <2>4, DeclaredStacked
  <2>6. \A w \in Waiting(Append(tasks, task), incomplete) :
          w \in Waiting(tasks, incomplete) \/ w = <<Current, seen>>
    BY <1>6, <2>2, WaitingMore
  <2>7. \A x \in seen : Sees(declared, spaces, g, Current, 1, x)
    BY <1>1, <2>3, NamesSeenAfter DEF seen
  <2> DEFINE t == Append(tasks, task)
  <2>8. \A w \in Waiting(t, incomplete) : w \in Waiting(tasks, incomplete)
                                          \/ \A x \in w[2] : Sees(declared, spaces, g, w[1], 1, x)
    BY <2>6, <2>7
  <2>9. Becomes(g, frames, t, incomplete, body)
    BY <2>1
  <2> HIDE DEF t
  <2>10. CacheInv' /\ WaitingInv'
    BY <1>1, <1>2, <2>1, <2>3, <2>4, <2>8, <2>9, QueuesSee
  <2>11. BodyInv'
    BY <1>3, <2>9 DEF BodyInv, Becomes
  <2>12. \A x \in declared' : x.kind \in Kinds
    BY <1>4, <2>1 DEF LookupInv, DepthInv
  <2>13. DepthInv'
    BY <1>2, <1>6, <2>4, <2>5, <2>9, <2>12, DepthStep
  <2> QED BY <2>10, <2>11, <2>13 DEF LookupInv
<1>8. CASE lookup.result.types = {}
  <2>1. declared' = declared /\ Becomes(h, frames, tasks, Append(incomplete, later), body)
    BY <1>8 DEF DeclareFunction
  <2>2. later.scope = Current /\ later.seen = seen
    OBVIOUS
  <2> HIDE DEF h, later, function, seen
  <2>3. /\ Good(h) /\ AllSound(declared, h) /\ Grows(h, h)
        /\ \A k \in 1 .. Len(frames) : Stacked(declared, h, frames[k], k)
    BY <1>1, <1>5, BetteredStacked
  <2>4. \A w \in Waiting(tasks, Append(incomplete, later)) :
          w \in Waiting(tasks, incomplete) \/ w = <<Current, seen>>
    BY <1>6, <2>2, WaitingMore
  <2>5. \A x \in seen : Sees(declared, spaces, h, Current, 1, x)
    BY <1>1, <1>5, NamesSeenAfter DEF seen
  <2> DEFINE i == Append(incomplete, later)
  <2>6. \A w \in Waiting(tasks, i) : w \in Waiting(tasks, incomplete)
                                     \/ \A x \in w[2] : Sees(declared, spaces, h, w[1], 1, x)
    BY <2>4, <2>5
  <2>7. Becomes(h, frames, tasks, i, body)
    BY <2>1
  <2> HIDE DEF i
  <2>8. CacheInv' /\ WaitingInv'
    BY <1>1, <1>2, <1>5, <2>1, <2>3, <2>6, <2>7, QueuesSee
  <2>9. BodyInv'
    BY <1>3, <2>7 DEF BodyInv, Becomes
  <2>10. \A x \in declared' : x.kind \in Kinds
    BY <2>1 DEF LookupInv, DepthInv
  <2>11. DepthInv'
    BY <1>2, <1>6, <2>1, <2>3, <2>7, <2>10, DepthStep
  <2> QED BY <2>8, <2>9, <2>11 DEF LookupInv
<1> QED BY <1>7, <1>8

-----------------------------------------------------------------------------
(* The second pass. *)

LEMMA EndOfDeclarationsSees ==
  ASSUME ScopeInv, LookupInv, EndOfDeclarations
  PROVE  LookupInv'
<1>1. /\ phase' # "declare" /\ declared' = declared /\ spaces' = spaces /\ heap' = heap
      /\ tasks' = tasks /\ incomplete' = incomplete /\ body' = body
  BY DEF EndOfDeclarations
<1>2. CacheInv' /\ WaitingInv'
  BY <1>1 DEF LookupInv, CacheInv, WaitingInv
<1>3. BodyInv'
  BY <1>1 DEF LookupInv, BodyInv
<1>4. DepthInv'
  BY <1>1 DEF LookupInv, DepthInv
<1> QED BY <1>2, <1>3, <1>4 DEF LookupInv

LEMMA ReprocessSees ==
  ASSUME ScopeInv, LookupInv, Reprocess
  PROVE  LookupInv'
<1> DEFINE d == Head(incomplete)
           i == Tail(incomplete)
           lookup == Resolve(heap, d.scope, d.type)
           h == lookup.heap
           task == [function |-> d.function, scope |-> d.scope, seen |-> d.seen]
           t == Append(tasks, task)
           g == Invalidated(h, d.scope, d.function.kind)
<1>1. phase = "reprocess" /\ incomplete # <<>> /\ spaces' = spaces
  BY DEF Reprocess, ScopeInv, FunctionInv
<1>2. /\ body = None /\ Good(heap) /\ Handles \subseteq Live(heap) /\ AllSound(declared, heap)
      /\ frames \in Seq(Ids) /\ tasks \in Seq(ToSet(tasks)) /\ incomplete \in Seq(ToSet(incomplete))
  BY <1>1, NoBody DEF ScopeInv, HeapInv, QueueInv, LookupInv, CacheInv, AllSound
<1>3. ScopeInv'
  BY ReprocessStep
<1>4. /\ d = incomplete[1] /\ 1 \in DOMAIN incomplete /\ i \in Seq(ToSet(i))
  BY <1>1, <1>2, Taken
<1>5. /\ \A w \in Waiting(tasks, i) : w \in Waiting(tasks, incomplete)
      /\ <<d.scope, d.seen>> \in Waiting(tasks, incomplete)
  BY <1>1, <1>2, WaitingLess
<1> HIDE DEF d, i
<1>6. d.scope \in Live(heap) /\ d.function.kind = "function" /\ "function" \in Kinds
  BY <1>2, <1>4 DEF Handles, Roots, ScopeInv, FunctionInv, Kinds
<1>7. CASE lookup.result.types # {}
  <2>1. /\ declared' = declared \cup {d.function} /\ Becomes(g, frames, t, i, body)
        /\ phase' # "declare"
    BY <1>1, <1>7 DEF Reprocess, Add, d, i
  <2>2. Bettered(heap, h)
    BY <1>2, <1>6, ResolveBetters
  <2>3. Good(h) /\ Live(h) = Live(heap) /\ AllSound(declared, h)
    BY <1>2, <2>2, BetteredSound
  <2>4. Bettered(h, g)
    BY <1>6, <2>3, InvalidatedBetters
  <2>5. task.scope = d.scope /\ task.seen = d.seen
    OBVIOUS
  <2> HIDE DEF h, g, task
  <2>6. Bettered(heap, g)
    BY <1>2, <2>2, <2>4, BetteredTrans
  <2>7. Good(g) /\ AllSound(declared, g) /\ Grows(g, g)
    BY <1>2, <2>6, BetteredSound, GrowsSelf
  <2>8. \A w \in Waiting(t, i) : w \in Waiting(tasks, incomplete)
    <3>1. \A w \in Waiting(t, i) : w \in Waiting(tasks, i) \/ w = <<d.scope, d.seen>>
      BY <1>2, <1>4, <2>5, WaitingMore
    <3> QED BY <1>5, <3>1
  <2> HIDE DEF t
  <2>9. CacheInv' /\ WaitingInv'
    BY <1>1, <1>3, <2>1, <2>6, <2>7, <2>8, QueuesSee
  <2>10. BodyInv'
    BY <1>2, <2>1 DEF BodyInv, Becomes
  <2>11. DepthInv'
    BY <1>6, <2>1 DEF LookupInv, DepthInv
  <2> QED BY <2>9, <2>10, <2>11 DEF LookupInv
<1>8. CASE lookup.result.types = {}
  <2>1. phase' = "failed" /\ UNCHANGED <<declared, heap, frames, tasks, incomplete, body>>
    BY <1>8 DEF Reprocess, d
  <2>2. CacheInv' /\ WaitingInv'
    BY <1>1, <2>1 DEF LookupInv, CacheInv, WaitingInv
  <2>3. BodyInv' /\ DepthInv'
    BY <1>1, <2>1 DEF LookupInv, BodyInv, DepthInv
  <2> QED BY <2>2, <2>3 DEF LookupInv
<1> QED BY <1>7, <1>8

-----------------------------------------------------------------------------
(* Bodies. *)

\* A node behind which a scope is: what the scope finds is found from there.
LEMMA SeesFurther ==
  ASSUME NEW d, NEW s, NEW h, Good(h), NEW up, up \in Live(h), NEW g, NEW id, Chain(g, id) = <<id>> \o Chain(h, up),
         \A j \in Live(h) : g[j] = h[j], NEW first \in Nat \ {0}, NEW name, Sees(d, s, h, up, first, name)
  PROVE  Sees(d, s, g, id, first + 1, name)
<1> DEFINE c == Chain(h, up)
<1>1. c \in Seq(Live(h)) /\ Len(c) \in Nat
  BY GoodNode DEF HasChain
<1>2. PICK n \in first .. Len(c) : FoundIn(d, s, h[c[n]], name)
  BY DEF Sees
<1>3. n \in 1 .. Len(c) /\ c[n] \in Live(h)
  BY <1>1, <1>2
<1> DEFINE k == <<id>> \o c
<1>4. Chain(g, id) = k /\ Len(k) = Len(c) + 1 /\ k[n + 1] = c[n] /\ n + 1 \in first + 1 .. Len(k)
  BY <1>1, <1>2, <1>3
<1> HIDE DEF c, k
<1>5. FoundIn(d, s, g[k[n + 1]], name)
  BY <1>2, <1>3, <1>4
<1> QED BY <1>4, <1>5 DEF Sees

\* The parent finds what is found behind the first node.
LEMMA ParentSees ==
  ASSUME NEW d, NEW s, NEW h, Good(h), NEW id, id \in Live(h), Len(Chain(h, id)) > 1,
         NEW first \in Nat \ {0}, NEW name, Sees(d, s, h, id, first + 1, name)
  PROVE  Sees(d, s, h, Parent(h[id]), first, name)
<1> DEFINE chain == Chain(h, id)
           L == Len(chain)
           tail == Chain(h, chain[2])
<1>1. HasChain(h, id) /\ L \in Nat /\ L > 1
  BY GoodNode DEF HasChain
<1>2. Parent(h[id]) = chain[2] /\ 2 \in 1 .. L
  BY <1>1 DEF Parent, Chain
<1>3. Len(tail) = L - 2 + 1 /\ \A m \in 1 .. Len(tail) : tail[m] = chain[2 + m - 1]
  BY <1>1, <1>2 DEF HasChain, HasTails
<1>4. PICK n \in first + 1 .. L : FoundIn(d, s, h[chain[n]], name)
  BY DEF Sees
<1> HIDE DEF chain, L, tail
<1>5. n - 1 \in first .. Len(tail) /\ n - 1 \in 1 .. Len(tail) /\ 2 + (n - 1) - 1 = n
  BY <1>1, <1>3, <1>4
<1>6. tail[n - 1] = chain[n]
  BY <1>3, <1>5
<1>7. FoundIn(d, s, h[tail[n - 1]], name)
  BY <1>4, <1>6
<1> QED BY <1>2, <1>5, <1>7 DEF Sees, tail

\* A new node has cached nothing.
LEMMA WithNodeSound ==
  ASSUME NEW d, NEW h, Good(h), AllSound(d, h), NEW id \in Ids, NEW node, IsNode(node), node.cached = Empty, NEW parent,
         NEW g, g = WithNode(h, id, node, parent), OneMore(h, g, id)
  PROVE  AllSound(d, g)
<1> DEFINE m == [node EXCEPT !.chain = <<id>> \o Chain(h, parent)]
<1>1. g[id] = m
  BY DEF WithNode, Good
<1>2. m.cached = Empty
  <2>1. DOMAIN node = {"kind", "of", "chain", "imports", "spaceAliases", "aliases", "injected", "cached"}
    BY NodeFields
  <2> QED BY <2>1
<1> HIDE DEF m
<1>3. Sound(d, g[id])
  BY <1>1, <1>2 DEF Sound, Empty
<1>4. Live(g) = Live(h) \cup {id} /\ \A j \in Live(h) : g[j] = h[j]
  BY DEF OneMore
<1> QED BY <1>3, <1>4 DEF AllSound

\* A step of the compiler of bodies.
LEMMA CompileSees ==
  ASSUME ScopeInv, LookupInv, ScopeInv', phase = "compile", phase' = phase, declared' = declared, spaces' = spaces,
         NEW h, Bettered(heap, h), NEW g, Grows(h, g), AllSound(declared, g),
         NEW t, \A w \in Waiting(t, incomplete) : w \in Waiting(tasks, incomplete),
         NEW b, Becomes(g, frames, t, incomplete, b),
         b # None => \A x \in b.seen : Sees(declared, spaces, g, b.top, b.blocks + 1, x)
  PROVE  LookupInv'
<1>1. CacheInv' /\ WaitingInv'
  BY QueuesSee
<1>2. BodyInv'
  <2>1. CASE b = None
    BY <2>1 DEF BodyInv, Becomes
  <2>2. CASE b # None
    <3>1. Good(g)
      BY DEF Grows
    <3> QED BY <2>2, <3>1, BodySees
  <2> QED BY <2>1, <2>2
<1>3. DepthInv'
  BY DEF LookupInv, DepthInv
<1> QED BY <1>1, <1>2, <1>3 DEF LookupInv

LEMMA BeginBodySees ==
  ASSUME ScopeInv, LookupInv, BeginBody
  PROVE  LookupInv'
<1> DEFINE task == Head(tasks)
           t == Tail(tasks)
           node == Node("FunctionScope", task.scope)
           arguments == NewId(heap, 1)
           outer == NewId(heap, 2)
           h == WithNode(heap, arguments, node, task.scope)
           g == WithNode(h, outer, node, arguments)
           b == [kind |-> "body", function |-> task.function, seen |-> task.seen, base |-> task.scope,
                 arguments |-> arguments, outer |-> outer, top |-> outer, expr |-> outer, blocks |-> 0]
<1>1. /\ phase = "compile" /\ body = None /\ tasks # <<>> /\ HasRoom(task.scope)
      /\ Becomes(g, frames, t, incomplete, b) /\ phase' = phase /\ declared' = declared /\ spaces' = spaces
  BY DEF BeginBody
<1>2. /\ Good(heap) /\ Handles \subseteq Live(heap) /\ AllSound(declared, heap) /\ Bettered(heap, heap)
      /\ Reread(heap, heap) /\ tasks \in Seq(ToSet(tasks)) /\ incomplete \in Seq(ToSet(incomplete))
  BY BetteredSelf, RereadSelf DEF ScopeInv, HeapInv, QueueInv, LookupInv, CacheInv, AllSound
<1>3. ScopeInv'
  BY BeginBodyStep
<1>4. task = tasks[1] /\ 1 \in DOMAIN tasks
  BY <1>1, <1>2, Taken
<1>5. /\ \A w \in Waiting(t, incomplete) : w \in Waiting(tasks, incomplete)
      /\ <<task.scope, task.seen>> \in Waiting(tasks, incomplete)
  BY <1>1, <1>2, WaitingLess
<1> HIDE DEF task, t
<1>6. task.scope \in Live(heap)
  BY <1>2, <1>4 DEF Handles, Roots
<1>7. Room(heap, Len(Chain(heap, task.scope)) + 1) /\ Len(Chain(heap, task.scope)) \in Nat \ {0}
  BY <1>1, <1>2, <1>6, HasRoomThere
<1>8. /\ arguments \in Ids /\ heap[arguments] = None
      /\ outer \in Ids /\ heap[outer] = None /\ outer # arguments
  <2> DEFINE L == Len(Chain(heap, task.scope)) + 1
  <2>1. L \in Nat /\ 1 \in 1 .. L /\ 2 \in 1 .. L /\ Room(heap, L)
    BY <1>7
  <2> HIDE DEF L
  <2>2. arguments \in Ids /\ heap[arguments] = None /\ outer \in Ids /\ heap[outer] = None
    BY <2>1, NewIdIsFree
  <2>3. outer # arguments
    BY <2>1, NewIdsDiffer
  <2> QED BY <2>2, <2>3
<1>9. IsNode(node) /\ node.cached = Empty
  BY NodeNew DEF NodeKinds
<1>10. b.seen = task.seen /\ b.top = outer /\ b.blocks = 0 /\ b.blocks + 1 = 1
  OBVIOUS
<1> HIDE DEF node, arguments, outer, b
<1>11. OneMore(heap, h, arguments) /\ Chain(h, arguments) = <<arguments>> \o Chain(heap, task.scope)
  BY <1>2, <1>6, <1>8, <1>9, WithNodeGood
<1>12. AllSound(declared, h)
  BY <1>2, <1>8, <1>9, <1>11, WithNodeSound
<1>13. Good(h) /\ arguments \in Live(h) /\ h[outer] = None /\ Live(heap) \subseteq Live(h)
       /\ \A j \in Live(heap) : h[j] = heap[j]
  BY <1>8, <1>11 DEF OneMore, Live
<1> HIDE DEF h
<1>14. OneMore(h, g, outer) /\ Chain(g, outer) = <<outer>> \o Chain(h, arguments)
  BY <1>8, <1>9, <1>13, WithNodeGood
<1>15. AllSound(declared, g)
  BY <1>8, <1>9, <1>12, <1>13, <1>14, WithNodeSound
<1> HIDE DEF g
<1>16. Good(g) /\ (\A j \in Live(h) : g[j] = h[j]) /\ Grows(heap, g)
  BY <1>13, <1>14 DEF OneMore, Grows
<1>17. ASSUME NEW x \in b.seen PROVE Sees(declared, spaces, g, b.top, b.blocks + 1, x)
  <2>1. Sees(declared, spaces, heap, task.scope, 1, x)
    <3> DEFINE w == <<task.scope, task.seen>>
    <3>1. w \in Waiting(tasks, incomplete) /\ w[1] = task.scope /\ x \in w[2]
      BY <1>5, <1>10
    <3> HIDE DEF w
    <3> QED BY <3>1 DEF LookupInv, WaitingInv
  <2> DEFINE one == 1
             two == one + 1
  <2>2. one \in Nat \ {0} /\ two \in Nat \ {0} /\ two + 1 = 3
    OBVIOUS
  <2> HIDE DEF one
  <2>3. Sees(declared, spaces, h, arguments, two, x)
    BY <1>2, <1>6, <1>11, <1>13, <2>1, <2>2, SeesFurther DEF one
  <2> HIDE DEF two
  <2>4. Sees(declared, spaces, g, outer, two + 1, x)
    BY <1>13, <1>14, <1>16, <2>2, <2>3, SeesFurther
  <2>5. Sees(declared, spaces, g, outer, 1, x)
    <3>1. \A n : n \in 3 .. Len(Chain(g, outer)) => n \in 1 .. Len(Chain(g, outer))
      OBVIOUS
    <3> QED BY <2>2, <2>4, <3>1 DEF Sees
  <2> QED BY <1>10, <2>5
<1> QED BY <1>1, <1>2, <1>3, <1>5, <1>15, <1>16, <1>17, CompileSees

LEMMA EnterBlockSees ==
  ASSUME ScopeInv, LookupInv, EnterBlock
  PROVE  LookupInv'
<1> DEFINE node == Node("FunctionScope", body.base)
           id == NewId(heap, 1)
           g == WithNode(heap, id, node, body.top)
           b == [body EXCEPT !.top = id, !.expr = id, !.blocks = @ + 1]
<1>1. /\ Compiling /\ body # None /\ phase' = phase /\ declared' = declared /\ spaces' = spaces
      /\ Becomes(g, frames, tasks, incomplete, b)
  BY DEF EnterBlock, Compiling, Placed
<1>2. /\ IsBody(body) /\ Good(heap) /\ Reread(heap, heap) /\ body.top \in Live(heap) /\ body.blocks \in Nat
      /\ Len(Chain(heap, body.top)) \in Nat \ {0}
  BY <1>1, BodyThere, GoodNode DEF HasChain
<1>3. /\ phase = "compile" /\ AllSound(declared, heap) /\ Bettered(heap, heap)
      /\ \A x \in body.seen : Sees(declared, spaces, heap, body.top, body.blocks + 1, x)
  BY <1>1, <1>2, BetteredSelf DEF ScopeInv, FunctionInv, LookupInv, CacheInv, AllSound, BodyInv
<1>4. Room(heap, Len(Chain(heap, body.top)))
  BY <1>1, <1>2, CompilingThere
<1>5. id \in Ids /\ heap[id] = None /\ IsNode(node) /\ node.cached = Empty
  BY <1>2, <1>4, NewIdIsFree, NodeNew DEF NodeKinds
<1>6. b = Moved(body, id, id, body.blocks + 1)
  BY DEF Moved
<1>7. ScopeInv'
  BY EnterBlockStep
<1> HIDE DEF id, node, b
<1>8. OneMore(heap, g, id) /\ Chain(g, id) = <<id>> \o Chain(heap, body.top)
  BY <1>2, <1>5, WithNodeGood
<1>9. AllSound(declared, g)
  BY <1>2, <1>3, <1>5, <1>8, WithNodeSound
<1> HIDE DEF g
<1>10. Good(g) /\ Grows(heap, g) /\ \A j \in Live(heap) : g[j] = heap[j]
  BY <1>8 DEF OneMore, Grows
<1>11. b.seen = body.seen /\ b.top = id /\ b.blocks = body.blocks + 1 /\ body.blocks + 1 \in Nat \ {0}
  <2>1. body.blocks + 1 \in Nat
    BY <1>2
  <2>2. HasMoved(body, b, id, id, body.blocks + 1)
    BY <1>2, <1>5, <1>6, <2>1, BodyMoved
  <2> QED BY <1>2, <2>2 DEF HasMoved
<1>12. ASSUME NEW x \in b.seen PROVE Sees(declared, spaces, g, b.top, b.blocks + 1, x)
  <2> DEFINE n == body.blocks + 1
  <2>1. n \in Nat \ {0} /\ Sees(declared, spaces, heap, body.top, n, x)
    BY <1>3, <1>11
  <2>2. b.blocks + 1 = n + 1
    BY <1>11
  <2> HIDE DEF n
  <2>3. Sees(declared, spaces, g, id, n + 1, x)
    BY <1>2, <1>8, <1>10, <2>1, SeesFurther
  <2> QED BY <1>11, <2>2, <2>3
<1> QED BY <1>1, <1>3, <1>7, <1>9, <1>10, <1>12, CompileSees

LEMMA LeaveBlockSees ==
  ASSUME ScopeInv, LookupInv, LeaveBlock
  PROVE  LookupInv'
<1> DEFINE up == Parent(heap[body.top])
           b == [body EXCEPT !.top = Parent(heap[@]), !.blocks = @ - 1]
           n == body.blocks
<1>1. /\ body # None /\ n > 0 /\ phase' = phase /\ declared' = declared /\ spaces' = spaces
      /\ Becomes(heap, frames, tasks, incomplete, b)
  BY DEF LeaveBlock
<1>2. /\ IsBody(body) /\ Good(heap) /\ body.top \in Live(heap) /\ body.expr \in Ids
      /\ Len(Chain(heap, body.top)) > n /\ n \in Nat /\ Live(heap) \subseteq Ids
      /\ Len(Chain(heap, body.top)) \in Nat
  <2>1. /\ IsBody(body) /\ Good(heap) /\ body.top \in Live(heap) /\ body.expr \in Ids
        /\ Len(Chain(heap, body.top)) > n /\ n \in Nat /\ Live(heap) \subseteq Ids
    BY <1>1, BodyThere, BodyFields
  <2>2. HasChain(heap, body.top)
    BY <2>1, GoodNode
  <2> QED BY <2>1, <2>2 DEF HasChain
<1>3. /\ phase = "compile" /\ AllSound(declared, heap) /\ Bettered(heap, heap) /\ Grows(heap, heap)
      /\ \A x \in body.seen : Sees(declared, spaces, heap, body.top, n + 1, x)
  BY <1>1, <1>2, BetteredSelf, GrowsSelf DEF ScopeInv, FunctionInv, LookupInv, CacheInv, AllSound, BodyInv
<1>4. b = Moved(body, up, body.expr, n - 1)
  BY <1>2, BodyFields DEF Moved
<1>5. ScopeInv'
  BY LeaveBlockStep
<1>6. Len(Chain(heap, body.top)) > 1 /\ n \in Nat \ {0} /\ n - 1 \in Nat /\ n - 1 + 1 = n
  <2> DEFINE L == Len(Chain(heap, body.top))
  <2>1. L > n /\ n > 0 /\ L \in Nat /\ n \in Nat
    BY <1>1, <1>2
  <2> HIDE DEF L, n
  <2>2. L > 1 /\ n \in Nat \ {0} /\ n - 1 \in Nat /\ n - 1 + 1 = n
    BY <2>1
  <2> QED BY <2>2 DEF L
<1>7. up \in Live(heap)
  BY <1>2, <1>6, ParentThere
<1>8. \A x \in body.seen : Sees(declared, spaces, heap, up, n, x)
  BY <1>2, <1>3, <1>6, ParentSees
<1> HIDE DEF up, b
<1>9. b.seen = body.seen /\ b.top = up /\ b.blocks = n - 1
  <2>1. HasMoved(body, b, up, body.expr, n - 1)
    BY <1>2, <1>4, <1>6, <1>7, BodyMoved
  <2> QED BY <2>1 DEF HasMoved
<1>10. \A x \in b.seen : Sees(declared, spaces, heap, b.top, b.blocks + 1, x)
  BY <1>6, <1>8, <1>9
<1> QED BY <1>1, <1>3, <1>5, <1>10, CompileSees

LEMMA MentionSees ==
  ASSUME ScopeInv, LookupInv, NEW name, Mention(name)
  PROVE  LookupInv'
<1> DEFINE h == Lookup(heap, body.top, name).heap
           b == [body EXCEPT !.expr = body.top]
<1>1. /\ body # None /\ phase' = phase /\ declared' = declared /\ spaces' = spaces
      /\ Becomes(h, frames, tasks, incomplete, b)
  BY DEF Mention, Compiling
<1>2. IsBody(body) /\ Good(heap) /\ body.top \in Live(heap) /\ body.blocks \in Nat /\ Live(heap) \subseteq Ids
  BY <1>1, BodyThere
<1>3. /\ phase = "compile" /\ AllSound(declared, heap)
      /\ \A x \in body.seen : Sees(declared, spaces, heap, body.top, body.blocks + 1, x)
  BY <1>1 DEF ScopeInv, FunctionInv, LookupInv, CacheInv, AllSound, BodyInv
<1>4. Bettered(heap, h)
  BY <1>2, LookupBetters
<1>5. ScopeInv'
  BY MentionStep
<1> HIDE DEF h
<1>6. Good(h) /\ AllSound(declared, h) /\ Grows(h, h)
  BY <1>2, <1>3, <1>4, BetteredSound, GrowsSelf
<1>7. b = Moved(body, body.top, body.top, body.blocks)
  BY <1>2, BodyFields DEF Moved
<1> HIDE DEF b
<1>8. b.seen = body.seen /\ b.top = body.top /\ b.blocks = body.blocks
  <2>1. body.top \in Ids
    BY <1>2
  <2>2. HasMoved(body, b, body.top, body.top, body.blocks)
    BY <1>2, <1>7, <2>1, BodyMoved
  <2> QED BY <2>2 DEF HasMoved
<1>9. Continues(declared, heap, body.top, h, body.top)
  BY <1>2, <1>4, UntouchedContinues
<1>10. body.blocks + 1 \in Nat \ {0}
  BY <1>2
<1>11. \A x \in body.seen : Sees(declared, spaces, h, body.top, body.blocks + 1, x)
  BY <1>2, <1>3, <1>9, <1>10, ContinuesSees
<1> QED BY <1>1, <1>3, <1>4, <1>5, <1>6, <1>8, <1>11, CompileSees

LEMMA EndBodySees ==
  ASSUME ScopeInv, LookupInv, EndBody
  PROVE  LookupInv'
<1> DEFINE b == None
<1>1. /\ body # None /\ phase' = phase /\ declared' = declared /\ spaces' = spaces
      /\ Becomes(heap, frames, tasks, incomplete, b)
  BY DEF EndBody
<1>2. /\ phase = "compile" /\ AllSound(declared, heap) /\ Bettered(heap, heap) /\ Grows(heap, heap)
  BY <1>1, BetteredSelf, GrowsSelf DEF ScopeInv, HeapInv, FunctionInv, LookupInv, CacheInv, AllSound
<1>3. ScopeInv'
  BY EndBodyStep
<1>4. b = None
  OBVIOUS
<1> HIDE DEF b
<1> QED BY <1>1, <1>2, <1>3, <1>4, CompileSees

\* A directive in a body.
LEMMA InBodySees ==
  ASSUME ScopeInv, LookupInv, ScopeInv', body # None, phase' = phase, declared' = declared, spaces' = spaces,
         NEW h, Bettered(heap, h), NEW r, Directs(h, body.top, r), InBody(r)
  PROVE  LookupInv'
<1> DEFINE b == [body EXCEPT !.top = r.id]
<1>1. /\ IsBody(body) /\ Active = body.top /\ Good(heap) /\ body.top \in Live(heap) /\ body.blocks \in Nat
      /\ body.expr \in Ids
  BY BodyThere, BodyFields
<1>2. /\ phase = "compile" /\ AllSound(declared, heap)
      /\ \A x \in body.seen : Sees(declared, spaces, heap, body.top, body.blocks + 1, x)
  BY DEF ScopeInv, FunctionInv, LookupInv, CacheInv, AllSound, BodyInv
<1>3. Good(h) /\ Live(h) = Live(heap) /\ AllSound(declared, h)
  BY <1>1, <1>2, BetteredSound
<1>4. AllSound(declared, r.heap)
  BY <1>1, <1>3, DirectsSound
<1>5. Grows(h, r.heap) /\ r.id \in Ids
  BY <1>1, DirectsGrows DEF Directs, Live
<1>6. Becomes(r.heap, frames, tasks, incomplete, b)
  BY DEF InBody
<1>7. b = Moved(body, r.id, body.expr, body.blocks)
  BY <1>1, BodyFields DEF Moved
<1> HIDE DEF b
<1>8. b.seen = body.seen /\ b.top = r.id /\ b.blocks = body.blocks
  <2>1. HasMoved(body, b, r.id, body.expr, body.blocks)
    BY <1>1, <1>5, <1>7, BodyMoved
  <2> QED BY <2>1 DEF HasMoved
<1>9. Continues(declared, heap, body.top, r.heap, r.id)
  BY <1>1, DirectsContinues
<1>10. body.blocks + 1 \in Nat \ {0}
  BY <1>1
<1>11. \A x \in b.seen : Sees(declared, spaces, r.heap, b.top, b.blocks + 1, x)
  BY <1>1, <1>2, <1>8, <1>9, <1>10, ContinuesSees
<1> QED BY <1>2, <1>4, <1>5, <1>6, <1>11, CompileSees

LEMMA UsingDirectiveInBodySees ==
  ASSUME ScopeInv, LookupInv, NEW name, UsingDirectiveInBody(name)
  PROVE  LookupInv'
<1> DEFINE lookup == Lookup(heap, body.top, name)
           h == lookup.heap
           space == lookup.result.space
           r == InjectSpace(h, body.top, space)
<1>1. /\ Compiling /\ body # None /\ phase' = phase /\ declared' = declared /\ spaces' = spaces
      /\ space # None /\ InBody(r)
  BY DEF UsingDirectiveInBody, Compiling
<1>2. Good(heap) /\ body.top \in Live(heap)
  BY <1>1, BodyThere
<1>3. Bettered(heap, h) /\ Reread(heap, h) /\ space.imports \in Seq(ToSet(space.imports))
  BY <1>1, <1>2, LookupBetters, FoundSpace DEF Bettered
<1>4. Good(h) /\ body.top \in Live(h) /\ Room(h, Len(Chain(h, body.top)))
  BY <1>1, <1>3, CompilingThere
<1> HIDE DEF h, space
<1>5. Directs(h, body.top, r)
  BY <1>3, <1>4, SpaceDirects
<1> HIDE DEF r
<1>6. ScopeInv'
  BY UsingDirectiveInBodyStep
<1> QED BY <1>1, <1>3, <1>5, <1>6, InBodySees

LEMMA UsingDeclarationInBodySees ==
  ASSUME ScopeInv, LookupInv, NEW space, NEW name, UsingDeclarationInBody(space, name)
  PROVE  LookupInv'
<1> DEFINE lookup == QualifiedLookup(heap, body.top, space, name)
           h == lookup.heap
           r == InjectEntities(h, body.top, lookup.result.functions)
<1>1. /\ Compiling /\ body # None /\ phase' = phase /\ declared' = declared /\ spaces' = spaces /\ InBody(r)
  BY DEF UsingDeclarationInBody, Compiling
<1>2. Good(heap) /\ body.top \in Live(heap)
  BY <1>1, BodyThere
<1>3. Bettered(heap, h) /\ Reread(heap, h)
  BY <1>2, QualifiedBetters DEF Bettered
<1>4. Good(h) /\ body.top \in Live(h) /\ Room(h, Len(Chain(h, body.top)))
  BY <1>1, <1>3, CompilingThere
<1> HIDE DEF h
<1>5. Directs(h, body.top, r)
  BY <1>4, EntitiesDirect
<1> HIDE DEF r
<1>6. ScopeInv'
  BY UsingDeclarationInBodyStep
<1> QED BY <1>1, <1>3, <1>5, <1>6, InBodySees

LEMMA TypeAliasInBodySees ==
  ASSUME ScopeInv, LookupInv, NEW name, NEW type, TypeAliasInBody(name, type)
  PROVE  LookupInv'
<1> DEFINE lookup == Resolve(heap, body.top, type)
           h == lookup.heap
<1>1. PICK entity : /\ Compiling /\ body # None /\ phase' = phase /\ declared' = declared /\ spaces' = spaces
                    /\ InBody(InjectAlias(h, body.top, name, entity))
  BY DEF TypeAliasInBody, Compiling
<1> DEFINE r == InjectAlias(h, body.top, name, entity)
<1>2. Good(heap) /\ body.top \in Live(heap)
  BY <1>1, BodyThere
<1>3. Bettered(heap, h) /\ Reread(heap, h)
  BY <1>2, ResolveBetters DEF Bettered
<1>4. Good(h) /\ body.top \in Live(h) /\ Room(h, Len(Chain(h, body.top)))
  BY <1>1, <1>3, CompilingThere
<1> HIDE DEF h
<1>5. Directs(h, body.top, r) /\ InBody(r)
  BY <1>1, <1>4, AliasDirects
<1> HIDE DEF r
<1>6. ScopeInv'
  BY TypeAliasInBodyStep
<1> QED BY <1>1, <1>3, <1>5, <1>6, InBodySees

LEMMA ImportInBodySees ==
  ASSUME ScopeInv, LookupInv, NEW module, ImportInBody(module)
  PROVE  LookupInv'
<1> DEFINE r == Merge(heap, body.top, module)
<1>1. /\ Compiling /\ body # None /\ phase' = phase /\ declared' = declared /\ spaces' = spaces /\ InBody(r)
  BY DEF ImportInBody, Compiling
<1>2. Bettered(heap, heap) /\ Reread(heap, heap)
  BY <1>1, BodyThere, BetteredSelf
<1>3. Good(heap) /\ body.top \in Live(heap) /\ Room(heap, Len(Chain(heap, body.top)))
  BY <1>1, <1>2, CompilingThere
<1>4. Directs(heap, body.top, r)
  BY <1>3, MergeDirects
<1> HIDE DEF r
<1>5. ScopeInv'
  BY ImportInBodyStep
<1> QED BY <1>1, <1>2, <1>4, <1>5, InBodySees

-----------------------------------------------------------------------------
(* The theorem. *)

LEMMA InitLookup == Init => LookupInv
<1> SUFFICES ASSUME Init PROVE LookupInv
  OBVIOUS
<1> DEFINE n == [Node("ScriptScope", Script) EXCEPT !.chain = <<1>>, !.imports = <<Engine>>]
           seen == {e.name : e \in Own(Engine, "class") \cup Own(Engine, "function")}
<1>1. /\ heap = [i \in Ids |-> IF i = 1 THEN n ELSE None] /\ frames = <<1>> /\ declared = {}
      /\ tasks = <<[function |-> None, scope |-> 1, seen |-> seen]>> /\ incomplete = <<>> /\ body = None
  BY DEF Init
<1>2. 1 \in Ids
  BY ScopesAssumption
<1>3. /\ n.kind = "ScriptScope" /\ n.of = Script /\ n.chain = <<1>> /\ n.imports = <<Engine>> /\ n.cached = Empty
  BY DEF Node
<1> HIDE DEF n
<1>4. heap[1] = n /\ Live(heap) \subseteq {1}
  BY <1>1, <1>2 DEF Live
<1>5. IsSpace(n) /\ \A k \in Kinds : n.cached[k] = {}
  BY <1>3 DEF IsSpace, Empty
<1>6. CacheInv
  BY <1>4, <1>5 DEF CacheInv, Sound
<1>7. Chain(heap, 1) = <<1>> /\ Len(<<1>>) = 1 /\ <<1>>[1] = 1
  BY <1>3, <1>4 DEF Chain
<1>8. ASSUME NEW x \in seen PROVE Sees(declared, spaces, heap, 1, 1, x)
  <2>1. PICK e : e \in Own(Engine, "class") \cup Own(Engine, "function") /\ e.name = x
    OBVIOUS
  <2>2. PICK k \in Kinds : e \in OwnIn(declared, Engine, k)
    BY <2>1 DEF Own, OwnIn, Kinds
  <2>3. Engine \in ToSet(n.imports) /\ n.imports # <<>>
    <3>1. ToSet(<<Engine>>) = {Engine}
      BY SingleSet
    <3> QED BY <1>3, <3>1
  <2>4. e \in ContentsIn(declared, n, k)
    BY <2>2, <2>3 DEF ContentsIn
  <2>5. e \in ListedIn(declared, n, k)
    BY <1>3, <1>5, <2>3, <2>4 DEF ListedIn
  <2>6. FoundIn(declared, spaces, n, x)
    BY <2>1, <2>5 DEF FoundIn
  <2>7. 1 \in 1 .. Len(Chain(heap, 1)) /\ Chain(heap, 1)[1] = 1
    BY <1>7
  <2> QED BY <1>4, <2>6, <2>7 DEF Sees
<1>9. WaitingInv
  <2> DEFINE task == [function |-> None, scope |-> 1, seen |-> seen]
  <2>1. task.scope = 1 /\ task.seen = seen
    OBVIOUS
  <2>2. tasks = <<task>>
    BY <1>1
  <2> HIDE DEF task, seen
  <2>3. DOMAIN tasks = {1} /\ tasks[1] = task
    BY <2>2
  <2>4. \A w \in Waiting(tasks, incomplete) : w = <<1, seen>>
    BY <1>1, <2>1, <2>3 DEF Waiting
  <2> QED BY <1>8, <2>4 DEF WaitingInv
<1>10. BodyInv
  BY <1>1 DEF BodyInv
<1>11. DepthInv
  <2>1. IsDepth(n, 1)
    <3>1. Script \in Seq(ToSet(Script)) /\ Len(Script) = 1 /\ Script[1] = "script"
      BY SingleSet DEF Script
    <3> QED BY <1>3, <3>1 DEF IsDepth
  <2>2. Complete(declared, n)
    BY <1>5 DEF Complete
  <2>3. Stacked(declared, heap, 1, 1)
    <3>1. \A m \in 1 .. 1 : m = 1 /\ 1 - m + 1 = 1
      OBVIOUS
    <3>2. \A m \in 1 .. 1 : Chain(heap, 1)[m] = 1
      BY <1>7, <3>1
    <3>3. Len(Chain(heap, 1)) = 1
      BY <1>7
    <3> QED BY <1>4, <2>1, <2>2, <3>1, <3>2, <3>3 DEF Stacked
  <2>4. \A k \in 1 .. Len(frames) : k = 1 /\ frames[k] = 1
    BY <1>1
  <2> QED BY <1>1, <2>3, <2>4 DEF DepthInv
<1> QED BY <1>6, <1>9, <1>10, <1>11 DEF LookupInv

\* Each step keeps the invariant.
LEMMA StepLookup == ScopeInv /\ LookupInv /\ [Next]_vars => LookupInv'
<1> SUFFICES ASSUME ScopeInv, LookupInv, [Next]_vars PROVE LookupInv'
  OBVIOUS
<1>1. CASE Declare
  BY <1>1, DeclareClassSees, OpenClassSees, OpenNamespaceSees, DeclareFunctionSees, UsingDirectiveSees,
     UsingDeclarationSees, TypeAliasSees, NamespaceAliasSees, ImportSees, AccessSpecifierSees, CloseSees,
     EndOfDeclarationsSees DEF Declare
<1>2. CASE Reprocess
  BY <1>2, ReprocessSees
<1>3. CASE Compile
  BY <1>3, MentionSees, UsingDirectiveInBodySees, UsingDeclarationInBodySees, TypeAliasInBodySees,
     ImportInBodySees, BeginBodySees, EnterBlockSees, LeaveBlockSees, EndBodySees DEF Compile
<1>4. CASE UNCHANGED vars
  <2>1. /\ declared' = declared /\ spaces' = spaces /\ heap' = heap /\ tasks' = tasks /\ incomplete' = incomplete
        /\ body' = body /\ frames' = frames /\ phase' = phase
    BY <1>4 DEF vars
  <2>2. CacheInv' /\ WaitingInv'
    BY <2>1 DEF LookupInv, CacheInv, WaitingInv
  <2>3. BodyInv' /\ DepthInv'
    BY <2>1 DEF LookupInv, BodyInv, DepthInv
  <2> QED BY <2>2, <2>3 DEF LookupInv
<1> QED BY <1>1, <1>2, <1>3, <1>4 DEF Next

\* The scopes of the queues, of the body and of the declaration that is open find what
\* they are to find, whatever they have cached.
LEMMA InvariantFinds == ScopeInv /\ LookupInv => SeesEarlierDeclarations
<1> SUFFICES ASSUME ScopeInv, LookupInv PROVE SeesEarlierDeclarations
  OBVIOUS
<1>1. Good(heap) /\ Handles \subseteq Live(heap) /\ 1 \in Nat \ {0}
  BY DEF ScopeInv, HeapInv
<1>2. ASSUME NEW n \in DOMAIN tasks, NEW x \in tasks[n].seen
      PROVE  Lookup(heap, tasks[n].scope, x).result # Nothing
  <2> DEFINE w == <<tasks[n].scope, tasks[n].seen>>
  <2>1. w \in Waiting(tasks, incomplete) /\ w[1] = tasks[n].scope /\ w[2] = tasks[n].seen
    BY DEF Waiting
  <2> HIDE DEF w
  <2>2. Sees(declared, spaces, heap, tasks[n].scope, 1, x)
    BY <2>1 DEF LookupInv, WaitingInv
  <2>3. tasks[n].scope \in Live(heap)
    BY <1>1 DEF Handles, Roots
  <2> QED BY <1>1, <2>2, <2>3, SeenLooked
<1>3. ASSUME body # None, NEW x \in body.seen
      PROVE  Lookup(heap, body.top, x).result # Nothing
  <2>1. body.top \in Live(heap) /\ body.blocks + 1 \in Nat \ {0}
    BY <1>3, BodyThere
  <2>2. Sees(declared, spaces, heap, body.top, body.blocks + 1, x)
    BY <1>3 DEF LookupInv, BodyInv
  <2> QED BY <1>1, <2>1, <2>2, SeenLooked
<1>4. ASSUME phase = "declare", NEW x \in NamesInScope(heap, Current)
      PROVE  Lookup(heap, Current, x).result # Nothing
  <2>1. Current \in Live(heap) /\ Sees(declared, spaces, heap, Current, 1, x)
    BY <1>4, HereNested, NamesSeen
  <2> QED BY <1>1, <2>1, SeenLooked
<1> QED BY <1>2, <1>3, <1>4 DEF SeesEarlierDeclarations

\* What was declared when a function was is found from the scope the function is
\* compiled in, whatever the scopes in between have cached, and while declarations
\* are read all of them are found (Scope::invalidateCache, NamespaceScope).
THEOREM LookupsFind == Spec => []SeesEarlierDeclarations
<1>1. ScopeInv /\ LookupInv /\ [Next]_vars => LookupInv'
  BY StepLookup
<1>2. ScopeInv /\ LookupInv => SeesEarlierDeclarations
  BY InvariantFinds
<1> QED BY <1>1, <1>2, InitLookup, ScopesHold, PTL DEF Spec

-----------------------------------------------------------------------------
(* What namespaces import. *)

\* What paths are made of.
Words == {"script", "engine"} \cup Spaces \cup UNION {ToSet(m) : m \in Modules}

\* A namespace scope inside that of the script has imported the namespaces of its
\* name that there are in what the scope of the script has imported.
Inside(outer, n, all) ==
  /\ IsSpace(outer) /\ outer.of = Script
  /\ \E s \in Spaces : n.of = Append(Script, s)
  /\ \A p \in ToSet(outer.imports) :
       p[1] # Script[1] /\ Append(p, Last(n.of)) \in all => Append(p, Last(n.of)) \in ToSet(n.imports)

IsAlike(h, i, all) ==
  /\ ToSet(h[i].imports) \subseteq Seq(Words)
  /\ Len(h[i].chain) = 1 => h[i].of = Script
  /\ Len(h[i].chain) > 1 => Inside(h[h[i].chain[2]], h[i], all)

Alike(h, all) == \A i \in Live(h) : IsSpace(h[i]) => IsAlike(h, i, all)

\* Nodes that import the same, in the same place; a heap with more that are not of
\* namespaces, or with fewer.
Twin(n, m) == m.kind = n.kind /\ m.of = n.of /\ m.chain = n.chain /\ m.imports = n.imports
Keeps(h, g) == \A i \in Live(g) : IF i \in Live(h) THEN Twin(h[i], g[i]) ELSE ~IsSpace(g[i])

LEMMA AppendedFacts ==
  ASSUME NEW S, NEW p \in Seq(S), NEW x \in S
  PROVE  /\ Append(p, x) \in Seq(S) /\ Len(Append(p, x)) = Len(p) + 1 /\ Append(p, x)[Len(p) + 1] = x
         /\ \A k \in 1 .. Len(p) : Append(p, x)[k] = p[k]
         /\ Len(p) \in Nat /\ DOMAIN p = 1 .. Len(p)
OBVIOUS

LEMMA LastAppended ==
  ASSUME NEW S, NEW p \in Seq(S), NEW q \in Seq(S), NEW x \in S, NEW y \in S, Append(p, x) = Append(q, y)
  PROVE  p = q /\ x = y
<1> DEFINE r == Append(p, x)
<1>1. /\ Len(r) = Len(p) + 1 /\ r[Len(p) + 1] = x /\ Len(p) \in Nat
      /\ \A k \in 1 .. Len(p) : r[k] = p[k]
  BY AppendedFacts
<1>2. r = Append(q, y)
  OBVIOUS
<1>3. /\ Len(r) = Len(q) + 1 /\ r[Len(q) + 1] = y /\ Len(q) \in Nat
      /\ \A k \in 1 .. Len(q) : r[k] = q[k]
  BY <1>2, AppendedFacts
<1> HIDE DEF r
<1>4. Len(p) = Len(q)
  BY <1>1, <1>3
<1>5. \A k \in 1 .. Len(p) : p[k] = q[k]
  BY <1>1, <1>3, <1>4
<1>6. p = q
  BY <1>4, <1>5
<1> QED BY <1>1, <1>3, <1>4, <1>6

LEMMA PairPath ==
  ASSUME NEW S, NEW x \in S, NEW y \in S, NEW p, p = <<x, y>>
  PROVE  /\ p \in Seq(S) /\ Len(p) = 2 /\ p[Len(p)] = y /\ Tail(p) = <<y>> /\ SubSeq(p, 2, 2) = <<y>>
<1>1. p \in Seq(S) /\ Len(p) = 2 /\ p[1] = x /\ p[2] = y
  OBVIOUS
<1>2. Tail(p) \in Seq(S) /\ Len(Tail(p)) = 1 /\ Tail(p)[1] = y
  BY <1>1
<1>3. SubSeq(p, 2, 2) \in Seq(S) /\ Len(SubSeq(p, 2, 2)) = 1 /\ SubSeq(p, 2, 2)[1] = y
  BY <1>1
<1>4. <<y>> \in Seq(S) /\ Len(<<y>>) = 1 /\ <<y>>[1] = y
  OBVIOUS
<1>5. ASSUME NEW s \in Seq(S), NEW t \in Seq(S), Len(s) = 1, Len(t) = 1, s[1] = t[1] PROVE s = t
  BY <1>5
<1>6. Tail(p) = <<y>> /\ SubSeq(p, 2, 2) = <<y>>
  BY <1>2, <1>3, <1>4, <1>5
<1> QED BY <1>1, <1>6

LEMMA PairAppended ==
  ASSUME NEW x, NEW y
  PROVE  Append(<<x>>, y) = <<x, y>>
<1> DEFINE S == {x, y}
           one == <<x>>
           two == <<x, y>>
<1>1. x \in S /\ y \in S
  OBVIOUS
<1> HIDE DEF S
<1>2. one \in Seq(S) /\ Len(one) = 1 /\ one[1] = x
  BY <1>1
<1>3. two \in Seq(S) /\ Len(two) = 2 /\ two[1] = x /\ two[2] = y
  BY <1>1
<1> HIDE DEF one, two
<1> DEFINE t == Append(one, y)
<1>4. t \in Seq(S) /\ Len(t) = 2 /\ t[1] = x /\ t[2] = y
  <2>1. /\ t \in Seq(S) /\ Len(t) = Len(one) + 1 /\ t[Len(one) + 1] = y
        /\ \A k \in 1 .. Len(one) : t[k] = one[k]
    <3>1. one \in Seq(S) /\ y \in S
      BY <1>1, <1>2
    <3> QED BY ONLY <3>1, AppendedFacts
  <2> HIDE DEF t
  <2> QED BY <1>2, <2>1
<1> HIDE DEF t
<1>5. t = two
  BY <1>3, <1>4
<1> QED BY <1>5 DEF t, one, two

LEMMA ScriptPath ==
  ASSUME NEW s \in Words
  PROVE  /\ Append(Script, s) \in Seq(Words) /\ Len(Append(Script, s)) = 2 /\ Last(Append(Script, s)) = s
         /\ Tail(Append(Script, s)) = <<s>> /\ SubSeq(Append(Script, s), 2, 2) = <<s>>
<1> DEFINE p == Append(Script, s)
<1>1. p = <<"script", s>> /\ "script" \in Words
  BY PairAppended DEF Script, Words
<1> HIDE DEF p
<1>2. p \in Seq(Words) /\ Len(p) = 2 /\ p[Len(p)] = s /\ Tail(p) = <<s>> /\ SubSeq(p, 2, 2) = <<s>>
  BY <1>1, PairPath
<1> QED BY <1>2 DEF p, Last

LEMMA ScriptIsPath == Script \in Seq(Words) /\ Len(Script) = 1 /\ Script[1] = "script"
<1>1. ASSUME NEW S, NEW x \in S PROVE <<x>> \in Seq(S) /\ Len(<<x>>) = 1 /\ <<x>>[1] = x
  OBVIOUS
<1>2. "script" \in Words
  BY DEF Words
<1> QED BY <1>1, <1>2 DEF Script

LEMMA JoinedOne ==
  ASSUME NEW S, NEW p \in Seq(S), NEW x \in S
  PROVE  p \o <<x>> = Append(p, x) /\ p \o <<>> = p
OBVIOUS

\* The namespace called s of a module is what the namespace s of the script imports.
LEMMA ModulesNamespace ==
  ASSUME NEW module \in Seq(Words), NEW s \in Words
  PROVE  /\ Counterpart(module, Append(Script, s)) = Append(module, s)
         /\ HasCounterpart(module, Append(Script, s)) <=> Append(module, s) \in spaces
         /\ Counterpart(module, Script) = module /\ HasCounterpart(module, Script)
<1> DEFINE of == Append(Script, s)
<1>1. Len(of) = 2 /\ Tail(of) = <<s>> /\ SubSeq(of, 2, 2) = <<s>>
  BY ScriptPath
<1>2. module \o <<s>> = Append(module, s) /\ module \o <<>> = module
  BY JoinedOne
<1> HIDE DEF of
<1>3. HasCounterpart(module, of) <=> module \o <<s>> \in spaces
  <2>1. 2 .. Len(of) = {2}
    BY <1>1
  <2> QED BY <1>1, <2>1 DEF HasCounterpart
<1>4. Counterpart(module, Script) = module
  <2>1. Tail(Script) = <<>>
    BY DEF Script
  <2> QED BY <1>2, <2>1 DEF Counterpart
<1>5. HasCounterpart(module, Script)
  <2>1. 2 .. Len(Script) = {}
    BY DEF Script
  <2> QED BY <2>1 DEF HasCounterpart
<1> QED BY <1>1, <1>2, <1>3, <1>4, <1>5 DEF Counterpart, of

LEMMA ModulePath ==
  ASSUME NEW m \in Modules
  PROVE  m \in Seq(Words)
<1>1. m \in Seq(ToSet(m))
  BY ScopesAssumption
<1>2. ToSet(m) \subseteq Words
  BY DEF Words
<1> DEFINE S == ToSet(m)
<1>3. m \in Seq(S) /\ S \subseteq Words
  BY <1>1, <1>2
<1> HIDE DEF S
<1> QED BY <1>3

LEMMA ParentLives ==
  ASSUME NEW h, Good(h), NEW i \in Live(h)
  PROVE  /\ Len(h[i].chain) \in Nat \ {0} /\ i \in Ids
         /\ Len(h[i].chain) > 1 => h[i].chain[2] \in Live(h)
<1>1. Chain(h, i) \in Seq(Live(h)) /\ Len(Chain(h, i)) \in Nat \ {0} /\ i \in Ids
  BY ChainNodes DEF Live
<1> QED BY <1>1 DEF Chain

LEMMA AlikeKept ==
  ASSUME NEW h, Good(h), NEW g, Good(g), NEW all, Alike(h, all), Keeps(h, g)
  PROVE  Alike(g, all)
<1> SUFFICES ASSUME NEW i \in Live(g), IsSpace(g[i]) PROVE IsAlike(g, i, all)
  BY DEF Alike
<1>1. i \in Live(h) /\ Twin(h[i], g[i])
  BY DEF Keeps
<1>2. IsSpace(h[i]) /\ IsAlike(h, i, all)
  BY <1>1 DEF Alike, IsSpace, Twin
<1>3. ASSUME Len(h[i].chain) > 1 PROVE Inside(g[g[i].chain[2]], g[i], all)
  <2> DEFINE up == h[i].chain[2]
  <2>1. up \in Live(h) /\ up \in Live(g) /\ g[i].chain[2] = up
    BY <1>1, <1>3, ParentLives DEF Twin
  <2>2. Twin(h[up], g[up])
    BY <2>1 DEF Keeps
  <2>3. Inside(h[up], h[i], all)
    BY <1>2, <1>3 DEF IsAlike
  <2> HIDE DEF up
  <2> QED BY <1>1, <2>1, <2>2, <2>3 DEF Inside, Twin, IsSpace
<1> QED BY <1>1, <1>2, <1>3 DEF IsAlike, Twin

\* What is freed, and what a lookup caches, change what no namespace imports.
LEMMA AlikeCollected ==
  ASSUME NEW g, Good(g), NEW all, Alike(g, all), NEW R, Good(Collected(g, R))
  PROVE  Alike(Collected(g, R), all)
<1> DEFINE c == Collected(g, R)
<1>1. \A i \in Ids : c[i] = g[i] \/ c[i] = None
  BY DEF Collected
<1> HIDE DEF c
<1>2. Keeps(g, c)
  BY <1>1 DEF Keeps, Live, Twin
<1>3. Good(c)
  BY DEF c
<1>4. Alike(c, all)
  BY <1>2, <1>3, AlikeKept
<1> QED BY <1>4 DEF c

LEMMA AlikeReread ==
  ASSUME NEW h, Good(h), NEW g, Reread(h, g), NEW all, Alike(h, all)
  PROVE  Alike(g, all)
<1>1. Good(g) /\ Live(g) = Live(h) /\ \A i \in Live(h) : Same(h[i], g[i])
  BY RereadFacts
<1>2. \A i \in Live(h) : Twin(h[i], g[i])
  BY <1>1, GoodNode, SameIsShape DEF Twin, SameShape
<1>3. Keeps(h, g)
  BY <1>1, <1>2 DEF Keeps
<1> QED BY <1>1, <1>3, AlikeKept

LEMMA AlikeOneMore ==
  ASSUME NEW h, Good(h), NEW g, NEW id, OneMore(h, g, id), ~IsSpace(g[id]), NEW all, Alike(h, all)
  PROVE  Alike(g, all)
<1>1. Good(g) /\ Live(g) = Live(h) \cup {id} /\ \A i \in Live(h) : g[i] = h[i]
  BY DEF OneMore
<1>2. Keeps(h, g)
  BY <1>1 DEF Keeps, Twin
<1> QED BY <1>1, <1>2, AlikeKept

-----------------------------------------------------------------------------
(* Copies, and what directives that import nothing leave alone. *)

LEMMA AlikeCloned ==
  ASSUME NEW h, Good(h), NEW id \in Live(h), Room(h, Len(Chain(h, id))), NEW all, Alike(h, all)
  PROVE  Alike(Cloned(h, id).heap, all)
<1> DEFINE c == Cloned(h, id)
           g == c.heap
           old == Chain(h, id)
           new == NewIds(h, Len(old))
<1>1. /\ Good(g) /\ Live(g) = Live(h) \cup ToSet(new)
      /\ \A i \in Live(h) : g[i] = h[i]
  BY ClonedGood
<1>2. /\ HasTails(h, id) /\ old \in Seq(Live(h)) /\ Len(old) \in Nat \ {0}
      /\ \A m \in 1 .. Len(old) : old[m] \in Live(h) /\ IsNode(h[old[m]])
  BY ChainNodes, GoodNode DEF HasChain
<1>3. new \in Seq(Ids) /\ Len(new) = Len(old) /\ DOMAIN new = 1 .. Len(old)
  BY <1>2, NewIdsSequence
<1>4. \A m \in 1 .. Len(old) : g[new[m]] = Copied(h[old[m]], new, m)
  <2>1. CopyOf(h, old, c, new)
    BY ClonedHeap
  <2> HIDE DEF new, c, old
  <2> QED BY <2>1 DEF CopyOf
<1> HIDE DEF g, new, c
<1>5. ASSUME NEW m \in 1 .. Len(old)
      PROVE  LET n == g[new[m]]
                 o == h[old[m]]
             IN /\ n.kind = o.kind /\ n.of = o.of /\ n.imports = o.imports
                /\ Len(n.chain) = Len(old) - m + 1 /\ Len(o.chain) = Len(old) - m + 1
                /\ Len(n.chain) > 1 => /\ m + 1 \in 1 .. Len(old)
                                       /\ n.chain[2] = new[m + 1] /\ o.chain[2] = old[m + 1]
  <2> DEFINE n == g[new[m]]
             o == h[old[m]]
  <2>1. /\ n.chain = SubSeq(new, m, Len(new))
        /\ \A field \in DOMAIN o \ {"cached", "chain"} : n[field] = o[field]
    <3>1. IsNode(o) /\ m \in 1 .. Len(new) /\ n = Copied(o, new, m)
      BY <1>2, <1>3, <1>4
    <3> HIDE DEF n, o
    <3>2. /\ Copied(o, new, m).chain = SubSeq(new, m, Len(new))
          /\ \A field \in DOMAIN o \ {"cached", "chain"} : Copied(o, new, m)[field] = o[field]
      BY <1>3, <3>1, CopiedNode
    <3> QED BY <3>1, <3>2
  <2>2. DOMAIN o = {"kind", "of", "chain", "imports", "spaceAliases", "aliases", "injected", "cached"}
    BY <1>2, NodeFields
  <2>3. n.kind = o.kind /\ n.of = o.of /\ n.imports = o.imports
    BY <2>1, <2>2
  <2>4. /\ Len(n.chain) = Len(old) - m + 1
        /\ Len(n.chain) > 1 => m + 1 \in 1 .. Len(old) /\ n.chain[2] = new[m + 1]
    BY <1>2, <1>3, <2>1
  <2>5. Len(o.chain) = Len(old) - m + 1 /\ \A k \in 1 .. Len(o.chain) : o.chain[k] = old[m + k - 1]
    BY <1>2 DEF HasTails, Chain
  <2>6. Len(o.chain) > 1 => o.chain[2] = old[m + 1]
    BY <1>2, <2>5
  <2> QED BY <2>3, <2>4, <2>5, <2>6
<1>6. ASSUME NEW i \in Live(g), IsSpace(g[i]) PROVE IsAlike(g, i, all)
  <2>1. CASE i \in Live(h)
    <3>1. IsAlike(h, i, all) /\ g[i] = h[i]
      BY <1>1, <1>6, <2>1 DEF Alike
    <3>2. Len(h[i].chain) > 1 => g[h[i].chain[2]] = h[h[i].chain[2]]
      BY <1>1, <2>1, ParentLives
    <3> QED BY <3>1, <3>2 DEF IsAlike
  <2>2. CASE i \in ToSet(new)
    <3>1. PICK m \in 1 .. Len(old) : i = new[m]
      BY <1>3, <2>2 DEF ToSet
    <3> DEFINE o == h[old[m]]
    <3>2. /\ g[i].kind = o.kind /\ g[i].of = o.of /\ g[i].imports = o.imports
          /\ Len(g[i].chain) = Len(o.chain)
          /\ Len(g[i].chain) > 1 => /\ m + 1 \in 1 .. Len(old)
                                    /\ g[i].chain[2] = new[m + 1] /\ o.chain[2] = old[m + 1]
      BY <1>5, <3>1
    <3>3. IsSpace(o) /\ IsAlike(h, old[m], all)
      BY <1>2, <1>6, <3>2 DEF Alike, IsSpace
    <3>4. ASSUME Len(g[i].chain) > 1 PROVE Inside(g[g[i].chain[2]], g[i], all)
      <4>1. Inside(h[old[m + 1]], o, all)
        BY <3>2, <3>3, <3>4 DEF IsAlike
      <4>2. g[i].chain[2] = new[m + 1] /\ m + 1 \in 1 .. Len(old)
        BY <3>2, <3>4
      <4>3. /\ g[new[m + 1]].kind = h[old[m + 1]].kind /\ g[new[m + 1]].of = h[old[m + 1]].of
            /\ g[new[m + 1]].imports = h[old[m + 1]].imports
        BY <1>5, <4>2
      <4> HIDE DEF o
      <4> QED BY <3>2, <4>1, <4>2, <4>3 DEF Inside, IsSpace
    <3> QED BY <3>2, <3>3, <3>4 DEF IsAlike
  <2> QED BY <1>1, <2>1, <2>2
<1> QED BY <1>6 DEF Alike, g, c

\* A node is replaced by one that imports the same.
LEMMA AlikeWritten ==
  ASSUME NEW h, Good(h), NEW into \in Live(h), NEW m, Wider(h[into], m), m.chain = h[into].chain,
         m.imports = h[into].imports, NEW all, Alike(h, all), NEW g, g = [h EXCEPT ![into] = m]
  PROVE  Alike(g, all)
<1>1. Rewritten(h, g) /\ g[into] = m /\ \A i \in Live(h) : i # into => g[i] = h[i]
  <2> DEFINE k == [h EXCEPT ![into] = m]
  <2>1. Rewritten(h, k)
    BY OneNode
  <2>2. h = [i \in Ids |-> h[i]] /\ into \in Ids
    BY DEF Good, Live
  <2>3. k[into] = m /\ \A i \in Live(h) : i # into => k[i] = h[i]
    BY <2>2 DEF Live
  <2>4. g = k
    OBVIOUS
  <2> HIDE DEF k
  <2> QED BY <2>1, <2>3, <2>4
<1>2. Good(g) /\ Live(g) = Live(h)
  BY <1>1, RewrittenGood
<1>3. Keeps(h, g)
  BY <1>1, <1>2 DEF Keeps, Twin, Wider
<1> QED BY <1>2, <1>3, AlikeKept

LEMMA AlikeWritable ==
  ASSUME NEW h, Good(h), NEW id \in Live(h), Room(h, Len(Chain(h, id))), NEW all, Alike(h, all)
  PROVE  LET w == Writable(h, id)
         IN Good(w.heap) /\ w.id \in Live(w.heap) /\ IsNode(w.heap[w.id]) /\ Alike(w.heap, all)
<1>1. CASE UseCount(h, id) # 1
  <2>1. Writable(h, id) = Cloned(h, id)
    BY <1>1 DEF Writable
  <2>2. Good(Cloned(h, id).heap) /\ Alike(Cloned(h, id).heap, all)
    BY ClonedGood, AlikeCloned
  <2> QED BY <2>1, <2>2, WritableNode
<1>2. CASE UseCount(h, id) = 1
  BY <1>2, GoodNode DEF Writable
<1> QED BY <1>1, <1>2

LEMMA AlikeEntities ==
  ASSUME NEW h, Good(h), NEW id \in Live(h), Room(h, Len(Chain(h, id))), NEW entities, NEW all, Alike(h, all)
  PROVE  Alike(InjectEntities(h, id, entities).heap, all)
<1> DEFINE w == Writable(h, id)
           n == w.heap[w.id]
           m == [n EXCEPT !.injected = @ \cup entities]
           g == InjectEntities(h, id, entities).heap
<1>1. Good(w.heap) /\ w.id \in Live(w.heap) /\ IsNode(n) /\ Alike(w.heap, all)
  BY AlikeWritable
<1>2. Wider(n, m) /\ m.chain = n.chain
  BY <1>1, EntitiesWider
<1>3. m.imports = n.imports
  BY <1>1, NodeFields
<1>4. g = [w.heap EXCEPT ![w.id] = m]
  BY DEF InjectEntities, Writable, Cloned
<1> HIDE DEF w, m, g
<1>5. Alike(g, all)
  BY <1>1, <1>2, <1>3, <1>4, AlikeWritten
<1> QED BY <1>5 DEF g

LEMMA AlikeAlias ==
  ASSUME NEW h, Good(h), NEW id \in Live(h), Room(h, Len(Chain(h, id))), NEW name, NEW entity, NEW all, Alike(h, all)
  PROVE  Alike(InjectAlias(h, id, name, entity).heap, all)
<1> DEFINE w == Writable(h, id)
           n == w.heap[w.id]
           others == {a \in n.aliases : a.name # name}
           m == [n EXCEPT !.aliases = others \cup {[name |-> name, entity |-> entity]}]
           g == InjectAlias(h, id, name, entity).heap
<1>1. Good(w.heap) /\ w.id \in Live(w.heap) /\ IsNode(n) /\ Alike(w.heap, all)
  BY AlikeWritable
<1>2. Wider(n, m) /\ m.chain = n.chain
  BY <1>1, AliasWider
<1>3. m.imports = n.imports
  BY <1>1, NodeFields
<1>4. g = [w.heap EXCEPT ![w.id] = m]
  BY DEF InjectAlias, Writable, Cloned
<1> HIDE DEF w, m, g
<1>5. Alike(g, all)
  BY <1>1, <1>2, <1>3, <1>4, AlikeWritten
<1> QED BY <1>5 DEF g

LEMMA AlikeSpaceAlias ==
  ASSUME NEW h, Good(h), NEW id \in Live(h), Room(h, Len(Chain(h, id))), NEW name, NEW target,
         \E i \in ToSet(Chain(h, id)) : HasNested(h[i], target), NEW all, Alike(h, all)
  PROVE  Alike(InjectSpaceAlias(h, id, name, target).heap, all)
<1> DEFINE c == Cloned(h, id)
           chain == Chain(c.heap, c.id)
           S == {k \in DOMAIN chain : HasNested(c.heap[chain[k]], target)}
           into == chain[FirstOf(S)]
           n == c.heap[into]
           aliases == {a \in n.spaceAliases : a.name # name} \cup {[name |-> name, target |-> target]}
           m == [n EXCEPT !.spaceAliases = aliases]
           g == InjectSpaceAlias(h, id, name, target).heap
<1>1. Good(c.heap) /\ c.id \in Live(c.heap) /\ Alike(c.heap, all)
  BY ClonedGood, AlikeCloned
<1>2. chain \in Seq(Live(c.heap)) /\ Len(chain) = Len(Chain(h, id))
  BY <1>1, GoodNode, CopyWider DEF HasChain
<1>3. S \subseteq Nat /\ S # {}
  <2>1. PICK k \in 1 .. Len(Chain(h, id)) : HasNested(h[Chain(h, id)[k]], target)
    BY ChainMembers
  <2>2. c.heap[chain[k]].kind = h[Chain(h, id)[k]].kind /\ c.heap[chain[k]].of = h[Chain(h, id)[k]].of
        /\ c.heap[chain[k]].imports = h[Chain(h, id)[k]].imports
    BY CopyWider
  <2> HIDE DEF c, chain
  <2>3. HasNested(c.heap[chain[k]], target)
    BY <2>1, <2>2 DEF HasNested, IsSpace
  <2> QED BY <1>2, <2>3
<1> HIDE DEF c, chain
<1>4. into \in Live(c.heap)
  <2>1. FirstOf(S) \in S
    BY <1>3, FirstIsLeast
  <2> QED BY <1>2, <2>1
<1> HIDE DEF S
<1>5. IsNode(n)
  BY <1>1, <1>4, GoodNode
<1> HIDE DEF aliases
<1>6. Wider(n, m) /\ m.chain = n.chain /\ m.imports = n.imports
  BY <1>5, SpaceAliasWider, NodeFields
<1>7. g = [c.heap EXCEPT ![into] = m]
  BY DEF InjectSpaceAlias, Cloned, c, S, aliases, chain
<1> HIDE DEF m, g, into
<1>8. Alike(g, all)
  BY <1>1, <1>4, <1>6, <1>7, AlikeWritten
<1> QED BY <1>8 DEF g

-----------------------------------------------------------------------------
(* What is imported. *)

LEMMA NextInChain ==
  ASSUME NEW h, Good(h), NEW id \in Live(h), NEW i \in ToSet(Chain(h, id)), Len(h[i].chain) > 1
  PROVE  /\ h[i].chain[2] \in ToSet(Chain(h, id)) /\ h[i].chain[2] # i
         /\ \A k \in 1 .. Len(Chain(h, id)) :
              h[i].chain[2] = Chain(h, id)[k] => k - 1 \in 1 .. Len(Chain(h, id)) /\ i = Chain(h, id)[k - 1]
<1> DEFINE chain == Chain(h, id)
           L == Len(chain)
<1>1. /\ L \in Nat /\ \A n \in 1 .. L : chain[n] \in ToSet(chain)
      /\ \A n \in 1 .. L : /\ Len(Chain(h, chain[n])) = L - n + 1
                           /\ \A m \in 1 .. Len(Chain(h, chain[n])) : Chain(h, chain[n])[m] = chain[n + m - 1]
  <2>1. HasTails(h, id) /\ L \in Nat /\ \A n \in 1 .. L : chain[n] \in ToSet(chain)
    BY GoodNode, ChainNodes, ChainElement DEF HasChain
  <2> QED BY <2>1 DEF HasTails
<1>2. PICK n \in 1 .. L : chain[n] = i
  BY ChainMembers
<1> HIDE DEF chain, L
<1>3. /\ Len(Chain(h, i)) = L - n + 1 /\ Len(Chain(h, i)) > 1
      /\ \A m \in 1 .. Len(Chain(h, i)) : Chain(h, i)[m] = chain[n + m - 1]
  BY <1>1, <1>2 DEF Chain
<1>4. n + 1 \in 1 .. L /\ Chain(h, i)[2] = chain[n + 1]
  BY <1>1, <1>3
<1>5. ASSUME NEW k \in 1 .. L, chain[k] = chain[n + 1] PROVE k - 1 = n
  <2>1. L - k + 1 = L - (n + 1) + 1
    BY <1>1, <1>4, <1>5
  <2> QED BY <1>1, <2>1
<1>6. chain[n + 1] # chain[n]
  <2>1. L - n + 1 # L - (n + 1) + 1
    BY <1>1
  <2> QED BY <1>1, <1>4, <2>1
<1>7. Chain(h, i) = h[i].chain
  BY DEF Chain
<1> QED BY <1>1, <1>2, <1>4, <1>5, <1>6, <1>7 DEF chain, L

\* What a namespace inside another one has imported grows.
LEMMA InsideWider ==
  ASSUME NEW outer, NEW n, NEW m, NEW all, Inside(outer, n, all), Wider(n, m)
  PROVE  Inside(outer, m, all)
BY DEF Inside, Wider

\* The heap after a copy: the nodes of the copy, and the others.
LEMMA CloneNodes ==
  ASSUME NEW h, Good(h), NEW id \in Live(h), Room(h, Len(Chain(h, id)))
  PROVE  LET c == Cloned(h, id)
             chain == Chain(c.heap, c.id)
         IN /\ Good(c.heap) /\ c.id \in Live(c.heap)
            /\ ToSet(chain) \subseteq Live(c.heap)
            /\ \A i \in Live(c.heap) \ ToSet(chain) :
                 Len(c.heap[i].chain) > 1 => c.heap[i].chain[2] \in Live(c.heap) \ ToSet(chain)
<1> DEFINE c == Cloned(h, id)
           g == c.heap
           chain == Chain(g, c.id)
<1>1. /\ Good(g) /\ c.id \in Live(g) /\ Live(g) = Live(h) \cup ToSet(chain) /\ ToSet(chain) \cap Live(h) = {}
      /\ \A i \in Live(h) : g[i] = h[i]
  BY ClonedGood
<1> HIDE DEF c, g, chain
<1>2. \A i \in Live(h) : Len(h[i].chain) > 1 => h[i].chain[2] \in Live(h)
  BY ParentLives
<1> QED BY <1>1, <1>2 DEF c, g, chain

LEMMA AlikeSpace ==
  ASSUME NEW h, Good(h), NEW id \in Live(h), Room(h, Len(Chain(h, id))), NEW all, Alike(h, all),
         NEW space, space.imports \in Seq(ToSet(space.imports)),
         {space.of} \cup ToSet(space.imports) \subseteq Seq(Words)
  PROVE  Alike(InjectSpace(h, id, space).heap, all)
<1> DEFINE c == Cloned(h, id)
           f == c.heap
           chain == Chain(f, c.id)
           S == {k \in DOMAIN chain : IsSpace(f[chain[k]])}
           into == InnermostSpace(f, c.id)
           n == f[into]
           m == Imported(n, space)
           g == InjectSpace(h, id, space).heap
<1>1. /\ Good(f) /\ c.id \in Live(f) /\ ToSet(chain) \subseteq Live(f)
      /\ \A i \in Live(f) \ ToSet(chain) : Len(f[i].chain) > 1 => f[i].chain[2] \in Live(f) \ ToSet(chain)
  BY CloneNodes
<1>2. Alike(f, all)
  BY AlikeCloned
<1>3. g = [f EXCEPT ![into] = m]
  BY DEF InjectSpace, Cloned
<1>4. into = chain[FirstOf(S)]
  BY DEF InnermostSpace
<1> HIDE DEF f, c, into, g
<1>5. DOMAIN chain = 1 .. Len(chain) /\ Len(chain) \in Nat \ {0} /\ IsSpace(f[chain[Len(chain)]])
  <2>1. chain \in Seq(Live(f)) /\ Len(chain) \in Nat \ {0} /\ IsSpace(f[chain[Len(chain)]])
    BY <1>1, ChainNodes
  <2> HIDE DEF chain
  <2> QED BY <2>1
<1> HIDE DEF chain
<1>6. FirstOf(S) \in S /\ \A k \in S : FirstOf(S) <= k
  <2>1. S \subseteq Nat /\ Len(chain) \in S
    BY <1>5
  <2> HIDE DEF S
  <2> QED BY <2>1, FirstIsLeast
<1>7. into \in ToSet(chain) /\ into \in Live(f) /\ IsSpace(n)
  <2>1. FirstOf(S) \in DOMAIN chain /\ IsSpace(f[chain[FirstOf(S)]])
    BY <1>6
  <2> HIDE DEF S
  <2> QED BY <1>1, <1>4, <2>1 DEF ToSet
<1>8. Wider(n, m) /\ m.chain = n.chain /\ ToSet(m.imports) = ToSet(n.imports) \cup {space.of} \cup ToSet(space.imports)
  <2>1. IsNode(n)
    BY <1>1, <1>7, GoodNode
  <2> QED BY <2>1, ImportedWider
<1> HIDE DEF m
<1>9. g[into] = m /\ \A i \in Live(f) : i # into => g[i] = f[i]
  <2>1. f = [i \in Ids |-> f[i]] /\ into \in Ids
    BY <1>1, <1>7 DEF Good, Live
  <2> QED BY <1>3, <2>1 DEF Live
<1>10. Live(g) = Live(f)
  <2>1. Rewritten(f, g)
    <3> DEFINE k == [f EXCEPT ![into] = m]
    <3>1. Rewritten(f, k)
      BY <1>1, <1>7, <1>8, OneNode
    <3> QED BY <1>3, <3>1
  <2> QED BY <1>1, <2>1, RewrittenGood
\* The scope is the innermost one of a namespace: no other is inside it.
<1>11. ASSUME NEW i \in Live(f), IsSpace(f[i]), Len(f[i].chain) > 1
       PROVE  f[i].chain[2] # into /\ f[i].chain[2] \in Live(f)
  <2>1. f[i].chain[2] \in Live(f)
    BY <1>1, <1>11, ParentLives
  <2>2. SUFFICES ASSUME f[i].chain[2] = into PROVE FALSE
    BY <2>1
  <2>3. i \in ToSet(chain)
    BY <1>1, <1>7, <1>11, <2>2
  <2>4. FirstOf(S) \in 1 .. Len(chain)
    BY <1>5, <1>6
  <2>5. FirstOf(S) - 1 \in 1 .. Len(chain) /\ i = chain[FirstOf(S) - 1]
    BY <1>1, <1>4, <1>11, <2>2, <2>3, <2>4, NextInChain DEF chain
  <2>6. FirstOf(S) - 1 \in S
    BY <1>5, <1>11, <2>5
  <2> HIDE DEF S
  <2>7. FirstOf(S) <= FirstOf(S) - 1 /\ FirstOf(S) \in Nat
    BY <1>5, <1>6, <2>4, <2>6
  <2> QED BY <2>7
<1> HIDE DEF n
<1>12. ASSUME NEW i \in Live(g), IsSpace(g[i]) PROVE IsAlike(g, i, all)
  <2>1. CASE i # into
    <3>1. g[i] = f[i] /\ i \in Live(f) /\ IsAlike(f, i, all)
      BY <1>2, <1>9, <1>10, <1>12, <2>1 DEF Alike
    <3>2. Len(f[i].chain) > 1 => g[f[i].chain[2]] = f[f[i].chain[2]]
      BY <1>9, <1>11, <1>12, <3>1
    <3> QED BY <3>1, <3>2 DEF IsAlike
  <2>2. CASE i = into
    <3>1. g[i] = m /\ IsAlike(f, into, all) /\ f[into] = n
      BY <1>2, <1>7, <1>9, <2>2 DEF Alike, n
    <3>2. ToSet(m.imports) \subseteq Seq(Words)
      BY <1>8, <3>1 DEF IsAlike
    <3>3. ASSUME Len(m.chain) > 1 PROVE Inside(g[m.chain[2]], m, all)
      <4>1. g[n.chain[2]] = f[n.chain[2]]
        BY <1>7, <1>8, <1>9, <1>11, <3>3 DEF n
      <4>2. Inside(f[n.chain[2]], n, all)
        BY <1>8, <3>1, <3>3 DEF IsAlike
      <4> QED BY <1>8, <4>1, <4>2, InsideWider
    <3>4. Len(m.chain) = 1 => m.of = Script
      BY <1>8, <3>1 DEF IsAlike, Wider
    <3> QED BY <3>1, <3>2, <3>3, <3>4 DEF IsAlike
  <2> QED BY <2>1, <2>2
<1> QED BY <1>12 DEF Alike, g

\* What a scope has imported after a merge with a module.
LEMMA MergedNode ==
  ASSUME NEW n, IsNode(n), NEW module
  PROVE  LET m == Imported(n, Node("NamespaceScope", Counterpart(module, n.of)))
         IN Wider(n, m) /\ m.chain = n.chain /\ ToSet(m.imports) = ToSet(n.imports) \cup {Counterpart(module, n.of)}
<1> DEFINE o == Node("NamespaceScope", Counterpart(module, n.of))
<1>1. o.imports = <<>> /\ o.of = Counterpart(module, n.of)
  BY NodeNew DEF NodeKinds
<1>2. ToSet(<<>>) = {} /\ <<>> \in Seq(ToSet(<<>>))
  BY DEF ToSet
<1> HIDE DEF o
<1>3. o.imports \in Seq(ToSet(o.imports)) /\ ToSet(o.imports) = {}
  BY <1>1, <1>2
<1> DEFINE m == Imported(n, o)
<1>4. Wider(n, m) /\ m.chain = n.chain /\ ToSet(m.imports) = ToSet(n.imports) \cup {o.of} \cup ToSet(o.imports)
  BY <1>3, ImportedWider
<1> HIDE DEF m
<1>5. Wider(n, m) /\ m.chain = n.chain /\ ToSet(m.imports) = ToSet(n.imports) \cup {Counterpart(module, n.of)}
  BY <1>1, <1>3, <1>4
<1> QED BY <1>5 DEF m, o

\* A namespace and the scope it is in import what a module has for them.
LEMMA InsideMerged ==
  ASSUME NEW outer, NEW n, Inside(outer, n, spaces), NEW module \in Seq(Words), NEW newOuter, NEW new,
         Wider(n, new), Wider(outer, newOuter),
         ToSet(newOuter.imports) = ToSet(outer.imports) \cup {Counterpart(module, outer.of)},
         HasCounterpart(module, n.of) => Counterpart(module, n.of) \in ToSet(new.imports)
  PROVE  Inside(newOuter, new, spaces)
<1>1. PICK s \in Spaces : n.of = Append(Script, s)
  BY DEF Inside
<1>2. s \in Words
  BY DEF Words
<1>3. /\ Last(n.of) = s /\ outer.of = Script /\ Counterpart(module, Script) = module
      /\ Counterpart(module, n.of) = Append(module, s)
      /\ Append(module, s) \in spaces => Append(module, s) \in ToSet(new.imports)
  BY <1>1, <1>2, ScriptPath, ModulesNamespace DEF Inside
<1>4. new.of = n.of /\ newOuter.of = Script /\ IsSpace(newOuter)
  BY <1>3 DEF Wider, Inside, IsSpace
<1>5. ASSUME NEW p \in ToSet(newOuter.imports), p[1] # Script[1], Append(p, Last(new.of)) \in spaces
      PROVE  Append(p, Last(new.of)) \in ToSet(new.imports)
  <2>1. CASE p \in ToSet(outer.imports)
    BY <1>4, <1>5, <2>1 DEF Inside, Wider
  <2>2. CASE p = module
    BY <1>3, <1>4, <1>5, <2>2
  <2> QED BY <1>3, <1>5, <2>1, <2>2
<1> QED BY <1>1, <1>4, <1>5 DEF Inside

LEMMA AlikeMerged ==
  ASSUME NEW h, Good(h), NEW id \in Live(h), Room(h, Len(Chain(h, id))), Alike(h, spaces), NEW module \in Seq(Words)
  PROVE  Alike(Merge(h, id, module).heap, spaces)
<1> DEFINE c == Cloned(h, id)
           f == c.heap
           chain == Chain(f, c.id)
           other(n) == Node("NamespaceScope", Counterpart(module, n.of))
           has(n) == IsSpace(n) /\ HasCounterpart(module, n.of)
           merged(n) == IF has(n) THEN Imported(n, other(n)) ELSE n
           g == Merge(h, id, module).heap
<1>1. /\ Good(f) /\ c.id \in Live(f) /\ ToSet(chain) \subseteq Live(f)
      /\ \A i \in Live(f) \ ToSet(chain) : Len(f[i].chain) > 1 => f[i].chain[2] \in Live(f) \ ToSet(chain)
  BY CloneNodes
<1>2. Alike(f, spaces)
  BY AlikeCloned
<1>3. g = [i \in Ids |-> IF i \in ToSet(chain) THEN merged(f[i]) ELSE f[i]]
  BY DEF Merge, Cloned
<1>4. ASSUME NEW n, IsNode(n)
      PROVE  /\ Wider(n, merged(n)) /\ merged(n).chain = n.chain
             /\ has(n) => ToSet(merged(n).imports) = ToSet(n.imports) \cup {Counterpart(module, n.of)}
             /\ ~has(n) => merged(n) = n
  BY <1>4, MergedNode, WiderSelf
<1> HIDE DEF merged, g, c, f, chain
<1>5. \A i \in Live(f) : f[i] # None /\ IsNode(f[i]) /\ i \in Ids
  BY <1>1, GoodNode
<1>6. ASSUME NEW i \in ToSet(chain)
      PROVE  /\ Wider(f[i], g[i]) /\ g[i].chain = f[i].chain
             /\ has(f[i]) => ToSet(g[i].imports) = ToSet(f[i].imports) \cup {Counterpart(module, f[i].of)}
             /\ ~has(f[i]) => g[i] = f[i]
  <2>1. IsNode(f[i]) /\ g[i] = merged(f[i])
    BY <1>1, <1>3, <1>5
  <2> HIDE DEF has
  <2> QED BY <1>4, <2>1
<1>7. \A i \in Live(f) \ ToSet(chain) : g[i] = f[i]
  BY <1>3, <1>5
<1>8. \A i \in Live(g) : i \in Live(f)
  <2>1. \A i \in Ids : i \notin ToSet(chain) => g[i] = f[i]
    BY <1>3
  <2> QED BY <1>1, <2>1 DEF Live
<1> HIDE DEF has
<1>9. ASSUME NEW i \in Live(g), IsSpace(g[i]) PROVE IsAlike(g, i, spaces)
  <2>1. CASE i \notin ToSet(chain)
    <3>1. i \in Live(f) /\ g[i] = f[i]
      BY <1>7, <1>8, <2>1
    <3>2. IsAlike(f, i, spaces)
      BY <1>2, <1>9, <3>1 DEF Alike
    <3>3. Len(f[i].chain) > 1 => g[f[i].chain[2]] = f[f[i].chain[2]]
      BY <1>1, <1>7, <2>1, <3>1
    <3> QED BY <3>1, <3>2, <3>3 DEF IsAlike
  <2>2. CASE i \in ToSet(chain)
    <3> DEFINE n == f[i]
               m == g[i]
    <3>1. /\ Wider(n, m) /\ m.chain = n.chain
          /\ has(n) => ToSet(m.imports) = ToSet(n.imports) \cup {Counterpart(module, n.of)}
          /\ ~has(n) => m = n
      BY <1>6, <2>2
    <3>2. IsSpace(n) /\ IsAlike(f, i, spaces)
      <4>1. IsSpace(n)
        BY <1>9, <3>1 DEF Wider, IsSpace
      <4> QED BY <1>2, <1>8, <4>1 DEF Alike
    <3>3. Counterpart(module, Script) = module /\ HasCounterpart(module, Script)
      <4>1. \E s : s \in Words
        BY DEF Words
      <4> QED BY <4>1, ModulesNamespace
    <3>4. CASE Len(n.chain) = 1
      <4>1. n.of = Script /\ ToSet(n.imports) \subseteq Seq(Words)
        BY <3>2, <3>4 DEF IsAlike
      <4>2. ToSet(m.imports) \subseteq Seq(Words)
        BY <3>1, <3>3, <4>1
      <4> QED BY <3>1, <3>4, <4>1, <4>2 DEF IsAlike, Wider
    <3>5. CASE Len(n.chain) > 1
      <4> DEFINE up == n.chain[2]
                 outer == f[up]
      <4>1. Inside(outer, n, spaces) /\ ToSet(n.imports) \subseteq Seq(Words)
        BY <3>2, <3>5 DEF IsAlike
      <4>2. up \in ToSet(chain)
        BY <1>1, <2>2, <3>5, NextInChain DEF chain
      <4>3. has(outer) /\ outer.of = Script
        BY <3>3, <4>1 DEF Inside, has
      <4>4. Wider(outer, g[up]) /\ ToSet(g[up].imports) = ToSet(outer.imports) \cup {Counterpart(module, outer.of)}
        BY <1>6, <4>2, <4>3
      <4>5. HasCounterpart(module, n.of) => Counterpart(module, n.of) \in ToSet(m.imports)
        BY <3>1, <3>2 DEF has
      <4>6. PICK s \in Spaces : n.of = Append(Script, s)
        BY <4>1 DEF Inside
      <4>7. Counterpart(module, n.of) \in Seq(Words)
        <5>1. s \in Words
          BY DEF Words
        <5> QED BY <4>6, <5>1, ModulesNamespace, AppendedFacts
      <4>8. ToSet(m.imports) \subseteq Seq(Words)
        BY <3>1, <4>1, <4>7
      <4> HIDE DEF up, outer, n, m
      <4>9. Inside(g[up], m, spaces)
        BY <3>1, <4>1, <4>4, <4>5, InsideMerged
      <4> QED BY <3>1, <3>5, <4>8, <4>9 DEF IsAlike, up, m
    <3>6. Len(n.chain) = 1 \/ Len(n.chain) > 1
      <4> DEFINE L == Len(n.chain)
      <4>1. L \in Nat \ {0}
        BY <1>1, <1>8, ParentLives
      <4> HIDE DEF L
      <4>2. L = 1 \/ L > 1
        BY <4>1
      <4> QED BY <4>2 DEF L
    <3> QED BY <3>4, <3>5, <3>6
  <2> QED BY <2>1, <2>2
<1> QED BY <1>9 DEF Alike, g

-----------------------------------------------------------------------------
(* The namespaces that are found. *)

\* The elements of a set of positions, in order.
Below(H, i) == {j \in H : j < i}

LEMMA RankedNth ==
  ASSUME NEW L \in Nat, NEW H, H \subseteq 1 .. L, NEW i \in H
  PROVE  /\ Cardinality(Below(H, i)) + 1 \in 1 .. Cardinality(H)
         /\ Nth(H, Cardinality(Below(H, i)) + 1) = i
<1>1. IsFiniteSet(H) /\ Cardinality(H) \in Nat
  <2>1. IsFiniteSet(1 .. L)
    BY FS_Interval
  <2> QED BY <2>1, FS_Subset, FS_CardinalityType
<1>2. \A j \in H : Below(H, j) \subseteq H /\ j \notin Below(H, j) /\ j \in Nat
  BY DEF Below
<1>3. \A j \in H : /\ IsFiniteSet(Below(H, j)) /\ Cardinality(Below(H, j)) \in Nat
                   /\ Cardinality(Below(H, j)) < Cardinality(H)
  <2> SUFFICES ASSUME NEW j \in H
               PROVE  /\ IsFiniteSet(Below(H, j)) /\ Cardinality(Below(H, j)) \in Nat
                      /\ Cardinality(Below(H, j)) < Cardinality(H)
    OBVIOUS
  <2> DEFINE B == Below(H, j)
  <2>1. B \subseteq H /\ B # H
    BY <1>2
  <2> HIDE DEF B
  <2>2. IsFiniteSet(B) /\ Cardinality(B) <= Cardinality(H) /\ Cardinality(H) # Cardinality(B)
    BY <1>1, <2>1, FS_Subset
  <2>3. Cardinality(B) \in Nat
    BY <2>2, FS_CardinalityType
  <2> QED BY <1>1, <2>2, <2>3 DEF B
<1>4. ASSUME NEW j \in H, NEW k \in H, j < k PROVE Cardinality(Below(H, j)) # Cardinality(Below(H, k))
  <2>1. Below(H, j) \subseteq Below(H, k) /\ Below(H, j) # Below(H, k)
    <3>3. j \in Nat /\ k \in Nat /\ \A m \in H : m \in Nat
      BY <1>2
    <3>1. j \in Below(H, k) /\ j \notin Below(H, j)
      BY <1>4, <3>3 DEF Below
    <3>2. Below(H, j) \subseteq Below(H, k)
      <4> SUFFICES ASSUME NEW m \in Below(H, j) PROVE m \in Below(H, k)
        OBVIOUS
      <4>1. m \in H /\ m < j /\ m \in Nat
        BY <3>3 DEF Below
      <4>2. m < k
        BY <1>4, <3>3, <4>1
      <4> QED BY <4>1, <4>2 DEF Below
    <3> QED BY <3>1, <3>2
  <2> QED BY <1>3, <2>1, FS_Subset
<1> DEFINE k == Cardinality(Below(H, i)) + 1
<1>5. k \in Nat /\ k - 1 = Cardinality(Below(H, i)) /\ k \in 1 .. Cardinality(H)
  BY <1>1, <1>3
<1> HIDE DEF k
<1>6. AtRank(H, k) = {i}
  <2>1. AtRank(H, k) = {j \in H : Cardinality(Below(H, j)) = Cardinality(Below(H, i))}
    BY <1>5 DEF AtRank, Below
  <2>2. ASSUME NEW j \in H, Cardinality(Below(H, j)) = Cardinality(Below(H, i)) PROVE j = i
    <3>1. ~(j < i) /\ ~(i < j)
      BY <1>4, <2>2
    <3> QED BY <1>2, <3>1
  <2> QED BY <2>1, <2>2
<1>7. Nth(H, k) = i
  BY <1>6 DEF Nth
<1> QED BY <1>5, <1>7 DEF k

LEMMA RanksTaken ==
  ASSUME NEW L \in Nat, NEW H, H \subseteq 1 .. L, NEW k \in 1 .. Cardinality(H)
  PROVE  AtRank(H, k) # {}
<1> DEFINE C == Cardinality(H)
           rank == [i \in H |-> Cardinality(Below(H, i)) + 1]
<1>1. IsFiniteSet(H) /\ C \in Nat
  <2>1. IsFiniteSet(1 .. L)
    BY FS_Interval
  <2> QED BY <2>1, FS_Subset, FS_CardinalityType
<1>2. \A i \in H : rank[i] = Cardinality(Below(H, i)) + 1 /\ rank[i] \in 1 .. C /\ Nth(H, rank[i]) = i
  BY RankedNth
<1>3. rank \in [H -> 1 .. C]
  BY <1>2
<1>4. \A i, j \in H : rank[i] = rank[j] => i = j
  BY <1>2
<1>5. IsFiniteSet(1 .. C) /\ Cardinality(1 .. C) = C
  BY <1>1, FS_Interval
<1> HIDE DEF C, rank
<1>6. rank \in Injection(H, 1 .. C)
  BY <1>3, <1>4 DEF Injection, IsInjective
<1>7. rank \in Surjection(H, 1 .. C)
  BY <1>5, <1>6, FS_Injection DEF C
<1>8. PICK i \in H : rank[i] = k
  BY <1>7 DEF Surjection, C
<1>9. \A j \in H : Cardinality(Below(H, j)) \in Nat
  <2> SUFFICES ASSUME NEW j \in H PROVE Cardinality(Below(H, j)) \in Nat
    OBVIOUS
  <2>1. Below(H, j) \subseteq H
    BY DEF Below
  <2> QED BY <1>1, <2>1, FS_Subset, FS_CardinalityType
<1>10. i \in AtRank(H, k)
  <2> DEFINE c == Cardinality(Below(H, i))
  <2>1. c \in Nat /\ k = c + 1
    BY <1>2, <1>8, <1>9
  <2> HIDE DEF c
  <2>2. c = k - 1
    BY <2>1
  <2> QED BY <2>2 DEF AtRank, Below, c
<1> QED BY <1>10

\* Each namespace of a name is found once, and nothing else.
LEMMA NestedHolds ==
  ASSUME NEW n, IsNode(n), NEW name, NEW all
  PROVE  /\ \A q \in ToSet(Outer(n)) : Append(q, name) \in all => Append(q, name) \in ToSet(Nested(n, name, all))
         /\ \A p \in ToSet(Nested(n, name, all)) : \E q \in ToSet(Outer(n)) : p = Append(q, name)
         /\ Append(n.of, name) \in all =>
              Len(Nested(n, name, all)) > 0 /\ Nested(n, name, all)[1] = Append(n.of, name)
<1> DEFINE H == Holders(n, name, all)
           C == Cardinality(H)
           s == Nested(n, name, all)
           out == Outer(n)
<1>1. DOMAIN out = 1 .. Len(out) /\ out[1] = n.of /\ Len(out) \in Nat /\ Len(out) > 0
  BY OuterSequence
<1>2. C \in Nat /\ H \subseteq 1 .. Len(out) /\ H = {i \in DOMAIN out : Append(out[i], name) \in all}
  BY HoldersCounted DEF Holders
<1>3. s \in Seq(ToSet(s)) /\ Len(s) = C /\ \A k \in 1 .. C : s[k] = Append(out[Nth(H, k)], name)
  BY NestedIsSequence
<1>4. DOMAIN s = 1 .. C
  BY <1>2, <1>3
<1> HIDE DEF H, C, s, out
<1>5. ASSUME NEW i \in H
      PROVE  LET k == Cardinality(Below(H, i)) + 1 IN k \in 1 .. C /\ s[k] = Append(out[i], name)
  <2> DEFINE L == Len(out)
             k == Cardinality(Below(H, i)) + 1
  <2>1. L \in Nat /\ H \subseteq 1 .. L
    BY <1>1, <1>2
  <2> HIDE DEF L
  <2>2. k \in 1 .. C /\ Nth(H, k) = i
    BY <2>1, RankedNth DEF C
  <2> HIDE DEF k
  <2>3. k \in 1 .. C /\ s[k] = Append(out[i], name)
    BY <1>3, <2>2
  <2> QED BY <2>3 DEF k
<1>6. ASSUME NEW q \in ToSet(out), Append(q, name) \in all PROVE Append(q, name) \in ToSet(s)
  <2>1. PICK i \in H : out[i] = q
    BY <1>1, <1>2, <1>6 DEF ToSet
  <2>2. \E k \in DOMAIN s : s[k] = Append(q, name)
    BY <1>4, <1>5, <2>1
  <2> QED BY <2>2 DEF ToSet
<1>7. ASSUME NEW p \in ToSet(s) PROVE \E q \in ToSet(out) : p = Append(q, name)
  <2>1. PICK k \in 1 .. C : s[k] = p
    BY <1>4 DEF ToSet
  <2>2. AtRank(H, k) # {}
    BY <1>1, <1>2, RanksTaken DEF C
  <2>3. Nth(H, k) \in DOMAIN out
    BY <1>2, <2>2 DEF Nth, AtRank
  <2> QED BY <1>3, <2>1, <2>3 DEF ToSet
<1>8. ASSUME Append(n.of, name) \in all PROVE C > 0 /\ s[1] = Append(n.of, name)
  <2>1. 1 \in H
    BY <1>1, <1>2, <1>8
  <2>2. Below(H, 1) = {}
    BY <1>2 DEF Below
  <2>3. Cardinality(Below(H, 1)) + 1 = 1
    BY <2>2, FS_EmptySet
  <2>4. 1 \in 1 .. C /\ s[1] = Append(out[1], name)
    BY <1>5, <2>1, <2>3
  <2> QED BY <1>1, <1>2, <2>4
<1> QED BY <1>3, <1>6, <1>7, <1>8 DEF s, out

\* The namespaces in a scope have the paths of what it has imported, and more.
LEMMA NestedPaths ==
  ASSUME NEW n, IsNode(n), NEW name \in Words, NEW all, {n.of} \cup ToSet(n.imports) \subseteq Seq(Words)
  PROVE  ToSet(Nested(n, name, all)) \subseteq Seq(Words)
<1>1. \A p \in ToSet(Nested(n, name, all)) : \E q \in ToSet(Outer(n)) : p = Append(q, name)
  BY NestedHolds
<1>2. ToSet(Outer(n)) \subseteq Seq(Words)
  BY OuterSequence
<1>3. \A q \in Seq(Words) : Append(q, name) \in Seq(Words)
  BY AppendedFacts
<1> QED BY <1>1, <1>2, <1>3

LEMMA TailInside ==
  ASSUME NEW s, s \in Seq(ToSet(s)), Len(s) > 0
  PROVE  ToSet(Tail(s)) \subseteq ToSet(s) /\ s[1] \in ToSet(s)
<1> DEFINE S == ToSet(s)
           t == Tail(s)
<1>1. s \in Seq(S)
  OBVIOUS
<1> HIDE DEF S
<1>2. t \in Seq(S) /\ DOMAIN t = 1 .. Len(t) /\ s[1] \in S
  BY <1>1
<1> HIDE DEF t
<1>3. ToSet(t) \subseteq S
  BY <1>2 DEF ToSet
<1> QED BY <1>2, <1>3 DEF S, t

\* A namespace scope has the path of the script, or of a namespace in it.
LEMMA SpacePath ==
  ASSUME NEW h, Good(h), NEW all, Alike(h, all), NEW i \in Live(h), IsSpace(h[i])
  PROVE  /\ {h[i].of} \cup ToSet(h[i].imports) \subseteq Seq(Words)
         /\ Len(h[i].of) = 1 => h[i].of = Script
<1>1. IsAlike(h, i, all)
  BY DEF Alike
<1>2. Len(h[i].chain) = 1 \/ Len(h[i].chain) > 1
  <2> DEFINE L == Len(h[i].chain)
  <2>1. L \in Nat \ {0}
    BY ParentLives
  <2> HIDE DEF L
  <2>2. L = 1 \/ L > 1
    BY <2>1
  <2> QED BY <2>2 DEF L
<1>3. CASE Len(h[i].chain) = 1
  BY <1>1, <1>3, ScriptIsPath DEF IsAlike
<1>4. CASE Len(h[i].chain) > 1
  <2>1. PICK s \in Spaces : h[i].of = Append(Script, s)
    BY <1>1, <1>4 DEF IsAlike, Inside
  <2>2. Append(Script, s) \in Seq(Words) /\ Len(Append(Script, s)) = 2
    <3>1. s \in Words
      BY DEF Words
    <3> QED BY <3>1, ScriptPath
  <2> QED BY <1>1, <2>1, <2>2 DEF IsAlike
<1> QED BY <1>2, <1>3, <1>4

\* The paths of a namespace that a lookup has found.
LEMMA FoundPaths ==
  ASSUME NEW h, Good(h), NEW all, Alike(h, all), NEW id \in Live(h), NEW name \in Words,
         Lookup(h, id, name).result.space # None
  PROVE  LET space == Lookup(h, id, name).result.space
         IN {space.of} \cup ToSet(space.imports) \subseteq Seq(Words)
<1> DEFINE chain == Chain(h, id)
           found == {n \in DOMAIN chain : LookupIn(h[chain[n]], name) # Nothing}
           last == IF found = {} THEN Len(chain) ELSE FirstOf(found)
           r == Lookup(h, id, name).result
<1>1. chain \in Seq(Live(h)) /\ Len(chain) > 0 /\ Len(chain) \in Nat
  BY GoodNode DEF HasChain
<1>2. found \subseteq 1 .. Len(chain)
  BY <1>1
<1>3. last \in 1 .. Len(chain)
  <2>1. found \subseteq Nat
    BY <1>1, <1>2
  <2> HIDE DEF found, chain
  <2>2. CASE found = {}
    <3>1. last = Len(chain)
      BY <2>2
    <3> QED BY <1>1, <3>1
  <2>3. CASE found # {}
    <3>1. last = FirstOf(found) /\ FirstOf(found) \in found
      BY <2>1, <2>3, FirstIsLeast
    <3> QED BY <1>2, <3>1
  <2> QED BY <2>2, <2>3
<1>4. r = LookupIn(h[chain[last]], name)
  BY DEF Lookup
<1> HIDE DEF last
<1> DEFINE i == chain[last]
           n == h[i]
           s == Nested(n, name, spaces)
<1>5. i \in Live(h) /\ IsNode(n)
  BY <1>1, <1>3, GoodNode
<1>6. HasNested(n, name) /\ r.space = ChildScope(n, name)
  BY <1>4 DEF LookupIn, Nothing
<1> HIDE DEF i, r
<1>7. s \in Seq(ToSet(s)) /\ Len(s) > 0 /\ r.space.of = s[1] /\ r.space.imports = Tail(s)
  BY <1>5, <1>6, NestedIsSequence, NestedSome, ChildScopeNode
<1>8. {n.of} \cup ToSet(n.imports) \subseteq Seq(Words)
  BY <1>5, <1>6, SpacePath DEF HasNested
<1>9. ToSet(s) \subseteq Seq(Words)
  BY <1>5, <1>8, NestedPaths
<1> HIDE DEF s
<1>10. s[1] \in ToSet(s) /\ ToSet(Tail(s)) \subseteq ToSet(s)
  BY <1>7, TailInside
<1>11. {r.space.of} \cup ToSet(r.space.imports) \subseteq Seq(Words)
  BY <1>7, <1>9, <1>10
<1> QED BY <1>11 DEF r

-----------------------------------------------------------------------------
(* A namespace is opened. *)

\* A new namespace of the script is none of what its namespaces have imported.
LEMMA AlikeNamed ==
  ASSUME NEW h, Good(h), NEW all, Alike(h, all), NEW name \in Spaces, NEW more, more = all \cup {Append(Script, name)}
  PROVE  Alike(h, more)
<1> SUFFICES ASSUME NEW i \in Live(h), IsSpace(h[i]) PROVE IsAlike(h, i, more)
  BY DEF Alike
<1>1. IsAlike(h, i, all)
  BY DEF Alike
<1>2. ASSUME Len(h[i].chain) > 1 PROVE Inside(h[h[i].chain[2]], h[i], more)
  <2> DEFINE n == h[i]
             up == n.chain[2]
             outer == h[up]
  <2>1. Inside(outer, n, all) /\ up \in Live(h)
    BY <1>1, <1>2, ParentLives DEF IsAlike
  <2>2. ToSet(outer.imports) \subseteq Seq(Words)
    BY <2>1, SpacePath DEF Inside
  <2>3. PICK s \in Spaces : n.of = Append(Script, s)
    BY <2>1 DEF Inside
  <2>4. s \in Words /\ name \in Words
    BY DEF Words
  <2>5. Last(n.of) = s
    BY <2>3, <2>4, ScriptPath
  <2> HIDE DEF outer, n
  <2>6. ASSUME NEW p \in ToSet(outer.imports), p[1] # Script[1] PROVE Append(p, s) # Append(Script, name)
    <3>1. Append(p, s) = Append(Script, name) => p = Script
      BY <2>2, <2>4, LastAppended, ScriptIsPath
    <3> QED BY <2>6, <3>1
  <2>7. Inside(outer, n, more)
    BY <2>1, <2>5, <2>6 DEF Inside
  <2> QED BY <2>7 DEF outer, n
<1> QED BY <1>1, <1>2 DEF IsAlike

\* The scope of a namespace has imported what the namespaces of its name hold that
\* there are in what the scope it is in has imported.
LEMMA InsideOpened ==
  ASSUME NEW outer, IsNode(outer), IsSpace(outer), outer.of = Script, ToSet(outer.imports) \subseteq Seq(Words),
         NEW name \in Spaces, NEW all, Append(Script, name) \in all,
         NEW n, n.of = Append(Script, name), n.imports = Tail(Nested(outer, name, all)),
         NEW up, up.kind = outer.kind, up.of = outer.of, up.imports = outer.imports
  PROVE  Inside(up, n, all)
<1> DEFINE s == Nested(outer, name, all)
<1>1. name \in Words
  BY DEF Words
<1>2. Last(n.of) = name
  BY <1>1, ScriptPath
<1>3. s \in Seq(ToSet(s)) /\ Len(s) > 0 /\ s[1] = Append(Script, name)
  BY NestedIsSequence, NestedHolds
<1>4. \A p \in ToSet(outer.imports) : Append(p, name) \in all => Append(p, name) \in ToSet(s)
  BY NestedHolds, OuterSequence
<1> HIDE DEF s
<1>5. ToSet(s) \subseteq {s[1]} \cup ToSet(Tail(s))
  BY <1>3, TailSequence
<1>6. ASSUME NEW p \in ToSet(outer.imports), p[1] # Script[1], Append(p, name) \in all
      PROVE  Append(p, name) \in ToSet(Tail(s))
  <2>1. Append(p, name) # Append(Script, name)
    <3>1. Append(p, name) = Append(Script, name) => p = Script
      BY <1>1, LastAppended, ScriptIsPath
    <3> QED BY <1>6, <3>1
  <2> QED BY <1>3, <1>4, <1>5, <1>6, <2>1
<1> QED BY <1>2, <1>6 DEF Inside, IsSpace, s

LEMMA AlikeOpened ==
  ASSUME NEW h, Good(h), NEW all, Alike(h, all), NEW cur \in Live(h), IsSpace(h[cur]),
         NEW outer, IsNode(outer), outer.kind = h[cur].kind, outer.of = h[cur].of, outer.imports = h[cur].imports,
         Len(outer.of) = 1, NEW name \in Spaces, Append(Script, name) \in all,
         NEW id \in Ids, h[id] = None, NEW n, IsNode(n), n.of = Append(Script, name),
         n.imports = Tail(Nested(outer, name, all))
  PROVE  Alike(WithNode(h, id, n, cur), all)
<1> DEFINE g == WithNode(h, id, n, cur)
           up == Chain(h, cur)
           chain == <<id>> \o up
           new == [n EXCEPT !.chain = chain]
<1>1. up \in Seq(Ids) /\ Len(up) \in Nat \ {0} /\ up[1] = cur /\ chain \in Seq(Ids)
  <2>1. up \in Seq(Live(h)) /\ Len(up) \in Nat \ {0} /\ up[1] = cur
    BY ChainNodes, GoodNode DEF HasChain
  <2>2. Live(h) \subseteq Ids
    BY DEF Live
  <2> HIDE DEF up
  <2> QED BY <2>1, <2>2
<1>2. Len(chain) > 1 /\ chain[2] = cur
  <2> HIDE DEF up
  <2> QED BY <1>1
<1>3. OneMore(h, g, id)
  BY WithNodeGood
<1>4. g[id] = new
  <2>1. h = [i \in Ids |-> h[i]]
    BY DEF Good
  <2> QED BY <2>1 DEF WithNode
<1> HIDE DEF g, up, chain
<1>5. new.chain = chain /\ new.of = n.of /\ new.imports = n.imports
  <2>1. DOMAIN n = {"kind", "of", "chain", "imports", "spaceAliases", "aliases", "injected", "cached"}
    BY NodeFields
  <2> QED BY <2>1
<1> HIDE DEF new
<1>6. Good(g) /\ Live(g) = Live(h) \cup {id} /\ \A i \in Live(h) : g[i] = h[i]
  BY <1>3 DEF OneMore
<1>7. outer.of = Script /\ ToSet(outer.imports) \subseteq Seq(Words) /\ IsSpace(outer) /\ {outer.of} \subseteq Seq(Words)
  BY SpacePath DEF IsSpace
<1>8. Inside(h[cur], new, all)
  BY <1>5, <1>7, InsideOpened
<1>9. ToSet(new.imports) \subseteq Seq(Words)
  <2> DEFINE s == Nested(outer, name, all)
  <2>1. name \in Words
    BY DEF Words
  <2>2. ToSet(s) \subseteq Seq(Words)
    BY <1>7, <2>1, NestedPaths
  <2>3. s \in Seq(ToSet(s)) /\ Len(s) > 0
    BY <1>7, NestedIsSequence, NestedHolds
  <2> HIDE DEF s
  <2>4. ToSet(Tail(s)) \subseteq ToSet(s)
    BY <2>3, TailInside
  <2> QED BY <1>5, <2>2, <2>4 DEF s
<1>10. ASSUME NEW i \in Live(g), IsSpace(g[i]) PROVE IsAlike(g, i, all)
  <2>1. CASE i = id
    <3>1. g[cur] = h[cur]
      BY <1>6
    <3>2. Len(new.chain) # 1
      <4> DEFINE L == Len(chain)
      <4>1. L \in Nat /\ L > 1
        BY <1>1, <1>2
      <4> HIDE DEF L
      <4>2. L # 1
        BY <4>1
      <4> QED BY <1>5, <4>2 DEF L
    <3> QED BY <1>2, <1>4, <1>5, <1>8, <1>9, <2>1, <3>1, <3>2 DEF IsAlike
  <2>2. CASE i # id
    <3>1. i \in Live(h) /\ g[i] = h[i] /\ IsAlike(h, i, all)
      BY <1>6, <1>10, <2>2 DEF Alike
    <3>2. Len(h[i].chain) > 1 => g[h[i].chain[2]] = h[h[i].chain[2]]
      BY <1>6, <3>1, ParentLives
    <3> QED BY <3>1, <3>2 DEF IsAlike
  <2> QED BY <2>1, <2>2
<1> QED BY <1>10 DEF Alike, g

-----------------------------------------------------------------------------
(* The steps. *)

AlikeInv == ScopeInv /\ Alike(heap, spaces)

\* What the step makes of the heap, without what is freed.
LEMMA AlikeBecomes ==
  ASSUME ScopeInv', NEW g, Good(g), Alike(g, spaces'), NEW f, NEW t, NEW i, NEW b, Becomes(g, f, t, i, b)
  PROVE  Alike(heap, spaces)'
<1> DEFINE c == Collected(g, Roots(f, t, i, b))
<1>1. heap' = c
  BY DEF Becomes
<1>2. Good(heap')
  BY DEF ScopeInv, HeapInv
<1> HIDE DEF c
<1>3. Good(c)
  BY <1>1, <1>2
<1>4. \A x : x = spaces' => Alike(c, x)
  BY <1>3, AlikeCollected DEF c
<1>5. Alike(c, spaces')
  BY <1>4
<1>6. \A x, y : x = heap' /\ y = spaces' => Alike(x, y)
  BY <1>1, <1>5
<1> QED BY <1>6

\* A scope that has no namespace in it becomes part of the heap.
LEMMA AlikePlaced ==
  ASSUME NEW h, Good(h), NEW all, Alike(h, all), NEW cur \in Live(h), NEW id \in Ids, h[id] = None,
         NEW kind \in {"ClassScope", "FunctionScope"}, NEW of
  PROVE  LET g == WithNode(h, id, Node(kind, of), cur) IN OneMore(h, g, id) /\ Alike(g, all)
<1> DEFINE n == Node(kind, of)
           g == WithNode(h, id, n, cur)
           chain == <<id>> \o Chain(h, cur)
           new == [n EXCEPT !.chain = chain]
<1>1. IsNode(n) /\ n.kind = kind
  BY NodeNew DEF NodeKinds
<1> HIDE DEF n
<1>2. OneMore(h, g, id)
  BY <1>1, WithNodeGood
<1>3. g[id] = new
  <2>1. h = [i \in Ids |-> h[i]]
    BY DEF Good
  <2> QED BY <2>1 DEF WithNode
<1> HIDE DEF chain, g
<1>4. new.kind = kind
  <2>1. DOMAIN n = {"kind", "of", "chain", "imports", "spaceAliases", "aliases", "injected", "cached"}
    BY <1>1, NodeFields
  <2> QED BY <1>1, <2>1
<1> HIDE DEF new
<1>5. ~IsSpace(g[id])
  BY <1>3, <1>4 DEF IsSpace
<1>6. Alike(g, all)
  BY <1>2, <1>5, AlikeOneMore
<1> QED BY <1>2, <1>6 DEF g, n

LEMMA OpenNamespaceAlike ==
  ASSUME AlikeInv, ScopeInv', NEW name \in Spaces, OpenNamespace(name)
  PROVE  Alike(heap, spaces)'
<1> DEFINE n == heap[Current]
           node(all) == [Node("NamespaceScope", Append(Here, name)) EXCEPT !.imports = Tail(Nested(n, name, all))]
           h == [heap EXCEPT ![Current] = Read(@, "class")]
           id == NewId(h, 1)
<1>1. /\ phase # "compile" /\ HasRoom(Current) /\ IsSpace(n) /\ Len(n.of) = 1
      /\ spaces' = spaces \cup {Append(Here, name)}
      /\ Becomes(WithNode(h, id, node(spaces'), Current), Append(frames, id), tasks, incomplete, body)
  BY DEF OpenNamespace, Declaring, Placed, Here
<1>2. Current \in Live(heap) /\ Good(heap) /\ IsNode(n) /\ Alike(heap, spaces)
  BY <1>1, NoBody, GoodNode DEF AlikeInv
<1>3. Here = Script /\ n.of = Script
  BY <1>1, <1>2, SpacePath DEF Here
<1>4. Reread(heap, h)
  <2>1. h = [i \in Ids |-> IF i = Current THEN Read(heap[i], "class") ELSE heap[i]]
    BY <1>2 DEF Good, Live
  <2>2. ASSUME NEW i \in Ids PROVE IF heap[i] = None THEN h[i] = None ELSE Same(heap[i], h[i])
    <3>1. CASE heap[i] = None
      BY <1>2, <2>1, <3>1 DEF Live
    <3>2. CASE heap[i] # None
      <4>1. IsNode(heap[i]) /\ Same(heap[i], Read(heap[i], "class")) /\ Same(heap[i], heap[i])
        BY <1>2, <3>2, GoodNode, ReadSame DEF Live, Same, Kinds
      <4> HIDE DEF h
      <4> QED BY <2>1, <3>2, <4>1
    <3> QED BY <3>1, <3>2
  <2> HIDE DEF h
  <2> QED BY <2>1, <2>2 DEF Reread
<1> HIDE DEF h
<1>5. Good(h) /\ Current \in Live(h) /\ Same(n, h[Current]) /\ Room(h, Len(Chain(h, Current)) + 1)
      /\ Len(Chain(h, Current)) \in Nat \ {0}
  BY <1>1, <1>2, <1>4, RereadFacts, HasRoomThere
<1>6. id \in Ids /\ h[id] = None
  <2> DEFINE L == Len(Chain(h, Current)) + 1
  <2>1. L \in Nat /\ 1 \in 1 .. L /\ Room(h, L)
    BY <1>5
  <2> HIDE DEF L
  <2> QED BY <2>1, NewIdIsFree
<1>7. h[Current].kind = n.kind /\ h[Current].of = n.of /\ h[Current].imports = n.imports
  BY <1>2, <1>5, SameIsShape DEF SameShape
<1> HIDE DEF id
<1>8. ASSUME NEW all, all = spaces \cup {Append(Script, name)}
      PROVE  Good(WithNode(h, id, node(all), Current)) /\ Alike(WithNode(h, id, node(all), Current), all)
  <2> DEFINE s == Nested(n, name, all)
             m == node(all)
             path == Append(Script, name)
             imports == Tail(s)
  <2>1. s \in Seq(ToSet(s)) /\ Len(s) > 0
    <3>1. Append(n.of, name) \in all
      BY <1>3, <1>8
    <3> QED BY <1>2, <3>1, NestedIsSequence, NestedHolds
  <2>2. m = [Node("NamespaceScope", path) EXCEPT !.imports = imports]
    BY <1>3
  <2> HIDE DEF s, m, path
  <2>3. imports \in Seq(ToSet(imports))
    BY <2>1, TailSequence
  <2> HIDE DEF imports
  <2>4. IsNode(m) /\ m.of = path /\ m.imports = imports
    BY <2>2, <2>3, SpaceNode
  <2>5. Alike(heap, all)
    BY <1>2, <1>8, AlikeNamed
  <2>6. Alike(h, all)
    BY <1>2, <1>4, <2>5, AlikeReread
  <2>7. IsSpace(h[Current])
    BY <1>1, <1>7 DEF IsSpace
  <2>8. Good(WithNode(h, id, m, Current))
    BY <1>5, <1>6, <2>4, WithNodeGood DEF OneMore
  <2>9. Append(Script, name) \in all /\ m.of = Append(Script, name) /\ m.imports = Tail(Nested(n, name, all))
    BY <1>8, <2>4 DEF path, imports, s
  <2>10. Alike(WithNode(h, id, m, Current), all)
    BY <1>1, <1>2, <1>5, <1>6, <1>7, <2>4, <2>6, <2>7, <2>9, AlikeOpened
  <2> QED BY <2>8, <2>10 DEF m
<1> HIDE DEF node
<1>9. \A x : x = spaces' => Good(WithNode(h, id, node(x), Current)) /\ Alike(WithNode(h, id, node(x), Current), x)
  BY <1>1, <1>3, <1>8
<1>10. Good(WithNode(h, id, node(spaces'), Current)) /\ Alike(WithNode(h, id, node(spaces'), Current), spaces')
  BY <1>9
<1> DEFINE g == WithNode(h, id, node(spaces'), Current)
           f == Append(frames, id)
<1>11. Good(g) /\ Alike(g, spaces') /\ Becomes(g, f, tasks, incomplete, body)
  BY <1>1, <1>10
<1> HIDE DEF g, f
<1> QED BY <1>11, AlikeBecomes

LEMMA AlikeStep ==
  ASSUME ScopeInv', spaces' = spaces, NEW g, Good(g), Alike(g, spaces), NEW f, NEW t, NEW i, NEW b, Becomes(g, f, t, i, b)
  PROVE  Alike(heap, spaces)'
<1>1. \A x : x = spaces => Alike(g, x)
  OBVIOUS
<1>2. Alike(g, spaces')
  BY <1>1
<1> QED BY <1>2, AlikeBecomes

\* A directive, in a declaration or in a body.
LEMMA AlikeDirected ==
  ASSUME ScopeInv', spaces' = spaces, NEW h, NEW id, NEW r, Directs(h, id, r), Alike(r.heap, spaces),
         Processed(r) \/ InBody(r)
  PROVE  Alike(heap, spaces)'
<1> DEFINE g == r.heap
           f == IF Len(frames) = 1 THEN <<r.id>> ELSE frames
           b == [body EXCEPT !.top = r.id]
<1>1. Good(g) /\ Alike(g, spaces)
  BY DEF Directs
<1>2. Becomes(g, f, tasks, incomplete, body) \/ Becomes(g, frames, tasks, incomplete, b)
  BY DEF Processed, InBody
<1> HIDE DEF g, f, b
<1> QED BY <1>1, <1>2, AlikeStep

LEMMA DeclarationsAlike ==
  ASSUME AlikeInv, ScopeInv', NEW name,
         \/ DeclareClass(name) \/ OpenClass(name) \/ AccessSpecifier \/ Close
         \/ \E type : DeclareFunction(name, type)
  PROVE  Alike(heap, spaces)'
<1>1. phase # "compile" /\ spaces' = spaces /\ ScopeInv
  BY DEF DeclareClass, OpenClass, AccessSpecifier, Close, DeclareFunction, Declaring, AlikeInv
<1>2. Current \in Live(heap) /\ Good(heap) /\ Alike(heap, spaces)
  BY <1>1, NoBody DEF AlikeInv
<1>3. CASE DeclareClass(name)
  <2> DEFINE h == Invalidated(heap, Current, "class")
  <2>1. Reread(heap, h)
    BY <1>2, InvalidatedRereads DEF Kinds
  <2>2. Good(h) /\ Alike(h, spaces)
    BY <1>2, <2>1, RereadFacts, AlikeReread
  <2>3. Becomes(h, frames, tasks, incomplete, body)
    BY <1>3 DEF DeclareClass
  <2> HIDE DEF h
  <2> QED BY <1>1, <2>2, <2>3, AlikeStep
<1>4. CASE OpenClass(name)
  <2> DEFINE h == Invalidated(heap, Current, "class")
             id == NewId(h, 1)
             of == Append(Here, name)
             g == WithNode(h, id, Node("ClassScope", of), Current)
             f == Append(frames, id)
  <2>1. HasRoom(Current) /\ Becomes(g, f, tasks, incomplete, body)
    BY <1>4 DEF OpenClass, Declaring, Placed
  <2>2. Reread(heap, h)
    BY <1>2, InvalidatedRereads DEF Kinds
  <2> HIDE DEF h
  <2>3. /\ Good(h) /\ Alike(h, spaces) /\ Current \in Live(h) /\ Room(h, Len(Chain(h, Current)) + 1)
        /\ Len(Chain(h, Current)) \in Nat \ {0}
    BY <1>2, <2>1, <2>2, RereadFacts, AlikeReread, HasRoomThere
  <2>4. id \in Ids /\ h[id] = None
    <3> DEFINE L == Len(Chain(h, Current)) + 1
    <3>1. L \in Nat /\ 1 \in 1 .. L /\ Room(h, L)
      BY <2>3
    <3> HIDE DEF L
    <3> QED BY <3>1, NewIdIsFree
  <2> HIDE DEF id, of
  <2>5. Good(g) /\ Alike(g, spaces)
    BY <2>3, <2>4, AlikePlaced DEF OneMore
  <2> HIDE DEF g, f
  <2> QED BY <1>1, <2>1, <2>5, AlikeStep
<1>5. CASE AccessSpecifier
  <2> DEFINE c == Cloned(heap, Current)
             g == c.heap
             f == Append(Front(frames), c.id)
  <2>1. Declaring /\ Becomes(g, f, tasks, incomplete, body)
    BY <1>5 DEF AccessSpecifier
  <2>2. Room(heap, Len(Chain(heap, Current)))
    BY <1>1, <1>2, <2>1, RereadSelf, DeclaringThere
  <2>3. Good(g) /\ Alike(g, spaces)
    BY <1>2, <2>2, ClonedGood, AlikeCloned
  <2> HIDE DEF g, f
  <2> QED BY <1>1, <2>1, <2>3, AlikeStep
<1>6. CASE Close
  <2> DEFINE f == Front(frames)
  <2>1. Becomes(heap, f, tasks, incomplete, body)
    BY <1>6 DEF Close
  <2> HIDE DEF f
  <2> QED BY <1>1, <1>2, <2>1, AlikeStep
<1>7. ASSUME NEW type, DeclareFunction(name, type) PROVE Alike(heap, spaces)'
  <2> DEFINE h == Resolve(heap, Current, type).heap
             g == Invalidated(h, Current, "function")
  <2>1. \/ \E t : Becomes(g, frames, t, incomplete, body)
        \/ \E i : Becomes(h, frames, tasks, i, body)
    BY <1>7 DEF DeclareFunction, Add, Entity
  <2>2. Reread(heap, h)
    BY <1>2, ResolveRereads
  <2>3. Good(h) /\ Current \in Live(h)
    BY <1>2, <2>2, RereadFacts
  <2>4. Reread(h, g)
    BY <2>3, InvalidatedRereads DEF Kinds
  <2> HIDE DEF g, h
  <2>5. Alike(h, spaces) /\ Good(g) /\ Alike(g, spaces)
    BY <1>2, <2>2, <2>3, <2>4, RereadFacts, AlikeReread
  <2> QED BY <1>1, <2>1, <2>3, <2>5, AlikeStep
<1> QED BY <1>3, <1>4, <1>5, <1>6, <1>7

LEMMA DirectivesAlike ==
  ASSUME AlikeInv, ScopeInv', NEW name,
         \/ name \in Spaces /\ UsingDirective(name)
         \/ \E space : UsingDeclaration(space, name) \/ NamespaceAlias(name, space)
         \/ \E type : TypeAlias(name, type)
         \/ name \in Modules /\ Import(name)
  PROVE  Alike(heap, spaces)'
<1>1. phase # "compile" /\ spaces' = spaces /\ Declaring /\ ScopeInv
  BY DEF UsingDirective, UsingDeclaration, NamespaceAlias, TypeAlias, Import, Declaring, AlikeInv
<1>2. Current \in Live(heap) /\ Good(heap) /\ Alike(heap, spaces)
  BY <1>1, NoBody DEF AlikeInv
<1>3. CASE name \in Spaces /\ UsingDirective(name)
  <2> DEFINE lookup == Lookup(heap, Current, name)
             h == lookup.heap
             space == lookup.result.space
             r == InjectSpace(h, Current, space)
  <2>1. space # None /\ Processed(r)
    BY <1>3 DEF UsingDirective
  <2>2. Reread(heap, h) /\ space.imports \in Seq(ToSet(space.imports))
    BY <1>2, <2>1, LookupRereads, FoundSpace
  <2>3. name \in Words
    BY <1>3 DEF Words
  <2>4. {space.of} \cup ToSet(space.imports) \subseteq Seq(Words)
    BY <1>2, <2>1, <2>3, FoundPaths
  <2>5. Good(h) /\ Current \in Live(h) /\ Room(h, Len(Chain(h, Current))) /\ Alike(h, spaces)
    BY <1>1, <1>2, <2>2, DeclaringThere, AlikeReread
  <2> HIDE DEF h, space
  <2>6. Directs(h, Current, r) /\ Alike(r.heap, spaces)
    BY <2>2, <2>4, <2>5, SpaceDirects, AlikeSpace
  <2> HIDE DEF r
  <2> QED BY <1>1, <2>1, <2>6, AlikeDirected
<1>4. ASSUME NEW space, UsingDeclaration(space, name) PROVE Alike(heap, spaces)'
  <2> DEFINE lookup == QualifiedLookup(heap, Current, space, name)
             h == lookup.heap
             r == InjectEntities(h, Current, lookup.result.functions)
  <2>1. Processed(r)
    BY <1>4 DEF UsingDeclaration
  <2>2. Reread(heap, h)
    BY <1>2, QualifiedRereads
  <2>3. Good(h) /\ Current \in Live(h) /\ Room(h, Len(Chain(h, Current))) /\ Alike(h, spaces)
    BY <1>1, <1>2, <2>2, DeclaringThere, AlikeReread
  <2> HIDE DEF h
  <2>4. Directs(h, Current, r) /\ Alike(r.heap, spaces)
    BY <2>3, EntitiesDirect, AlikeEntities
  <2> HIDE DEF r
  <2> QED BY <1>1, <2>1, <2>4, AlikeDirected
<1>5. ASSUME NEW space, NamespaceAlias(name, space) PROVE Alike(heap, spaces)'
  <2> DEFINE r == InjectSpaceAlias(heap, Current, name, space)
  <2>1. Processed(r) /\ \E i \in ToSet(Chain(heap, Current)) : HasNested(heap[i], space)
    BY <1>5 DEF NamespaceAlias
  <2>2. Room(heap, Len(Chain(heap, Current)))
    BY <1>1, <1>2, RereadSelf, DeclaringThere
  <2>3. Directs(heap, Current, r) /\ Alike(r.heap, spaces)
    BY <1>2, <2>1, <2>2, SpaceAliasDirects, AlikeSpaceAlias
  <2> HIDE DEF r
  <2> QED BY <1>1, <2>1, <2>3, AlikeDirected
<1>6. ASSUME NEW type, TypeAlias(name, type) PROVE Alike(heap, spaces)'
  <2> DEFINE h == Resolve(heap, Current, type).heap
  <2>1. PICK entity : Processed(InjectAlias(h, Current, name, entity))
    BY <1>6 DEF TypeAlias
  <2> DEFINE r == InjectAlias(h, Current, name, entity)
  <2>2. Reread(heap, h)
    BY <1>2, ResolveRereads
  <2>3. Good(h) /\ Current \in Live(h) /\ Room(h, Len(Chain(h, Current))) /\ Alike(h, spaces)
    BY <1>1, <1>2, <2>2, DeclaringThere, AlikeReread
  <2> HIDE DEF h
  <2>4. Processed(r) /\ Directs(h, Current, r) /\ Alike(r.heap, spaces)
    BY <2>1, <2>3, AliasDirects, AlikeAlias
  <2> HIDE DEF r
  <2> QED BY <1>1, <2>4, AlikeDirected
<1>7. CASE name \in Modules /\ Import(name)
  <2> DEFINE r == Merge(heap, Current, name)
  <2>1. Processed(r)
    BY <1>7 DEF Import
  <2>2. Room(heap, Len(Chain(heap, Current)))
    BY <1>1, <1>2, RereadSelf, DeclaringThere
  <2>3. Directs(heap, Current, r) /\ Alike(r.heap, spaces)
    BY <1>2, <1>7, <2>2, ModulePath, MergeDirects, AlikeMerged
  <2> HIDE DEF r
  <2> QED BY <1>1, <2>1, <2>3, AlikeDirected
<1> QED BY <1>3, <1>4, <1>5, <1>6, <1>7

LEMMA BodiesAlike ==
  ASSUME AlikeInv, ScopeInv', NEW name,
         \/ name \in Spaces /\ UsingDirectiveInBody(name)
         \/ \E space : UsingDeclarationInBody(space, name)
         \/ \E type : TypeAliasInBody(name, type)
         \/ name \in Modules /\ ImportInBody(name)
  PROVE  Alike(heap, spaces)'
<1>1. Compiling /\ body # None /\ spaces' = spaces /\ ScopeInv
  BY DEF UsingDirectiveInBody, UsingDeclarationInBody, TypeAliasInBody, ImportInBody, Compiling, AlikeInv
<1> DEFINE top == body.top
<1>2. top \in Live(heap) /\ Good(heap) /\ Alike(heap, spaces)
  BY <1>1, BodyThere DEF AlikeInv
<1>3. ASSUME NEW h, Reread(heap, h)
      PROVE  Good(h) /\ top \in Live(h) /\ Room(h, Len(Chain(h, top))) /\ Alike(h, spaces)
  BY <1>1, <1>2, <1>3, CompilingThere, AlikeReread
<1>4. CASE name \in Spaces /\ UsingDirectiveInBody(name)
  <2> DEFINE lookup == Lookup(heap, top, name)
             h == lookup.heap
             space == lookup.result.space
             r == InjectSpace(h, top, space)
  <2>1. space # None /\ InBody(r)
    BY <1>4 DEF UsingDirectiveInBody
  <2> HIDE DEF top
  <2>2. Reread(heap, h) /\ space.imports \in Seq(ToSet(space.imports))
    BY <1>2, <2>1, LookupRereads, FoundSpace
  <2>3. name \in Words
    BY <1>4 DEF Words
  <2>4. {space.of} \cup ToSet(space.imports) \subseteq Seq(Words)
    BY <1>2, <2>1, <2>3, FoundPaths
  <2>5. Good(h) /\ top \in Live(h) /\ Room(h, Len(Chain(h, top))) /\ Alike(h, spaces)
    BY <1>3, <2>2
  <2> HIDE DEF h, space
  <2>6. Directs(h, top, r) /\ Alike(r.heap, spaces)
    BY <2>2, <2>4, <2>5, SpaceDirects, AlikeSpace
  <2> HIDE DEF r
  <2> QED BY <1>1, <2>1, <2>6, AlikeDirected
<1>5. ASSUME NEW space, UsingDeclarationInBody(space, name) PROVE Alike(heap, spaces)'
  <2> DEFINE lookup == QualifiedLookup(heap, top, space, name)
             h == lookup.heap
             r == InjectEntities(h, top, lookup.result.functions)
  <2>1. InBody(r)
    BY <1>5 DEF UsingDeclarationInBody
  <2> HIDE DEF top
  <2>2. Reread(heap, h)
    BY <1>2, QualifiedRereads
  <2>3. Good(h) /\ top \in Live(h) /\ Room(h, Len(Chain(h, top))) /\ Alike(h, spaces)
    BY <1>3, <2>2
  <2> HIDE DEF h
  <2>4. Directs(h, top, r) /\ Alike(r.heap, spaces)
    BY <2>3, EntitiesDirect, AlikeEntities
  <2> HIDE DEF r
  <2> QED BY <1>1, <2>1, <2>4, AlikeDirected
<1>6. ASSUME NEW type, TypeAliasInBody(name, type) PROVE Alike(heap, spaces)'
  <2> DEFINE h == Resolve(heap, top, type).heap
  <2>1. PICK entity : InBody(InjectAlias(h, top, name, entity))
    BY <1>6 DEF TypeAliasInBody
  <2> DEFINE r == InjectAlias(h, top, name, entity)
  <2> HIDE DEF top
  <2>2. Reread(heap, h)
    BY <1>2, ResolveRereads
  <2>3. Good(h) /\ top \in Live(h) /\ Room(h, Len(Chain(h, top))) /\ Alike(h, spaces)
    BY <1>3, <2>2
  <2> HIDE DEF h
  <2>4. InBody(r) /\ Directs(h, top, r) /\ Alike(r.heap, spaces)
    BY <2>1, <2>3, AliasDirects, AlikeAlias
  <2> HIDE DEF r
  <2> QED BY <1>1, <2>4, AlikeDirected
<1>7. CASE name \in Modules /\ ImportInBody(name)
  <2> DEFINE r == Merge(heap, top, name)
  <2>1. InBody(r)
    BY <1>7 DEF ImportInBody
  <2> HIDE DEF top
  <2>2. Room(heap, Len(Chain(heap, top)))
    BY <1>2, <1>3, RereadSelf
  <2>3. Directs(heap, top, r) /\ Alike(r.heap, spaces)
    BY <1>2, <1>7, <2>2, ModulePath, MergeDirects, AlikeMerged
  <2> HIDE DEF r
  <2> QED BY <1>1, <2>1, <2>3, AlikeDirected
<1> QED BY <1>4, <1>5, <1>6, <1>7

LEMMA BeginBodyAlike ==
  ASSUME AlikeInv, ScopeInv', BeginBody
  PROVE  Alike(heap, spaces)'
<1> DEFINE task == Head(tasks)
           t == Tail(tasks)
           node == Node("FunctionScope", task.scope)
           arguments == NewId(heap, 1)
           outer == NewId(heap, 2)
           h == WithNode(heap, arguments, node, task.scope)
           g == WithNode(h, outer, node, arguments)
<1>1. /\ tasks # <<>> /\ HasRoom(task.scope) /\ spaces' = spaces
      /\ \E b : Becomes(g, frames, t, incomplete, b)
  BY DEF BeginBody
<1>2. /\ Good(heap) /\ Handles \subseteq Live(heap) /\ Reread(heap, heap) /\ Alike(heap, spaces)
      /\ tasks \in Seq(ToSet(tasks))
  BY RereadSelf DEF AlikeInv, ScopeInv, HeapInv, QueueInv
<1>3. task = tasks[1] /\ 1 \in DOMAIN tasks
  BY <1>1, <1>2, Taken
<1> HIDE DEF task, t
<1>4. task.scope \in Live(heap)
  BY <1>2, <1>3 DEF Handles, Roots
<1>5. Room(heap, Len(Chain(heap, task.scope)) + 1) /\ Len(Chain(heap, task.scope)) \in Nat \ {0}
  BY <1>1, <1>2, <1>4, HasRoomThere
<1>6. /\ arguments \in Ids /\ heap[arguments] = None
      /\ outer \in Ids /\ heap[outer] = None /\ outer # arguments
  <2> DEFINE L == Len(Chain(heap, task.scope)) + 1
  <2>1. L \in Nat /\ 1 \in 1 .. L /\ 2 \in 1 .. L /\ Room(heap, L)
    BY <1>5
  <2> HIDE DEF L
  <2>2. arguments \in Ids /\ heap[arguments] = None /\ outer \in Ids /\ heap[outer] = None
    BY <2>1, NewIdIsFree
  <2>3. outer # arguments
    BY <2>1, NewIdsDiffer
  <2> QED BY <2>2, <2>3
<1> HIDE DEF arguments, outer
<1>7. OneMore(heap, h, arguments) /\ Alike(h, spaces)
  BY <1>2, <1>4, <1>6, AlikePlaced
<1>8. Good(h) /\ arguments \in Live(h) /\ h[outer] = None
  BY <1>6, <1>7 DEF OneMore, Live
<1> HIDE DEF h
<1>9. Good(g) /\ Alike(g, spaces)
  BY <1>6, <1>7, <1>8, AlikePlaced DEF OneMore
<1> HIDE DEF g
<1> QED BY <1>1, <1>9, AlikeStep

LEMMA BlocksAlike ==
  ASSUME AlikeInv, ScopeInv', NEW name, Mention(name) \/ EnterBlock \/ LeaveBlock \/ EndBody
  PROVE  Alike(heap, spaces)'
<1>1. body # None /\ spaces' = spaces /\ ScopeInv
  BY DEF Mention, EnterBlock, LeaveBlock, EndBody, Compiling, AlikeInv
<1>2. /\ body.top \in Live(heap) /\ Good(heap) /\ Alike(heap, spaces) /\ Reread(heap, heap)
      /\ Len(Chain(heap, body.top)) \in Nat \ {0}
  BY <1>1, BodyThere, GoodNode DEF AlikeInv, HasChain
<1>3. CASE Mention(name)
  <2> DEFINE h == Lookup(heap, body.top, name).heap
  <2>1. \E b : Becomes(h, frames, tasks, incomplete, b)
    BY <1>3 DEF Mention
  <2>2. Reread(heap, h)
    BY <1>2, LookupRereads
  <2> HIDE DEF h
  <2>3. Good(h) /\ Alike(h, spaces)
    BY <1>2, <2>2, RereadFacts, AlikeReread
  <2> QED BY <1>1, <2>1, <2>3, AlikeStep
<1>4. CASE EnterBlock
  <2> DEFINE id == NewId(heap, 1)
             g == WithNode(heap, id, Node("FunctionScope", body.base), body.top)
  <2>1. Compiling /\ \E b : Becomes(g, frames, tasks, incomplete, b)
    BY <1>4 DEF EnterBlock, Placed
  <2>2. Room(heap, Len(Chain(heap, body.top)))
    BY <1>1, <1>2, <2>1, CompilingThere
  <2>3. id \in Ids /\ heap[id] = None
    BY <1>2, <2>2, NewIdIsFree
  <2> HIDE DEF id
  <2>4. Good(g) /\ Alike(g, spaces)
    BY <1>2, <2>3, AlikePlaced DEF OneMore
  <2> HIDE DEF g
  <2> QED BY <1>1, <2>1, <2>4, AlikeStep
<1>5. CASE LeaveBlock \/ EndBody
  <2>1. \E b : Becomes(heap, frames, tasks, incomplete, b)
    BY <1>5 DEF LeaveBlock, EndBody
  <2> QED BY <1>1, <1>2, <2>1, AlikeStep
<1> QED BY <1>3, <1>4, <1>5

LEMMA StillAlike ==
  ASSUME AlikeInv, UNCHANGED <<heap, spaces>>
  PROVE  Alike(heap, spaces)'
<1>1. \A x, y : x = heap /\ y = spaces => Alike(x, y)
  BY DEF AlikeInv
<1> QED BY <1>1

LEMMA ReprocessAlike ==
  ASSUME AlikeInv, ScopeInv', Reprocess
  PROVE  Alike(heap, spaces)'
<1> DEFINE d == Head(incomplete)
           i == Tail(incomplete)
           lookup == Resolve(heap, d.scope, d.type)
           h == lookup.heap
           g == Invalidated(h, d.scope, d.function.kind)
<1>1. phase = "reprocess" /\ incomplete # <<>> /\ spaces' = spaces
  BY DEF Reprocess, AlikeInv, ScopeInv, FunctionInv
<1>2. Good(heap) /\ Handles \subseteq Live(heap) /\ Alike(heap, spaces)
  BY DEF AlikeInv, ScopeInv, HeapInv
<1>3. d = incomplete[1] /\ 1 \in DOMAIN incomplete
  BY <1>1, Taken DEF AlikeInv, ScopeInv, QueueInv
<1> HIDE DEF d, i
<1>4. d.scope \in Live(heap) /\ d.function.kind = "function"
  BY <1>2, <1>3 DEF Handles, Roots, AlikeInv, ScopeInv, FunctionInv
<1>5. CASE lookup.result.types # {}
  <2>1. \E t : Becomes(g, frames, t, i, body)
    BY <1>5 DEF Reprocess, Add, d, i
  <2>2. Reread(heap, h)
    BY <1>2, <1>4, ResolveRereads
  <2>3. Good(h) /\ d.scope \in Live(h)
    BY <1>2, <1>4, <2>2, RereadFacts
  <2>4. Reread(h, g)
    BY <1>4, <2>3, InvalidatedRereads DEF Kinds
  <2> HIDE DEF h, g
  <2>5. Good(g) /\ Alike(g, spaces)
    BY <1>2, <2>2, <2>3, <2>4, RereadFacts, AlikeReread
  <2> QED BY <1>1, <2>1, <2>5, AlikeStep
<1>6. CASE lookup.result.types = {}
  <2>1. UNCHANGED heap
    BY <1>6 DEF Reprocess, d
  <2> QED BY <1>1, <2>1, StillAlike
<1> QED BY <1>5, <1>6

-----------------------------------------------------------------------------
(* Namespaces import alike. *)

LEMMA InitAlike == Init => AlikeInv
<1> SUFFICES ASSUME Init PROVE AlikeInv
  OBVIOUS
<1> DEFINE n == [Node("ScriptScope", Script) EXCEPT !.chain = <<1>>, !.imports = <<Engine>>]
<1>1. heap = [i \in Ids |-> IF i = 1 THEN n ELSE None]
  BY DEF Init
<1>2. n.of = Script /\ n.chain = <<1>> /\ n.imports = <<Engine>>
  BY DEF Node
<1> HIDE DEF n
<1>3. Live(heap) \subseteq {1} /\ \A i \in Live(heap) : heap[i] = n
  BY <1>1 DEF Live
<1>4. ToSet(<<Engine>>) \subseteq Seq(Words)
  <2>1. ASSUME NEW S, NEW x \in S PROVE <<x>> \in Seq(S)
    OBVIOUS
  <2>2. ASSUME NEW x PROVE ToSet(<<x>>) = {x}
    BY SingleSet
  <2> DEFINE e == "engine"
  <2>3. e \in Words
    BY DEF Words
  <2> HIDE DEF e
  <2>4. <<e>> \in Seq(Words)
    BY <2>1, <2>3
  <2> DEFINE E == <<e>>
  <2>5. ToSet(<<E>>) = {E} /\ E \in Seq(Words)
    BY <2>2, <2>4
  <2> HIDE DEF E
  <2>6. ToSet(<<E>>) \subseteq Seq(Words)
    BY <2>5
  <2> QED BY <2>6 DEF E, e, Engine
<1>5. Len(n.chain) = 1 /\ ToSet(n.imports) \subseteq Seq(Words)
  BY <1>2, <1>4
<1>6. ASSUME NEW i \in Live(heap) PROVE IsAlike(heap, i, spaces)
  <2>1. heap[i] = n
    BY <1>3
  <2> DEFINE L == Len(n.chain)
  <2>2. L = 1 /\ ~(L > 1)
    BY <1>5
  <2> HIDE DEF L
  <2>3. Len(heap[i].chain) = L
    BY <2>1 DEF L
  <2> QED BY <1>2, <1>5, <2>1, <2>2, <2>3 DEF IsAlike
<1>7. ScopeInv
  BY InitScopes
<1> QED BY <1>6, <1>7 DEF AlikeInv, Alike

LEMMA StepAlike == AlikeInv /\ [Next]_vars => AlikeInv'
<1> SUFFICES ASSUME AlikeInv, [Next]_vars PROVE AlikeInv'
  OBVIOUS
<1>1. ScopeInv'
  BY StepScopes DEF AlikeInv
<1>2. Alike(heap, spaces)'
  <2>1. CASE Declare
    <3>1. ASSUME NEW name, DeclareClass(name) \/ OpenClass(name) \/ \E type : DeclareFunction(name, type)
          PROVE  Alike(heap, spaces)'
      BY <1>1, <3>1, DeclarationsAlike
    <3>2. CASE \/ \E s \in Spaces : UsingDirective(s)
               \/ \E s \in Spaces \cup SpaceAliases, f \in Functions : UsingDeclaration(s, f)
               \/ \E a \in ClassAliases, t \in TypeNames : TypeAlias(a, t)
               \/ \E a \in SpaceAliases, s \in Spaces : NamespaceAlias(a, s)
               \/ \E m \in Modules : Import(m)
      BY <1>1, <3>2, DirectivesAlike
    <3>3. CASE \E s \in Spaces : OpenNamespace(s)
      BY <1>1, <3>3, OpenNamespaceAlike
    <3>4. CASE AccessSpecifier \/ Close
      BY <1>1, <3>4, DeclarationsAlike
    <3>5. CASE EndOfDeclarations
      BY <3>5, StillAlike DEF EndOfDeclarations
    <3> QED BY <2>1, <3>1, <3>2, <3>3, <3>4, <3>5 DEF Declare
  <2>2. CASE Reprocess
    BY <1>1, <2>2, ReprocessAlike
  <2>3. CASE Compile
    <3>1. CASE \/ \E s \in Spaces : UsingDirectiveInBody(s)
               \/ \E s \in Spaces \cup SpaceAliases, f \in Functions : UsingDeclarationInBody(s, f)
               \/ \E a \in ClassAliases, t \in TypeNames : TypeAliasInBody(a, t)
               \/ \E m \in Modules : ImportInBody(m)
      BY <1>1, <3>1, BodiesAlike
    <3>2. CASE BeginBody
      BY <1>1, <3>2, BeginBodyAlike
    <3>3. CASE (\E x \in TypeNames \cup Functions : Mention(x)) \/ EnterBlock \/ LeaveBlock \/ EndBody
      BY <1>1, <3>3, BlocksAlike
    <3> QED BY <2>3, <3>1, <3>2, <3>3 DEF Compile
  <2>4. CASE UNCHANGED vars
    BY <2>4, StillAlike DEF vars
  <2> QED BY <2>1, <2>2, <2>3, <2>4 DEF Next
<1> QED BY <1>1, <1>2 DEF AlikeInv

LEMMA AlikeImports == AlikeInv => NamespacesImportAlike
<1> SUFFICES ASSUME AlikeInv, NEW i \in Ids, heap[i] # None, IsSpace(heap[i]), Parent(heap[i]) # 0,
                    NEW p \in ToSet(heap[Parent(heap[i])].imports), p[1] # Script[1],
                    Append(p, Last(heap[i].of)) \in spaces
             PROVE  Append(p, Last(heap[i].of)) \in ToSet(heap[i].imports)
  BY DEF NamespacesImportAlike
<1>1. i \in Live(heap) /\ IsAlike(heap, i, spaces)
  BY DEF Live, AlikeInv, Alike
<1>2. Len(heap[i].chain) > 1 /\ Parent(heap[i]) = heap[i].chain[2]
  BY DEF Parent
<1>3. Inside(heap[Parent(heap[i])], heap[i], spaces)
  BY <1>1, <1>2 DEF IsAlike
<1> QED BY <1>3 DEF Inside

\* A module's foo extends the script's foo wherever the import is: inside a namespace,
\* the namespaces of the same name of what the enclosing scope has imported are imported
\* as well, whatever was opened, copied or merged since (Scope::merge,
\* NamespaceScope::import_namespace).
THEOREM NamespacesAlike == Spec => []NamespacesImportAlike
<1> QED BY InitAlike, StepAlike, AlikeImports, PTL DEF Spec
=============================================================================
