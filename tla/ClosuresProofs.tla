---------------------------- MODULE ClosuresProofs ----------------------------
(***************************************************************************)
(* What Closures promises, for any names, lambda expressions and bounds.   *)
(***************************************************************************)
EXTENDS Closures, FiniteSetTheorems, TLAPS

-----------------------------------------------------------------------------
(* The invariant. *)

\* A capture of a closure, and a value, of a memory with this many values and buffers.
IsCapture(c, values) == c \in [name : {c.name}, ref : BOOLEAN, value : values]

IsClosure(x, values) ==
  /\ x \in [kind : {"closure"}, alive : {x.alive}, captures : Seq(ToSet(x.captures)),
            accesses : {x.accesses}, text : {x.text}, saw : {x.saw}]
  /\ \A c \in ToSet(x.captures) : IsCapture(c, values)

IsValue(x, values, buffers) ==
  \/ x.kind = "int" /\ x \in [kind : {"int"}, alive : {x.alive}, n : {x.n}]
  \/ x.kind = "array" /\ x \in [kind : {"array"}, alive : {x.alive}, buffer : buffers]
  \/ x.kind = "object" /\ x \in [kind : {"object"}, alive : {x.alive}, members : {x.members}]
  \/ x.kind = "closure" /\ IsClosure(x, values)

\* Elements are integers; no two arrays have the same buffer, no two elements the same value.
IsMemory(m) ==
  /\ m \in [values : Seq(ToSet(m.values)), buffers : Seq(ToSet(m.buffers))]
  /\ \A v \in DOMAIN m.values : IsValue(m.values[v], DOMAIN m.values, DOMAIN m.buffers)
  /\ \A b \in DOMAIN m.buffers : m.buffers[b] \in Seq(DOMAIN m.values)
  /\ \A b \in DOMAIN m.buffers : \A i \in DOMAIN m.buffers[b] : m.values[m.buffers[b][i]].kind = "int"
  /\ \A v, w \in DOMAIN m.values :
       m.values[v].kind = "array" /\ m.values[w].kind = "array" /\ m.values[v].buffer = m.values[w].buffer => v = w
  /\ \A b, c \in DOMAIN m.buffers : \A i \in DOMAIN m.buffers[b], j \in DOMAIN m.buffers[c] :
       m.buffers[b][i] = m.buffers[c][j] => b = c /\ i = j

IsElement(e, m) == \E b \in DOMAIN m.buffers : \E i \in DOMAIN m.buffers[b] : m.buffers[b][i] = e

HoldsKind(name, kind) ==
  /\ name \in Ints => kind = "int"
  /\ name \in Arrays => kind = "array"
  /\ name \in Functors => kind = "closure"

IsVariable(x, m) ==
  /\ x \in [name : {x.name}, ref : BOOLEAN, value : DOMAIN m.values]
  /\ HoldsKind(x.name, m.values[x.value].kind)

\* The stack, and the blocks that are open.
IsStack(s, m) ==
  /\ s \in Seq(ToSet(s)) /\ Len(s) >= 1
  /\ \A i \in DOMAIN s : IsVariable(s[i], m)
  /\ \A i \in DOMAIN s : i >= FirstCapture => s[i].name \in Names \/ (i = FirstCapture /\ s[i].name = "this")

AreScopes(t, n) ==
  /\ t \in Seq(1 .. n)
  /\ \A k, l \in DOMAIN t : k <= l => t[k] <= t[l]

\* What is left to evaluate is on the stack.
IsLeft(c, s) ==
  /\ c.how \in {"variable", "copy", "value"}
  /\ c.how # "value" => c.index \in DOMAIN s
  /\ c.how = "copy" => s[c.index].name \in Names

IsLambda(l, s, m) ==
  /\ l \in [name : Functors, text : Texts, accesses : {l.accesses}, left : Seq(ToSet(l.left)),
            captures : Seq(ToSet(l.captures))]
  /\ \A c \in ToSet(l.left) : IsLeft(c, s)
  /\ \A c \in ToSet(l.captures) : IsCapture(c, DOMAIN m.values)

TypeInv ==
  /\ IsMemory(memory) /\ IsStack(stack, memory) /\ AreScopes(scopes, Len(stack))
  /\ limpl # NoLambda => IsLambda(limpl, stack, memory)

\* A variable of its own: the end of its block destroys its value.
Owns(s, j, v) == j \in DOMAIN s /\ ~s[j].ref /\ s[j].value = v

\* What refers to the value of a variable is above it; elements and captures are alive.
IsSafe(s, m, l) ==
  /\ \A i \in DOMAIN s : m.values[s[i].value].alive
  /\ \A i, j \in DOMAIN s : Owns(s, j, s[i].value) => j <= i
  /\ \A i \in DOMAIN s : ~s[i].ref /\ m.values[s[i].value].kind = "closure" =>
       \A c \in ToSet(m.values[s[i].value].captures) :
         m.values[c.value].alive /\ \A j \in DOMAIN s : Owns(s, j, c.value) => j < i
  /\ \A e \in DOMAIN m.values : IsElement(e, m) => m.values[e].alive /\ \A j \in DOMAIN s : ~Owns(s, j, e)
  /\ l # NoLambda => \A c \in ToSet(l.captures) : m.values[c.value].alive

AliveInv == TypeInv /\ IsSafe(stack, memory, limpl)

-----------------------------------------------------------------------------
(* Sequences, and the values that are added to a memory. *)

LEMMA SeqFacts ==
  ASSUME NEW s, s \in Seq(ToSet(s))
  PROVE  Len(s) \in Nat /\ DOMAIN s = 1 .. Len(s)
OBVIOUS

LEMMA OwnRange ==
  ASSUME NEW S, NEW s \in Seq(S)
  PROVE  s \in Seq(ToSet(s)) /\ ToSet(s) = {s[i] : i \in DOMAIN s}
<1>1. s \in [1 .. Len(s) -> S] /\ DOMAIN s = 1 .. Len(s) /\ Len(s) \in Nat
  OBVIOUS
<1>2. ToSet(s) = {s[i] : i \in DOMAIN s}
  BY DEF ToSet
<1>3. \A i \in 1 .. Len(s) : s[i] \in ToSet(s)
  BY <1>1, <1>2
<1> QED BY <1>1, <1>2, <1>3

LEMMA AppendFacts ==
  ASSUME NEW s, s \in Seq(ToSet(s)), NEW x
  PROVE  /\ Append(s, x) \in Seq(ToSet(Append(s, x))) /\ Len(Append(s, x)) = Len(s) + 1
         /\ Len(s) \in Nat /\ DOMAIN s = 1 .. Len(s) /\ DOMAIN Append(s, x) = 1 .. Len(s) + 1
         /\ \A i \in 1 .. Len(s) : Append(s, x)[i] = s[i]
         /\ Append(s, x)[Len(s) + 1] = x
<1> DEFINE S == ToSet(s) \union {x}
           t == Append(s, x)
<1>1. s \in Seq(S)
  <2>1. s \in Seq(ToSet(s)) /\ ToSet(s) \subseteq S
    OBVIOUS
  <2> HIDE DEF S
  <2> QED BY <2>1
<1>2. x \in S
  OBVIOUS
<1> HIDE DEF S
<1>3. /\ t \in Seq(S) /\ Len(t) = Len(s) + 1 /\ Len(s) \in Nat /\ DOMAIN s = 1 .. Len(s)
      /\ DOMAIN t = 1 .. Len(s) + 1 /\ \A i \in 1 .. Len(s) : t[i] = s[i]
      /\ t[Len(s) + 1] = x
  BY <1>1, <1>2
<1> HIDE DEF t
<1>4. t \in Seq(ToSet(t))
  BY <1>3, OwnRange
<1> QED BY <1>3, <1>4 DEF t

LEMMA JoinFacts ==
  ASSUME NEW s, s \in Seq(ToSet(s)), NEW t, t \in Seq(ToSet(t))
  PROVE  /\ s \o t \in Seq(ToSet(s \o t)) /\ Len(s \o t) = Len(s) + Len(t)
         /\ Len(s) \in Nat /\ DOMAIN s = 1 .. Len(s) /\ Len(t) \in Nat /\ DOMAIN t = 1 .. Len(t)
         /\ DOMAIN (s \o t) = 1 .. Len(s) + Len(t)
         /\ \A i \in 1 .. Len(s) : (s \o t)[i] = s[i]
         /\ \A i \in 1 .. Len(t) : (s \o t)[Len(s) + i] = t[i]
<1> DEFINE S == ToSet(s) \union ToSet(t)
           u == s \o t
<1>1. s \in Seq(S) /\ t \in Seq(S)
  <2>1. s \in Seq(ToSet(s)) /\ ToSet(s) \subseteq S /\ t \in Seq(ToSet(t)) /\ ToSet(t) \subseteq S
    OBVIOUS
  <2> HIDE DEF S
  <2> QED BY <2>1
<1> HIDE DEF S
<1>2. /\ u \in Seq(S) /\ Len(u) = Len(s) + Len(t) /\ Len(s) \in Nat /\ DOMAIN s = 1 .. Len(s)
      /\ Len(t) \in Nat /\ DOMAIN t = 1 .. Len(t) /\ DOMAIN u = 1 .. Len(s) + Len(t)
      /\ \A i \in 1 .. Len(s) : u[i] = s[i]
      /\ \A i \in 1 .. Len(t) : u[Len(s) + i] = t[i]
  BY <1>1
<1> HIDE DEF u
<1>3. u \in Seq(ToSet(u))
  BY <1>2, OwnRange
<1> QED BY <1>2, <1>3 DEF u

LEMMA MemoryFacts ==
  ASSUME NEW m, IsMemory(m)
  PROVE  /\ m = [values |-> m.values, buffers |-> m.buffers] /\ DOMAIN m = {"values", "buffers"}
         /\ m.values \in Seq(ToSet(m.values)) /\ m.buffers \in Seq(ToSet(m.buffers))
         /\ Len(m.values) \in Nat /\ DOMAIN m.values = 1 .. Len(m.values)
         /\ Len(m.buffers) \in Nat /\ DOMAIN m.buffers = 1 .. Len(m.buffers)
         /\ \A b \in DOMAIN m.buffers : m.buffers[b] \in Seq(1 .. Len(m.values))
         /\ \A b \in DOMAIN m.buffers : \A i \in DOMAIN m.buffers[b] : m.buffers[b][i] \in DOMAIN m.values
<1>1. /\ m = [values |-> m.values, buffers |-> m.buffers] /\ DOMAIN m = {"values", "buffers"}
      /\ m.values \in Seq(ToSet(m.values)) /\ m.buffers \in Seq(ToSet(m.buffers))
      /\ \A b \in DOMAIN m.buffers : m.buffers[b] \in Seq(DOMAIN m.values)
  BY DEF IsMemory
<1>2. /\ Len(m.values) \in Nat /\ DOMAIN m.values = 1 .. Len(m.values)
      /\ Len(m.buffers) \in Nat /\ DOMAIN m.buffers = 1 .. Len(m.buffers)
  BY <1>1, SeqFacts
<1>3. ASSUME NEW S, NEW s \in Seq(S) PROVE \A i \in DOMAIN s : s[i] \in S
  OBVIOUS
<1> QED BY <1>1, <1>2, <1>3

LEMMA Parts ==
  ASSUME NEW m, IsMemory(m), NEW u
  PROVE  /\ [m EXCEPT !.values = u] = [values |-> u, buffers |-> m.buffers]
         /\ [m EXCEPT !.buffers = u] = [values |-> m.values, buffers |-> u]
<1>1. m = [values |-> m.values, buffers |-> m.buffers]
  BY MemoryFacts
<1> QED BY <1>1

LEMMA MemoryMade ==
  ASSUME NEW u, NEW r, u \in Seq(ToSet(u)), r \in Seq(ToSet(r)),
         \A v \in DOMAIN u : IsValue(u[v], DOMAIN u, DOMAIN r),
         \A b \in DOMAIN r : r[b] \in Seq(DOMAIN u),
         \A b \in DOMAIN r : \A i \in DOMAIN r[b] : u[r[b][i]].kind = "int",
         \A v, w \in DOMAIN u : u[v].kind = "array" /\ u[w].kind = "array" /\ u[v].buffer = u[w].buffer => v = w,
         \A b, c \in DOMAIN r : \A i \in DOMAIN r[b], j \in DOMAIN r[c] : r[b][i] = r[c][j] => b = c /\ i = j
  PROVE  IsMemory([values |-> u, buffers |-> r])
<1> DEFINE n == [values |-> u, buffers |-> r]
<1>1. n.values = u /\ n.buffers = r
  OBVIOUS
<1>2. n \in [values : Seq(ToSet(u)), buffers : Seq(ToSet(r))]
  OBVIOUS
<1> HIDE DEF n
<1>3. IsMemory(n)
  BY <1>1, <1>2 DEF IsMemory
<1> QED BY <1>3 DEF n

\* More values, or more buffers, and a value is one still.
LEMMA ValueWider ==
  ASSUME NEW x, NEW V, NEW B, NEW W, NEW C, IsValue(x, V, B), V \subseteq W, B \subseteq C
  PROVE  IsValue(x, W, C)
<1>1. CASE x.kind = "closure" /\ IsClosure(x, V)
  <2>1. \A c \in ToSet(x.captures) : IsCapture(c, W)
    BY <1>1 DEF IsClosure, IsCapture
  <2>2. IsClosure(x, W)
    BY <1>1, <2>1 DEF IsClosure
  <2> QED BY <1>1, <2>2 DEF IsValue
<1>2. CASE ~(x.kind = "closure" /\ IsClosure(x, V))
  BY <1>2 DEF IsValue
<1> QED BY <1>1, <1>2

LEMMA IntegerFacts ==
  ASSUME NEW k, NEW V, NEW B
  PROVE  /\ Integer(k).kind = "int" /\ Integer(k).alive = TRUE /\ Integer(k).n = k
         /\ IsValue(Integer(k), V, B)
BY DEF Integer, IsValue

\* Values that were added to a memory, of buffers that are as they were.
Longer(m, n) ==
  /\ DOMAIN m.values \subseteq DOMAIN n.values
  /\ \A v \in DOMAIN m.values : n.values[v] = m.values[v]
  /\ \A v \in DOMAIN n.values \ DOMAIN m.values : n.values[v].alive
  /\ n.buffers = m.buffers

LongerBy(m, s, n) ==
  /\ IsMemory(n) /\ Longer(m, n) /\ Len(n.values) = Len(m.values) + Len(s) /\ Len(s) \in Nat
  /\ \A i \in 1 .. Len(s) : n.values[Len(m.values) + i] = s[i]

LEMMA IntsAdded ==
  ASSUME NEW m, IsMemory(m), NEW s, s \in Seq(ToSet(s)), \A i \in DOMAIN s : s[i] = Integer(s[i].n)
  PROVE  LongerBy(m, s, [m EXCEPT !.values = @ \o s])
<1> DEFINE n == [m EXCEPT !.values = @ \o s]
           u == m.values \o s
           L == Len(m.values)
           K == Len(s)
<1>1. /\ m.values \in Seq(ToSet(m.values)) /\ DOMAIN m = {"values", "buffers"}
      /\ \A b \in DOMAIN m.buffers : m.buffers[b] \in Seq(1 .. Len(m.values))
      /\ m.buffers \in Seq(ToSet(m.buffers))
  BY MemoryFacts
<1>2. n = [values |-> u, buffers |-> m.buffers]
  BY Parts
<1>3. /\ u \in Seq(ToSet(u)) /\ L \in Nat /\ K \in Nat /\ DOMAIN u = 1 .. L + K /\ Len(u) = L + K
      /\ DOMAIN m.values = 1 .. L /\ DOMAIN s = 1 .. K
      /\ \A i \in 1 .. L : u[i] = m.values[i]
      /\ \A i \in 1 .. K : u[L + i] = s[i]
  BY <1>1, JoinFacts
<1> HIDE DEF n, u, L, K
<1>4. \A v \in 1 .. L + K : v \in 1 .. L \/ \E i \in 1 .. K : v = L + i
  <2> TAKE v \in 1 .. L + K
  <2>1. CASE v > L
    <3>1. v - L \in 1 .. K /\ v = L + (v - L)
      BY <1>3, <2>1
    <3> QED BY <3>1
  <2> QED BY <1>3, <2>1
<1>11. ASSUME NEW v \in DOMAIN u, v \notin DOMAIN m.values PROVE \E i \in 1 .. K : u[v] = s[i]
  <2>1. PICK i \in 1 .. K : v = L + i
    BY <1>3, <1>4, <1>11
  <2> QED BY <1>3, <2>1
<1>5. \A i \in 1 .. K : s[i].kind = "int" /\ s[i].alive /\ IsValue(s[i], DOMAIN u, DOMAIN m.buffers)
  <2> TAKE i \in 1 .. K
  <2> DEFINE k == s[i].n
  <2>1. s[i] = Integer(k)
    BY <1>3
  <2> HIDE DEF k
  <2> QED BY <2>1, IntegerFacts
<1>6. \A v \in DOMAIN u : IsValue(u[v], DOMAIN u, DOMAIN m.buffers)
  <2> TAKE v \in DOMAIN u
  <2>1. CASE v \in 1 .. L
    <3>1. u[v] = m.values[v] /\ v \in DOMAIN m.values /\ DOMAIN m.values \subseteq DOMAIN u
      BY <1>3, <2>1
    <3>2. IsValue(m.values[v], DOMAIN m.values, DOMAIN m.buffers)
      BY <3>1 DEF IsMemory
    <3> QED BY <3>1, <3>2, ValueWider
  <2>2. CASE v \notin 1 .. L
    <3>1. PICK i \in 1 .. K : v = L + i
      BY <1>3, <1>4, <2>2
    <3> QED BY <1>3, <1>5, <3>1
  <2> QED BY <2>1, <2>2
<1>7. \A v, w \in DOMAIN u : u[v].kind = "array" /\ u[w].kind = "array" /\ u[v].buffer = u[w].buffer => v = w
  <2>1. \A v \in DOMAIN u : u[v].kind = "array" => v \in DOMAIN m.values /\ u[v] = m.values[v]
    BY <1>3, <1>5, <1>11
  <2> QED BY <2>1 DEF IsMemory
<1>8. \A b \in DOMAIN m.buffers : m.buffers[b] \in Seq(DOMAIN u)
  <2>1. 1 .. L \subseteq DOMAIN u
    BY <1>3
  <2> DEFINE D == DOMAIN u
             E == 1 .. L
  <2>2. E \subseteq D /\ \A b \in DOMAIN m.buffers : m.buffers[b] \in Seq(E)
    BY <1>1, <2>1 DEF L
  <2> HIDE DEF D, E
  <2>3. \A b \in DOMAIN m.buffers : m.buffers[b] \in Seq(D)
    BY <2>2
  <2> QED BY <2>3 DEF D
<1>9. IsMemory(n) /\ n.values = u /\ n.buffers = m.buffers
  <2>1. \A b, c \in DOMAIN m.buffers : \A i \in DOMAIN m.buffers[b], j \in DOMAIN m.buffers[c] :
          m.buffers[b][i] = m.buffers[c][j] => b = c /\ i = j
    BY DEF IsMemory
  <2>3. \A b \in DOMAIN m.buffers : \A i \in DOMAIN m.buffers[b] : u[m.buffers[b][i]].kind = "int"
    <3>1. \A b \in DOMAIN m.buffers : \A i \in DOMAIN m.buffers[b] :
            m.buffers[b][i] \in DOMAIN m.values /\ m.values[m.buffers[b][i]].kind = "int"
      BY MemoryFacts DEF IsMemory
    <3>2. \A v \in DOMAIN m.values : u[v] = m.values[v]
      BY <1>3
    <3> QED BY <3>1, <3>2
  <2>2. IsMemory([values |-> u, buffers |-> m.buffers])
    BY <1>1, <1>3, <1>6, <1>7, <1>8, <2>1, <2>3, MemoryMade
  <2> QED BY <1>2, <2>2
<1>10. Longer(m, n)
  <2>1. \A v \in DOMAIN u : v \notin DOMAIN m.values => u[v].alive
    BY <1>5, <1>11
  <2>2. DOMAIN m.values \subseteq DOMAIN u /\ \A v \in DOMAIN m.values : u[v] = m.values[v]
    BY <1>3
  <2> QED BY <1>9, <2>1, <2>2 DEF Longer
<1>12. LongerBy(m, s, n)
  BY <1>3, <1>9, <1>10 DEF LongerBy, L, K
<1> QED BY <1>12 DEF n

LEMMA ValueAdded ==
  ASSUME NEW m, IsMemory(m), NEW x, IsValue(x, DOMAIN m.values, DOMAIN m.buffers), x.alive,
         \A v \in DOMAIN m.values :
           x.kind = "array" /\ m.values[v].kind = "array" => m.values[v].buffer # x.buffer
  PROVE  LET n == New(m, x)
         IN /\ IsMemory(n) /\ Longer(m, n) /\ Newest(n) = Len(m.values) + 1 /\ n.values[Newest(n)] = x
            /\ Newest(n) \in DOMAIN n.values /\ Newest(n) \notin DOMAIN m.values
            /\ DOMAIN n.values = DOMAIN m.values \union {Newest(n)}
<1> DEFINE n == New(m, x)
           u == Append(m.values, x)
           L == Len(m.values)
<1>1. /\ m.values \in Seq(ToSet(m.values)) /\ m.buffers \in Seq(ToSet(m.buffers))
      /\ \A b \in DOMAIN m.buffers : m.buffers[b] \in Seq(DOMAIN m.values)
      /\ \A b \in DOMAIN m.buffers : \A i \in DOMAIN m.buffers[b] : m.buffers[b][i] \in DOMAIN m.values
  BY MemoryFacts DEF IsMemory
<1>2. n = [values |-> u, buffers |-> m.buffers]
  BY Parts DEF New
<1>3. /\ u \in Seq(ToSet(u)) /\ L \in Nat /\ DOMAIN u = 1 .. L + 1 /\ Len(u) = L + 1
      /\ DOMAIN m.values = 1 .. L
      /\ \A i \in 1 .. L : u[i] = m.values[i]
      /\ u[L + 1] = x
  BY <1>1, AppendFacts
<1> HIDE DEF n, u, L
<1>4. /\ DOMAIN u = DOMAIN m.values \union {L + 1} /\ L + 1 \notin DOMAIN m.values
      /\ \A v \in DOMAIN m.values : u[v] = m.values[v]
  BY <1>3
<1> DEFINE D == DOMAIN m.values
           E == DOMAIN u
<1>5. D \subseteq E
  BY <1>4
<1>6. \A v \in DOMAIN u : IsValue(u[v], DOMAIN u, DOMAIN m.buffers)
  <2>1. \A v \in DOMAIN m.values : IsValue(m.values[v], DOMAIN m.values, DOMAIN m.buffers)
    BY DEF IsMemory
  <2>2. \A v \in DOMAIN u : IsValue(u[v], DOMAIN m.values, DOMAIN m.buffers)
    BY <1>3, <1>4, <2>1
  <2> QED BY <1>5, <2>2, ValueWider
<1>7. \A v, w \in DOMAIN u : u[v].kind = "array" /\ u[w].kind = "array" /\ u[v].buffer = u[w].buffer => v = w
  <2> TAKE v \in DOMAIN u, w \in DOMAIN u
  <2> HAVE u[v].kind = "array" /\ u[w].kind = "array" /\ u[v].buffer = u[w].buffer
  <2>1. CASE v \in DOMAIN m.values /\ w \in DOMAIN m.values
    BY <1>4, <2>1 DEF IsMemory
  <2>2. CASE v = L + 1 /\ w \in DOMAIN m.values
    BY <1>3, <1>4, <2>2
  <2>3. CASE v \in DOMAIN m.values /\ w = L + 1
    BY <1>3, <1>4, <2>3
  <2> QED BY <1>4, <2>1, <2>2, <2>3
<1>8. \A b \in DOMAIN m.buffers : m.buffers[b] \in Seq(DOMAIN u)
  <2>1. \A b \in DOMAIN m.buffers : m.buffers[b] \in Seq(D)
    BY <1>1
  <2> HIDE DEF D, E
  <2>2. \A b \in DOMAIN m.buffers : m.buffers[b] \in Seq(E)
    BY <1>5, <2>1
  <2> QED BY <2>2 DEF E
<1>9. \A b \in DOMAIN m.buffers : \A i \in DOMAIN m.buffers[b] : u[m.buffers[b][i]].kind = "int"
  <2>1. \A b \in DOMAIN m.buffers : \A i \in DOMAIN m.buffers[b] : m.values[m.buffers[b][i]].kind = "int"
    BY DEF IsMemory
  <2> QED BY <1>1, <1>4, <2>1
<1>10. \A b, c \in DOMAIN m.buffers : \A i \in DOMAIN m.buffers[b], j \in DOMAIN m.buffers[c] :
         m.buffers[b][i] = m.buffers[c][j] => b = c /\ i = j
  BY DEF IsMemory
<1>11. IsMemory(n) /\ n.values = u /\ n.buffers = m.buffers
  <2>1. IsMemory([values |-> u, buffers |-> m.buffers])
    BY <1>1, <1>3, <1>6, <1>7, <1>8, <1>9, <1>10, MemoryMade
  <2> QED BY <1>2, <2>1
<1>12. Newest(n) = L + 1
  BY <1>3, <1>11 DEF Newest
<1>13. Longer(m, n)
  BY <1>3, <1>4, <1>11 DEF Longer
<1> QED BY <1>3, <1>4, <1>11, <1>12, <1>13 DEF n, L

\* One buffer of a memory is another sequence, or a new one.
NewBuffer(m, b, ids, n) ==
  /\ n = [values |-> m.values, buffers |-> n.buffers] /\ n.buffers \in Seq(ToSet(n.buffers))
  /\ DOMAIN n.buffers = DOMAIN m.buffers \union {b} /\ n.buffers[b] = ids
  /\ \A c \in DOMAIN m.buffers : c # b => n.buffers[c] = m.buffers[c]
  /\ ids \in Seq(DOMAIN m.values)
  /\ \A i, j \in DOMAIN ids : ids[i] = ids[j] => i = j
  /\ \A i \in DOMAIN ids : m.values[ids[i]].kind = "int" /\ ~IsElement(ids[i], m)

LEMMA BufferMade ==
  ASSUME NEW m, IsMemory(m), NEW b, NEW ids, NEW n, NewBuffer(m, b, ids, n)
  PROVE  IsMemory(n) /\ \A e : IsElement(e, n) => IsElement(e, m) \/ \E i \in DOMAIN ids : ids[i] = e
<1> DEFINE r == n.buffers
<1>8. /\ n = [values |-> m.values, buffers |-> r] /\ n.values = m.values /\ r \in Seq(ToSet(r))
      /\ DOMAIN r = DOMAIN m.buffers \union {b} /\ r[b] = ids
      /\ \A c \in DOMAIN m.buffers : c # b => r[c] = m.buffers[c]
      /\ ids \in Seq(DOMAIN m.values)
      /\ \A i, j \in DOMAIN ids : ids[i] = ids[j] => i = j
      /\ \A i \in DOMAIN ids : m.values[ids[i]].kind = "int" /\ ~IsElement(ids[i], m)
  BY DEF NewBuffer
<1> HIDE DEF r
<1>1. /\ m.values \in Seq(ToSet(m.values))
      /\ \A c \in DOMAIN m.buffers : m.buffers[c] \in Seq(DOMAIN m.values)
      /\ \A c \in DOMAIN m.buffers : \A i \in DOMAIN m.buffers[c] : m.values[m.buffers[c][i]].kind = "int"
      /\ \A v, w \in DOMAIN m.values :
           m.values[v].kind = "array" /\ m.values[w].kind = "array" /\ m.values[v].buffer = m.values[w].buffer => v = w
      /\ \A v \in DOMAIN m.values : IsValue(m.values[v], DOMAIN m.values, DOMAIN m.buffers)
  BY DEF IsMemory
<1>2. \A v \in DOMAIN m.values : IsValue(m.values[v], DOMAIN m.values, DOMAIN r)
  BY <1>1, <1>8, ValueWider
<1>3. \A c \in DOMAIN r : r[c] \in Seq(DOMAIN m.values)
  BY <1>1, <1>8
<1>4. \A c \in DOMAIN r : \A i \in DOMAIN r[c] : m.values[r[c][i]].kind = "int"
  BY <1>1, <1>8
<1>5. \A c, d \in DOMAIN r : \A i \in DOMAIN r[c], j \in DOMAIN r[d] : r[c][i] = r[d][j] => c = d /\ i = j
  <2> TAKE c \in DOMAIN r, d \in DOMAIN r
  <2> TAKE i \in DOMAIN r[c], j \in DOMAIN r[d]
  <2> HAVE r[c][i] = r[d][j]
  <2>1. CASE c = b /\ d = b
    BY <1>8, <2>1
  <2>2. CASE c # b /\ d = b
    <3>1. IsElement(r[c][i], m)
      BY <1>8, <2>2 DEF IsElement
    <3> QED BY <1>8, <2>2, <3>1
  <2>3. CASE c = b /\ d # b
    <3>1. IsElement(r[d][j], m)
      BY <1>8, <2>3 DEF IsElement
    <3> QED BY <1>8, <2>3, <3>1
  <2>4. CASE c # b /\ d # b
    BY <1>8, <2>4 DEF IsMemory
  <2> QED BY <2>1, <2>2, <2>3, <2>4
<1>6. IsMemory(n)
  BY <1>1, <1>2, <1>3, <1>4, <1>5, <1>8, MemoryMade
<1>7. \A e : IsElement(e, n) => IsElement(e, m) \/ \E i \in DOMAIN ids : ids[i] = e
  BY <1>8 DEF IsElement, r
<1> QED BY <1>6, <1>7

LEMMA SeqMade ==
  ASSUME NEW K \in Nat, NEW f, f = [i \in 1 .. K |-> f[i]]
  PROVE  f \in Seq(ToSet(f)) /\ Len(f) = K /\ DOMAIN f = 1 .. K
<1>1. DOMAIN f = 1 .. K
  BY Zenon
<1>2. ToSet(f) = {f[i] : i \in 1 .. K}
  BY <1>1 DEF ToSet
<1> DEFINE S == ToSet(f)
<1>3. \A i \in 1 .. K : f[i] \in S
  BY <1>2
<1> HIDE DEF S
<1>4. f \in [1 .. K -> S]
  BY <1>3
<1> QED BY <1>1, <1>4 DEF S

\* What a step may do to the values that are there: what the invariant says stays.
Alike(x, y) ==
  x.kind = y.kind /\ x.alive = y.alive /\ (x.kind = "closure" => x.captures = y.captures)

Kept(m, n) ==
  /\ IsMemory(n)
  /\ DOMAIN m.values \subseteq DOMAIN n.values
  /\ \A v \in DOMAIN m.values : Alike(n.values[v], m.values[v])
  /\ \A v \in DOMAIN n.values \ DOMAIN m.values : n.values[v].alive
  /\ \A e : IsElement(e, n) => IsElement(e, m) \/ e \notin DOMAIN m.values

\* The last value is a new one, and nothing but a variable will refer to it.
Fresh(m, n) ==
  Kept(m, n) /\ Newest(n) \in DOMAIN n.values \ DOMAIN m.values /\ ~IsElement(Newest(n), n)

LEMMA ElementFacts ==
  ASSUME NEW m, IsMemory(m), NEW e, IsElement(e, m)
  PROVE  e \in DOMAIN m.values /\ m.values[e].kind = "int"
<1>1. PICK b \in DOMAIN m.buffers : \E i \in DOMAIN m.buffers[b] : m.buffers[b][i] = e
  BY DEF IsElement
<1> QED BY <1>1, MemoryFacts DEF IsMemory

LEMMA LongerKept ==
  ASSUME NEW m, NEW n, IsMemory(m), IsMemory(n), Longer(m, n)
  PROVE  Kept(m, n) /\ \A e : IsElement(e, n) <=> IsElement(e, m)
<1>1. \A e : IsElement(e, n) <=> IsElement(e, m)
  BY DEF Longer, IsElement
<1> QED BY <1>1 DEF Kept, Longer, Alike

LEMMA KeptTrans ==
  ASSUME NEW m, NEW n, NEW p, Kept(m, n), Kept(n, p)
  PROVE  Kept(m, p)
<1>1. \A v \in DOMAIN m.values : Alike(p.values[v], m.values[v])
  BY DEF Kept, Alike
<1>2. \A v \in DOMAIN p.values \ DOMAIN m.values : p.values[v].alive
  <2> TAKE v \in DOMAIN p.values \ DOMAIN m.values
  <2>1. CASE v \in DOMAIN n.values
    BY <2>1 DEF Kept, Alike
  <2>2. CASE v \notin DOMAIN n.values
    BY <2>2 DEF Kept
  <2> QED BY <2>1, <2>2
<1>3. \A e : IsElement(e, p) => IsElement(e, m) \/ e \notin DOMAIN m.values
  BY DEF Kept
<1> QED BY <1>1, <1>2, <1>3 DEF Kept

LEMMA KeptSelf ==
  ASSUME NEW m, IsMemory(m)
  PROVE  Kept(m, m)
BY DEF Kept, Alike

LEMMA FreshAfter ==
  ASSUME NEW m, NEW n, NEW p, Kept(m, n), Fresh(n, p)
  PROVE  Fresh(m, p)
BY KeptTrans DEF Fresh, Kept

LEMMA ValueFresh ==
  ASSUME NEW m, IsMemory(m), NEW x, IsValue(x, DOMAIN m.values, DOMAIN m.buffers), x.alive,
         \A v \in DOMAIN m.values :
           x.kind = "array" /\ m.values[v].kind = "array" => m.values[v].buffer # x.buffer
  PROVE  LET n == New(m, x)
         IN IsMemory(n) /\ Fresh(m, n) /\ n.values[Newest(n)] = x
<1> DEFINE n == New(m, x)
<1>1. /\ IsMemory(n) /\ Longer(m, n) /\ n.values[Newest(n)] = x
      /\ Newest(n) \in DOMAIN n.values /\ Newest(n) \notin DOMAIN m.values
  BY ValueAdded
<1> HIDE DEF n
<1>2. Kept(m, n) /\ \A e : IsElement(e, n) <=> IsElement(e, m)
  BY <1>1, LongerKept
<1>3. ~IsElement(Newest(n), n)
  BY <1>1, <1>2, ElementFacts
<1> QED BY <1>1, <1>2, <1>3 DEF Fresh, n

LEMMA IntFresh ==
  ASSUME NEW m, IsMemory(m), NEW k
  PROVE  LET n == New(m, Integer(k))
         IN IsMemory(n) /\ Fresh(m, n) /\ Longer(m, n) /\ n.values[Newest(n)] = Integer(k)
<1> DEFINE x == Integer(k)
<1>1. IsValue(x, DOMAIN m.values, DOMAIN m.buffers) /\ x.alive /\ x.kind = "int"
  BY IntegerFacts
<1> HIDE DEF x
<1>2. LET n == New(m, x) IN IsMemory(n) /\ Fresh(m, n) /\ n.values[Newest(n)] = x
  BY <1>1, ValueFresh
<1>3. Longer(m, New(m, x))
  BY <1>1, ValueAdded
<1> QED BY <1>2, <1>3 DEF x

\* A buffer of new values.
LEMMA BufferKept ==
  ASSUME NEW m, NEW k, Kept(m, k), NEW b, NEW ids, NEW n, NewBuffer(k, b, ids, n),
         \A i \in DOMAIN ids : ids[i] \notin DOMAIN m.values
  PROVE  Kept(m, n)
<1>1. IsMemory(n) /\ \A e : IsElement(e, n) => IsElement(e, k) \/ \E i \in DOMAIN ids : ids[i] = e
  BY BufferMade DEF Kept
<1>2. n.values = k.values
  BY DEF NewBuffer
<1>3. \A e : IsElement(e, n) => IsElement(e, m) \/ e \notin DOMAIN m.values
  BY <1>1 DEF Kept
<1> QED BY <1>1, <1>2, <1>3 DEF Kept

-----------------------------------------------------------------------------
(* The copies of a value. *)

LEMMA CopyIntFresh ==
  ASSUME NEW m, IsMemory(m), NEW v
  PROVE  LET n == CopyInt(m, v)
         IN IsMemory(n) /\ Fresh(m, n) /\ Longer(m, n) /\ n.values[Newest(n)].kind = "int"
<1> DEFINE k == m.values[v].n
<1> HIDE DEF k
<1>1. LET n == New(m, Integer(k))
      IN IsMemory(n) /\ Fresh(m, n) /\ Longer(m, n) /\ n.values[Newest(n)] = Integer(k)
  BY IntFresh
<1>2. Integer(k).kind = "int"
  BY IntegerFacts
<1> QED BY <1>1, <1>2 DEF CopyInt, k

LEMMA AssignBufferKept ==
  ASSUME NEW m, IsMemory(m), NEW self \in DOMAIN m.buffers, NEW other \in DOMAIN m.buffers
  PROVE  LET n == AssignBuffer(m, self, other)
         IN /\ Kept(m, n) /\ DOMAIN n.buffers = DOMAIN m.buffers
            /\ \A v \in DOMAIN n.values : n.values[v].kind = "array" => v \in DOMAIN m.values /\ n.values[v] = m.values[v]
<1> DEFINE emptied == [m EXCEPT !.buffers[self] = <<>>]
           e == [m.buffers EXCEPT ![self] = <<>>]
           read == emptied.buffers[other]
           s == [i \in DOMAIN read |-> Integer(m.values[read[i]].n)]
           L == Len(m.values)
           K == Len(read)
           ids == [i \in DOMAIN read |-> L + i]
           k == [m EXCEPT !.values = @ \o s]
           n == AssignBuffer(m, self, other)
<1>1. /\ m = [values |-> m.values, buffers |-> m.buffers] /\ L \in Nat /\ DOMAIN m.values = 1 .. L
      /\ m.buffers \in Seq(ToSet(m.buffers)) /\ DOMAIN m.buffers = 1 .. Len(m.buffers) /\ Len(m.buffers) \in Nat
  BY MemoryFacts
<1>2. emptied.buffers = e
  BY <1>1
<1>3. K \in Nat /\ DOMAIN read = 1 .. K
  <2>1. CASE self = other
    <3>1. read = <<>>
      BY <1>1, <1>2, <2>1
    <3> HIDE DEF read
    <3> QED BY <3>1
  <2>2. CASE self # other
    <3>1. read = m.buffers[other]
      BY <1>1, <1>2, <2>2
    <3>2. read \in Seq(DOMAIN m.values)
      BY <3>1 DEF IsMemory
    <3> HIDE DEF read
    <3> QED BY <3>2
  <2> QED BY <2>1, <2>2
<1>4. n = [values |-> m.values \o s, buffers |-> [e EXCEPT ![self] = ids]]
  <2>1. n = [values |-> m.values \o s, buffers |-> [emptied.buffers EXCEPT ![self] = ids]]
    BY DEF AssignBuffer
  <2> HIDE DEF n, s, ids, emptied, e
  <2> QED BY <1>2, <2>1
<1>5. k = [values |-> m.values \o s, buffers |-> m.buffers]
  <2> HIDE DEF s
  <2> QED BY Parts
<1> DEFINE b == [e EXCEPT ![self] = ids]
<1>6. DOMAIN b = DOMAIN m.buffers /\ b[self] = ids /\ \A c \in DOMAIN m.buffers : c # self => b[c] = m.buffers[c]
  OBVIOUS
<1>7. b = [i \in 1 .. Len(m.buffers) |-> b[i]]
  BY <1>1
<1>8. \A i \in 1 .. K : ids[i] = L + i
  BY <1>3
<1>9. ids = [i \in 1 .. K |-> ids[i]] /\ s = [i \in 1 .. K |-> s[i]]
  BY <1>3
<1>10. \A i \in 1 .. K : s[i] = Integer(s[i].n)
  <2> TAKE i \in 1 .. K
  <2> DEFINE q == m.values[read[i]].n
  <2>1. s[i] = Integer(q)
    BY <1>3
  <2> HIDE DEF q, s
  <2>2. Integer(q).n = q
    BY IntegerFacts
  <2> QED BY <2>1, <2>2
<1> HIDE DEF read, emptied, e, s, ids, k, b, K, n
<1>11. s \in Seq(ToSet(s)) /\ Len(s) = K /\ DOMAIN s = 1 .. K /\ ids \in Seq(ToSet(ids)) /\ DOMAIN ids = 1 .. K
  BY <1>3, <1>9, SeqMade
<1>12. b \in Seq(ToSet(b))
  BY <1>1, <1>7, SeqMade
<1>13. /\ IsMemory(k) /\ Longer(m, k) /\ Len(k.values) = L + K
       /\ \A i \in 1 .. K : k.values[L + i] = s[i]
  <2>1. s \in Seq(ToSet(s)) /\ \A i \in DOMAIN s : s[i] = Integer(s[i].n)
    BY <1>10, <1>11
  <2>2. LongerBy(m, s, k)
    BY <2>1, IntsAdded DEF k
  <2> QED BY <1>11, <2>2 DEF LongerBy
<1>14. \A v \in DOMAIN k.values \ DOMAIN m.values : k.values[v].kind = "int"
  <2> TAKE v \in DOMAIN k.values \ DOMAIN m.values
  <2>1. DOMAIN k.values = 1 .. L + K
    BY <1>13, MemoryFacts
  <2>2. v - L \in 1 .. K /\ v = L + (v - L)
    <3> HIDE DEF L
    <3> QED BY <1>1, <1>3, <2>1
  <2> DEFINE i == v - L
  <2>3. k.values[v] = s[i] /\ i \in 1 .. K
    BY <1>13, <2>2
  <2> HIDE DEF i
  <2> DEFINE q == s[i].n
  <2>4. s[i] = Integer(q)
    BY <1>10, <2>3
  <2> HIDE DEF q
  <2>5. Integer(q).kind = "int"
    BY IntegerFacts
  <2> QED BY <2>3, <2>4, <2>5
<1>15. Kept(m, k) /\ \A x : IsElement(x, k) <=> IsElement(x, m)
  BY <1>13, LongerKept
<1>16. \A i \in DOMAIN ids : ids[i] \in DOMAIN k.values \ DOMAIN m.values
  <2>1. DOMAIN k.values = 1 .. L + K
    BY <1>13, MemoryFacts
  <2> HIDE DEF L
  <2> QED BY <1>1, <1>3, <1>8, <1>11, <2>1
<1>17. NewBuffer(k, self, ids, n)
  <2>1. ids \in Seq(DOMAIN k.values)
    <3> DEFINE D == DOMAIN k.values
    <3>1. \A i \in DOMAIN ids : ids[i] \in D
      BY <1>16
    <3> HIDE DEF D
    <3>2. ids \in Seq(D)
      BY <1>3, <1>9, <1>11, <3>1
    <3> QED BY <3>2 DEF D
  <2>2. n.values = k.values /\ n.buffers = b /\ n = [values |-> k.values, buffers |-> n.buffers] /\ k.buffers = m.buffers
    BY <1>4, <1>5 DEF b
  <2>3. \A i, j \in DOMAIN ids : ids[i] = ids[j] => i = j
    <3> HIDE DEF L
    <3> QED BY <1>1, <1>3, <1>8, <1>11
  <2>4. \A i \in DOMAIN ids : k.values[ids[i]].kind = "int" /\ ~IsElement(ids[i], k)
    <3>1. \A i \in DOMAIN ids : ~IsElement(ids[i], m)
      BY <1>16, ElementFacts
    <3> QED BY <1>14, <1>15, <1>16, <3>1
  <2> QED BY <1>6, <1>12, <2>1, <2>2, <2>3, <2>4 DEF NewBuffer
<1>18. Kept(m, n)
  BY <1>15, <1>16, <1>17, BufferKept
<1>19. DOMAIN n.buffers = DOMAIN m.buffers /\ n.values = k.values
  BY <1>4, <1>5, <1>6 DEF b
<1>20. \A v \in DOMAIN n.values : n.values[v].kind = "array" => v \in DOMAIN m.values /\ n.values[v] = m.values[v]
  BY <1>13, <1>14, <1>19 DEF Longer
<1> QED BY <1>18, <1>19, <1>20 DEF n

LEMMA AppendedBuffer ==
  ASSUME NEW m, IsMemory(m), NEW ids, ids \in Seq(DOMAIN m.values),
         \A i, j \in DOMAIN ids : ids[i] = ids[j] => i = j,
         \A i \in DOMAIN ids : m.values[ids[i]].kind = "int" /\ ~IsElement(ids[i], m)
  PROVE  LET n == [m EXCEPT !.buffers = Append(@, ids)]
             b == Len(n.buffers)
         IN NewBuffer(m, b, ids, n) /\ b \notin DOMAIN m.buffers /\ n.values = m.values
<1> DEFINE n == [m EXCEPT !.buffers = Append(@, ids)]
           r == Append(m.buffers, ids)
           L == Len(m.buffers)
           b == Len(n.buffers)
<1>1. n = [values |-> m.values, buffers |-> r]
  BY Parts
<1>2. /\ r \in Seq(ToSet(r)) /\ L \in Nat /\ DOMAIN r = 1 .. L + 1 /\ Len(r) = L + 1
      /\ DOMAIN m.buffers = 1 .. L
      /\ \A i \in 1 .. L : r[i] = m.buffers[i]
      /\ r[L + 1] = ids
  BY MemoryFacts, AppendFacts
<1> HIDE DEF n, r, L
<1>3. n.values = m.values /\ n.buffers = r /\ b = L + 1
  BY <1>1, <1>2
<1> HIDE DEF b
<1>4. DOMAIN r = DOMAIN m.buffers \union {b} /\ b \notin DOMAIN m.buffers
  BY <1>2, <1>3
<1>5. r[b] = ids /\ \A c \in DOMAIN m.buffers : c # b => r[c] = m.buffers[c]
  BY <1>2, <1>3
<1>6. NewBuffer(m, b, ids, n)
  BY <1>1, <1>2, <1>3, <1>4, <1>5 DEF NewBuffer
<1> QED BY <1>3, <1>4, <1>6 DEF n, b

\* An array of a new buffer.
LEMMA ArrayFresh ==
  ASSUME NEW m, IsMemory(m), NEW b \in DOMAIN m.buffers,
         \A v \in DOMAIN m.values : m.values[v].kind = "array" => m.values[v].buffer # b
  PROVE  LET n == New(m, Array(b))
         IN IsMemory(n) /\ Fresh(m, n) /\ n.values[Newest(n)].kind = "array"
<1> DEFINE x == Array(b)
<1>1. x.kind = "array" /\ x.alive /\ x.buffer = b /\ IsValue(x, DOMAIN m.values, DOMAIN m.buffers)
  BY DEF Array, IsValue
<1> HIDE DEF x
<1>2. LET n == New(m, x) IN IsMemory(n) /\ Fresh(m, n) /\ n.values[Newest(n)] = x
  BY <1>1, ValueFresh
<1> QED BY <1>1, <1>2 DEF x

LEMMA ArrayBuffer ==
  ASSUME NEW m, IsMemory(m), NEW v \in DOMAIN m.values, m.values[v].kind = "array"
  PROVE  m.values[v].buffer \in DOMAIN m.buffers
<1>1. IsValue(m.values[v], DOMAIN m.values, DOMAIN m.buffers)
  BY DEF IsMemory
<1> QED BY <1>1 DEF IsValue

LEMMA CopyArrayFresh ==
  ASSUME NEW m, IsMemory(m), NEW v \in DOMAIN m.values, m.values[v].kind = "array"
  PROVE  LET n == CopyArray(m, v)
         IN Fresh(m, n) /\ n.values[Newest(n)].kind = "array"
<1> DEFINE fresh == [m EXCEPT !.buffers = Append(@, <<>>)]
           new == Len(fresh.buffers)
           other == m.values[v].buffer
           p == AssignBuffer(fresh, new, other)
           n == New(p, Array(new))
<1>1. CopyArray(m, v) = n
  BY DEF CopyArray
<1>2. NewBuffer(m, new, <<>>, fresh) /\ new \notin DOMAIN m.buffers /\ fresh.values = m.values
  <2> DEFINE ids == <<>>
  <2>1. /\ ids \in Seq(DOMAIN m.values) /\ \A i, j \in DOMAIN ids : ids[i] = ids[j] => i = j
        /\ \A i \in DOMAIN ids : m.values[ids[i]].kind = "int" /\ ~IsElement(ids[i], m)
    OBVIOUS
  <2> HIDE DEF ids
  <2> QED BY <2>1, AppendedBuffer DEF ids
<1> HIDE DEF fresh, new, p, n
<1>3. Kept(m, fresh)
  <2> DEFINE ids == <<>>
  <2>1. \A i \in DOMAIN ids : ids[i] \notin DOMAIN m.values
    OBVIOUS
  <2> HIDE DEF ids
  <2>2. NewBuffer(m, new, ids, fresh) /\ Kept(m, m)
    BY <1>2, KeptSelf DEF ids
  <2> QED BY <2>1, <2>2, BufferKept
<1>4. IsMemory(fresh) /\ new \in DOMAIN fresh.buffers /\ other \in DOMAIN fresh.buffers /\ other \in DOMAIN m.buffers
  BY <1>2, <1>3, ArrayBuffer DEF NewBuffer, Kept
<1> HIDE DEF other
<1>5. /\ Kept(fresh, p) /\ DOMAIN p.buffers = DOMAIN fresh.buffers
      /\ \A w \in DOMAIN p.values : p.values[w].kind = "array" => w \in DOMAIN fresh.values /\ p.values[w] = fresh.values[w]
  BY <1>4, AssignBufferKept DEF p
<1>6. IsMemory(p) /\ new \in DOMAIN p.buffers
  BY <1>4, <1>5 DEF Kept
<1>7. \A w \in DOMAIN p.values : p.values[w].kind = "array" => p.values[w].buffer # new
  BY <1>2, <1>5, ArrayBuffer
<1>8. Fresh(p, n) /\ n.values[Newest(n)].kind = "array"
  BY <1>6, <1>7, ArrayFresh DEF n
<1>9. Fresh(m, n)
  BY <1>3, <1>5, <1>8, KeptTrans, FreshAfter
<1> QED BY <1>1, <1>8, <1>9

LEMMA BeforeCounted ==
  ASSUME NEW L \in Nat, NEW S, S \subseteq 1 .. L
  PROVE  /\ IsFiniteSet(S) /\ Cardinality(S) \in Nat
         /\ \A i \in S : IsFiniteSet(Before(S, i)) /\ Cardinality(Before(S, i)) \in Nat
                         /\ Cardinality(Before(S, i)) < Cardinality(S)
<1>1. IsFiniteSet(S) /\ Cardinality(S) \in Nat
  <2>1. IsFiniteSet(1 .. L)
    BY FS_Interval
  <2> QED BY <2>1, FS_Subset, FS_CardinalityType
<1>2. ASSUME NEW i \in S
      PROVE  IsFiniteSet(Before(S, i)) /\ Cardinality(Before(S, i)) \in Nat
             /\ Cardinality(Before(S, i)) < Cardinality(S)
  <2> DEFINE B == Before(S, i)
  <2>1. B \subseteq S /\ B # S
    BY DEF Before
  <2> HIDE DEF B
  <2>2. IsFiniteSet(B) /\ Cardinality(B) <= Cardinality(S) /\ Cardinality(S) # Cardinality(B)
    BY <1>1, <2>1, FS_Subset
  <2>3. Cardinality(B) \in Nat
    BY <2>2, FS_CardinalityType
  <2> QED BY <1>1, <2>2, <2>3 DEF B
<1> QED BY <1>1, <1>2

\* Every position of a set of positions is the n-th for one n.
LEMMA NthThere ==
  ASSUME NEW L \in Nat, NEW S, S \subseteq 1 .. L, NEW k \in 1 .. Cardinality(S)
  PROVE  Nth(S, k) \in S /\ Cardinality(Before(S, Nth(S, k))) = k - 1
<1> DEFINE C == Cardinality(S)
           rank == [i \in S |-> Cardinality(Before(S, i)) + 1]
<1>1. /\ IsFiniteSet(S) /\ C \in Nat
      /\ \A i \in S : IsFiniteSet(Before(S, i)) /\ Cardinality(Before(S, i)) \in Nat /\ Cardinality(Before(S, i)) < C
  BY BeforeCounted
<1>2. \A i \in S : i \in Nat
  OBVIOUS
<1>3. ASSUME NEW i \in S, NEW j \in S, i < j PROVE rank[i] # rank[j]
  <2> DEFINE A == Before(S, i)
             B == Before(S, j)
  <2>1. A \subseteq B /\ A # B
    <3>1. i \in B /\ i \notin A
      BY <1>2, <1>3 DEF Before
    <3>2. ASSUME NEW l \in A PROVE l \in B
      <4>1. l \in S /\ l < i /\ l \in Nat
        BY <1>2 DEF Before
      <4> QED BY <1>2, <1>3, <4>1 DEF Before
    <3> QED BY <3>1, <3>2
  <2>2. IsFiniteSet(A) /\ IsFiniteSet(B) /\ Cardinality(A) \in Nat /\ Cardinality(B) \in Nat
    BY <1>1
  <2>3. rank[i] = Cardinality(A) + 1 /\ rank[j] = Cardinality(B) + 1
    OBVIOUS
  <2> HIDE DEF A, B, rank
  <2>4. Cardinality(A) # Cardinality(B)
    BY <2>1, <2>2, FS_Subset
  <2> QED BY <2>2, <2>3, <2>4
<1>4. \A i \in S : rank[i] = Cardinality(Before(S, i)) + 1
  OBVIOUS
<1>5. rank \in [S -> 1 .. C]
  <2>1. \A i \in S : Cardinality(Before(S, i)) + 1 \in 1 .. C
    <3> HIDE DEF C
    <3> QED BY <1>1
  <2> QED BY <2>1
<1>6. IsFiniteSet(1 .. C) /\ Cardinality(1 .. C) = C
  BY <1>1, FS_Interval
<1> HIDE DEF C, rank
<1>7. rank \in Injection(S, 1 .. C)
  <2>1. \A i, j \in S : rank[i] = rank[j] => i = j
    BY <1>2, <1>3
  <2> QED BY <1>5, <2>1 DEF Injection, IsInjective
<1>8. rank \in Surjection(S, 1 .. C)
  BY <1>6, <1>7, FS_Injection DEF C
<1>9. PICK i \in S : rank[i] = k
  BY <1>8 DEF Surjection, C
<1>10. Cardinality(Before(S, i)) = k - 1
  <2> DEFINE c == Cardinality(Before(S, i))
  <2>1. c \in Nat /\ k = c + 1
    BY <1>1, <1>4, <1>9
  <2> HIDE DEF c
  <2>2. c = k - 1
    BY <2>1
  <2> QED BY <2>2 DEF c
<1> QED BY <1>10 DEF Nth

\* The last of some positions.
LEMMA LastThere ==
  ASSUME NEW L \in Nat, NEW S, S \subseteq 1 .. L, S # {}
  PROVE  \E i \in S : \A j \in S : j <= i
<1> DEFINE C == Cardinality(S)
           i == Nth(S, C)
           B == Before(S, i)
<1>1. IsFiniteSet(S) /\ C \in Nat
  BY BeforeCounted
<1>2. C # 0
  BY <1>1, FS_EmptySet
<1>3. C \in 1 .. C
  <2> HIDE DEF C
  <2> QED BY <1>1, <1>2
<1>4. i \in S /\ Cardinality(B) = C - 1
  BY <1>3, NthThere
<1> DEFINE R == S \ {i}
<1>5. B \subseteq R
  <2> HIDE DEF i
  <2>1. \A j \in S : j \in Nat
    OBVIOUS
  <2> QED BY <1>4, <2>1 DEF Before
<1>6. IsFiniteSet(R) /\ Cardinality(R) = C - 1
  <2> HIDE DEF i, C
  <2> QED BY <1>1, <1>4, FS_RemoveElement DEF C
<1> HIDE DEF R, C
<1>7. R = B
  <2> HIDE DEF B
  <2> QED BY <1>4, <1>5, <1>6, FS_Subset
<1> HIDE DEF i
<1>8. \A j \in S : j # i => j < i
  BY <1>7 DEF R, Before
<1> QED BY <1>4, <1>8

LEMMA ClosureFacts ==
  ASSUME NEW x, NEW V, IsClosure(x, V)
  PROVE  /\ Len(x.captures) \in Nat /\ DOMAIN x.captures = 1 .. Len(x.captures)
         /\ ToSet(x.captures) = {x.captures[i] : i \in DOMAIN x.captures}
         /\ \A c \in ToSet(x.captures) : IsCapture(c, V)
<1>1. x.captures \in Seq(ToSet(x.captures)) /\ \A c \in ToSet(x.captures) : IsCapture(c, V)
  BY DEF IsClosure
<1> QED BY <1>1, SeqFacts, OwnRange

LEMMA ClosureThere ==
  ASSUME NEW m, IsMemory(m), NEW v \in DOMAIN m.values, m.values[v].kind = "closure"
  PROVE  IsClosure(m.values[v], DOMAIN m.values)
<1> DEFINE x == m.values[v]
<1>1. IsValue(x, DOMAIN m.values, DOMAIN m.buffers) /\ x.kind = "closure"
  BY DEF IsMemory
<1> HIDE DEF x
<1>2. IsClosure(x, DOMAIN m.values)
  BY <1>1 DEF IsValue
<1> QED BY <1>2 DEF x

\* The captures of the copy of a closure: new values, and what the original refers to.
LEMMA CopyClosureFresh ==
  ASSUME NEW m, IsMemory(m), NEW v \in DOMAIN m.values, m.values[v].kind = "closure", m.values[v].alive
  PROVE  LET n == CopyClosure(m, v)
             x == n.values[Newest(n)]
         IN /\ Fresh(m, n) /\ x.kind = "closure"
            /\ \A c \in ToSet(x.captures) :
                 c.value # Newest(n) /\ (c.value \notin DOMAIN m.values \/ \E d \in ToSet(m.values[v].captures) : d.value = c.value)
<1> DEFINE captures == m.values[v].captures
           own == {i \in DOMAIN captures : ~captures[i].ref}
           C == Cardinality(own)
           L == Len(m.values)
           copies == [n \in 1 .. C |-> Integer(m.values[captures[Nth(own, n)].value].n)]
           copied == [i \in DOMAIN captures |->
                        IF i \in own THEN [captures[i] EXCEPT !.value = L + Cardinality(Before(own, i)) + 1]
                        ELSE captures[i]]
           k == [m EXCEPT !.values = @ \o copies]
           y == [m.values[v] EXCEPT !.captures = copied]
           n == New(k, y)
<1>1. CopyClosure(m, v) = n
  BY DEF CopyClosure
<1>2. /\ Len(captures) \in Nat /\ DOMAIN captures = 1 .. Len(captures)
      /\ ToSet(captures) = {captures[i] : i \in DOMAIN captures}
      /\ \A c \in ToSet(captures) : IsCapture(c, DOMAIN m.values)
      /\ IsClosure(m.values[v], DOMAIN m.values)
  <2> DEFINE z == m.values[v]
  <2>1. IsClosure(z, DOMAIN m.values)
    BY ClosureThere
  <2> HIDE DEF z
  <2>2. /\ Len(z.captures) \in Nat /\ DOMAIN z.captures = 1 .. Len(z.captures)
        /\ ToSet(z.captures) = {z.captures[i] : i \in DOMAIN z.captures}
        /\ \A c \in ToSet(z.captures) : IsCapture(c, DOMAIN m.values)
    BY <2>1, ClosureFacts
  <2> QED BY <2>1, <2>2 DEF z
<1>3. own \subseteq DOMAIN captures
  OBVIOUS
<1>4. DOMAIN copied = DOMAIN captures /\ copied = [i \in 1 .. Len(captures) |-> copied[i]]
  BY <1>2
<1>5. \A i \in DOMAIN captures :
        copied[i] = IF i \in own THEN [captures[i] EXCEPT !.value = L + Cardinality(Before(own, i)) + 1] ELSE captures[i]
  BY Zenon
<1>6. /\ y.kind = "closure" /\ y.alive /\ y.captures = copied
      /\ y = [kind |-> "closure", alive |-> y.alive, captures |-> copied, accesses |-> y.accesses,
              text |-> y.text, saw |-> y.saw]
  <2> DEFINE z == m.values[v]
  <2>1. z.alive /\ IsClosure(z, DOMAIN m.values)
    BY <1>2
  <2>2. y = [z EXCEPT !.captures = copied]
    OBVIOUS
  <2> HIDE DEF z, copied, captures, y
  <2>3. z \in [kind : {"closure"}, alive : {z.alive}, captures : Seq(ToSet(z.captures)),
               accesses : {z.accesses}, text : {z.text}, saw : {z.saw}]
    BY <2>1 DEF IsClosure
  <2> QED BY <2>1, <2>2, <2>3
<1>7. copies = [i \in 1 .. C |-> copies[i]] /\ \A i \in 1 .. C : copies[i] = Integer(copies[i].n)
  <2>1. \A i \in 1 .. C : copies[i] = Integer(copies[i].n)
    <3> TAKE i \in 1 .. C
    <3> DEFINE q == m.values[captures[Nth(own, i)].value].n
    <3>1. copies[i] = Integer(q)
      OBVIOUS
    <3> HIDE DEF q, copies
    <3>2. Integer(q).n = q
      BY IntegerFacts
    <3> QED BY <3>1, <3>2
  <2> QED BY <2>1
<1> HIDE DEF copies, copied, captures, own, C, y
<1>8. /\ C \in Nat
      /\ \A i \in own : Cardinality(Before(own, i)) \in Nat /\ Cardinality(Before(own, i)) < C
  <2> DEFINE K == Len(captures)
  <2>1. K \in Nat /\ own \subseteq 1 .. K
    BY <1>2, <1>3
  <2> HIDE DEF K
  <2> QED BY <2>1, BeforeCounted DEF C
<1>9. copies \in Seq(ToSet(copies)) /\ Len(copies) = C /\ DOMAIN copies = 1 .. C
  BY <1>7, <1>8, SeqMade
<1>10. IsMemory(k) /\ Longer(m, k) /\ Len(k.values) = L + C /\ L \in Nat /\ DOMAIN m.values = 1 .. L
  <2>1. \A i \in DOMAIN copies : copies[i] = Integer(copies[i].n)
    BY <1>7, <1>9
  <2>2. LongerBy(m, copies, k)
    BY <1>9, <2>1, IntsAdded
  <2> QED BY <1>9, <2>2, MemoryFacts DEF LongerBy
<1>11. DOMAIN k.values = 1 .. L + C
  BY <1>10, MemoryFacts
<1> HIDE DEF k, L
<1>12. \A i \in own : LET w == L + Cardinality(Before(own, i)) + 1 IN w \in DOMAIN k.values \ DOMAIN m.values
  BY <1>8, <1>10, <1>11
<1>13. ASSUME NEW i \in DOMAIN captures
       PROVE  /\ IsCapture(copied[i], DOMAIN k.values)
              /\ copied[i].value \notin DOMAIN m.values \/ copied[i].value = captures[i].value
  <2> DEFINE c == captures[i]
             w == L + Cardinality(Before(own, i)) + 1
  <2>1. c \in [name : {c.name}, ref : BOOLEAN, value : DOMAIN m.values]
    BY <1>2 DEF IsCapture
  <2>2. DOMAIN m.values \subseteq DOMAIN k.values
    BY <1>10 DEF Longer
  <2>3. CASE i \in own
    <3>1. copied[i] = [c EXCEPT !.value = w] /\ w \in DOMAIN k.values \ DOMAIN m.values
      BY <1>5, <1>12, <2>3
    <3> HIDE DEF c, w
    <3> QED BY <2>1, <3>1 DEF IsCapture
  <2>4. CASE i \notin own
    <3>1. copied[i] = c
      BY <1>5, <2>4
    <3>2. c = captures[i]
      OBVIOUS
    <3> HIDE DEF c
    <3> QED BY <2>1, <2>2, <3>1, <3>2 DEF IsCapture
  <2> QED BY <2>3, <2>4
<1>14. copied \in Seq(ToSet(copied)) /\ ToSet(copied) = {copied[i] : i \in DOMAIN captures}
  <2>1. copied \in Seq(ToSet(copied))
    BY <1>2, <1>4, SeqMade
  <2>2. ToSet(copied) = {copied[i] : i \in DOMAIN copied}
    BY DEF ToSet
  <2> QED BY <1>4, <2>1, <2>2
<1>15. IsValue(y, DOMAIN k.values, DOMAIN k.buffers)
  <2>1. \A c \in ToSet(copied) : IsCapture(c, DOMAIN k.values)
    BY <1>13, <1>14
  <2> DEFINE z == [kind |-> "closure", alive |-> y.alive, captures |-> copied, accesses |-> y.accesses,
                   text |-> y.text, saw |-> y.saw]
  <2>2. IsClosure(z, DOMAIN k.values)
    BY <1>14, <2>1 DEF IsClosure
  <2> QED BY <1>6, <2>2 DEF IsValue
<1>16. Fresh(k, n) /\ n.values[Newest(n)] = y
  BY <1>6, <1>10, <1>15, ValueFresh
<1>17. Fresh(m, n)
  BY <1>10, <1>16, LongerKept, FreshAfter
<1> HIDE DEF n
<1>18. ASSUME NEW c \in ToSet(copied)
       PROVE  c.value # Newest(n) /\ (c.value \notin DOMAIN m.values \/ \E d \in ToSet(captures) : d.value = c.value)
  <2>1. PICK i \in DOMAIN captures : c = copied[i]
    BY <1>14
  <2>2. c.value \in DOMAIN k.values
    BY <1>13, <2>1 DEF IsCapture
  <2> QED BY <1>2, <1>13, <1>16, <2>1, <2>2 DEF Fresh
<1> QED BY <1>1, <1>6, <1>16, <1>17, <1>18 DEF captures

\* What Engine::copy gives.
IsCopy(m, v, n) ==
  /\ Fresh(m, n) /\ n.values[Newest(n)].kind = m.values[v].kind
  /\ m.values[v].kind = "closure" =>
       \A c \in ToSet(n.values[Newest(n)].captures) :
         c.value # Newest(n) /\ (c.value \notin DOMAIN m.values \/ \E d \in ToSet(m.values[v].captures) : d.value = c.value)

LEMMA CopyFresh ==
  ASSUME NEW m, IsMemory(m), NEW v \in DOMAIN m.values, m.values[v].kind \in {"int", "array", "closure"},
         m.values[v].alive
  PROVE  IsCopy(m, v, Copy(m, v))
<1>1. CASE m.values[v].kind = "int"
  <2>1. Copy(m, v) = CopyInt(m, v)
    BY <1>1 DEF Copy
  <2> QED BY <1>1, <2>1, CopyIntFresh DEF IsCopy
<1>2. CASE m.values[v].kind = "array"
  <2>1. Copy(m, v) = CopyArray(m, v)
    BY <1>2 DEF Copy
  <2> QED BY <1>2, <2>1, CopyArrayFresh DEF IsCopy
<1>3. CASE m.values[v].kind = "closure"
  <2>1. Copy(m, v) = CopyClosure(m, v)
    BY <1>3 DEF Copy
  <2> QED BY <1>3, <2>1, CopyClosureFresh DEF IsCopy
<1> QED BY <1>1, <1>2, <1>3

-----------------------------------------------------------------------------
(* The variables, and the values that a step adds. *)

LEMMA StackFacts ==
  ASSUME NEW s, NEW m, IsStack(s, m)
  PROVE  /\ s \in Seq(ToSet(s)) /\ Len(s) \in Nat /\ DOMAIN s = 1 .. Len(s) /\ Len(s) >= 1
         /\ \A i \in DOMAIN s : /\ s[i].value \in DOMAIN m.values /\ s[i].ref \in BOOLEAN
                                /\ HoldsKind(s[i].name, m.values[s[i].value].kind)
<1>1. s \in Seq(ToSet(s)) /\ Len(s) >= 1
  BY DEF IsStack
<1>2. \A i \in DOMAIN s : /\ s[i].value \in DOMAIN m.values /\ s[i].ref \in BOOLEAN
                          /\ HoldsKind(s[i].name, m.values[s[i].value].kind)
  BY DEF IsStack, IsVariable
<1> QED BY <1>1, <1>2, SeqFacts

LEMMA KeptStack ==
  ASSUME NEW s, NEW m, NEW n, IsStack(s, m), Kept(m, n)
  PROVE  IsStack(s, n)
<1>1. \A i \in DOMAIN s : IsVariable(s[i], n)
  <2> TAKE i \in DOMAIN s
  <2> DEFINE x == s[i]
             v == x.value
  <2>1. IsVariable(x, m)
    BY DEF IsStack
  <2> HIDE DEF x
  <2>2. v \in DOMAIN m.values
    BY <2>1 DEF IsVariable
  <2>3. x \in [name : {x.name}, ref : BOOLEAN, value : DOMAIN m.values] /\ HoldsKind(x.name, m.values[v].kind)
    BY <2>1 DEF IsVariable
  <2>4. v = x.value
    OBVIOUS
  <2> HIDE DEF v
  <2>5. v \in DOMAIN n.values /\ n.values[v].kind = m.values[v].kind
    BY <2>2 DEF Kept, Alike
  <2>6. x \in [name : {x.name}, ref : BOOLEAN, value : DOMAIN n.values]
    BY <2>3, <2>4, <2>5
  <2>7. HoldsKind(x.name, n.values[x.value].kind)
    BY <2>3, <2>4, <2>5
  <2>8. IsVariable(x, n)
    BY <2>6, <2>7 DEF IsVariable
  <2> QED BY <2>8 DEF x
<1> QED BY <1>1 DEF IsStack

LEMMA KeptLambda ==
  ASSUME NEW l, NEW s, NEW m, NEW n, IsLambda(l, s, m), Kept(m, n)
  PROVE  IsLambda(l, s, n)
<1>1. \A c \in ToSet(l.captures) : IsCapture(c, DOMAIN n.values)
  BY DEF IsLambda, IsCapture, Kept
<1> QED BY <1>1 DEF IsLambda

\* What a closure on the stack refers to.
LEMMA CapturesThere ==
  ASSUME NEW m, IsMemory(m), NEW v \in DOMAIN m.values, m.values[v].kind = "closure",
         NEW c \in ToSet(m.values[v].captures)
  PROVE  c.value \in DOMAIN m.values
<1>1. IsClosure(m.values[v], DOMAIN m.values)
  BY ClosureThere
<1>2. IsCapture(c, DOMAIN m.values)
  BY <1>1, ClosureFacts
<1> QED BY <1>2 DEF IsCapture

LEMMA KeptSafe ==
  ASSUME NEW s, NEW m, NEW n, NEW l, IsMemory(m), IsStack(s, m), Kept(m, n), IsSafe(s, m, l),
         l # NoLambda => IsLambda(l, s, m)
  PROVE  IsSafe(s, n, l)
<1>1. \A i \in DOMAIN s : s[i].value \in DOMAIN m.values
  BY StackFacts
<1>2. /\ \A v \in DOMAIN m.values : /\ v \in DOMAIN n.values /\ n.values[v].kind = m.values[v].kind
                                    /\ n.values[v].alive = m.values[v].alive
                                    /\ m.values[v].kind = "closure" => n.values[v].captures = m.values[v].captures
      /\ \A v \in DOMAIN n.values \ DOMAIN m.values : n.values[v].alive
      /\ \A e : IsElement(e, n) => IsElement(e, m) \/ e \notin DOMAIN m.values
  BY DEF Kept, Alike
<1>3. \A i \in DOMAIN s : n.values[s[i].value].alive
  BY <1>1, <1>2 DEF IsSafe
<1>4. \A i, j \in DOMAIN s : Owns(s, j, s[i].value) => j <= i
  BY DEF IsSafe
<1>5. \A i \in DOMAIN s : ~s[i].ref /\ n.values[s[i].value].kind = "closure" =>
        \A c \in ToSet(n.values[s[i].value].captures) :
          n.values[c.value].alive /\ \A j \in DOMAIN s : Owns(s, j, c.value) => j < i
  <2> TAKE i \in DOMAIN s
  <2> HAVE ~s[i].ref /\ n.values[s[i].value].kind = "closure"
  <2> DEFINE v == s[i].value
  <2>1. /\ v \in DOMAIN m.values /\ m.values[v].kind = "closure" /\ n.values[v].captures = m.values[v].captures
        /\ ~s[i].ref
    BY <1>1, <1>2
  <2>2. \A c \in ToSet(m.values[v].captures) :
          m.values[c.value].alive /\ \A j \in DOMAIN s : Owns(s, j, c.value) => j < i
    BY <2>1 DEF IsSafe
  <2> HIDE DEF v
  <2>3. \A c \in ToSet(m.values[v].captures) : c.value \in DOMAIN m.values
    BY <2>1, CapturesThere
  <2>4. \A c \in ToSet(n.values[v].captures) :
          n.values[c.value].alive /\ \A j \in DOMAIN s : Owns(s, j, c.value) => j < i
    BY <1>2, <2>1, <2>2, <2>3
  <2> QED BY <2>4 DEF v
<1>6. \A e \in DOMAIN n.values : IsElement(e, n) => n.values[e].alive /\ \A j \in DOMAIN s : ~Owns(s, j, e)
  <2> TAKE e \in DOMAIN n.values
  <2> HAVE IsElement(e, n)
  <2>1. CASE IsElement(e, m)
    <3>1. e \in DOMAIN m.values
      BY <2>1, ElementFacts
    <3> QED BY <1>2, <2>1, <3>1 DEF IsSafe
  <2>2. CASE e \notin DOMAIN m.values
    BY <1>1, <1>2, <2>2 DEF Owns
  <2> QED BY <1>2, <2>1, <2>2
<1>7. l # NoLambda => \A c \in ToSet(l.captures) : n.values[c.value].alive
  BY <1>2 DEF IsSafe, IsLambda, IsCapture
<1> QED BY <1>3, <1>4, <1>5, <1>6, <1>7 DEF IsSafe

LEMMA ScopesWider ==
  ASSUME NEW t, NEW k \in Nat, NEW l \in Nat, AreScopes(t, k), k <= l
  PROVE  AreScopes(t, l)
<1> DEFINE S == 1 .. k
           T == 1 .. l
<1>1. S \subseteq T /\ t \in Seq(S)
  BY DEF AreScopes
<1> HIDE DEF S, T
<1>2. t \in Seq(T)
  BY <1>1
<1> QED BY <1>2 DEF AreScopes, T

\* A variable more.
IsPushed(s, x, t) ==
  /\ t \in Seq(ToSet(t)) /\ Len(t) = Len(s) + 1 /\ DOMAIN t = 1 .. Len(s) + 1
  /\ \A i \in DOMAIN s : t[i] = s[i]
  /\ t[Len(s) + 1] = x

LEMMA PushedIs ==
  ASSUME NEW s, NEW m, IsStack(s, m), NEW x
  PROVE  IsPushed(s, x, Append(s, x))
<1>1. s \in Seq(ToSet(s)) /\ DOMAIN s = 1 .. Len(s)
  BY StackFacts
<1> SUFFICES ASSUME NEW t, t = Append(s, x) PROVE IsPushed(s, x, t)
  OBVIOUS
<1>2. /\ t \in Seq(ToSet(t)) /\ Len(t) = Len(s) + 1 /\ DOMAIN t = 1 .. Len(s) + 1
      /\ \A i \in 1 .. Len(s) : t[i] = s[i]
      /\ t[Len(s) + 1] = x
  BY <1>1, AppendFacts
<1> QED BY <1>1, <1>2 DEF IsPushed

LEMMA StackPushed ==
  ASSUME NEW s, NEW m, IsStack(s, m), NEW x, IsVariable(x, m), x.name \in Names, NEW t, IsPushed(s, x, t)
  PROVE  IsStack(t, m)
<1> DEFINE L == Len(s)
<1>2. L \in Nat /\ DOMAIN s = 1 .. L /\ L >= 1
  BY StackFacts
<1>3. /\ t \in Seq(ToSet(t)) /\ Len(t) = L + 1 /\ DOMAIN t = 1 .. L + 1
      /\ \A i \in 1 .. L : t[i] = s[i]
      /\ t[L + 1] = x
  BY <1>2 DEF IsPushed
<1> HIDE DEF L
<1>4. \A i \in DOMAIN t : i = L + 1 \/ i \in DOMAIN s
  BY <1>2, <1>3
<1>5. \A i \in DOMAIN s : t[i] = s[i]
  BY <1>2, <1>3
<1>6. \A i \in DOMAIN t : IsVariable(t[i], m)
  BY <1>3, <1>4, <1>5 DEF IsStack
<1>7. \A i \in DOMAIN t : i >= FirstCapture => t[i].name \in Names \/ (i = FirstCapture /\ t[i].name = "this")
  BY <1>3, <1>4, <1>5 DEF IsStack
<1> QED BY <1>2, <1>3, <1>6, <1>7 DEF IsStack

LEMMA ReferencePushed ==
  ASSUME NEW s, NEW m, NEW l, IsStack(s, m), IsSafe(s, m, l), NEW x, x.ref, m.values[x.value].alive,
         NEW t, IsPushed(s, x, t)
  PROVE  IsSafe(t, m, l)
<1> DEFINE L == Len(s)
<1>1. /\ L \in Nat /\ DOMAIN s = 1 .. L /\ DOMAIN t = 1 .. L + 1 /\ t[L + 1] = x
      /\ \A i \in DOMAIN s : t[i] = s[i]
  BY StackFacts DEF IsPushed
<1> HIDE DEF L
<1>2. \A i \in DOMAIN t : i = L + 1 \/ i \in DOMAIN s
  BY <1>1
<1>3. \A v : \A j \in DOMAIN t : Owns(t, j, v) => j \in DOMAIN s /\ Owns(s, j, v)
  BY <1>1, <1>2 DEF Owns
<1>4. \A i \in DOMAIN t : m.values[t[i].value].alive
  BY <1>1, <1>2 DEF IsSafe
<1>5. \A i, j \in DOMAIN t : Owns(t, j, t[i].value) => j <= i
  <2> TAKE i \in DOMAIN t, j \in DOMAIN t
  <2> HAVE Owns(t, j, t[i].value)
  <2>1. j \in DOMAIN s /\ Owns(s, j, t[i].value)
    BY <1>3
  <2>2. CASE i = L + 1
    BY <1>1, <2>1, <2>2
  <2>3. CASE i \in DOMAIN s
    BY <1>1, <2>1, <2>3 DEF IsSafe
  <2> QED BY <1>2, <2>2, <2>3
<1>6. \A i \in DOMAIN t : ~t[i].ref /\ m.values[t[i].value].kind = "closure" =>
        \A c \in ToSet(m.values[t[i].value].captures) :
          m.values[c.value].alive /\ \A j \in DOMAIN t : Owns(t, j, c.value) => j < i
  <2> TAKE i \in DOMAIN t
  <2> HAVE ~t[i].ref /\ m.values[t[i].value].kind = "closure"
  <2>1. i \in DOMAIN s /\ t[i] = s[i]
    BY <1>1, <1>2
  <2>2. \A c \in ToSet(m.values[s[i].value].captures) :
          m.values[c.value].alive /\ \A j \in DOMAIN s : Owns(s, j, c.value) => j < i
    BY <2>1 DEF IsSafe
  <2> QED BY <1>3, <2>1, <2>2
<1>7. \A e \in DOMAIN m.values : IsElement(e, m) => m.values[e].alive /\ \A j \in DOMAIN t : ~Owns(t, j, e)
  BY <1>3 DEF IsSafe
<1>8. l # NoLambda => \A c \in ToSet(l.captures) : m.values[c.value].alive
  BY DEF IsSafe
<1> QED BY <1>4, <1>5, <1>6, <1>7, <1>8 DEF IsSafe

LEMMA OwnerPushed ==
  ASSUME NEW s, NEW m, NEW n, NEW l, IsMemory(m), IsStack(s, m), Fresh(m, n), IsSafe(s, n, l),
         NEW x, x.value = Newest(n), NEW t, IsPushed(s, x, t),
         n.values[Newest(n)].kind = "closure" =>
           \A c \in ToSet(n.values[Newest(n)].captures) : n.values[c.value].alive /\ c.value # Newest(n)
  PROVE  IsSafe(t, n, l)
<1> DEFINE L == Len(s)
           v == Newest(n)
<1>1. /\ L \in Nat /\ DOMAIN s = 1 .. L /\ DOMAIN t = 1 .. L + 1 /\ t[L + 1] = x /\ x.value = v
      /\ \A i \in DOMAIN s : t[i] = s[i] /\ s[i].value \in DOMAIN m.values
  BY StackFacts DEF IsPushed
<1>2. v \in DOMAIN n.values \ DOMAIN m.values /\ ~IsElement(v, n) /\ n.values[v].alive
  BY DEF Fresh, Kept
<1> HIDE DEF L, v
<1>3. \A i \in DOMAIN t : (i = L + 1 /\ t[i].value = v) \/ (i \in DOMAIN s /\ t[i] = s[i] /\ t[i].value # v)
  BY <1>1, <1>2
<1>4. \A w : \A j \in DOMAIN t : Owns(t, j, w) => (j = L + 1 /\ w = v) \/ (j \in DOMAIN s /\ Owns(s, j, w))
  BY <1>3 DEF Owns
<1>5. \A i \in DOMAIN t : n.values[t[i].value].alive
  BY <1>2, <1>3 DEF IsSafe
<1>6. \A i, j \in DOMAIN t : Owns(t, j, t[i].value) => j <= i
  <2> TAKE i \in DOMAIN t, j \in DOMAIN t
  <2> HAVE Owns(t, j, t[i].value)
  <2>1. CASE i = L + 1
    BY <1>1, <2>1
  <2>2. CASE i \in DOMAIN s /\ t[i] = s[i] /\ t[i].value # v
    <3>1. j \in DOMAIN s /\ Owns(s, j, s[i].value)
      BY <1>4, <2>2
    <3> QED BY <2>2, <3>1 DEF IsSafe
  <2> QED BY <1>3, <2>1, <2>2
<1>7. \A i \in DOMAIN t : ~t[i].ref /\ n.values[t[i].value].kind = "closure" =>
        \A c \in ToSet(n.values[t[i].value].captures) :
          n.values[c.value].alive /\ \A j \in DOMAIN t : Owns(t, j, c.value) => j < i
  <2> TAKE i \in DOMAIN t
  <2> HAVE ~t[i].ref /\ n.values[t[i].value].kind = "closure"
  <2>1. CASE i = L + 1 /\ t[i].value = v
    <3> TAKE c \in ToSet(n.values[t[i].value].captures)
    <3>1. n.values[c.value].alive /\ c.value # v
      BY <2>1 DEF v
    <3>2. \A j \in DOMAIN t : Owns(t, j, c.value) => j < L + 1
      BY <1>1, <1>4, <3>1
    <3> QED BY <2>1, <3>1, <3>2
  <2>2. CASE i \in DOMAIN s /\ t[i] = s[i] /\ t[i].value # v
    <3>1. \A c \in ToSet(n.values[s[i].value].captures) :
            n.values[c.value].alive /\ \A j \in DOMAIN s : Owns(s, j, c.value) => j < i
      BY <2>2 DEF IsSafe
    <3> TAKE c \in ToSet(n.values[t[i].value].captures)
    <3>2. c.value # v
      <4> DEFINE w == s[i].value
      <4>1. w \in DOMAIN m.values /\ n.values[w].kind = m.values[w].kind
            /\ (m.values[w].kind = "closure" => n.values[w].captures = m.values[w].captures)
        BY <1>1, <2>2 DEF Fresh, Kept, Alike
      <4>2. m.values[w].kind = "closure" /\ c \in ToSet(m.values[w].captures)
        BY <2>2, <4>1
      <4> HIDE DEF w
      <4>3. c.value \in DOMAIN m.values
        BY <4>1, <4>2, CapturesThere
      <4> QED BY <1>2, <4>3
    <3> QED BY <1>4, <2>2, <3>1, <3>2
  <2> QED BY <1>3, <2>1, <2>2
<1>8. \A e \in DOMAIN n.values : IsElement(e, n) => n.values[e].alive /\ \A j \in DOMAIN t : ~Owns(t, j, e)
  BY <1>2, <1>4 DEF IsSafe
<1>9. l # NoLambda => \A c \in ToSet(l.captures) : n.values[c.value].alive
  BY DEF IsSafe
<1> QED BY <1>5, <1>6, <1>7, <1>8, <1>9 DEF IsSafe

-----------------------------------------------------------------------------
(* What the statements have in common. *)

LEMMA MemoryStep ==
  ASSUME AliveInv, Kept(memory, memory'), UNCHANGED <<stack, scopes, limpl>>
  PROVE  AliveInv'
<1>1. IsMemory(memory') /\ IsStack(stack, memory') /\ IsSafe(stack, memory', limpl)
  BY KeptStack, KeptSafe DEF AliveInv, TypeInv, Kept
<1>2. limpl # NoLambda => IsLambda(limpl, stack, memory')
  BY KeptLambda DEF AliveInv, TypeInv
<1>3. AreScopes(scopes, Len(stack))
  BY DEF AliveInv, TypeInv
<1>4. /\ IsStack(stack', memory') /\ IsSafe(stack', memory', limpl') /\ AreScopes(scopes', Len(stack'))
      /\ limpl' # NoLambda => IsLambda(limpl', stack', memory')
  BY <1>1, <1>2, <1>3
<1> QED BY <1>1, <1>4 DEF AliveInv, TypeInv

LEMMA ReferenceStep ==
  ASSUME AliveInv, limpl = NoLambda, UNCHANGED <<scopes, memory, limpl>>,
         NEW name \in Names, NEW v \in DOMAIN memory.values, memory.values[v].alive,
         HoldsKind(name, memory.values[v].kind), Push(name, TRUE, v)
  PROVE  AliveInv'
<1> SUFFICES ASSUME NEW x, x = Variable(name, TRUE, v), NEW t, t = Append(stack, x), stack' = t
             PROVE  AliveInv'
  BY DEF Push
<1>1. IsVariable(x, memory) /\ x.name = name /\ x.value = v /\ x.ref
  BY DEF Variable, IsVariable
<1>2. IsPushed(stack, x, t) /\ IsStack(t, memory)
  BY <1>1, PushedIs, StackPushed DEF AliveInv, TypeInv
<1>3. IsSafe(t, memory, limpl)
  BY <1>1, <1>2, ReferencePushed DEF AliveInv, TypeInv
<1>4. AreScopes(scopes, Len(t))
  BY <1>2, StackFacts, ScopesWider DEF AliveInv, TypeInv, IsPushed
<1>5. IsMemory(memory') /\ IsStack(stack', memory') /\ IsSafe(stack', memory', limpl') /\ AreScopes(scopes', Len(stack'))
  BY <1>2, <1>3, <1>4 DEF AliveInv, TypeInv
<1> QED BY <1>5 DEF AliveInv, TypeInv

LEMMA OwnerStep ==
  ASSUME AliveInv, limpl' = NoLambda, scopes' = scopes, NEW n, memory' = n, Fresh(memory, n),
         NEW name \in Names, Push(name, FALSE, Newest(n)), HoldsKind(name, n.values[Newest(n)].kind),
         n.values[Newest(n)].kind = "closure" =>
           \A c \in ToSet(n.values[Newest(n)].captures) : n.values[c.value].alive /\ c.value # Newest(n)
  PROVE  AliveInv'
<1> SUFFICES ASSUME NEW v, v = Newest(n), NEW x, x = Variable(name, FALSE, v), NEW t, t = Append(stack, x), stack' = t
             PROVE  AliveInv'
  BY DEF Push
<1>1. Kept(memory, n) /\ IsMemory(n) /\ v \in DOMAIN n.values
  BY DEF Fresh, Kept
<1>2. IsVariable(x, n) /\ x.name = name /\ x.value = v
  BY <1>1 DEF Variable, IsVariable
<1>3. IsStack(stack, n) /\ IsSafe(stack, n, limpl)
  BY <1>1, KeptStack, KeptSafe DEF AliveInv, TypeInv
<1>4. IsPushed(stack, x, t) /\ IsStack(t, n)
  BY <1>2, <1>3, PushedIs, StackPushed
<1>5. IsSafe(stack, n, NoLambda)
  BY <1>3 DEF IsSafe
<1>6. IsSafe(t, n, NoLambda)
  BY <1>2, <1>4, <1>5, OwnerPushed DEF AliveInv, TypeInv
<1>7. AreScopes(scopes, Len(t))
  BY <1>4, StackFacts, ScopesWider DEF AliveInv, TypeInv, IsPushed
<1>8. IsMemory(memory') /\ IsStack(stack', memory') /\ IsSafe(stack', memory', limpl') /\ AreScopes(scopes', Len(stack'))
  BY <1>1, <1>4, <1>6, <1>7
<1> QED BY <1>8 DEF AliveInv, TypeInv

\* The variable of a name that is visible.
LEMMA NameFound ==
  ASSUME AliveInv, NEW name, Visible(name)
  PROVE  /\ LastIndexOf(name) \in DOMAIN stack /\ stack[LastIndexOf(name)].name = name
         /\ ValueOf(name) \in DOMAIN memory.values /\ memory.values[ValueOf(name)].alive
         /\ HoldsKind(name, memory.values[ValueOf(name)].kind)
<1> DEFINE found == {i \in DOMAIN stack : stack[i].name = name}
           L == Len(stack)
<1>1. L \in Nat /\ DOMAIN stack = 1 .. L
  BY StackFacts DEF AliveInv, TypeInv
<1>2. found # {} /\ found \subseteq 1 .. L
  BY <1>1 DEF Visible, LastIndexOf
<1>3. LastIndexOf(name) = CHOOSE i \in found : \A j \in found : j <= i
  BY <1>2 DEF LastIndexOf
<1> HIDE DEF found, L
<1>4. \E i \in found : \A j \in found : j <= i
  BY <1>1, <1>2, LastThere
<1>5. LastIndexOf(name) \in found
  BY <1>3, <1>4
<1>6. LastIndexOf(name) \in DOMAIN stack /\ stack[LastIndexOf(name)].name = name
  BY <1>5 DEF found
<1>7. /\ ValueOf(name) \in DOMAIN memory.values
      /\ HoldsKind(name, memory.values[ValueOf(name)].kind)
  BY <1>6, StackFacts DEF AliveInv, TypeInv, ValueOf
<1>8. memory.values[ValueOf(name)].alive
  BY <1>6 DEF AliveInv, IsSafe, ValueOf
<1> QED BY <1>6, <1>7, <1>8

\* What the names hold, and names that hold the same.
LEMMA KindsHeld ==
  ASSUME NEW name, NEW kind
  PROVE  /\ name \in Ints => (HoldsKind(name, kind) <=> kind = "int")
         /\ name \in Arrays => (HoldsKind(name, kind) <=> kind = "array")
         /\ name \in Functors => (HoldsKind(name, kind) <=> kind = "closure")
BY NamesAreDistinct DEF HoldsKind

-----------------------------------------------------------------------------
(* The statements. *)

LEMMA DeclareIntAlive ==
  ASSUME AliveInv, limpl = NoLambda, UNCHANGED limpl, NEW name \in Ints, DeclareInt(name)
  PROVE  AliveInv'
<1> SUFFICES ASSUME NEW n, n = New(memory, Integer(1)), memory' = n PROVE AliveInv'
  BY DEF DeclareInt
<1>1. Fresh(memory, n) /\ n.values[Newest(n)] = Integer(1)
  BY IntFresh DEF AliveInv, TypeInv
<1>2. n.values[Newest(n)].kind = "int"
  BY <1>1, IntegerFacts
<1>3. name \in Names /\ HoldsKind(name, n.values[Newest(n)].kind)
  BY <1>2, KindsHeld DEF Names
<1>4. Push(name, FALSE, Newest(n)) /\ scopes' = scopes
  BY DEF DeclareInt
<1> QED BY <1>1, <1>2, <1>3, <1>4, OwnerStep

LEMMA DeclareCopyAlive ==
  ASSUME AliveInv, limpl = NoLambda, UNCHANGED limpl, NEW name, NEW from, DeclareCopy(name, from)
  PROVE  AliveInv'
<1> DEFINE v == ValueOf(from)
<1> SUFFICES ASSUME NEW n, n = Copy(memory, v), memory' = n PROVE AliveInv'
  BY DEF DeclareCopy
<1>1. /\ Visible(from) /\ ({name, from} \subseteq Ints \/ {name, from} \subseteq Arrays)
      /\ Push(name, FALSE, Newest(n)) /\ scopes' = scopes
  BY DEF DeclareCopy
<1>2. v \in DOMAIN memory.values /\ memory.values[v].alive /\ HoldsKind(from, memory.values[v].kind)
  BY <1>1, NameFound
<1>3. memory.values[v].kind \in {"int", "array"} /\ HoldsKind(name, memory.values[v].kind) /\ name \in Names
  BY <1>1, <1>2, KindsHeld DEF Names
<1> HIDE DEF v
<1>4. IsCopy(memory, v, n)
  BY <1>2, <1>3, CopyFresh DEF AliveInv, TypeInv
<1>5. Fresh(memory, n) /\ n.values[Newest(n)].kind = memory.values[v].kind
  BY <1>4 DEF IsCopy
<1> QED BY <1>1, <1>3, <1>5, OwnerStep

LEMMA DeclareAutoAlive ==
  ASSUME AliveInv, limpl = NoLambda, UNCHANGED limpl, NEW name, NEW from, DeclareAuto(name, from)
  PROVE  AliveInv'
<1> DEFINE v == ValueOf(from)
<1>1. /\ Visible(from) /\ \E S \in {Ints, Arrays, Functors} : {name, from} \subseteq S
      /\ Push(name, TRUE, v) /\ UNCHANGED <<scopes, memory>>
  BY DEF DeclareAuto
<1>2. v \in DOMAIN memory.values /\ memory.values[v].alive /\ HoldsKind(from, memory.values[v].kind)
  BY <1>1, NameFound
<1>3. HoldsKind(name, memory.values[v].kind) /\ name \in Names
  BY <1>1, <1>2, KindsHeld DEF Names
<1> HIDE DEF v
<1> QED BY <1>1, <1>2, <1>3, ReferenceStep

\* The buffer of an array that can be named.
LEMMA ArrayFound ==
  ASSUME AliveInv, NEW a \in Arrays, Visible(a)
  PROVE  /\ memory.values[ValueOf(a)].kind = "array"
         /\ memory.values[ValueOf(a)].buffer \in DOMAIN memory.buffers
         /\ Elements(memory, ValueOf(a)) \in Seq(DOMAIN memory.values)
         /\ \A i \in DOMAIN Elements(memory, ValueOf(a)) :
              /\ Elements(memory, ValueOf(a))[i] \in DOMAIN memory.values
              /\ memory.values[Elements(memory, ValueOf(a))[i]].kind = "int"
              /\ memory.values[Elements(memory, ValueOf(a))[i]].alive
<1> DEFINE v == ValueOf(a)
           b == memory.values[v].buffer
<1>1. v \in DOMAIN memory.values /\ memory.values[v].kind = "array" /\ IsMemory(memory)
  BY NameFound, KindsHeld DEF AliveInv, TypeInv
<1> HIDE DEF v
<1>2. b \in DOMAIN memory.buffers
  BY <1>1, ArrayBuffer
<1> HIDE DEF b
<1>3. memory.buffers[b] \in Seq(DOMAIN memory.values)
  BY <1>1, <1>2 DEF IsMemory
<1>4. \A i \in DOMAIN memory.buffers[b] : IsElement(memory.buffers[b][i], memory)
  BY <1>2 DEF IsElement
<1>5. \A i \in DOMAIN memory.buffers[b] :
        /\ memory.buffers[b][i] \in DOMAIN memory.values
        /\ memory.values[memory.buffers[b][i]].kind = "int"
        /\ memory.values[memory.buffers[b][i]].alive
  BY <1>1, <1>4, ElementFacts DEF AliveInv, IsSafe
<1> QED BY <1>1, <1>2, <1>3, <1>5 DEF Elements, v, b

LEMMA FirstElement ==
  ASSUME NEW S, NEW s \in Seq(S), s # <<>>
  PROVE  1 \in DOMAIN s /\ Head(s) = s[1]
OBVIOUS

LEMMA DeclareElementAlive ==
  ASSUME AliveInv, limpl = NoLambda, UNCHANGED limpl, NEW name \in Ints, NEW a \in Arrays, DeclareElement(name, a)
  PROVE  AliveInv'
<1> DEFINE s == Elements(memory, ValueOf(a))
           v == Head(s)
<1>1. Visible(a) /\ s # <<>> /\ Push(name, TRUE, v) /\ UNCHANGED <<scopes, memory>>
  BY DEF DeclareElement
<1>2. /\ s \in Seq(DOMAIN memory.values)
      /\ \A i \in DOMAIN s : s[i] \in DOMAIN memory.values /\ memory.values[s[i]].kind = "int" /\ memory.values[s[i]].alive
  BY <1>1, ArrayFound
<1> HIDE DEF s
<1>3. v \in DOMAIN memory.values /\ memory.values[v].kind = "int" /\ memory.values[v].alive
  BY <1>1, <1>2, FirstElement
<1> HIDE DEF v
<1>4. name \in Names /\ HoldsKind(name, memory.values[v].kind)
  BY <1>3, KindsHeld DEF Names
<1> QED BY <1>1, <1>3, <1>4, ReferenceStep

\* An array of new values.
ArrayOf(m, ids) ==
  LET p == [m EXCEPT !.buffers = Append(@, ids)] IN New(p, Array(Len(p.buffers)))

LEMMA ArrayMade ==
  ASSUME NEW k, NEW m, IsMemory(k), IsMemory(m), Kept(k, m), NEW ids, ids \in Seq(DOMAIN m.values),
         \A i, j \in DOMAIN ids : ids[i] = ids[j] => i = j,
         \A i \in DOMAIN ids : m.values[ids[i]].kind = "int" /\ ~IsElement(ids[i], m) /\ ids[i] \notin DOMAIN k.values
  PROVE  LET n == ArrayOf(m, ids) IN Fresh(k, n) /\ n.values[Newest(n)].kind = "array"
<1> DEFINE p == [m EXCEPT !.buffers = Append(@, ids)]
           b == Len(p.buffers)
           n == New(p, Array(b))
<1>1. NewBuffer(m, b, ids, p) /\ b \notin DOMAIN m.buffers /\ p.values = m.values
  BY AppendedBuffer
<1> HIDE DEF p, b, n
<1>2. Kept(k, p)
  BY <1>1, BufferKept
<1>3. IsMemory(p) /\ b \in DOMAIN p.buffers
  BY <1>1, <1>2 DEF Kept, NewBuffer
<1>4. \A w \in DOMAIN p.values : p.values[w].kind = "array" => p.values[w].buffer # b
  BY <1>1, ArrayBuffer
<1>5. Fresh(p, n) /\ n.values[Newest(n)].kind = "array"
  BY <1>3, <1>4, ArrayFresh DEF n
<1>6. Fresh(k, n)
  BY <1>2, <1>5, FreshAfter
<1> QED BY <1>5, <1>6 DEF ArrayOf, n, b, p

LEMMA DeclareArrayAlive ==
  ASSUME AliveInv, limpl = NoLambda, UNCHANGED limpl, NEW name \in Arrays, NEW from \in Ints, DeclareArray(name, from)
  PROVE  AliveInv'
<1> DEFINE v == ValueOf(from)
           one == CopyInt(memory, v)
           two == CopyInt(one, v)
           ids == <<Newest(one), Newest(two)>>
           m == [two EXCEPT !.buffers = Append(@, ids)]
           n == New(m, Array(Len(m.buffers)))
<1>1. Push(name, FALSE, Newest(memory')) /\ scopes' = scopes /\ memory' = n
  BY DEF DeclareArray
<1> HIDE DEF v, n
<1>2. IsMemory(one) /\ Fresh(memory, one) /\ one.values[Newest(one)].kind = "int"
  BY CopyIntFresh DEF AliveInv, TypeInv
<1> HIDE DEF one
<1>3. IsMemory(two) /\ Fresh(one, two) /\ Longer(one, two) /\ two.values[Newest(two)].kind = "int"
  BY <1>2, CopyIntFresh
<1>13. ids = <<Newest(one), Newest(two)>>
  OBVIOUS
<1> HIDE DEF two, ids, m
<1>4. /\ Newest(one) \in DOMAIN two.values \ DOMAIN memory.values /\ two.values[Newest(one)].kind = "int"
      /\ Newest(two) \in DOMAIN two.values \ DOMAIN memory.values /\ Newest(one) # Newest(two)
      /\ ~IsElement(Newest(one), two) /\ ~IsElement(Newest(two), two)
  <2>1. /\ Newest(one) \in DOMAIN one.values \ DOMAIN memory.values /\ ~IsElement(Newest(one), one)
        /\ Newest(two) \in DOMAIN two.values \ DOMAIN one.values /\ ~IsElement(Newest(two), two)
        /\ DOMAIN memory.values \subseteq DOMAIN one.values
    BY <1>2, <1>3 DEF Fresh, Kept
  <2>2. /\ DOMAIN one.values \subseteq DOMAIN two.values
        /\ \A w \in DOMAIN one.values : two.values[w] = one.values[w]
        /\ \A e : IsElement(e, two) <=> IsElement(e, one)
    BY <1>2, <1>3, LongerKept DEF Longer
  <2> QED BY <1>2, <1>3, <2>1, <2>2
<1> DEFINE D == DOMAIN two.values
<1>5. ids \in Seq(D) /\ DOMAIN ids = {1, 2} /\ ids[1] = Newest(one) /\ ids[2] = Newest(two)
  <2>1. Newest(one) \in D /\ Newest(two) \in D
    BY <1>4
  <2> HIDE DEF D
  <2> QED BY <1>13, <2>1
<1>6. /\ \A i, j \in DOMAIN ids : ids[i] = ids[j] => i = j
      /\ \A i \in DOMAIN ids : two.values[ids[i]].kind = "int" /\ ~IsElement(ids[i], two) /\ ids[i] \notin DOMAIN memory.values
  BY <1>3, <1>4, <1>5
<1>7. Kept(memory, two) /\ IsMemory(memory)
  BY <1>2, <1>3, KeptTrans DEF Fresh, AliveInv, TypeInv
<1>8. Fresh(memory, n) /\ n.values[Newest(n)].kind = "array"
  <2>1. n = ArrayOf(two, ids)
    BY DEF n, m, ArrayOf
  <2> QED BY <1>3, <1>5, <1>6, <1>7, <2>1, ArrayMade
<1>9. name \in Names /\ HoldsKind(name, n.values[Newest(n)].kind)
  BY <1>8, KindsHeld DEF Names
<1> QED BY <1>1, <1>8, <1>9, OwnerStep

LEMMA AssignAlive ==
  ASSUME AliveInv, limpl = NoLambda, UNCHANGED limpl, NEW a \in Arrays, NEW b \in Arrays, Assign(a, b)
  PROVE  AliveInv'
<1> DEFINE self == memory.values[ValueOf(a)].buffer
           other == memory.values[ValueOf(b)].buffer
           n == AssignBuffer(memory, self, other)
<1>1. /\ Visible(a) /\ Visible(b) /\ memory' = IF self = other THEN memory ELSE n
      /\ UNCHANGED <<stack, scopes>>
  BY DEF Assign, AssignArray
<1>2. self \in DOMAIN memory.buffers /\ other \in DOMAIN memory.buffers /\ IsMemory(memory)
  BY <1>1, ArrayFound DEF AliveInv, TypeInv
<1> HIDE DEF self, other, n
<1>3. Kept(memory, n) /\ Kept(memory, memory)
  BY <1>2, AssignBufferKept, KeptSelf DEF n
<1>4. Kept(memory, memory')
  BY <1>1, <1>3
<1> QED BY <1>1, <1>4, MemoryStep

\* One element, of a value that was just made.
LEMMA ResizeMade ==
  ASSUME NEW m, IsMemory(m), NEW k, Fresh(m, k), IsMemory(k), Longer(m, k), k.values[Newest(k)].kind = "int",
         NEW b \in DOMAIN k.buffers
  PROVE  Kept(m, [k EXCEPT !.buffers[b] = <<Newest(k)>>])
<1> DEFINE ids == <<Newest(k)>>
           r == [k.buffers EXCEPT ![b] = ids]
           n == [k EXCEPT !.buffers[b] = ids]
<1>1. Kept(m, k) /\ Newest(k) \in DOMAIN k.values \ DOMAIN m.values /\ ~IsElement(Newest(k), k)
  BY DEF Fresh
<1>2. /\ ids \in Seq(DOMAIN k.values) /\ \A i, j \in DOMAIN ids : ids[i] = ids[j] => i = j
      /\ \A i \in DOMAIN ids : ids[i] = Newest(k)
  <2> DEFINE D == DOMAIN k.values
  <2>1. Newest(k) \in D
    BY <1>1
  <2> HIDE DEF D
  <2>2. ids \in Seq(D)
    BY <2>1
  <2> QED BY <2>2 DEF D
<1>3. k = [values |-> k.values, buffers |-> k.buffers] /\ DOMAIN k.buffers = 1 .. Len(k.buffers) /\ Len(k.buffers) \in Nat
  BY MemoryFacts
<1>4. n = [values |-> k.values, buffers |-> r]
  <2> HIDE DEF ids
  <2> QED BY <1>3
<1>5. /\ DOMAIN r = DOMAIN k.buffers \union {b} /\ r[b] = ids
      /\ \A c \in DOMAIN k.buffers : c # b => r[c] = k.buffers[c]
      /\ r = [i \in 1 .. Len(k.buffers) |-> r[i]]
  <2> HIDE DEF ids
  <2> QED BY <1>3
<1> HIDE DEF ids, r, n
<1>6. r \in Seq(ToSet(r))
  BY <1>3, <1>5, SeqMade
<1>7. n.values = k.values /\ n.buffers = r /\ n = [values |-> k.values, buffers |-> n.buffers]
  BY <1>4
<1>8. NewBuffer(k, b, ids, n)
  BY <1>1, <1>2, <1>5, <1>6, <1>7 DEF NewBuffer
<1>9. \A i \in DOMAIN ids : ids[i] \notin DOMAIN m.values
  BY <1>1, <1>2
<1>10. Kept(m, n)
  BY <1>1, <1>8, <1>9, BufferKept
<1> QED BY <1>10 DEF n, ids

LEMMA ResizeAlive ==
  ASSUME AliveInv, limpl = NoLambda, UNCHANGED limpl, NEW a \in Arrays, Resize(a)
  PROVE  AliveInv'
<1> DEFINE v == ValueOf(a)
           k == New(memory, Integer(0))
           b == k.values[v].buffer
           n == [k EXCEPT !.buffers[b] = <<Newest(k)>>]
<1>1. Visible(a) /\ memory' = n /\ UNCHANGED <<stack, scopes>>
  BY DEF Resize
<1>2. v \in DOMAIN memory.values /\ memory.values[v].buffer \in DOMAIN memory.buffers /\ IsMemory(memory)
  BY <1>1, ArrayFound, NameFound DEF AliveInv, TypeInv
<1> HIDE DEF v
<1>3. IsMemory(k) /\ Fresh(memory, k) /\ Longer(memory, k) /\ k.values[Newest(k)] = Integer(0)
  BY <1>2, IntFresh
<1> HIDE DEF k
<1>4. k.values[Newest(k)].kind = "int" /\ b \in DOMAIN k.buffers
  <2>1. k.values[Newest(k)].kind = "int"
    BY <1>3, IntegerFacts
  <2>2. k.values[v] = memory.values[v] /\ k.buffers = memory.buffers
    BY <1>2, <1>3 DEF Longer
  <2> QED BY <1>2, <2>1, <2>2
<1> HIDE DEF b
<1>5. Kept(memory, n)
  BY <1>2, <1>3, <1>4, ResizeMade
<1> QED BY <1>1, <1>5, MemoryStep

\* Values that are of their kinds still.
LEMMA Revalued ==
  ASSUME NEW m, IsMemory(m), NEW u, u = [v \in DOMAIN m.values |-> u[v]],
         \A v \in DOMAIN m.values :
           /\ IsValue(u[v], DOMAIN m.values, DOMAIN m.buffers) /\ u[v].kind = m.values[v].kind
           /\ u[v].kind = "array" => u[v].buffer = m.values[v].buffer
  PROVE  IsMemory([m EXCEPT !.values = u])
<1>1. DOMAIN u = DOMAIN m.values
  BY Zenon
<1>2. Len(m.values) \in Nat /\ DOMAIN m.values = 1 .. Len(m.values)
  BY MemoryFacts
<1>3. u = [i \in 1 .. Len(m.values) |-> u[i]]
  BY <1>2
<1>4. u \in Seq(ToSet(u))
  BY <1>2, <1>3, SeqMade
<1>5. /\ m.buffers \in Seq(ToSet(m.buffers))
      /\ \A b \in DOMAIN m.buffers : m.buffers[b] \in Seq(DOMAIN u)
      /\ \A b \in DOMAIN m.buffers : \A i \in DOMAIN m.buffers[b] : m.buffers[b][i] \in DOMAIN m.values
  BY <1>1, MemoryFacts DEF IsMemory
<1>6. \A b \in DOMAIN m.buffers : \A i \in DOMAIN m.buffers[b] : u[m.buffers[b][i]].kind = "int"
  <2>1. \A b \in DOMAIN m.buffers : \A i \in DOMAIN m.buffers[b] : m.values[m.buffers[b][i]].kind = "int"
    BY DEF IsMemory
  <2> QED BY <1>5, <2>1
<1>7. \A v, w \in DOMAIN u : u[v].kind = "array" /\ u[w].kind = "array" /\ u[v].buffer = u[w].buffer => v = w
  <2>1. \A v, w \in DOMAIN m.values :
          m.values[v].kind = "array" /\ m.values[w].kind = "array" /\ m.values[v].buffer = m.values[w].buffer => v = w
    BY DEF IsMemory
  <2> QED BY <1>1, <2>1
<1>8. \A b, c \in DOMAIN m.buffers : \A i \in DOMAIN m.buffers[b], j \in DOMAIN m.buffers[c] :
        m.buffers[b][i] = m.buffers[c][j] => b = c /\ i = j
  BY DEF IsMemory
<1>9. \A v \in DOMAIN u : IsValue(u[v], DOMAIN u, DOMAIN m.buffers)
  BY <1>1
<1>10. IsMemory([values |-> u, buffers |-> m.buffers])
  BY <1>4, <1>5, <1>6, <1>7, <1>8, <1>9, MemoryMade
<1> QED BY <1>10, Parts

\* A field of a value is another.
LEMMA FieldChanged ==
  ASSUME NEW x, NEW V, NEW B, IsValue(x, V, B), NEW k, NEW y, y = [x EXCEPT !.n = k] \/ y = [x EXCEPT !.alive = k]
  PROVE  /\ IsValue(y, V, B) /\ y.kind = x.kind
         /\ x.kind = "array" => y.buffer = x.buffer
         /\ x.kind = "closure" => y.captures = x.captures
<1>1. CASE x.kind = "int" /\ x \in [kind : {"int"}, alive : {x.alive}, n : {x.n}]
  BY <1>1 DEF IsValue
<1>2. CASE x.kind = "array" /\ x \in [kind : {"array"}, alive : {x.alive}, buffer : B]
  BY <1>2 DEF IsValue
<1>3. CASE x.kind = "object" /\ x \in [kind : {"object"}, alive : {x.alive}, members : {x.members}]
  BY <1>3 DEF IsValue
<1>4. CASE x.kind = "closure" /\ IsClosure(x, V)
  <2>1. /\ x \in [kind : {"closure"}, alive : {x.alive}, captures : Seq(ToSet(x.captures)),
                  accesses : {x.accesses}, text : {x.text}, saw : {x.saw}]
        /\ \A c \in ToSet(x.captures) : IsCapture(c, V) /\ x.kind = "closure"
    BY <1>4 DEF IsClosure
  <2> QED BY <2>1 DEF IsValue, IsClosure
<1> QED BY <1>1, <1>2, <1>3, <1>4 DEF IsValue

LEMMA ValuesChanged ==
  ASSUME NEW m, IsMemory(m), NEW u, u = [v \in DOMAIN m.values |-> u[v]],
         \A v \in DOMAIN m.values : u[v] = m.values[v] \/ \E k : u[v] = [m.values[v] EXCEPT !.n = k]
  PROVE  Kept(m, [m EXCEPT !.values = u])
<1> DEFINE n == [m EXCEPT !.values = u]
<1>1. \A v \in DOMAIN m.values : IsValue(m.values[v], DOMAIN m.values, DOMAIN m.buffers)
  BY DEF IsMemory
<1>2. ASSUME NEW v \in DOMAIN m.values
      PROVE  /\ IsValue(u[v], DOMAIN m.values, DOMAIN m.buffers) /\ u[v].kind = m.values[v].kind /\ Alike(u[v], m.values[v])
             /\ u[v].kind = "array" => u[v].buffer = m.values[v].buffer
  <2> DEFINE x == m.values[v]
             y == u[v]
             V == DOMAIN m.values
             B == DOMAIN m.buffers
  <2>1. IsValue(x, V, B) /\ (y = x \/ \E k : y = [x EXCEPT !.n = k])
    BY <1>1
  <2> HIDE DEF x, y, V, B
  <2>2. /\ IsValue(y, V, B) /\ y.kind = x.kind /\ y.alive = x.alive
        /\ x.kind = "array" => y.buffer = x.buffer
        /\ x.kind = "closure" => y.captures = x.captures
    <3>1. CASE y = x
      BY <2>1, <3>1
    <3>2. CASE y # x
      <4>1. PICK k : y = [x EXCEPT !.n = k]
        BY <2>1, <3>2
      <4>2. y.alive = x.alive
        BY <2>1, <4>1 DEF IsValue, IsClosure
      <4> QED BY <2>1, <4>1, <4>2, FieldChanged
    <3> QED BY <3>1, <3>2
  <2>3. Alike(y, x)
    BY <2>2 DEF Alike
  <2> QED BY <2>2, <2>3 DEF x, y, V, B
<1>3. IsMemory(n)
  BY <1>2, Revalued
<1>4. n = [values |-> u, buffers |-> m.buffers]
  BY Parts
<1> HIDE DEF n
<1>5. n.values = u /\ n.buffers = m.buffers
  BY <1>4
<1>6. DOMAIN u = DOMAIN m.values
  BY Zenon
<1>7. \A e : IsElement(e, n) => IsElement(e, m)
  BY <1>5 DEF IsElement
<1>8. Kept(m, n)
  BY <1>2, <1>3, <1>5, <1>6, <1>7 DEF Kept
<1> QED BY <1>8 DEF n

LEMMA ChangeAlive ==
  ASSUME AliveInv, limpl = NoLambda, UNCHANGED limpl, NEW name, Change(name)
  PROVE  AliveInv'
<1> DEFINE w == Changed(memory, ValueOf(name))
           u == [v \in DOMAIN memory.values |->
                   IF (IF v = w THEN 1 ELSE 0) = 0 THEN memory.values[v]
                   ELSE [memory.values[v] EXCEPT !.n = (@ + (IF v = w THEN 1 ELSE 0)) % 3]]
<1>1. memory' = [memory EXCEPT !.values = u] /\ UNCHANGED <<stack, scopes>>
  BY DEF Change, ChangeValues
<1>2. u = [v \in DOMAIN memory.values |-> u[v]]
  OBVIOUS
<1>3. \A v \in DOMAIN memory.values : u[v] = memory.values[v] \/ \E k : u[v] = [memory.values[v] EXCEPT !.n = k]
  <2> HIDE DEF w
  <2> QED OBVIOUS
<1> HIDE DEF u
<1>4. Kept(memory, memory')
  BY <1>1, <1>2, <1>3, ValuesChanged DEF AliveInv, TypeInv
<1> QED BY <1>1, <1>4, MemoryStep

LEMMA CallAlive ==
  ASSUME AliveInv, limpl = NoLambda, UNCHANGED limpl, NEW name, Call(name)
  PROVE  AliveInv'
<1> DEFINE accesses == memory.values[ValueOf(name)].accesses
           times(w) == Cardinality({i \in DOMAIN accesses :
                                      Changed(memory, Accessed(memory, ValueOf(name), accesses[i])) = w})
           u == [v \in DOMAIN memory.values |->
                   IF times(v) = 0 THEN memory.values[v] ELSE [memory.values[v] EXCEPT !.n = (@ + times(v)) % 3]]
<1>1. memory' = [memory EXCEPT !.values = u] /\ UNCHANGED <<stack, scopes>>
  BY DEF Call, ChangeValues
<1> HIDE DEF times
<1>2. u = [v \in DOMAIN memory.values |-> u[v]]
  OBVIOUS
<1>3. \A v \in DOMAIN memory.values : u[v] = memory.values[v] \/ \E k : u[v] = [memory.values[v] EXCEPT !.n = k]
  OBVIOUS
<1> HIDE DEF u
<1>4. Kept(memory, memory')
  BY <1>1, <1>2, <1>3, ValuesChanged DEF AliveInv, TypeInv
<1> QED BY <1>1, <1>4, MemoryStep

LEMMA EnterAlive ==
  ASSUME AliveInv, limpl = NoLambda, UNCHANGED limpl, Enter
  PROVE  AliveInv'
<1>1. scopes' = Append(scopes, Len(stack)) /\ UNCHANGED <<stack, memory>>
  BY DEF Enter
<1> DEFINE L == Len(stack)
           S == 1 .. L
           t == Append(scopes, L)
<1>2. L \in Nat /\ L \in S
  BY StackFacts DEF AliveInv, TypeInv
<1>3. scopes \in Seq(S) /\ \A k, l \in DOMAIN scopes : k <= l => scopes[k] <= scopes[l]
  BY DEF AliveInv, TypeInv, AreScopes
<1>4. \A k \in S : k <= L
  BY <1>2
<1> HIDE DEF L, S
<1>5. t \in Seq(S) /\ \A k, l \in DOMAIN t : k <= l => t[k] <= t[l]
  <2>1. /\ t \in Seq(S) /\ Len(scopes) \in Nat /\ DOMAIN t = 1 .. Len(scopes) + 1 /\ DOMAIN scopes = 1 .. Len(scopes)
        /\ \A k \in DOMAIN scopes : t[k] = scopes[k] /\ scopes[k] \in S
        /\ t[Len(scopes) + 1] = L
    BY <1>2, <1>3
  <2> HIDE DEF t
  <2>2. \A k \in DOMAIN t : k = Len(scopes) + 1 \/ k \in DOMAIN scopes
    BY <2>1
  <2> SUFFICES ASSUME NEW k \in DOMAIN t, NEW l \in DOMAIN t, k <= l PROVE t[k] <= t[l]
    BY <2>1
  <2>3. CASE l = Len(scopes) + 1
    <3>1. t[k] \in S \/ t[k] = L
      BY <2>1, <2>2
    <3>2. t[l] = L
      BY <2>1, <2>3
    <3> QED BY <1>2, <1>4, <3>1, <3>2
  <2>4. CASE l \in DOMAIN scopes
    <3>1. k \in DOMAIN scopes
      BY <2>1, <2>2, <2>4
    <3> QED BY <1>3, <2>1, <2>4, <3>1
  <2> QED BY <2>2, <2>3, <2>4
<1>6. AreScopes(scopes', Len(stack'))
  BY <1>1, <1>5 DEF AreScopes, S, L
<1>7. /\ IsMemory(memory') /\ IsStack(stack', memory') /\ IsSafe(stack', memory', limpl')
      /\ limpl' # NoLambda => IsLambda(limpl', stack', memory')
  BY <1>1 DEF AliveInv, TypeInv
<1> QED BY <1>6, <1>7 DEF AliveInv, TypeInv

\* The blocks that are still open.
LEMMA ScopesLeft ==
  ASSUME NEW t, NEW n \in Nat, AreScopes(t, n), t # <<>>
  PROVE  Last(t) \in 1 .. n /\ AreScopes(Front(t), Last(t))
<1> DEFINE K == Len(t)
           f == Front(t)
           L == Last(t)
<1>1. /\ K \in Nat /\ K >= 1 /\ DOMAIN t = 1 .. K /\ \A k \in 1 .. K : t[k] \in 1 .. n
      /\ \A k, l \in DOMAIN t : k <= l => t[k] <= t[l]
  BY DEF AreScopes
<1>2. L = t[K]
  BY DEF Last
<1>3. L \in 1 .. n
  BY <1>1, <1>2
<1>4. Len(f) = K - 1 /\ DOMAIN f = 1 .. K - 1 /\ \A k \in 1 .. K - 1 : f[k] = t[k]
  BY <1>1 DEF Front, AreScopes
<1>5. f = [k \in 1 .. K - 1 |-> f[k]]
  BY <1>1 DEF Front, AreScopes
<1> HIDE DEF K, f, L
<1>6. \A k \in 1 .. K - 1 : f[k] \in 1 .. L
  <2> TAKE k \in 1 .. K - 1
  <2>1. k \in 1 .. K /\ K \in 1 .. K /\ k <= K
    BY <1>1
  <2>2. t[k] \in 1 .. n /\ t[k] <= t[K]
    BY <1>1, <2>1
  <2> QED BY <1>2, <1>3, <1>4, <2>2
<1>7. f \in Seq(1 .. L)
  <2> DEFINE S == 1 .. L
  <2>1. \A k \in 1 .. K - 1 : f[k] \in S
    BY <1>6
  <2> HIDE DEF S
  <2>2. f \in [1 .. K - 1 -> S] /\ K - 1 \in Nat
    BY <1>1, <1>5, <2>1
  <2>3. f \in Seq(S)
    BY <2>2
  <2> QED BY <2>3 DEF S
<1>8. \A k, l \in DOMAIN f : k <= l => f[k] <= f[l]
  <2> TAKE k \in DOMAIN f, l \in DOMAIN f
  <2>1. k \in DOMAIN t /\ l \in DOMAIN t /\ f[k] = t[k] /\ f[l] = t[l]
    BY <1>1, <1>4
  <2> QED BY <1>1, <2>1
<1> QED BY <1>3, <1>7, <1>8 DEF AreScopes, f, L

LEMMA LeaveAlive ==
  ASSUME AliveInv, limpl = NoLambda, UNCHANGED limpl, Leave
  PROVE  AliveInv'
<1> DEFINE L == Last(scopes)
           popped == {stack[i].value : i \in {j \in L + 1 .. Len(stack) : Destroys(stack[j])}}
           left == [v \in DOMAIN memory.values |-> [memory.values[v] EXCEPT !.alive = @ /\ v \notin popped]]
           n == [memory EXCEPT !.values = left]
           t == SubSeq(stack, 1, L)
<1>1. scopes # <<>> /\ memory' = n /\ stack' = t /\ scopes' = Front(scopes)
  BY DEF Leave
<1>2. IsMemory(memory) /\ IsStack(stack, memory) /\ AreScopes(scopes, Len(stack)) /\ IsSafe(stack, memory, limpl)
  BY DEF AliveInv, TypeInv
<1>3. Len(stack) \in Nat /\ DOMAIN stack = 1 .. Len(stack) /\ stack \in Seq(ToSet(stack))
      /\ \A i \in DOMAIN stack : stack[i].value \in DOMAIN memory.values
  BY <1>2, StackFacts
<1>4. L \in 1 .. Len(stack) /\ AreScopes(Front(scopes), L)
  BY <1>1, <1>2, <1>3, ScopesLeft
<1>5. \A v : v \in popped <=> \E j \in DOMAIN stack : j > L /\ Owns(stack, j, v)
  <2>1. \A j : j \in L + 1 .. Len(stack) <=> j \in DOMAIN stack /\ j > L
    <3> HIDE DEF L
    <3> QED BY <1>3, <1>4
  <2> HIDE DEF L
  <2> QED BY <2>1 DEF Destroys, Owns
<1> HIDE DEF L, popped
<1>6. /\ t \in Seq(ToSet(stack)) /\ Len(t) = L /\ DOMAIN t = 1 .. L /\ L \in Nat /\ L >= 1
      /\ \A i \in DOMAIN t : t[i] = stack[i] /\ i \in DOMAIN stack
  BY <1>3, <1>4
<1> HIDE DEF t
<1>7. \A v \in DOMAIN memory.values : left[v] = [memory.values[v] EXCEPT !.alive = memory.values[v].alive /\ v \notin popped]
  OBVIOUS
<1>8. left = [v \in DOMAIN memory.values |-> left[v]]
  OBVIOUS
<1>9. n = [values |-> left, buffers |-> memory.buffers]
  <2> HIDE DEF left
  <2> QED BY <1>2, Parts
<1>10. DOMAIN left = DOMAIN memory.values
  OBVIOUS
<1> HIDE DEF left
<1>11. ASSUME NEW v \in DOMAIN memory.values
       PROVE  /\ IsValue(left[v], DOMAIN memory.values, DOMAIN memory.buffers)
              /\ left[v].kind = memory.values[v].kind
              /\ memory.values[v].kind = "array" => left[v].buffer = memory.values[v].buffer
              /\ memory.values[v].kind = "closure" => left[v].captures = memory.values[v].captures
              /\ memory.values[v].alive /\ v \notin popped => left[v].alive
  <2> DEFINE x == memory.values[v]
             a == x.alive /\ v \notin popped
             y == left[v]
             V == DOMAIN memory.values
             B == DOMAIN memory.buffers
  <2>1. IsValue(x, V, B) /\ y = [x EXCEPT !.alive = a]
    BY <1>2, <1>7 DEF IsMemory
  <2>2. x.alive /\ v \notin popped => a
    OBVIOUS
  <2> HIDE DEF x, y, V, B, a
  <2>3. /\ IsValue(y, V, B) /\ y.kind = x.kind
        /\ x.kind = "array" => y.buffer = x.buffer
        /\ x.kind = "closure" => y.captures = x.captures
    BY <2>1, FieldChanged
  <2>4. a => y.alive
    BY <2>1 DEF IsValue, IsClosure
  <2> QED BY <2>2, <2>3, <2>4 DEF x, y, V, B
<1>12. IsMemory(n)
  BY <1>2, <1>8, <1>11, Revalued
<1> HIDE DEF n
<1>13. n.values = left /\ n.buffers = memory.buffers
  BY <1>9
<1>14. IsStack(t, n)
  <2>1. ASSUME NEW i \in DOMAIN t PROVE IsVariable(t[i], n)
    <3>1. IsVariable(stack[i], memory) /\ t[i] = stack[i]
      BY <1>2, <1>6 DEF IsStack
    <3>2. stack[i].value \in DOMAIN memory.values
      BY <1>3, <1>6
    <3>3. left[stack[i].value].kind = memory.values[stack[i].value].kind
      BY <1>11, <3>2
    <3> QED BY <1>10, <1>13, <3>1, <3>3 DEF IsVariable
  <2>2. \A i \in DOMAIN t : i >= FirstCapture => t[i].name \in Names \/ (i = FirstCapture /\ t[i].name = "this")
    BY <1>2, <1>6 DEF IsStack
  <2>3. t \in Seq(ToSet(t))
    BY <1>6, OwnRange
  <2> QED BY <1>6, <2>1, <2>2, <2>3 DEF IsStack
<1>15. \A v : \A j \in DOMAIN t : Owns(t, j, v) => Owns(stack, j, v)
  BY <1>6 DEF Owns
\* What is read below the blocks that are open is not popped.
<1>16. ASSUME NEW v \in DOMAIN memory.values, memory.values[v].alive,
              NEW i \in DOMAIN t, \A j \in DOMAIN stack : Owns(stack, j, v) => j <= i
       PROVE  left[v].alive
  <2>1. i \in 1 .. L /\ L \in Nat
    BY <1>6
  <2>2. v \notin popped
    <3> SUFFICES ASSUME NEW j \in DOMAIN stack, j > L, Owns(stack, j, v) PROVE FALSE
      BY <1>5
    <3>1. j <= i /\ j \in Nat
      BY <1>3, <1>16
    <3> QED BY <2>1, <3>1
  <2> QED BY <1>11, <1>16, <2>2
<1>17. \A i \in DOMAIN t : n.values[t[i].value].alive
  <2> TAKE i \in DOMAIN t
  <2>1. t[i] = stack[i] /\ stack[i].value \in DOMAIN memory.values
    BY <1>3, <1>6
  <2>2. memory.values[stack[i].value].alive /\ \A j \in DOMAIN stack : Owns(stack, j, stack[i].value) => j <= i
    BY <1>2, <1>6 DEF IsSafe
  <2> QED BY <1>13, <1>16, <2>1, <2>2
<1>18. \A i, j \in DOMAIN t : Owns(t, j, t[i].value) => j <= i
  BY <1>2, <1>6, <1>15 DEF IsSafe
<1>19. \A i \in DOMAIN t : ~t[i].ref /\ n.values[t[i].value].kind = "closure" =>
         \A c \in ToSet(n.values[t[i].value].captures) :
           n.values[c.value].alive /\ \A j \in DOMAIN t : Owns(t, j, c.value) => j < i
  <2> TAKE i \in DOMAIN t
  <2> HAVE ~t[i].ref /\ n.values[t[i].value].kind = "closure"
  <2> DEFINE w == stack[i].value
  <2>1. t[i] = stack[i] /\ i \in DOMAIN stack /\ w \in DOMAIN memory.values
    BY <1>3, <1>6
  <2>2. memory.values[w].kind = "closure" /\ n.values[w].captures = memory.values[w].captures
    BY <1>11, <1>13, <2>1
  <2>3. \A c \in ToSet(memory.values[w].captures) :
          memory.values[c.value].alive /\ \A j \in DOMAIN stack : Owns(stack, j, c.value) => j < i
    BY <1>2, <2>1, <2>2 DEF IsSafe
  <2>4. t[i].value = w
    BY <2>1
  <2> HIDE DEF w
  <2> SUFFICES ASSUME NEW c \in ToSet(memory.values[w].captures)
               PROVE  n.values[c.value].alive /\ \A j \in DOMAIN t : Owns(t, j, c.value) => j < i
    BY <2>2, <2>4
  <2>5. c.value \in DOMAIN memory.values
    BY <1>2, <2>1, <2>2, CapturesThere
  <2>6. \A j \in DOMAIN stack : Owns(stack, j, c.value) => j < i
    BY <2>3
  <2>7. \A j \in DOMAIN stack : Owns(stack, j, c.value) => j <= i
    BY <1>3, <1>6, <2>6
  <2>8. left[c.value].alive
    BY <1>16, <2>3, <2>5, <2>7
  <2> QED BY <1>6, <1>13, <1>15, <2>6, <2>8
<1>20. \A e \in DOMAIN n.values : IsElement(e, n) => n.values[e].alive /\ \A j \in DOMAIN t : ~Owns(t, j, e)
  <2> TAKE e \in DOMAIN n.values
  <2> HAVE IsElement(e, n)
  <2>1. IsElement(e, memory) /\ e \in DOMAIN memory.values
    BY <1>10, <1>13 DEF IsElement
  <2>2. memory.values[e].alive /\ \A j \in DOMAIN stack : ~Owns(stack, j, e)
    BY <1>2, <2>1 DEF IsSafe
  <2>3. e \notin popped
    BY <1>5, <2>2
  <2> QED BY <1>6, <1>11, <1>13, <1>15, <2>1, <2>2, <2>3
<1>21. IsSafe(t, n, NoLambda)
  BY <1>17, <1>18, <1>19, <1>20 DEF IsSafe
<1>22. /\ IsMemory(memory') /\ IsStack(stack', memory') /\ IsSafe(stack', memory', limpl') /\ AreScopes(scopes', Len(stack'))
       /\ limpl' = NoLambda
  BY <1>1, <1>4, <1>6, <1>12, <1>14, <1>21
<1> QED BY <1>22 DEF AliveInv, TypeInv

-----------------------------------------------------------------------------
(* Lambda expressions. *)

LEMMA LeftJoined ==
  ASSUME NEW s, s \in Seq(ToSet(s)), NEW t, t \in Seq(ToSet(t)), NEW r,
         \A c \in ToSet(s) \union ToSet(t) : IsLeft(c, r)
  PROVE  s \o t \in Seq(ToSet(s \o t)) /\ \A c \in ToSet(s \o t) : IsLeft(c, r)
<1> SUFFICES ASSUME NEW u, u = s \o t PROVE u \in Seq(ToSet(u)) /\ \A c \in ToSet(u) : IsLeft(c, r)
  OBVIOUS
<1>1. /\ u \in Seq(ToSet(u)) /\ Len(s) \in Nat /\ Len(t) \in Nat /\ DOMAIN u = 1 .. Len(s) + Len(t)
      /\ DOMAIN s = 1 .. Len(s) /\ DOMAIN t = 1 .. Len(t)
      /\ \A i \in 1 .. Len(s) : u[i] = s[i]
      /\ \A i \in 1 .. Len(t) : u[Len(s) + i] = t[i]
  BY JoinFacts
<1>2. /\ ToSet(u) = {u[i] : i \in DOMAIN u} /\ ToSet(s) = {s[i] : i \in DOMAIN s} /\ ToSet(t) = {t[i] : i \in DOMAIN t}
  BY DEF ToSet
<1> SUFFICES ASSUME NEW i \in DOMAIN u PROVE IsLeft(u[i], r)
  BY <1>1, <1>2
<1>3. CASE i <= Len(s)
  <2>1. i \in DOMAIN s /\ u[i] = s[i]
    BY <1>1, <1>3
  <2> QED BY <1>2, <2>1
<1>4. CASE i > Len(s)
  <2> DEFINE j == i - Len(s)
  <2>1. j \in 1 .. Len(t) /\ i = Len(s) + j
    BY <1>1, <1>4
  <2> HIDE DEF j
  <2>2. u[i] = t[j] /\ j \in DOMAIN t
    BY <1>1, <2>1
  <2> QED BY <1>2, <2>2
<1> QED BY <1>1, <1>3, <1>4

LEMMA CaptureIs ==
  ASSUME NEW name, NEW how, NEW index
  PROVE  LET c == Capture(name, how, index) IN c.name = name /\ c.how = how /\ c.index = index
BY DEF Capture

LEMMA ThisLeft ==
  ASSUME AliveInv, NEW text
  PROVE  LET s == ThisCapture(text) IN s \in Seq(ToSet(s)) /\ \A c \in ToSet(s) : IsLeft(c, stack)
<1> DEFINE x == Capture("this", "variable", FirstCapture)
<1>1. CASE ThisCapture(text) = <<>>
  BY <1>1 DEF ToSet
<1>2. CASE text.default # "" /\ CanUseThis
  <2>1. ThisCapture(text) = <<x>>
    BY <1>2 DEF ThisCapture
  <2>2. x.how = "variable" /\ x.index = 2
    BY DEF Capture, FirstCapture
  <2> HIDE DEF x
  <2>3. 2 \in DOMAIN stack
    <3>1. Len(stack) \in Nat /\ DOMAIN stack = 1 .. Len(stack)
      BY StackFacts DEF AliveInv, TypeInv
    <3>2. Len(stack) >= 2
      BY <1>2 DEF CanUseThis, FirstCapture
    <3> QED BY <3>1, <3>2
  <2>4. IsLeft(x, stack)
    BY <2>2, <2>3 DEF IsLeft
  <2>5. <<x>> \in Seq(ToSet(<<x>>)) /\ ToSet(<<x>>) = {x}
    BY DEF ToSet
  <2> QED BY <2>1, <2>4, <2>5
<1> QED BY <1>1, <1>2 DEF ThisCapture

LEMMA ExplicitLeft ==
  ASSUME AliveInv, NEW text \in Texts, UnknownCaptures(text) = {}
  PROVE  LET s == [i \in DOMAIN text.captures |-> ExplicitCapture(text.captures[i])]
         IN s \in Seq(ToSet(s)) /\ \A c \in ToSet(s) : IsLeft(c, stack)
<1> DEFINE q == text.captures
           s == [i \in DOMAIN q |-> ExplicitCapture(q[i])]
<1>1. q \in Seq(ToSet(q)) /\ \A c \in ToSet(q) : c.name \in Names /\ c.how \in {"&", "=", "init"}
  BY TextsHaveNames
<1>2. Len(q) \in Nat /\ DOMAIN q = 1 .. Len(q) /\ ToSet(q) = {q[i] : i \in DOMAIN q}
  BY <1>1, SeqFacts, OwnRange
<1>3. \A i \in DOMAIN q : q[i].how # "init" => Visible(q[i].name)
  BY DEF UnknownCaptures
<1>4. s = [i \in 1 .. Len(q) |-> s[i]] /\ \A i \in DOMAIN q : s[i] = ExplicitCapture(q[i])
  BY <1>2
<1>5. ASSUME NEW i \in DOMAIN q PROVE IsLeft(ExplicitCapture(q[i]), stack)
  <2> DEFINE c == q[i]
             x == ExplicitCapture(c)
             at == LastIndexOf(c.name)
  <2>1. c.name \in Names /\ c.how \in {"&", "=", "init"} /\ (c.how # "init" => Visible(c.name))
    BY <1>1, <1>2, <1>3
  <2> HIDE DEF c
  <2>2. Visible(c.name) => at \in DOMAIN stack /\ stack[at].name = c.name
    BY NameFound
  <2>3. CASE c.how = "&"
    <3>1. x = Capture(c.name, "variable", at)
      BY <2>3 DEF ExplicitCapture
    <3> HIDE DEF x, at
    <3>2. x.how = "variable" /\ x.index = at
      BY <3>1, CaptureIs
    <3> QED BY <2>1, <2>2, <2>3, <3>2 DEF IsLeft, x, c
  <2>4. CASE c.how = "="
    <3>1. x = Capture(c.name, "copy", at)
      BY <2>4 DEF ExplicitCapture
    <3> HIDE DEF x, at
    <3>2. x.how = "copy" /\ x.index = at
      BY <3>1, CaptureIs
    <3> QED BY <2>1, <2>2, <2>4, <3>2 DEF IsLeft, x, c
  <2>5. CASE c.how = "init"
    <3>1. x = Capture(c.name, "value", 0)
      BY <2>5 DEF ExplicitCapture
    <3> HIDE DEF x
    <3>2. x.how = "value"
      BY <3>1, CaptureIs
    <3> QED BY <3>2 DEF IsLeft, x, c
  <2> QED BY <2>1, <2>3, <2>4, <2>5 DEF c
<1> HIDE DEF q, s
<1>6. s \in Seq(ToSet(s)) /\ DOMAIN s = DOMAIN q
  BY <1>2, <1>4, SeqMade
<1>7. ToSet(s) = {s[i] : i \in DOMAIN q}
  BY <1>6 DEF ToSet
<1>8. \A c \in ToSet(s) : IsLeft(c, stack)
  BY <1>4, <1>5, <1>7
<1> QED BY <1>6, <1>8 DEF s, q

LEMMA DefaultLeft ==
  ASSUME AliveInv, NEW text
  PROVE  LET s == DefaultCaptures(text) IN s \in Seq(ToSet(s)) /\ \A c \in ToSet(s) : IsLeft(c, stack)
<1> DEFINE rest == (FirstCapture .. Len(stack)) \ Flagged(text)
           how == IF text.default = "=" THEN "copy" ELSE "variable"
           C == Cardinality(rest)
           s == [n \in 1 .. C |-> Capture(stack[Nth(rest, n)].name, how, Nth(rest, n))]
<1>1. CASE text.default = ""
  <2>1. DefaultCaptures(text) = <<>>
    BY <1>1 DEF DefaultCaptures
  <2>2. <<>> \in Seq(ToSet(<<>>)) /\ ToSet(<<>>) = {}
    BY DEF ToSet
  <2> QED BY <2>1, <2>2
<1>2. CASE text.default # ""
  <2>1. DefaultCaptures(text) = s
    BY <1>2 DEF DefaultCaptures
  <2>2. Len(stack) \in Nat /\ DOMAIN stack = 1 .. Len(stack)
    BY StackFacts DEF AliveInv, TypeInv
  <2>3. rest \subseteq 1 .. Len(stack) /\ \A i \in rest : i >= FirstCapture /\ i \notin Flagged(text)
    BY <2>2 DEF FirstCapture
  <2>4. how \in {"copy", "variable"}
    OBVIOUS
  <2>5. s = [n \in 1 .. C |-> s[n]] /\ \A n \in 1 .. C : s[n] = Capture(stack[Nth(rest, n)].name, how, Nth(rest, n))
    OBVIOUS
  <2> HIDE DEF rest, how, s
  <2>6. C \in Nat
    BY <2>2, <2>3, BeforeCounted
  <2> HIDE DEF C
  <2>7. \A i \in rest : i \in DOMAIN stack /\ stack[i].name \in Names
    <3> TAKE i \in rest
    <3>1. i \in DOMAIN stack /\ i >= FirstCapture
      BY <2>2, <2>3
    <3>2. stack[i].name \in Names \/ (i = FirstCapture /\ stack[i].name = "this")
      BY <3>1 DEF AliveInv, TypeInv, IsStack
    <3>3. ASSUME i = FirstCapture, stack[i].name = "this" PROVE FALSE
      <4>1. CanUseThis
        BY <2>2, <3>1, <3>3 DEF CanUseThis, FirstCapture
      <4> DEFINE x == Capture("this", "variable", FirstCapture)
      <4>2. ThisCapture(text) = <<x>> /\ x.index = FirstCapture
        BY <1>2, <4>1 DEF ThisCapture, Capture
      <4>3. x \in ToSet(ThisCapture(text))
        <5> HIDE DEF x
        <5> QED BY <4>2 DEF ToSet
      <4>4. FirstCapture \in {c.index : c \in ToSet(ThisCapture(text))}
        BY <4>2, <4>3
      <4>5. FirstCapture \in Flagged(text)
        BY <4>4 DEF Flagged
      <4> QED BY <2>3, <3>3, <4>5
    <3> QED BY <3>1, <3>2, <3>3
  <2>8. ASSUME NEW n \in 1 .. C PROVE IsLeft(s[n], stack)
    <3> DEFINE i == Nth(rest, n)
               x == s[n]
    <3>1. i \in rest
      BY <2>2, <2>3, NthThere DEF C
    <3>2. x = Capture(stack[i].name, how, i)
      BY <2>5
    <3> HIDE DEF i, x
    <3>3. x.how = how /\ x.index = i
      BY <3>2, CaptureIs
    <3>4. IsLeft(x, stack)
      BY <2>4, <2>7, <3>1, <3>3 DEF IsLeft
    <3> QED BY <3>4 DEF x
  <2>9. s \in Seq(ToSet(s)) /\ DOMAIN s = 1 .. C
    BY <2>5, <2>6, SeqMade
  <2>10. ToSet(s) = {s[n] : n \in 1 .. C}
    BY <2>9 DEF ToSet
  <2> QED BY <2>1, <2>8, <2>9, <2>10
<1> QED BY <1>1, <1>2

LEMMA PreprocessLeft ==
  ASSUME AliveInv, NEW text \in Texts, UnknownCaptures(text) = {}
  PROVE  LET s == Preprocess(text) IN s \in Seq(ToSet(s)) /\ \A c \in ToSet(s) : IsLeft(c, stack)
<1> SUFFICES ASSUME NEW a, a = ThisCapture(text),
                    NEW b, b = [i \in DOMAIN text.captures |-> ExplicitCapture(text.captures[i])],
                    NEW d, d = DefaultCaptures(text), NEW s, s = (a \o b) \o d
             PROVE  s \in Seq(ToSet(s)) /\ \A c \in ToSet(s) : IsLeft(c, stack)
  BY DEF Preprocess
<1>1. a \in Seq(ToSet(a)) /\ \A c \in ToSet(a) : IsLeft(c, stack)
  BY ThisLeft
<1>2. b \in Seq(ToSet(b)) /\ \A c \in ToSet(b) : IsLeft(c, stack)
  BY ExplicitLeft
<1>3. d \in Seq(ToSet(d)) /\ \A c \in ToSet(d) : IsLeft(c, stack)
  BY DefaultLeft
<1>4. PICK e : e = a \o b
  OBVIOUS
<1>5. e \in Seq(ToSet(e)) /\ \A c \in ToSet(e) : IsLeft(c, stack)
  BY <1>1, <1>2, <1>4, LeftJoined
<1> QED BY <1>3, <1>4, <1>5, LeftJoined

LEMMA NothingChanged ==
  ASSUME AliveInv, UNCHANGED <<stack, scopes, memory, limpl>>
  PROVE  AliveInv'
<1>1. Kept(memory, memory')
  BY KeptSelf DEF AliveInv, TypeInv
<1> QED BY <1>1, MemoryStep

LEMMA DeclareLambdaAlive ==
  ASSUME AliveInv, limpl = NoLambda, NEW name \in Functors, NEW text \in Texts, DeclareLambda(name, text)
  PROVE  AliveInv'
<1>1. CASE UNCHANGED <<stack, scopes, memory, limpl>>
  BY <1>1, NothingChanged
<1>2. ASSUME UnknownCaptures(text) = {}, UNCHANGED <<stack, scopes, memory>>, NEW accesses,
             limpl' = [name |-> name, text |-> text, accesses |-> accesses, left |-> Preprocess(text), captures |-> <<>>]
      PROVE  AliveInv'
  <2> SUFFICES ASSUME NEW l, limpl' = l,
                      l = [name |-> name, text |-> text, accesses |-> accesses, left |-> Preprocess(text), captures |-> <<>>]
               PROVE  AliveInv'
    BY <1>2
  <2>1. /\ l.left \in Seq(ToSet(l.left)) /\ \A c \in ToSet(l.left) : IsLeft(c, stack)
        /\ l.captures = <<>>
    BY <1>2, PreprocessLeft
  <2>2. <<>> \in Seq(ToSet(<<>>)) /\ ToSet(<<>>) = {}
    BY DEF ToSet
  <2>3. IsLambda(l, stack, memory)
    BY <2>1, <2>2 DEF IsLambda
  <2>4. IsSafe(stack, memory, l)
    BY <2>1, <2>2 DEF AliveInv, IsSafe
  <2>5. /\ IsMemory(memory') /\ IsStack(stack', memory') /\ IsSafe(stack', memory', limpl') /\ AreScopes(scopes', Len(stack'))
        /\ IsLambda(limpl', stack', memory')
    BY <1>2, <2>3, <2>4 DEF AliveInv, TypeInv
  <2> QED BY <2>5 DEF AliveInv, TypeInv
<1>3. \/ UNCHANGED <<stack, scopes, memory, limpl>>
      \/ /\ UnknownCaptures(text) = {} /\ UNCHANGED <<stack, scopes, memory>>
         /\ \E accesses :
              limpl' = [name |-> name, text |-> text, accesses |-> accesses, left |-> Preprocess(text), captures |-> <<>>]
  BY DEF DeclareLambda, Fail
<1> QED BY <1>1, <1>2, <1>3

\* The capture that is evaluated.
LEMMA CaptureEvaluated ==
  ASSUME AliveInv, NEW c, IsLeft(c, stack), NEW n, NEW v,
         c.how = "variable" => n = memory /\ v = stack[c.index].value,
         c.how = "copy" => n = Copy(memory, stack[c.index].value) /\ v = Newest(n),
         c.how = "value" => n = New(memory, Integer(1)) /\ v = Newest(n)
  PROVE  Kept(memory, n) /\ v \in DOMAIN n.values /\ n.values[v].alive
<1>1. IsMemory(memory) /\ IsStack(stack, memory) /\ \A i \in DOMAIN stack : memory.values[stack[i].value].alive
  BY DEF AliveInv, TypeInv, IsSafe
<1>2. c.how # "value" => c.index \in DOMAIN stack
  BY DEF IsLeft
<1>3. ASSUME Fresh(memory, n), v = Newest(n)
      PROVE  Kept(memory, n) /\ v \in DOMAIN n.values /\ n.values[v].alive
  BY <1>3 DEF Fresh, Kept
<1>4. CASE c.how = "variable"
  <2>1. n = memory /\ v = stack[c.index].value
    BY <1>4
  <2> QED BY <1>1, <1>2, <1>4, <2>1, KeptSelf, StackFacts
<1>5. CASE c.how = "copy"
  <2> DEFINE x == stack[c.index]
             w == x.value
  <2>1. n = Copy(memory, w) /\ v = Newest(n)
    BY <1>5
  <2>2. w \in DOMAIN memory.values /\ HoldsKind(x.name, memory.values[w].kind) /\ memory.values[w].alive
    BY <1>1, <1>2, <1>5, StackFacts
  <2>3. x.name \in Names
    BY <1>5 DEF IsLeft
  <2>4. memory.values[w].kind \in {"int", "array", "closure"}
    BY <2>2, <2>3 DEF HoldsKind, Names
  <2> HIDE DEF w
  <2>5. IsCopy(memory, w, n)
    BY <1>1, <2>1, <2>2, <2>4, CopyFresh
  <2> QED BY <1>3, <2>1, <2>5 DEF IsCopy
<1>6. CASE c.how = "value"
  <2>1. n = New(memory, Integer(1)) /\ v = Newest(n)
    BY <1>6
  <2>2. Fresh(memory, n)
    BY <1>1, <2>1, IntFresh
  <2> QED BY <1>3, <2>1, <2>2
<1> QED BY <1>4, <1>5, <1>6 DEF IsLeft

LEMMA FirstAndRest ==
  ASSUME NEW s, s \in Seq(ToSet(s)), s # <<>>
  PROVE  /\ Head(s) \in ToSet(s) /\ Tail(s) \in Seq(ToSet(Tail(s))) /\ ToSet(Tail(s)) \subseteq ToSet(s)
<1> DEFINE S == ToSet(s)
<1>1. S = {s[i] : i \in DOMAIN s} /\ s \in Seq(S)
  BY DEF ToSet
<1> HIDE DEF S
<1>2. Head(s) \in S /\ Tail(s) \in Seq(S)
  BY <1>1
<1> SUFFICES ASSUME NEW t, t \in Seq(S) PROVE t \in Seq(ToSet(t)) /\ ToSet(t) \subseteq S
  BY <1>2 DEF S
<1>3. t \in Seq(ToSet(t)) /\ ToSet(t) = {t[i] : i \in DOMAIN t}
  BY OwnRange
<1> QED BY <1>3

\* What is in a sequence that one is appended to.
IsAppended(r, q, x) ==
  /\ r \in Seq(ToSet(r))
  /\ \A d \in ToSet(r) : d \in ToSet(q) \/ d = x

LEMMA OneAppended ==
  ASSUME NEW q, q \in Seq(ToSet(q)), NEW x
  PROVE  IsAppended(Append(q, x), q, x)
<1> SUFFICES ASSUME NEW r, r = Append(q, x) PROVE IsAppended(r, q, x)
  OBVIOUS
<1>1. /\ r \in Seq(ToSet(r)) /\ DOMAIN r = 1 .. Len(q) + 1 /\ Len(q) \in Nat /\ DOMAIN q = 1 .. Len(q)
      /\ (\A i \in 1 .. Len(q) : r[i] = q[i]) /\ r[Len(q) + 1] = x
  BY AppendFacts
<1>2. \A i \in DOMAIN r : i \in DOMAIN q \/ i = Len(q) + 1
  BY <1>1
<1>3. \A i \in DOMAIN r : r[i] = x \/ \E j \in DOMAIN q : r[i] = q[j]
  BY <1>1, <1>2
<1>4. ToSet(r) = {r[i] : i \in DOMAIN r} /\ ToSet(q) = {q[i] : i \in DOMAIN q}
  BY DEF ToSet
<1>5. \A d \in ToSet(r) : d \in ToSet(q) \/ d = x
  BY <1>3, <1>4
<1> QED BY <1>1, <1>5 DEF IsAppended

\* A lambda expression one capture further.
LEMMA LambdaFurther ==
  ASSUME NEW l, NEW s, NEW m, IsLambda(l, s, m), l.left # <<>>, NEW x
  PROVE  LET k == [l EXCEPT !.left = Tail(@), !.captures = Append(@, x)]
         IN /\ k \in [name : Functors, text : Texts, accesses : {k.accesses}, left : Seq(ToSet(k.left)),
                      captures : Seq(ToSet(k.captures))]
            /\ ToSet(k.left) \subseteq ToSet(l.left) /\ IsAppended(k.captures, l.captures, x)
<1> DEFINE q == l.captures
           t == Tail(l.left)
           r == Append(q, x)
           k == [l EXCEPT !.left = Tail(@), !.captures = Append(@, x)]
<1>1. /\ l \in [name : Functors, text : Texts, accesses : {l.accesses}, left : Seq(ToSet(l.left)),
                captures : Seq(ToSet(l.captures))]
      /\ l.left \in Seq(ToSet(l.left)) /\ q \in Seq(ToSet(q))
  BY DEF IsLambda
<1>2. t \in Seq(ToSet(t)) /\ ToSet(t) \subseteq ToSet(l.left)
  BY <1>1, FirstAndRest
<1>3. IsAppended(r, q, x)
  BY <1>1, OneAppended
<1>4. k = [l EXCEPT !.left = t, !.captures = r]
  OBVIOUS
<1> HIDE DEF t, r, q, k
<1>5. /\ k.left = t /\ k.captures = r
      /\ k \in [name : Functors, text : Texts, accesses : {k.accesses}, left : {t}, captures : {r}]
  BY <1>1, <1>4
<1>6. k \in [name : Functors, text : Texts, accesses : {k.accesses}, left : Seq(ToSet(k.left)),
             captures : Seq(ToSet(k.captures))]
  BY <1>2, <1>3, <1>5 DEF IsAppended
<1> QED BY <1>2, <1>3, <1>5, <1>6 DEF k, q

LEMMA EvaluateCaptureAlive ==
  ASSUME AliveInv, EvaluateCapture
  PROVE  AliveInv'
<1> DEFINE c == Head(limpl.left)
           n == memory'
           v == IF c.how = "variable" THEN stack[c.index].value ELSE Newest(n)
           x == [name |-> c.name, ref |-> c.how # "value", value |-> v]
           l == limpl'
<1>1. limpl # NoLambda /\ limpl.left # <<>> /\ UNCHANGED <<stack, scopes>>
  BY DEF EvaluateCapture
<1>2. /\ n = CASE c.how = "variable" -> memory
               [] c.how = "copy"     -> Copy(memory, stack[c.index].value)
               [] c.how = "value"    -> New(memory, Integer(1))
      /\ l = [limpl EXCEPT !.left = Tail(@), !.captures = Append(@, x)]
  BY DEF EvaluateCapture
<1>3. IsLambda(limpl, stack, memory) /\ IsMemory(memory) /\ IsStack(stack, memory) /\ IsSafe(stack, memory, limpl)
  BY <1>1 DEF AliveInv, TypeInv
<1>4. x.value = v /\ x \in [name : {x.name}, ref : BOOLEAN, value : {v}]
  OBVIOUS
<1>5. v = IF c.how = "variable" THEN stack[c.index].value ELSE Newest(n)
  OBVIOUS
<1>6. IsLeft(c, stack)
  <2>1. limpl.left \in Seq(ToSet(limpl.left)) /\ \A d \in ToSet(limpl.left) : IsLeft(d, stack)
    BY <1>3 DEF IsLambda
  <2>2. c \in ToSet(limpl.left)
    BY <1>1, <2>1, FirstAndRest
  <2> HIDE DEF c
  <2> QED BY <2>1, <2>2
<1> HIDE DEF c, n, v, x, l
<1>7. Kept(memory, n) /\ v \in DOMAIN n.values /\ n.values[v].alive
  <2>1. c.how = "variable" => n = memory /\ v = stack[c.index].value
    BY <1>2, <1>5
  <2>2. c.how = "copy" => n = Copy(memory, stack[c.index].value) /\ v = Newest(n)
    BY <1>2, <1>5
  <2>3. c.how = "value" => n = New(memory, Integer(1)) /\ v = Newest(n)
    BY <1>2, <1>5
  <2> QED BY <1>6, <2>1, <2>2, <2>3, CaptureEvaluated
<1>8. IsMemory(n) /\ IsStack(stack, n) /\ IsSafe(stack, n, limpl) /\ IsLambda(limpl, stack, n)
  BY <1>3, <1>7, KeptStack, KeptSafe, KeptLambda DEF Kept
<1>9. /\ l \in [name : Functors, text : Texts, accesses : {l.accesses}, left : Seq(ToSet(l.left)),
                captures : Seq(ToSet(l.captures))]
      /\ ToSet(l.left) \subseteq ToSet(limpl.left) /\ IsAppended(l.captures, limpl.captures, x)
  BY <1>1, <1>2, <1>3, LambdaFurther
<1>10. IsCapture(x, DOMAIN n.values)
  BY <1>4, <1>7 DEF IsCapture
<1>11. IsLambda(l, stack, n)
  <2>1. \A d \in ToSet(l.left) : IsLeft(d, stack)
    BY <1>3, <1>9 DEF IsLambda
  <2>2. \A d \in ToSet(l.captures) : IsCapture(d, DOMAIN n.values)
    BY <1>8, <1>9, <1>10 DEF IsLambda, IsAppended
  <2> QED BY <1>9, <2>1, <2>2 DEF IsLambda
<1>12. IsSafe(stack, n, l)
  <2>1. \A d \in ToSet(l.captures) : n.values[d.value].alive
    BY <1>1, <1>4, <1>7, <1>8, <1>9 DEF IsSafe, IsAppended
  <2> QED BY <1>8, <2>1 DEF IsSafe
<1>13. /\ IsMemory(memory') /\ IsStack(stack', memory') /\ IsSafe(stack', memory', limpl')
       /\ AreScopes(scopes', Len(stack')) /\ IsLambda(limpl', stack', memory')
  BY <1>1, <1>8, <1>11, <1>12 DEF AliveInv, TypeInv, n, l
<1> QED BY <1>13 DEF AliveInv, TypeInv

\* The closure that the captures are put into, and the copy of it that the variable has.
LEMMA MakeClosureAlive ==
  ASSUME AliveInv, MakeClosure
  PROVE  AliveInv'
<1> DEFINE y == Closure(limpl.captures, limpl.accesses, limpl.text, stack)
           m == New(memory, y)
           w == Newest(m)
           n == Copy(m, w)
<1>1. /\ limpl # NoLambda /\ limpl' = NoLambda /\ scopes' = scopes /\ memory' = n
      /\ Push(limpl.name, FALSE, Newest(n))
  BY DEF MakeClosure
<1>2. IsLambda(limpl, stack, memory) /\ IsMemory(memory) /\ IsSafe(stack, memory, limpl)
  BY <1>1 DEF AliveInv, TypeInv
<1>3. /\ limpl.name \in Functors /\ limpl.captures \in Seq(ToSet(limpl.captures))
      /\ \A c \in ToSet(limpl.captures) : IsCapture(c, DOMAIN memory.values) /\ memory.values[c.value].alive
  BY <1>1, <1>2 DEF IsLambda, IsSafe
<1>4. /\ y.kind = "closure" /\ y.alive /\ y.captures = limpl.captures
      /\ y \in [kind : {"closure"}, alive : {y.alive}, captures : {limpl.captures}, accesses : {y.accesses},
                text : {y.text}, saw : {y.saw}]
  BY DEF Closure
<1> HIDE DEF y, m, w, n
<1>5. IsValue(y, DOMAIN memory.values, DOMAIN memory.buffers)
  <2>1. y \in [kind : {"closure"}, alive : {y.alive}, captures : Seq(ToSet(y.captures)), accesses : {y.accesses},
               text : {y.text}, saw : {y.saw}]
    BY <1>3, <1>4
  <2>2. IsClosure(y, DOMAIN memory.values)
    BY <1>3, <1>4, <2>1 DEF IsClosure
  <2> QED BY <1>4, <2>2 DEF IsValue
<1>6. IsMemory(m) /\ Fresh(memory, m) /\ m.values[w] = y
  <2>1. LET k == New(memory, y) IN IsMemory(k) /\ Fresh(memory, k) /\ k.values[Newest(k)] = y
    BY <1>2, <1>4, <1>5, ValueFresh
  <2> QED BY <2>1 DEF m, w
<1>7. w \in DOMAIN m.values /\ w \notin DOMAIN memory.values /\ Kept(memory, m)
  BY <1>6 DEF Fresh, w
<1>8. IsCopy(m, w, n)
  BY <1>4, <1>6, <1>7, CopyFresh DEF n
<1>9. Fresh(memory, n) /\ Kept(m, n) /\ n.values[Newest(n)].kind = "closure"
  BY <1>4, <1>6, <1>7, <1>8, FreshAfter DEF IsCopy, Fresh
<1>10. \A c \in ToSet(n.values[Newest(n)].captures) : n.values[c.value].alive /\ c.value # Newest(n)
  <2> TAKE c \in ToSet(n.values[Newest(n)].captures)
  <2>1. /\ c.value # Newest(n)
        /\ c.value \notin DOMAIN m.values \/ \E d \in ToSet(limpl.captures) : d.value = c.value
    BY <1>4, <1>6, <1>8 DEF IsCopy
  <2>2. c.value \in DOMAIN n.values
    <3> DEFINE u == Newest(n)
    <3>1. IsMemory(n) /\ u \in DOMAIN n.values /\ n.values[u].kind = "closure" /\ c \in ToSet(n.values[u].captures)
      BY <1>9 DEF Fresh, Kept
    <3> HIDE DEF u
    <3> QED BY <3>1, CapturesThere
  <2>3. CASE c.value \notin DOMAIN m.values
    BY <1>9, <2>1, <2>2, <2>3 DEF Kept
  <2>4. ASSUME NEW d \in ToSet(limpl.captures), d.value = c.value PROVE n.values[c.value].alive
    <3>1. d.value \in DOMAIN memory.values /\ memory.values[d.value].alive
      BY <1>3 DEF IsCapture
    <3>2. Kept(memory, n)
      BY <1>9 DEF Fresh
    <3> QED BY <2>4, <3>1, <3>2 DEF Kept, Alike
  <2> QED BY <2>1, <2>3, <2>4
<1>11. limpl.name \in Names /\ HoldsKind(limpl.name, n.values[Newest(n)].kind)
  BY <1>3, <1>9, KindsHeld DEF Names
<1> QED BY <1>1, <1>9, <1>10, <1>11, OwnerStep

-----------------------------------------------------------------------------
(* The beginning, and every step. *)

LEMMA OneIs ==
  ASSUME NEW x, NEW s, s = <<x>>
  PROVE  s \in Seq(ToSet(s)) /\ Len(s) = 1 /\ s[1] = x
<1> DEFINE S == {x}
<1>1. x \in S
  OBVIOUS
<1> HIDE DEF S
<1>2. s \in Seq(S) /\ Len(s) = 1 /\ s[1] = x
  BY <1>1
<1> QED BY <1>2, OwnRange

LEMMA TwoIs ==
  ASSUME NEW x, NEW y, NEW s, s = <<x, y>>
  PROVE  s \in Seq(ToSet(s)) /\ Len(s) = 2 /\ s[1] = x /\ s[2] = y
<1> DEFINE S == {x, y}
<1>1. x \in S /\ y \in S
  OBVIOUS
<1> HIDE DEF S
<1>2. s \in Seq(S) /\ Len(s) = 2 /\ s[1] = x /\ s[2] = y
  BY <1>1
<1> QED BY <1>2, OwnRange

LEMMA InitStackIs ==
  ASSUME NEW member, NEW u, u = InitStack(member)
  PROVE  /\ u \in Seq(ToSet(u)) /\ Len(u) \in {1, 2} /\ DOMAIN u = 1 .. Len(u)
         /\ u[1] = Variable("return-value", TRUE, 1)
         /\ Len(u) = 2 => u[2] = Variable("this", TRUE, 3)
<1> DEFINE a == Variable("return-value", TRUE, 1)
           b == Variable("this", TRUE, 3)
<1>1. u = <<a>> \/ u = <<a, b>>
  BY DEF InitStack
<1> HIDE DEF a, b
<1>2. u \in Seq(ToSet(u)) /\ ((Len(u) = 1 /\ u[1] = a) \/ (Len(u) = 2 /\ u[1] = a /\ u[2] = b))
  <2>1. CASE u = <<a>>
    BY <2>1, OneIs
  <2>2. CASE u = <<a, b>>
    BY <2>2, TwoIs
  <2> QED BY <1>1, <2>1, <2>2
<1>3. DOMAIN u = 1 .. Len(u)
  BY <1>2, SeqFacts
<1>4. Len(u) \in {1, 2} /\ u[1] = a /\ (Len(u) = 2 => u[2] = b)
  BY <1>2
<1> QED BY <1>2, <1>3, <1>4 DEF a, b

LEMMA InitAlive ==
  ASSUME Init
  PROVE  AliveInv
<1> DEFINE u == <<Integer(0), Integer(0), Object(<<2>>)>>
<1>1. /\ memory = [values |-> u, buffers |-> <<>>] /\ scopes = <<>> /\ limpl = NoLambda
      /\ \E member \in BOOLEAN : stack = InitStack(member)
  BY DEF Init
<1>2. /\ DOMAIN u = 1 .. 3 /\ u[1] = Integer(0) /\ u[2] = Integer(0) /\ u[3] = Object(<<2>>)
      /\ u \in Seq({Integer(0), Object(<<2>>)})
  OBVIOUS
<1>3. IsValue(Integer(0), 1 .. 3, {}) /\ Integer(0).kind = "int" /\ Integer(0).alive
  BY IntegerFacts
<1>4. IsValue(Object(<<2>>), 1 .. 3, {}) /\ Object(<<2>>).kind = "object" /\ Object(<<2>>).alive
  BY DEF Object, IsValue
<1> HIDE DEF u
<1>5. u \in Seq(ToSet(u))
  BY <1>2, OwnRange
<1>6. \A v \in DOMAIN u : IsValue(u[v], DOMAIN u, {}) /\ u[v].alive /\ u[v].kind \in {"int", "object"}
  <2> TAKE v \in DOMAIN u
  <2>1. v = 1 \/ v = 2 \/ v = 3
    BY <1>2
  <2> QED BY <1>2, <1>3, <1>4, <2>1
<1> DEFINE none == <<>>
<1>7. none \in Seq(ToSet(none)) /\ DOMAIN none = {}
  BY DEF ToSet
<1>8. memory = [values |-> u, buffers |-> none]
  BY <1>1
<1> HIDE DEF none
<1>9. IsMemory(memory) /\ memory.values = u /\ memory.buffers = none
  <2>1. IsMemory([values |-> u, buffers |-> none])
    BY <1>5, <1>6, <1>7, MemoryMade
  <2> QED BY <1>8, <2>1
<1> DEFINE a == Variable("return-value", TRUE, 1)
           b == Variable("this", TRUE, 3)
<1>10. /\ a.name = "return-value" /\ a.ref = TRUE /\ a.value = 1
       /\ b.name = "this" /\ b.ref = TRUE /\ b.value = 3
       /\ a \in [name : {a.name}, ref : BOOLEAN, value : 1 .. 3]
       /\ b \in [name : {b.name}, ref : BOOLEAN, value : 1 .. 3]
  BY DEF Variable
<1>11. /\ "return-value" \notin Names /\ "this" \notin Names
  BY NamesAreDistinct
<1> HIDE DEF a, b
<1>12. IsVariable(a, memory) /\ IsVariable(b, memory)
  BY <1>2, <1>9, <1>10, <1>11 DEF IsVariable, HoldsKind, Names
<1>13. /\ stack \in Seq(ToSet(stack)) /\ Len(stack) >= 1
       /\ \A i \in DOMAIN stack : stack[i] = a \/ (i = 2 /\ stack[i] = b)
       /\ \A i \in DOMAIN stack : stack[i] = a => i = 1
  <2>1. a # b
    BY <1>10
  <2>2. /\ stack \in Seq(ToSet(stack)) /\ Len(stack) \in {1, 2} /\ DOMAIN stack = 1 .. Len(stack)
        /\ stack[1] = a /\ (Len(stack) = 2 => stack[2] = b)
    BY <1>1, InitStackIs DEF a, b
  <2>3. \A i \in DOMAIN stack : i = 1 \/ (i = 2 /\ Len(stack) = 2)
    BY <2>2
  <2>4. Len(stack) >= 1
    BY <2>2
  <2> QED BY <2>1, <2>2, <2>3, <2>4
<1>14. IsStack(stack, memory)
  BY <1>10, <1>12, <1>13 DEF IsStack, FirstCapture
<1>15. \A j \in DOMAIN stack : stack[j].ref /\ memory.values[stack[j].value].alive
  BY <1>2, <1>6, <1>9, <1>10, <1>13
<1>16. IsSafe(stack, memory, limpl)
  BY <1>1, <1>7, <1>9, <1>15 DEF IsSafe, Owns, IsElement
<1>17. AreScopes(scopes, Len(stack))
  BY <1>1 DEF AreScopes
<1> QED BY <1>1, <1>9, <1>14, <1>16, <1>17 DEF AliveInv, TypeInv

LEMMA StatementAlive ==
  ASSUME AliveInv, limpl = NoLambda, Statement, UNCHANGED limpl
  PROVE  AliveInv'
<1>1. ASSUME NEW n \in Ints, DeclareInt(n) PROVE AliveInv'
  BY <1>1, DeclareIntAlive
<1>2. ASSUME NEW n, NEW from, DeclareCopy(n, from) PROVE AliveInv'
  BY <1>2, DeclareCopyAlive
<1>3. ASSUME NEW n, NEW from, DeclareAuto(n, from) PROVE AliveInv'
  BY <1>3, DeclareAutoAlive
<1>4. ASSUME NEW n \in Ints, NEW a \in Arrays, DeclareElement(n, a) PROVE AliveInv'
  BY <1>4, DeclareElementAlive
<1>5. ASSUME NEW a \in Arrays, NEW n \in Ints, DeclareArray(a, n) PROVE AliveInv'
  BY <1>5, DeclareArrayAlive
<1>6. ASSUME NEW a \in Arrays, NEW b \in Arrays, Assign(a, b) PROVE AliveInv'
  BY <1>6, AssignAlive
<1>7. ASSUME NEW a \in Arrays, Resize(a) PROVE AliveInv'
  BY <1>7, ResizeAlive
<1>8. ASSUME NEW n \in Ints \union Arrays, Change(n) PROVE AliveInv'
  BY <1>8, ChangeAlive
<1>9. ASSUME NEW f \in Functors, Call(f) PROVE AliveInv'
  BY <1>9, CallAlive
<1>10. CASE Enter
  BY <1>10, EnterAlive
<1>11. CASE Leave
  BY <1>11, LeaveAlive
<1> QED BY <1>1, <1>2, <1>3, <1>4, <1>5, <1>6, <1>7, <1>8, <1>9, <1>10, <1>11 DEF Statement

LEMMA StepAlive ==
  ASSUME AliveInv, [Next]_vars
  PROVE  AliveInv'
<1>1. CASE limpl = NoLambda /\ Statement /\ UNCHANGED limpl
  BY <1>1, StatementAlive
<1>2. ASSUME limpl = NoLambda, NEW f \in Functors, NEW text \in Texts, DeclareLambda(f, text) PROVE AliveInv'
  BY <1>2, DeclareLambdaAlive
<1>3. CASE EvaluateCapture
  BY <1>3, EvaluateCaptureAlive
<1>4. CASE MakeClosure
  BY <1>4, MakeClosureAlive
<1>5. CASE UNCHANGED vars
  BY <1>5, NothingChanged DEF vars
<1> QED BY <1>1, <1>2, <1>3, <1>4, <1>5 DEF Next

\* The closures of the function are closures.
LEMMA AliveSuffices ==
  ASSUME AliveInv
  PROVE  VisibleAreAlive
<1>1. IsMemory(memory) /\ IsStack(stack, memory) /\ IsSafe(stack, memory, limpl)
  BY DEF AliveInv, TypeInv
<1>2. \A i \in DOMAIN stack : memory.values[stack[i].value].alive
  BY <1>1 DEF IsSafe
<1>3. ASSUME NEW v \in Closures, NEW i \in DOMAIN memory.values[v].captures
      PROVE  memory.values[memory.values[v].captures[i].value].alive
  <2>1. PICK j \in DOMAIN stack : stack[j].name \in Functors /\ ~stack[j].ref /\ stack[j].value = v
    BY DEF Closures
  <2>2. v \in DOMAIN memory.values /\ memory.values[v].kind = "closure"
    BY <1>1, <2>1, StackFacts, KindsHeld
  <2>3. \A c \in ToSet(memory.values[v].captures) : memory.values[c.value].alive
    BY <1>1, <2>1, <2>2 DEF IsSafe
  <2>4. memory.values[v].captures[i] \in ToSet(memory.values[v].captures)
    BY DEF ToSet
  <2> QED BY <2>3, <2>4
<1> QED BY <1>2, <1>3 DEF VisibleAreAlive

\* No variable that can be named, and no capture of a closure that can be called, denotes a
\* value that the end of a block destroyed (FunctionCompiler::processVariableDestruction),
\* whatever is declared, aliased, captured, copied, assigned and resized before it: what
\* refers to the value of a variable is above it on the stack, and goes with it or before.
THEOREM VisibleAlive == Spec => []VisibleAreAlive
<1>1. Init => AliveInv
  BY InitAlive
<1>2. AliveInv /\ [Next]_vars => AliveInv'
  BY StepAlive
<1>3. AliveInv => VisibleAreAlive
  BY AliveSuffices
<1> QED BY <1>1, <1>2, <1>3, PTL DEF Spec
=============================================================================
