--------------------------- MODULE TypeSystemProofs ---------------------------
(***************************************************************************)
(* Proofs about TypeSystem: ids, records of transactions, and that         *)
(* TypeTransactions is implemented, for all objects, bounds and requests.  *)
(***************************************************************************)
EXTENDS TypeSystem, SequenceTheorems, TLAPS

\* The invariant.  An id that was given after a transaction started never names an
\* object older than the transaction, nor does anything declared in a newer object.
NoneTwice == \A i, j \in DOMAIN listeners : listeners[i] = listeners[j] => i = j

Silent == \A t \in Transactions :
            /\ ~Listening(t) => m_types[t] = <<>>
            /\ since[t] \subseteq Registered

\* What is declared in something, or still to be destroyed, has been registered.
Declared ==
  \A x \in Objects \cup Namespaces :
    /\ \A i \in DOMAIN classes[x] : type[classes[x][i]].kind = "class"
    /\ \A i \in DOMAIN enums[x] : type[enums[x][i]].kind = "enum"
    /\ x \in Objects \ Registered => classes[x] = <<>> /\ enums[x] = <<>>

Pending ==
  /\ \A i \in DOMAIN todo :
       /\ todo[i].call \in {"destroy", "unregister"} =>
            type[todo[i].what].kind \in {"class", "enum"}
       /\ todo[i].call = "unregister" => type[todo[i].what].kind = "class"
       /\ todo[i].call = "endRollback" => i = Len(todo) /\ listeners # <<>>

Newer ==
  \A t \in Transactions : Listening(t) =>
    /\ \A o \in Registered \ since[t], y \in Types : type[o] = y => Entry(y) \notin since[t]
    /\ \A x \in Objects \ since[t] :
         /\ \A i \in DOMAIN classes[x] : classes[x][i] \notin since[t]
         /\ \A i \in DOMAIN enums[x] : enums[x][i] \notin since[t]

Occurs(s, z) == \E i \in DOMAIN s : s[i] = z
Once(s, z) == \A i, j \in DOMAIN s : s[i] = z /\ s[j] = z => i = j

\* What a transaction has recorded.
Records(t) ==
  \A y \in Types :
    /\ Entry(y) \in Objects \ since[t] => Occurs(m_types[t], y)
    /\ Occurs(m_types[t], y) => Entry(y) \notin since[t]
    /\ y.kind # "function" => /\ Occurs(m_types[t], y) => Entry(y) \in Objects
                              /\ Once(m_types[t], y)

Recorded ==
  ~undefined => \A n \in DOMAIN listeners, t \in Transactions :
                  listeners[n] = t /\ (n < Len(listeners) \/ ~Rolling) => Records(t)

\* A rollback has still to destroy every type made since, and nothing older.
Undoing ==
  ~undefined /\ Rolling =>
    LET old == since[Last(listeners)] IN
    /\ \A i \in DOMAIN todo :
         /\ \A y \in Types : todo[i].call = "destroyType" /\ todo[i].type = y
                              => Entry(y) \notin old
         /\ todo[i].call \in {"destroy", "unregister"} => todo[i].what \notin old
    /\ \A y \in Types : Entry(y) \in Objects \ old =>
         \E i \in DOMAIN todo :
           \/ todo[i].call = "destroyType" /\ todo[i].type = y
           \/ todo[i].call \in {"destroy", "unregister"} /\ todo[i].what = Entry(y)

IInv == /\ TypeOK /\ IdsNameEntries /\ OneTypePerPrototype
        /\ NoneTwice /\ ActiveIsOutermost /\ Silent
        /\ Declared /\ Pending /\ Newer /\ Recorded /\ Undoing

-----------------------------------------------------------------------------
(* Types, calls and sequences *)

LEMMA TypeFields ==
  /\ NoType \notin Types
  /\ \A y \in Types : y.kind \in Kinds /\ y.index \in Index
  /\ \A y, z \in Types : y = z <=> y.kind = z.kind /\ y.index = z.index
  /\ \A k \in Kinds, i \in Index :
       LET y == [kind |-> k, index |-> i] IN y \in Types /\ y.kind = k /\ y.index = i
BY DEF Types, NoType, Kinds

LEMMA CallFields ==
  ASSUME NEW c \in Calls
  PROVE  /\ c.call \in {"destroyType", "destroy", "unregister", "endRollback"}
         /\ c.call = "destroyType" => c.type \in Types
         /\ c.call \in {"destroy", "unregister"} => c.what \in Objects
BY DEF Calls

LEMMA Concatenating ==
  ASSUME NEW S, NEW a \in Seq(S), NEW b \in Seq(S)
  PROVE  /\ a \o b \in Seq(S) /\ Len(a \o b) = Len(a) + Len(b) /\ DOMAIN (a \o b) = 1 .. Len(a \o b)
         /\ Len(a) \in Nat /\ Len(b) \in Nat
         /\ \A i \in 1 .. Len(a) : i \in DOMAIN (a \o b) /\ (a \o b)[i] = a[i]
         /\ \A i \in 1 .. Len(b) : Len(a) + i \in DOMAIN (a \o b) /\ (a \o b)[Len(a) + i] = b[i]
OBVIOUS

LEMMA Joined ==
  ASSUME NEW S, NEW a \in Seq(S), NEW b \in Seq(S)
  PROVE  \A z \in S : Occurs(a \o b, z) <=> Occurs(a, z) \/ Occurs(b, z)
<1> DEFINE w == a \o b
<1>1. /\ w \in Seq(S) /\ Len(w) = Len(a) + Len(b) /\ DOMAIN w = 1 .. Len(w)
      /\ Len(a) \in Nat /\ Len(b) \in Nat /\ DOMAIN a = 1 .. Len(a) /\ DOMAIN b = 1 .. Len(b)
      /\ \A i \in 1 .. Len(a) : i \in DOMAIN w /\ w[i] = a[i]
      /\ \A i \in 1 .. Len(b) : Len(a) + i \in DOMAIN w /\ w[Len(a) + i] = b[i]
  BY Concatenating
<1> HIDE DEF w
<1>2. ASSUME NEW i \in DOMAIN w
      PROVE  \/ \E j \in DOMAIN a : w[i] = a[j]
             \/ \E j \in DOMAIN b : w[i] = b[j]
  <2>1. CASE i <= Len(a)
    BY <2>1, <1>1
  <2>2. CASE i > Len(a)
    <3>1. i \in Int /\ Len(a) \in Int /\ Len(b) \in Int /\ 1 <= i /\ i <= Len(a) + Len(b)
      BY <1>1
    <3>2. i - Len(a) \in 1 .. Len(b) /\ Len(a) + (i - Len(a)) = i
      BY ONLY <3>1, <2>2
    <3> QED
      BY <3>2, <1>1
  <2> QED
    BY <2>1, <2>2, <1>1
<1> QED
  BY <1>1, <1>2 DEF w, Occurs

\* What Then leaves to do: the new calls, then the old ones but the first.
LEMMA ThenSeq ==
  ASSUME NEW s \in Seq(Calls), s # <<>>, NEW c \in Seq(Calls)
  PROVE  LET w == c \o Tail(s) IN
         /\ w \in Seq(Calls)
         /\ Len(w) = Len(c) + Len(s) - 1
         /\ \A i \in DOMAIN w : \/ i \in DOMAIN c /\ w[i] = c[i]
                                \/ \E j \in DOMAIN s : /\ j > 1 /\ i = Len(c) + j - 1
                                                       /\ w[i] = s[j]
         /\ \A i \in DOMAIN c : i \in DOMAIN w /\ w[i] = c[i]
         /\ \A j \in DOMAIN s : j > 1 => /\ Len(c) + j - 1 \in DOMAIN w
                                         /\ w[Len(c) + j - 1] = s[j]
<1> DEFINE w == c \o Tail(s)
<1>1. /\ Len(s) \in Nat /\ Len(s) > 0 /\ Len(c) \in Nat
      /\ Tail(s) \in Seq(Calls) /\ Len(Tail(s)) = Len(s) - 1
      /\ \A j \in 1 .. Len(s) - 1 : Tail(s)[j] = s[j + 1]
      /\ DOMAIN s = 1 .. Len(s) /\ DOMAIN c = 1 .. Len(c)
  OBVIOUS
<1>2. /\ w \in Seq(Calls) /\ Len(w) = Len(c) + Len(s) - 1
      /\ DOMAIN w = 1 .. Len(w)
      /\ \A i \in 1 .. Len(w) : w[i] = IF i <= Len(c) THEN c[i] ELSE Tail(s)[i - Len(c)]
  BY <1>1
<1> HIDE DEF w
<1>3. ASSUME NEW i \in DOMAIN w
      PROVE  \/ i \in DOMAIN c /\ w[i] = c[i]
             \/ \E j \in DOMAIN s : j > 1 /\ i = Len(c) + j - 1 /\ w[i] = s[j]
  <2>1. CASE i <= Len(c)
    BY <2>1, <1>1, <1>2
  <2>2. CASE i > Len(c)
    <3>1. i - Len(c) + 1 \in DOMAIN s /\ i - Len(c) + 1 > 1 /\ i - Len(c) \in 1 .. Len(s) - 1
      BY <2>2, <1>1, <1>2
    <3>2. w[i] = s[i - Len(c) + 1]
      <4>1. ~(i <= Len(c)) /\ i \in 1 .. Len(w)
        BY <2>2, <1>1, <1>2
      <4>2. w[i] = Tail(s)[i - Len(c)]
        BY <4>1, <1>2
      <4>3. Tail(s)[i - Len(c)] = s[i - Len(c) + 1]
        BY <3>1, <1>1
      <4> QED
        BY <4>2, <4>3
    <3>3. i = Len(c) + (i - Len(c) + 1) - 1
      BY <1>1, <1>2
    <3> QED
      BY <3>1, <3>2, <3>3
  <2> QED
    BY <2>1, <2>2, <1>1, <1>2
<1>4. ASSUME NEW j \in DOMAIN s, j > 1
      PROVE  Len(c) + j - 1 \in DOMAIN w /\ w[Len(c) + j - 1] = s[j]
  <2>1. j - 1 \in 1 .. Len(s) - 1 /\ Len(c) + j - 1 \in 1 .. Len(w) /\ Len(c) + j - 1 > Len(c)
    BY <1>1, <1>2, <1>4
  <2>2. Len(c) + j - 1 - Len(c) = j - 1 /\ j - 1 + 1 = j /\ ~(Len(c) + j - 1 <= Len(c))
    BY <2>1, <1>1
  <2>3. w[Len(c) + j - 1] = Tail(s)[Len(c) + j - 1 - Len(c)]
    BY <2>1, <2>2, <1>2
  <2>4. Tail(s)[j - 1] = s[j - 1 + 1]
    BY <2>1, <1>1
  <2> QED
    BY <2>1, <2>2, <2>3, <2>4, <1>2
<1> QED
  BY <1>1, <1>2, <1>3, <1>4 DEF w

-----------------------------------------------------------------------------
(* What the operations on a vector do to its entries *)

Put(y, e) == \A z \in Types : Entry(z)' = IF z = y THEN e ELSE Entry(z)

\* No hole at the end, and nothing beyond it.
Vectors == \A k \in Kinds :
             /\ size[k] > 0 => table[k][size[k] - 1] # Null
             /\ \A i \in Index : i >= size[k] => table[k][i] = Null

LEMMA EntryType ==
  ASSUME TypeOK, NEW y \in Types
  PROVE  Entry(y) \in Entries
BY TypeFields DEF TypeOK, Entry, Entries

LEMMA Vacating ==
  ASSUME TypeOK, Vectors, NEW y \in Types, y.index < size[y.kind], Vacate(y)
  PROVE  /\ table' \in [Kinds -> [Index -> Entries]] /\ size' \in [Kinds -> 0 .. MaxTypes]
         /\ Put(y, Null) /\ Vectors'
<1> DEFINE k == y.kind
           entries == [table[k] EXCEPT ![y.index] = Null]
<1>1. k \in Kinds /\ y.index \in Index /\ MaxTypes \in Nat
  BY TypeFields, ObjectsAssumption
<1>2. PICK m \in Squeezed(entries, size[k]) : size' = [size EXCEPT ![k] = m]
  BY DEF Vacate
<1>3. table' = [table EXCEPT ![k] = entries]
  BY DEF Vacate
<1>4. /\ table \in [Kinds -> [Index -> Entries]] /\ size \in [Kinds -> 0 .. MaxTypes]
      /\ entries \in [Index -> Entries] /\ size[k] \in 0 .. MaxTypes
  BY <1>1 DEF TypeOK, Entries
<1>5. /\ m \in 0 .. size[k]
      /\ m > 0 => entries[m - 1] # Null
      /\ \A i \in m .. size[k] - 1 : entries[i] = Null
  BY <1>2 DEF Squeezed
<1> HIDE DEF entries
<1>6. table' \in [Kinds -> [Index -> Entries]] /\ size' \in [Kinds -> 0 .. MaxTypes]
  BY <1>1, <1>2, <1>3, <1>4, <1>5
<1>7. \A i \in Index : entries[i] = IF i = y.index THEN Null ELSE table[k][i]
  BY <1>1, <1>4 DEF entries
<1>8. \A i \in Index : i >= size[k] => table[k][i] = Null
  BY <1>1 DEF Vectors
<1>9. Vectors'
  <2> SUFFICES ASSUME NEW j \in Kinds
               PROVE  /\ size'[j] > 0 => table'[j][size'[j] - 1] # Null
                      /\ \A i \in Index : i >= size'[j] => table'[j][i] = Null
    BY DEF Vectors
  <2>1. CASE j = k
    <3>1. size'[j] = m /\ table'[j] = entries
      BY <2>1, <1>1, <1>2, <1>3, <1>4
    <3>2. ASSUME NEW i \in Index, i >= m
          PROVE  entries[i] = Null
      <4>1. CASE i <= size[k] - 1
        BY <4>1, <3>2, <1>4, <1>5 DEF Index
      <4>2. CASE i >= size[k]
        BY <4>2, <1>7, <1>8
      <4> QED
        BY <4>1, <4>2, <1>4 DEF Index
    <3> QED
      BY <3>1, <3>2, <1>5
  <2>2. CASE j # k
    <3>1. size'[j] = size[j] /\ table'[j] = table[j]
      BY <2>2, <1>1, <1>2, <1>3, <1>4
    <3> QED
      BY <3>1 DEF Vectors
  <2> QED
    BY <2>1, <2>2
<1>10. Put(y, Null)
  <2> SUFFICES ASSUME NEW z \in Types
               PROVE  Entry(z)' = IF z = y THEN Null ELSE Entry(z)
    BY DEF Put
  <2>1. z.kind \in Kinds /\ z.index \in Index /\ (z = y <=> z.kind = y.kind /\ z.index = y.index)
    BY TypeFields
  <2>2. CASE z.kind = k
    <3>1. size'[z.kind] = m /\ table'[z.kind] = entries
      BY <2>2, <1>1, <1>2, <1>3, <1>4
    <3>2. CASE z.index < m
      BY <3>1, <3>2, <2>1, <2>2, <1>4, <1>5, <1>7 DEF Entry, Index
    <3>3. CASE z.index >= m
      <4>1. Entry(z)' = Null
        BY <3>1, <3>3, <2>1, <1>4, <1>5 DEF Entry, Index
      <4>2. z.index < size[k] => entries[z.index] = Null
        BY <3>3, <2>1, <1>4, <1>5 DEF Index
      <4>3. z # y => Entry(z) = Null
        BY <4>2, <2>1, <2>2, <1>7 DEF Entry
      <4> QED
        BY <4>1, <4>3
    <3> QED
      BY <3>2, <3>3, <2>1, <1>4, <1>5 DEF Index
  <2>3. CASE z.kind # k
    <3>1. size'[z.kind] = size[z.kind] /\ table'[z.kind] = table[z.kind]
      BY <2>1, <2>3, <1>1, <1>2, <1>3, <1>4
    <3> QED
      BY <3>1, <2>1, <2>3 DEF Entry
  <2> QED
    BY <2>2, <2>3
<1> QED
  BY <1>6, <1>9, <1>10

\* An entry is put at a new index, or where a reservation or a hole was.
LEMMA Placing ==
  ASSUME TypeOK, Vectors, NEW k \in Kinds, NEW i \in Index, NEW e \in Entries, e # Null,
         table' = [table EXCEPT ![k][i] = e],
         size' = [size EXCEPT ![k] = IF @ <= i THEN i + 1 ELSE @]
  PROVE  /\ table' \in [Kinds -> [Index -> Entries]] /\ size' \in [Kinds -> 0 .. MaxTypes]
         /\ Put([kind |-> k, index |-> i], e) /\ Vectors'
<1>1. /\ table \in [Kinds -> [Index -> Entries]] /\ size \in [Kinds -> 0 .. MaxTypes]
      /\ size[k] \in 0 .. MaxTypes /\ MaxTypes \in Nat /\ table[k] \in [Index -> Entries]
  BY ObjectsAssumption DEF TypeOK
<1>2. /\ table'[k] = [table[k] EXCEPT ![i] = e]
      /\ \A j \in Kinds : j # k => table'[j] = table[j] /\ size'[j] = size[j]
      /\ size'[k] = (IF size[k] <= i THEN i + 1 ELSE size[k])
  BY <1>1
<1>3. /\ i \in 0 .. MaxTypes - 1 /\ size'[k] \in 0 .. MaxTypes
      /\ table'[k] \in [Index -> Entries]
  BY <1>1, <1>2 DEF Index
<1>4. table' \in [Kinds -> [Index -> Entries]] /\ size' \in [Kinds -> 0 .. MaxTypes]
  BY <1>1, <1>3
<1>5. \A j \in Index : table'[k][j] = IF j = i THEN e ELSE table[k][j]
  BY <1>1, <1>2
<1>6. /\ size[k] > 0 => table[k][size[k] - 1] # Null
      /\ \A j \in Index : j >= size[k] => table[k][j] = Null
  BY DEF Vectors
<1>7. Vectors'
  <2> SUFFICES ASSUME NEW j \in Kinds
               PROVE  /\ size'[j] > 0 => table'[j][size'[j] - 1] # Null
                      /\ \A n \in Index : n >= size'[j] => table'[j][n] = Null
    BY DEF Vectors
  <2>1. CASE j = k
    <3>1. size'[k] > 0 => table'[k][size'[k] - 1] # Null
      <4>1. CASE size[k] <= i
        BY <4>1, <1>2, <1>3, <1>5
      <4>2. CASE size[k] > i
        <5>1. size'[k] = size[k] /\ size[k] - 1 \in Index /\ size[k] > 0
          BY <4>2, <1>1, <1>2, <1>3 DEF Index
        <5> QED
          BY <5>1, <1>5, <1>6
      <4> QED
        BY <4>1, <4>2, <1>1, <1>3
    <3>2. \A n \in Index : n >= size'[k] => table'[k][n] = Null
      BY <1>1, <1>2, <1>3, <1>5, <1>6 DEF Index
    <3> QED
      BY <2>1, <3>1, <3>2
  <2>2. CASE j # k
    BY <2>2, <1>2 DEF Vectors
  <2> QED
    BY <2>1, <2>2
<1>8. Put([kind |-> k, index |-> i], e)
  <2> SUFFICES ASSUME NEW z \in Types
               PROVE  Entry(z)' = IF z = [kind |-> k, index |-> i] THEN e ELSE Entry(z)
    BY DEF Put
  <2>1. /\ z.kind \in Kinds /\ z.index \in Index
        /\ z = [kind |-> k, index |-> i] <=> z.kind = k /\ z.index = i
    <3> DEFINE y == [kind |-> k, index |-> i]
    <3>1. y \in Types /\ y.kind = k /\ y.index = i
      BY TypeFields
    <3> HIDE DEF y
    <3>2. z.kind \in Kinds /\ z.index \in Index /\ (z = y <=> z.kind = y.kind /\ z.index = y.index)
      BY <3>1, TypeFields
    <3> QED BY <3>1, <3>2 DEF y
  <2>2. CASE z.kind = k
    <3>1. CASE z.index = i
      BY <3>1, <2>1, <2>2, <1>1, <1>2, <1>3, <1>5 DEF Entry
    <3>2. CASE z.index # i
      <4>1. z.index >= size[k] => table[k][z.index] = Null
        BY <2>1, <1>6
      <4>2. table'[k][z.index] = table[k][z.index]
        BY <3>2, <2>1, <1>5
      <4> QED
        BY <4>1, <4>2, <3>2, <2>1, <2>2, <1>1, <1>2, <1>3 DEF Entry, Index
    <3> QED
      BY <3>1, <3>2
  <2>3. CASE z.kind # k
    BY <2>1, <2>3, <1>2 DEF Entry
  <2> QED
    BY <2>2, <2>3
<1> QED
  BY <1>4, <1>7, <1>8

\* What follows from the invariant about entries.
LEMMA Facts ==
  ASSUME IInv
  PROVE  /\ Null \notin Objects /\ Reserved \notin Objects
         /\ Vectors
         /\ \A y \in Types : Entry(y) \in Entries
         /\ \A y \in Types : Entry(y) \in Objects => /\ type[Entry(y)] = y
                                                     /\ Entry(y) \in Registered
         /\ \A o \in Registered : o \in Objects /\ type[o] \in Types
         /\ \A t \in Transactions : since[t] \subseteq Registered
         /\ \A n \in DOMAIN listeners : listeners[n] \in Transactions /\ Listening(listeners[n])
<1>1. TypeOK /\ IdsNameEntries
  BY DEF IInv
<1>2. \A y \in Types : Entry(y) \in Entries
  BY <1>1, EntryType
<1>3. \A y \in Types : Entry(y) \in Objects => type[Entry(y)] = y
  BY <1>1 DEF IdsNameEntries
<1>4. \A o \in Registered : o \in Objects /\ type[o] \in Types
  BY <1>1 DEF Registered, TypeOK
<1>5. \A y \in Types : Entry(y) \in Objects => Entry(y) \in Registered
  BY <1>3, TypeFields DEF Registered
<1>6. \A t \in Transactions : since[t] \subseteq Registered
  BY DEF IInv, Silent
<1>7. \A n \in DOMAIN listeners : listeners[n] \in Transactions /\ Listening(listeners[n])
  BY <1>1 DEF TypeOK, Listening
<1>8. Vectors
  BY <1>1 DEF IdsNameEntries, Vectors
<1> QED
  BY <1>2, <1>3, <1>4, <1>5, <1>6, <1>7, <1>8, ObjectsAssumption

-----------------------------------------------------------------------------
(* Creation *)

LEMMA Appending ==
  ASSUME NEW S, NEW s \in Seq(S), NEW e \in S
  PROVE  /\ Append(s, e) \in Seq(S)
         /\ DOMAIN s = 1 .. Len(s) /\ Len(s) \in Nat
         /\ \A i \in DOMAIN Append(s, e) : \/ i \in DOMAIN s /\ Append(s, e)[i] = s[i]
                                           \/ i = Len(s) + 1 /\ Append(s, e)[i] = e
         /\ \A i \in DOMAIN s : i \in DOMAIN Append(s, e) /\ Append(s, e)[i] = s[i]
         /\ Len(s) + 1 \in DOMAIN Append(s, e) /\ Append(s, e)[Len(s) + 1] = e
OBVIOUS

\* An object that is registered is newer than every transaction that listens, and
\* each of them records its type, which was recorded by none.
LEMMA Registering ==
  ASSUME IInv, Idle, NEW o \in Objects, NEW k \in Kinds, NEW i,
         i = size[k] \/ Free(k, i), Register(o, k, i),
         prototype' \in [Objects -> Prototypes \cup {NoObject}],
         \A q \in Objects \ {o} : prototype'[q] = prototype[q],
         k = "function" => ~Known(prototype'[o]),
         classes' \in [Objects \cup Namespaces -> Seq(Objects)],
         enums' \in [Objects \cup Namespaces -> Seq(Objects)],
         \A x \in Objects \cup Namespaces :
           \/ classes'[x] = classes[x]
           \/ /\ k = "class" /\ x \notin Objects \ (Registered \cup {o})
              /\ classes'[x] = Append(classes[x], o),
         \A x \in Objects \cup Namespaces :
           \/ enums'[x] = enums[x]
           \/ /\ k = "enum" /\ x \notin Objects \ (Registered \cup {o})
              /\ enums'[x] = Append(enums[x], o),
         \A x \in Objects \ Registered : classes'[x] = classes[x] /\ enums'[x] = enums[x]
  PROVE  IInv'
<1> DEFINE y == [kind |-> k, index |-> i]
<1>1. /\ i \in Index /\ o \notin Registered /\ y \in Types
      /\ o \in Entries /\ o # Null /\ y.kind = k /\ y.index = i
  <2>1. i \in Index /\ o \notin Registered
    BY DEF Register
  <2> QED
    BY <2>1, TypeFields, ObjectsAssumption DEF Entries
<1>2. /\ TypeOK /\ table \in [Kinds -> [Index -> Entries]] /\ type \in [Objects -> Types \cup {NoType}]
      /\ size \in [Kinds -> 0 .. MaxTypes] /\ m_types \in [Transactions -> Seq(Types)]
      /\ classes \in [Objects \cup Namespaces -> Seq(Objects)]
      /\ enums \in [Objects \cup Namespaces -> Seq(Objects)]
  BY DEF IInv, TypeOK
<1>3. Entry(y) \notin Objects
  <2>1. i = size[k] => Entry(y) = Null
    BY <1>1, <1>2 DEF Entry
  <2>2. Free(k, i) => Entry(y) \in {Null, Reserved}
    <3>1. size[k] \in Int /\ i \in Int
      BY <1>1, <1>2, ObjectsAssumption DEF Index
    <3> QED
      BY <3>1, <1>1 DEF Entry, Free
  <2> QED
    BY <2>1, <2>2, Facts
<1>4. /\ table' \in [Kinds -> [Index -> Entries]] /\ size' \in [Kinds -> 0 .. MaxTypes]
      /\ Put(y, o) /\ Vectors'
  BY <1>1, <1>2, Facts, Placing DEF Register
<1>5. /\ type' \in [Objects -> Types \cup {NoType}] /\ type'[o] = y
      /\ \A q \in Objects : q # o => type'[q] = type[q]
      /\ Registered' = Registered \cup {o}
  <2>1. type' = [type EXCEPT ![o] = y]
    BY DEF Register
  <2>2. /\ type' \in [Objects -> Types \cup {NoType}] /\ type'[o] = y
        /\ \A q \in Objects : q # o => type'[q] = type[q]
    BY <2>1, <1>1, <1>2
  <2> QED
    BY <2>2, <1>1, TypeFields DEF Registered
<1>6. /\ m_types' = Created(y)
      /\ UNCHANGED <<deleted, listeners, active, since, todo, rolledBack, undefined>>
  BY DEF Register
<1> HIDE DEF y
<1>7. \A z \in Types : Entry(z)' = IF z = y THEN o ELSE Entry(z)
  BY <1>4 DEF Put
<1>8. m_types' \in [Transactions -> Seq(Types)]
  <2>1. \A t \in Transactions : Append(m_types[t], y) \in Seq(Types)
    BY <1>1, <1>2, Appending
  <2> QED
    BY <2>1, <1>2, <1>6 DEF Created
<1>9. TypeOK'
  BY <1>2, <1>4, <1>5, <1>6, <1>8 DEF TypeOK
<1>10. IdsNameEntries'
  <2> SUFFICES ASSUME NEW z \in Types, Entry(z)' \in Objects
               PROVE  type'[Entry(z)'] = z
    BY <1>4 DEF IdsNameEntries, Vectors
  <2>1. CASE z = y
    BY <2>1, <1>5, <1>7
  <2>2. CASE z # y
    <3>1. Entry(z)' = Entry(z)
      BY <2>2, <1>7
    <3>2. Entry(z) \in Registered /\ Entry(z) \in Objects /\ type[Entry(z)] = z
      BY <3>1, Facts
    <3> QED
      BY <3>1, <3>2, <1>1, <1>5
  <2> QED
    BY <2>1, <2>2
<1>11. OneTypePerPrototype'
  <2>1. ASSUME NEW f \in Live'
        PROVE  f \in Objects /\ (f = o \/ (f \in Live /\ f # o /\ type'[f] = type[f]
                                           /\ prototype'[f] = prototype[f]))
    <3>1. f \in Objects /\ \E z \in Types : Entry(z)' = f
      BY DEF Live
    <3>2. PICK z \in Types : Entry(z)' = f
      BY <3>1
    <3>3. CASE z = y
      BY <3>1, <3>2, <3>3, <1>7
    <3>4. CASE z # y
      <4>1. Entry(z) = f
        BY <3>2, <3>4, <1>7
      <4>2. f \in Live /\ f \in Registered
        BY <3>1, <4>1, Facts DEF Live
      <4> QED
        BY <3>1, <4>2, <1>1, <1>5
    <3> QED
      BY <3>3, <3>4
  <2>2. ASSUME NEW g \in Live, k = "function", type[g].kind = "function"
        PROVE  prototype[g] # prototype'[o]
    <3>1. PICK z \in Types : Entry(z) = g
      BY DEF Live
    <3>2. g \in Objects /\ type[g] = z
      BY <3>1, Facts DEF Live
    <3>3. z.index \in Index /\ z = [kind |-> "function", index |-> z.index]
      <4>1. z.kind = "function" /\ "function" \in Kinds
        BY <2>2, <3>2 DEF Kinds
      <4> QED
        BY <4>1 DEF Types
    <3> QED
      BY <2>2, <3>1, <3>2, <3>3 DEF Known
  <2>3. ASSUME NEW f \in Live', NEW g \in Live', type'[f].kind = "function",
               type'[g].kind = "function", prototype'[f] = prototype'[g]
        PROVE  f = g
    <3>1. CASE f = o /\ g = o
      BY <3>1
    <3>2. CASE f = o /\ g # o
      <4>1. g \in Live /\ type[g].kind = "function" /\ prototype'[g] = prototype[g]
        BY <2>1, <2>3, <3>2
      <4>2. k = "function"
        BY <2>3, <3>2, <1>1, <1>5
      <4> QED
        BY <4>1, <4>2, <2>2, <2>3, <3>2
    <3>3. CASE f # o /\ g = o
      <4>1. f \in Live /\ type[f].kind = "function" /\ prototype'[f] = prototype[f]
        BY <2>1, <2>3, <3>3
      <4>2. k = "function"
        BY <2>3, <3>3, <1>1, <1>5
      <4> QED
        BY <4>1, <4>2, <2>2, <2>3, <3>3
    <3>4. CASE f # o /\ g # o
      <4>1. /\ f \in Live /\ type[f].kind = "function" /\ prototype'[f] = prototype[f]
            /\ g \in Live /\ type[g].kind = "function" /\ prototype'[g] = prototype[g]
        BY <2>1, <2>3, <3>4
      <4>2. prototype[f] = prototype[g]
        BY <4>1, <2>3
      <4>3. OneTypePerPrototype
        BY DEF IInv
      <4> QED
        BY <4>1, <4>2, <4>3 DEF OneTypePerPrototype
    <3> QED
      BY <3>1, <3>2, <3>3, <3>4
  <2> QED
    BY <2>3 DEF OneTypePerPrototype
<1>12. NoneTwice' /\ ActiveIsOutermost'
  BY <1>6 DEF IInv, NoneTwice, ActiveIsOutermost
<1>13. Silent'
  BY <1>5, <1>6, <1>2 DEF IInv, Silent, Created, Listening
<1>14. Declared'
  <2> SUFFICES ASSUME NEW x \in Objects \cup Namespaces
               PROVE  /\ \A j \in DOMAIN classes'[x] : type'[classes'[x][j]].kind = "class"
                      /\ \A j \in DOMAIN enums'[x] : type'[enums'[x][j]].kind = "enum"
                      /\ x \in Objects \ Registered' => classes'[x] = <<>> /\ enums'[x] = <<>>
    BY DEF Declared
  <2>1. /\ \A j \in DOMAIN classes[x] : /\ classes[x][j] \in Objects
                                        /\ type[classes[x][j]].kind = "class"
        /\ \A j \in DOMAIN enums[x] : /\ enums[x][j] \in Objects
                                      /\ type[enums[x][j]].kind = "enum"
        /\ x \in Objects \ Registered => classes[x] = <<>> /\ enums[x] = <<>>
        /\ classes[x] \in Seq(Objects) /\ enums[x] \in Seq(Objects)
    BY <1>2 DEF IInv, Declared
  <2>2. \A q \in Objects : type[q].kind \in {"class", "enum"} => q # o /\ type'[q] = type[q]
    <3>1. type[o] = NoType
      BY <1>1 DEF Registered
    <3>2. NoType.kind \notin {"class", "enum"}
      BY DEF NoType
    <3> QED
      BY <3>1, <3>2, <1>5
  <2>3. ASSUME NEW j \in DOMAIN classes'[x]
        PROVE  type'[classes'[x][j]].kind = "class"
    <3>1. \/ j \in DOMAIN classes[x] /\ classes'[x][j] = classes[x][j]
          \/ k = "class" /\ classes'[x][j] = o
      <4>1. \/ classes'[x] = classes[x]
            \/ k = "class" /\ classes'[x] = Append(classes[x], o)
        OBVIOUS
      <4>2. CASE classes'[x] = classes[x]
        BY <4>2
      <4>3. CASE k = "class" /\ classes'[x] = Append(classes[x], o)
        <5>1. classes[x] \in Seq(Objects)
          BY <2>1
        <5>2. \A h \in DOMAIN Append(classes[x], o) :
                \/ h \in DOMAIN classes[x] /\ Append(classes[x], o)[h] = classes[x][h]
                \/ Append(classes[x], o)[h] = o
          BY ONLY <5>1, o \in Objects, Appending
        <5> QED
          BY <4>3, <5>2
      <4> QED
        BY <4>1, <4>2, <4>3
    <3>2. j \in DOMAIN classes[x] => classes[x][j] \in Objects /\ type[classes[x][j]].kind = "class"
      BY <2>1
    <3> QED
      BY <3>1, <3>2, <2>2, <1>1, <1>5
  <2>4. ASSUME NEW j \in DOMAIN enums'[x]
        PROVE  type'[enums'[x][j]].kind = "enum"
    <3>1. \/ j \in DOMAIN enums[x] /\ enums'[x][j] = enums[x][j]
          \/ k = "enum" /\ enums'[x][j] = o
      <4>1. \/ enums'[x] = enums[x]
            \/ k = "enum" /\ enums'[x] = Append(enums[x], o)
        OBVIOUS
      <4>2. CASE enums'[x] = enums[x]
        BY <4>2
      <4>3. CASE k = "enum" /\ enums'[x] = Append(enums[x], o)
        <5>1. enums[x] \in Seq(Objects)
          BY <2>1
        <5>2. \A h \in DOMAIN Append(enums[x], o) :
                \/ h \in DOMAIN enums[x] /\ Append(enums[x], o)[h] = enums[x][h]
                \/ Append(enums[x], o)[h] = o
          BY ONLY <5>1, o \in Objects, Appending
        <5> QED
          BY <4>3, <5>2
      <4> QED
        BY <4>1, <4>2, <4>3
    <3>2. j \in DOMAIN enums[x] => enums[x][j] \in Objects /\ type[enums[x][j]].kind = "enum"
      BY <2>1
    <3> QED
      BY <3>1, <3>2, <2>2, <1>1, <1>5
  <2>5. x \in Objects \ Registered' => classes'[x] = <<>> /\ enums'[x] = <<>>
    BY <2>1, <1>5
  <2> QED
    BY <2>3, <2>4, <2>5
<1>15. Pending' /\ Undoing'
  BY <1>6 DEF Idle, Pending, Undoing, Rolling
<1>a. Newer'
  <2> SUFFICES ASSUME NEW t \in Transactions, Listening(t)
               PROVE  /\ \A q \in Registered' \ since[t], z \in Types :
                           type'[q] = z => Entry(z)' \notin since[t]
                      /\ \A x \in Objects \ since[t] :
                           /\ \A j \in DOMAIN classes'[x] : classes'[x][j] \notin since[t]
                           /\ \A j \in DOMAIN enums'[x] : enums'[x][j] \notin since[t]
    BY <1>6 DEF Newer, Listening
  <2>0. Newer
    BY DEF IInv
  <2>1. o \notin since[t]
    BY <1>1, Facts
  <2>2. ASSUME NEW q \in Registered' \ since[t], NEW z \in Types, type'[q] = z
        PROVE  Entry(z)' \notin since[t]
    <3>1. CASE z = y
      BY <3>1, <2>1, <1>7
    <3>2. CASE z # y
      <4>1. q \in Registered /\ type[q] = z
        BY <3>2, <2>2, <1>5 DEF Registered
      <4>2. Entry(z) \notin since[t]
        BY <2>0, <2>2, <4>1 DEF Newer
      <4> QED
        BY <3>2, <4>2, <1>7
    <3> QED
      BY <3>1, <3>2
  <2>3. ASSUME NEW x \in Objects \ since[t]
        PROVE  /\ \A j \in DOMAIN classes'[x] : classes'[x][j] \notin since[t]
               /\ \A j \in DOMAIN enums'[x] : enums'[x][j] \notin since[t]
    <3>1. /\ \A j \in DOMAIN classes[x] : classes[x][j] \notin since[t]
          /\ \A j \in DOMAIN enums[x] : enums[x][j] \notin since[t]
      BY <2>0 DEF Newer
    <3>2. classes[x] \in Seq(Objects) /\ enums[x] \in Seq(Objects)
      BY <1>2
    <3>3. ASSUME NEW j \in DOMAIN classes'[x]
          PROVE  classes'[x][j] \notin since[t]
      <4>1. \/ j \in DOMAIN classes[x] /\ classes'[x][j] = classes[x][j]
            \/ classes'[x][j] = o
        <5>1. classes'[x] = classes[x] \/ classes'[x] = Append(classes[x], o)
          OBVIOUS
        <5>2. CASE classes'[x] = classes[x]
          BY <5>2
        <5>3. CASE classes'[x] = Append(classes[x], o)
          <6>1. classes[x] \in Seq(Objects)
            BY <3>2
          <6>2. \A h \in DOMAIN Append(classes[x], o) :
                  \/ h \in DOMAIN classes[x] /\ Append(classes[x], o)[h] = classes[x][h]
                  \/ Append(classes[x], o)[h] = o
            BY ONLY <6>1, o \in Objects, Appending
          <6> QED
            BY <5>3, <6>2
        <5> QED
          BY <5>1, <5>2, <5>3
      <4> QED
        BY <4>1, <3>1, <2>1
    <3>4. ASSUME NEW j \in DOMAIN enums'[x]
          PROVE  enums'[x][j] \notin since[t]
      <4>1. \/ j \in DOMAIN enums[x] /\ enums'[x][j] = enums[x][j]
            \/ enums'[x][j] = o
        <5>1. enums'[x] = enums[x] \/ enums'[x] = Append(enums[x], o)
          OBVIOUS
        <5>2. CASE enums'[x] = enums[x]
          BY <5>2
        <5>3. CASE enums'[x] = Append(enums[x], o)
          <6>1. enums[x] \in Seq(Objects)
            BY <3>2
          <6>2. \A h \in DOMAIN Append(enums[x], o) :
                  \/ h \in DOMAIN enums[x] /\ Append(enums[x], o)[h] = enums[x][h]
                  \/ Append(enums[x], o)[h] = o
            BY ONLY <6>1, o \in Objects, Appending
          <6> QED
            BY <5>3, <6>2
        <5> QED
          BY <5>1, <5>2, <5>3
      <4> QED
        BY <4>1, <3>1, <2>1
    <3> QED
      BY <3>3, <3>4
  <2> QED
    BY <2>2, <2>3
<1>17. Recorded'
  <2> SUFFICES ASSUME NEW n \in DOMAIN listeners, NEW t \in Transactions, listeners[n] = t
               PROVE  Records(t)'
    BY <1>6 DEF Recorded
  <2>1. t \in Transactions /\ Listening(t) /\ o \notin since[t]
    BY <1>1, Facts
  <2>2. Records(t)
    BY DEF IInv, Recorded, Idle, Rolling
  <2>3. m_types[t] \in Seq(Types) /\ m_types'[t] = Append(m_types[t], y)
    BY <2>1, <1>2, <1>6 DEF Created
  <2> SUFFICES ASSUME NEW z \in Types
               PROVE  /\ Entry(z)' \in Objects \ since[t] =>
                           \E j \in DOMAIN m_types'[t] : m_types'[t][j] = z
                      /\ \A j \in DOMAIN m_types'[t] : m_types'[t][j] = z => Entry(z)' \notin since[t]
                      /\ z.kind # "function" =>
                           /\ \A j \in DOMAIN m_types'[t] : m_types'[t][j] = z => Entry(z)' \in Objects
                           /\ \A j, h \in DOMAIN m_types'[t] :
                                m_types'[t][j] = z /\ m_types'[t][h] = z => j = h
    BY <1>6 DEF Records, Occurs, Once
  <2>4. /\ DOMAIN m_types[t] = 1 .. Len(m_types[t]) /\ Len(m_types[t]) \in Nat
        /\ \A j \in DOMAIN m_types'[t] : \/ j \in DOMAIN m_types[t] /\ m_types'[t][j] = m_types[t][j]
                                         \/ j = Len(m_types[t]) + 1 /\ m_types'[t][j] = y
        /\ \A j \in DOMAIN m_types[t] : j \in DOMAIN m_types'[t] /\ m_types'[t][j] = m_types[t][j]
        /\ Len(m_types[t]) + 1 \in DOMAIN m_types'[t] /\ m_types'[t][Len(m_types[t]) + 1] = y
    <3>1. PICK s \in Seq(Types) : s = m_types[t]
      BY <2>3
    <3>2. /\ DOMAIN s = 1 .. Len(s) /\ Len(s) \in Nat
          /\ \A j \in DOMAIN Append(s, y) : \/ j \in DOMAIN s /\ Append(s, y)[j] = s[j]
                                            \/ j = Len(s) + 1 /\ Append(s, y)[j] = y
          /\ \A j \in DOMAIN s : j \in DOMAIN Append(s, y) /\ Append(s, y)[j] = s[j]
          /\ Len(s) + 1 \in DOMAIN Append(s, y) /\ Append(s, y)[Len(s) + 1] = y
      BY <1>1, Appending
    <3> QED
      BY <3>1, <3>2, <2>3
  <2>5. CASE z = y
    <3>1. Entry(z)' = o
      BY <2>5, <1>7
    <3>2. z.kind # "function" => \A j \in DOMAIN m_types[t] : m_types[t][j] # z
      BY <2>2, <2>5, <1>3 DEF Records, Occurs
    <3>3. \E j \in DOMAIN m_types'[t] : m_types'[t][j] = z
      BY <2>4, <2>5
    <3>4. ASSUME z.kind # "function", NEW j \in DOMAIN m_types'[t], m_types'[t][j] = z
          PROVE  j = Len(m_types[t]) + 1
      BY <3>2, <3>4, <2>4
    <3> QED
      BY <3>1, <3>3, <3>4, <2>1
  <2>6. CASE z # y
    <3>1. Entry(z)' = Entry(z)
      BY <2>6, <1>7
    <3>2. \A j \in DOMAIN m_types'[t] : m_types'[t][j] = z => j \in DOMAIN m_types[t] /\ m_types[t][j] = z
      BY <2>4, <2>6
    <3>3. \A j \in DOMAIN m_types[t] : j \in DOMAIN m_types'[t] /\ m_types'[t][j] = m_types[t][j]
      BY <2>4
    <3>4. /\ Entry(z) \in Objects \ since[t] => \E j \in DOMAIN m_types[t] : m_types[t][j] = z
          /\ \A j \in DOMAIN m_types[t] : m_types[t][j] = z => Entry(z) \notin since[t]
          /\ z.kind # "function" =>
               /\ \A j \in DOMAIN m_types[t] : m_types[t][j] = z => Entry(z) \in Objects
               /\ \A j, h \in DOMAIN m_types[t] : m_types[t][j] = z /\ m_types[t][h] = z => j = h
      BY <2>2 DEF Records, Occurs, Once
    <3> QED
      BY <3>1, <3>2, <3>3, <3>4
  <2> QED
    BY <2>5, <2>6
<1> QED
  BY <1>9, <1>10, <1>11, <1>12, <1>13, <1>14, <1>15, <1>a, <1>17 DEF IInv

LEMMA InitInv == Init => IInv
<1> SUFFICES ASSUME Init
             PROVE  IInv
  OBVIOUS
<1>1. TypeOK
  <2>1. table \in [Kinds -> [Index -> Entries]]
    BY DEF Init, Entries
  <2>2. size \in [Kinds -> 0 .. MaxTypes]
    BY ObjectsAssumption DEF Init
  <2>3. type \in [Objects -> Types \cup {NoType}] /\ prototype \in [Objects -> Prototypes \cup {NoObject}]
    BY DEF Init
  <2>4. /\ classes \in [Objects \cup Namespaces -> Seq(Objects)]
        /\ enums \in [Objects \cup Namespaces -> Seq(Objects)]
    BY DEF Init
  <2>5. /\ deleted \in SUBSET Objects /\ listeners \in Seq(Transactions)
        /\ active \in Transactions \cup {NoTransaction} /\ todo \in Seq(Calls)
    BY DEF Init
  <2>6. m_types \in [Transactions -> Seq(Types)] /\ since \in [Transactions -> SUBSET Objects]
    BY DEF Init
  <2>7. rolledBack \in BOOLEAN /\ undefined \in BOOLEAN
    BY DEF Init
  <2> QED
    BY <2>1, <2>2, <2>3, <2>4, <2>5, <2>6, <2>7 DEF TypeOK
<1>2. \A y \in Types : Entry(y) \in {Null, Reserved}
  BY TypeFields DEF Init, Entry
<1>3. Null \notin Objects /\ Reserved \notin Objects
  BY ObjectsAssumption
<1>4. IdsNameEntries
  <2>1. \A k \in Kinds :
          /\ size[k] > 0 => table[k][size[k] - 1] # Null
          /\ \A i \in Index : i >= size[k] => table[k][i] = Null
    BY ObjectsAssumption DEF Init, Index
  <2> QED
    BY <1>2, <1>3, <2>1 DEF IdsNameEntries
<1>5. OneTypePerPrototype
  BY <1>2, <1>3 DEF OneTypePerPrototype, Live
<1>6. NoneTwice /\ ActiveIsOutermost /\ Silent /\ Pending /\ Newer /\ Recorded /\ Undoing
  BY DEF Init, NoneTwice, ActiveIsOutermost, Silent, Listening, Pending, Newer, Recorded,
         Undoing, Rolling
<1>7. Declared
  BY DEF Init, Declared
<1> QED
  BY <1>1, <1>4, <1>5, <1>6, <1>7 DEF IInv

-----------------------------------------------------------------------------
(* An entry that stops being an object *)

LEMMA Emptying ==
  ASSUME IInv, NEW y \in Types, NEW e \in Entries \ Objects, Put(y, e), Vectors',
         UNCHANGED <<type, prototype, listeners, active, since>>
  PROVE  /\ IdsNameEntries' /\ OneTypePerPrototype' /\ NoneTwice' /\ ActiveIsOutermost'
         /\ Registered' = Registered
         /\ UNCHANGED <<classes, enums>> => Newer'
<1>1. \A z \in Types : Entry(z)' = IF z = y THEN e ELSE Entry(z)
  BY DEF Put
<1>2. \A z \in Types : Entry(z)' \in Objects => z # y /\ Entry(z)' = Entry(z)
  BY <1>1
<1>3. IdsNameEntries'
  <2>1. ASSUME NEW z \in Types, Entry(z)' \in Objects
        PROVE  type'[Entry(z)'] = z
    BY <2>1, <1>2, Facts
  <2> QED
    BY <2>1 DEF IdsNameEntries, Vectors
<1>4. OneTypePerPrototype'
  <2>1. ASSUME NEW f \in Live'
        PROVE  f \in Live
    <3>1. f \in Objects /\ \E z \in Types : Entry(z)' = f
      BY DEF Live
    <3>2. PICK z \in Types : Entry(z)' = f
      BY <3>1
    <3> QED
      BY <3>1, <3>2, <1>2 DEF Live
  <2>2. OneTypePerPrototype
    BY DEF IInv
  <2> QED
    BY <2>1, <2>2 DEF OneTypePerPrototype
<1>5. NoneTwice' /\ ActiveIsOutermost' /\ Registered' = Registered
  BY DEF IInv, NoneTwice, ActiveIsOutermost, Registered
<1>6. ASSUME UNCHANGED <<classes, enums>>
      PROVE  Newer'
  <2> SUFFICES ASSUME NEW t \in Transactions, Listening(t)
               PROVE  /\ \A q \in Registered \ since[t], z \in Types :
                           type[q] = z => Entry(z)' \notin since[t]
                      /\ \A x \in Objects \ since[t] :
                           /\ \A j \in DOMAIN classes[x] : classes[x][j] \notin since[t]
                           /\ \A j \in DOMAIN enums[x] : enums[x][j] \notin since[t]
    BY <1>5, <1>6 DEF Newer, Listening
  <2>1. Newer /\ e \notin since[t]
    BY Facts DEF IInv
  <2> QED
    BY <2>1, <1>1 DEF Newer
<1> QED
  BY <1>3, <1>4, <1>5, <1>6

LEMMA Erasing ==
  ASSUME NEW s \in Seq(Types), NEW t \in Types
  PROVE  LET w == Erase(s, t) IN
         /\ w \in Seq(Types)
         /\ \A z \in Types : /\ Occurs(w, z) => Occurs(s, z)
                             /\ z # t /\ Occurs(s, z) => Occurs(w, z)
                             /\ Once(s, z) => Once(w, z) /\ (z = t => ~Occurs(w, z))
<1> DEFINE w == Erase(s, t)
<1>w. w = Erase(s, t)
  OBVIOUS
<1> HIDE DEF w
<1>1. CASE \A i \in DOMAIN s : s[i] # t
  BY <1>1, <1>w DEF Erase, w, Occurs
<1>2. CASE \E i \in DOMAIN s : s[i] = t
  <2>1. PICK k \in DOMAIN s : s[k] = t /\ w = RemoveAt(s, k)
    BY <1>2, <1>w DEF Erase
  <2>2. /\ Len(s) \in Nat /\ DOMAIN s = 1 .. Len(s) /\ k \in 1 .. Len(s)
        /\ s \in [1 .. Len(s) -> Types]
    BY <2>1
  <2>3. w = SubSeq(s, 1, k - 1) \o SubSeq(s, k + 1, Len(s))
    BY <2>1 DEF RemoveAt
  <2>4. /\ w \in Seq(Types) /\ Len(w) = Len(s) - 1 /\ DOMAIN w = 1 .. Len(w)
        /\ \A i \in 1 .. Len(w) : w[i] = IF i < k THEN s[i] ELSE s[i + 1]
    <3>1. /\ SubSeq(s, 1, k - 1) \in Seq(Types) /\ Len(SubSeq(s, 1, k - 1)) = k - 1
          /\ SubSeq(s, k + 1, Len(s)) \in Seq(Types) /\ Len(SubSeq(s, k + 1, Len(s))) = Len(s) - k
          /\ \A i \in 1 .. k - 1 : SubSeq(s, 1, k - 1)[i] = s[i]
          /\ \A i \in 1 .. Len(s) - k : SubSeq(s, k + 1, Len(s))[i] = s[k + i]
      BY <2>2
    <3> DEFINE a == SubSeq(s, 1, k - 1)  b == SubSeq(s, k + 1, Len(s))
    <3> HIDE DEF a, b
    <3>2. a \in Seq(Types) /\ Len(a) = k - 1 /\ b \in Seq(Types) /\ Len(b) = Len(s) - k /\ w = a \o b
      BY <2>3, <3>1 DEF a, b
    <3>3. /\ w \in Seq(Types) /\ Len(w) = Len(a) + Len(b) /\ DOMAIN w = 1 .. Len(w)
          /\ \A i \in 1 .. Len(a) : w[i] = a[i]
          /\ \A i \in 1 .. Len(b) : w[Len(a) + i] = b[i]
      <4>0. a \in Seq(Types) /\ b \in Seq(Types)
        BY <3>2
      <4>1. /\ a \o b \in Seq(Types) /\ Len(a \o b) = Len(a) + Len(b)
            /\ DOMAIN (a \o b) = 1 .. Len(a \o b)
        BY ONLY <4>0, Concatenating
      <4>2. \A i \in 1 .. Len(a) : (a \o b)[i] = a[i]
        BY ONLY <4>0, Concatenating
      <4>3. \A i \in 1 .. Len(b) : (a \o b)[Len(a) + i] = b[i]
        BY ONLY <4>0, Concatenating
      <4> QED
        BY <3>2, <4>1, <4>2, <4>3
    <3>4. Len(w) = Len(s) - 1
      BY <3>2, <3>3, <2>2
    <3>5. ASSUME NEW i \in 1 .. Len(w)
          PROVE  w[i] = IF i < k THEN s[i] ELSE s[i + 1]
      <4>1. CASE i < k
        <5>1. i \in 1 .. k - 1 /\ i \in 1 .. Len(a)
          BY <4>1, <3>2, <2>2
        <5>2. a[i] = s[i]
          BY <5>1, <3>1 DEF a
        <5> QED
          BY <4>1, <5>1, <5>2, <3>3
      <4>2. CASE i >= k
        <5>0. Len(a) = k - 1 /\ Len(b) = Len(s) - k /\ i \in 1 .. Len(s) - 1 /\ k \in Nat /\ Len(s) \in Nat
          BY <3>2, <3>4, <2>2
        <5>1. /\ i - Len(a) \in 1 .. Len(b) /\ k + (i - Len(a)) = i + 1
              /\ Len(a) + (i - Len(a)) = i /\ ~(i < k)
          <6>1. i >= k /\ i \in Int /\ k \in Int /\ Len(s) \in Int /\ i <= Len(s) - 1
            BY <4>2, <5>0
          <6>2. i - (k - 1) \in 1 .. Len(s) - k /\ k + (i - (k - 1)) = i + 1 /\ (k - 1) + (i - (k - 1)) = i
            BY ONLY <6>1
          <6> QED
            BY <5>0, <6>1, <6>2
        <5>2. w[Len(a) + (i - Len(a))] = b[i - Len(a)]
          BY <5>1, <3>3
        <5>3. b[i - Len(a)] = s[k + (i - Len(a))]
          BY <5>1, <3>1, <3>2 DEF b
        <5> QED
          BY <5>1, <5>2, <5>3
      <4> QED
        BY <4>1, <4>2, <2>2
    <3> QED
      BY <3>3, <3>4, <3>5
  <2>5. \A i \in DOMAIN w : \E j \in DOMAIN s : j # k /\ j = (IF i < k THEN i ELSE i + 1) /\ w[i] = s[j]
    BY <2>2, <2>4
  <2>6. \A j \in DOMAIN s : j # k => \E i \in DOMAIN w : w[i] = s[j]
    <3>1. ASSUME NEW j \in DOMAIN s, j < k
          PROVE  j \in DOMAIN w /\ w[j] = s[j]
      BY <3>1, <2>2, <2>4
    <3>2. ASSUME NEW j \in DOMAIN s, j > k
          PROVE  j - 1 \in DOMAIN w /\ w[j - 1] = s[j]
      BY <3>2, <2>2, <2>4
    <3> QED
      BY <3>1, <3>2, <2>2
  <2>7. ASSUME NEW z \in Types, Once(s, z)
        PROVE  Once(w, z) /\ (z = t => ~Occurs(w, z))
    <3>1. ASSUME NEW i \in DOMAIN w, NEW j \in DOMAIN w, w[i] = z, w[j] = z
          PROVE  i = j
      <4>1. (IF i < k THEN i ELSE i + 1) = (IF j < k THEN j ELSE j + 1)
        BY <2>5, <2>7, <3>1 DEF Once
      <4> QED
        BY <4>1, <2>2, <2>4
    <3>2. ASSUME NEW i \in DOMAIN w, z = t, w[i] = t
          PROVE  FALSE
      BY <2>1, <2>5, <2>7, <3>2 DEF Once
    <3> QED
      BY <3>1, <3>2 DEF Once, Occurs
  <2>8. \A z \in Types : Occurs(w, z) => Occurs(s, z)
    BY <2>5 DEF Occurs
  <2>9. \A z \in Types : z # t /\ Occurs(s, z) => Occurs(w, z)
    BY <2>1, <2>6 DEF Occurs
  <2> QED
    BY <2>4, <2>7, <2>8, <2>9 DEF w
<1> QED
  BY <1>1, <1>2

\* A transaction that forgets the class or the enumeration that is destroyed.
LEMMA Forgetting ==
  ASSUME IInv, NEW t \in Transactions, Records(t), NEW y \in Types, Put(y, Null),
         y.kind # "function", since' = since, m_types'[t] = Erase(m_types[t], y)
  PROVE  Records(t)'
<1>1. m_types[t] \in Seq(Types) /\ Null \notin Objects /\ since[t] \subseteq Objects
  BY ObjectsAssumption DEF IInv, TypeOK
<1>2. \A z \in Types : /\ Occurs(m_types'[t], z) => Occurs(m_types[t], z)
                       /\ z # y /\ Occurs(m_types[t], z) => Occurs(m_types'[t], z)
                       /\ Once(m_types[t], z) => Once(m_types'[t], z) /\ (z = y => ~Occurs(m_types'[t], z))
  BY SMTT(30), <1>1, Erasing
<1> SUFFICES ASSUME NEW z \in Types
             PROVE  /\ Entry(z)' \in Objects \ since[t] => Occurs(m_types'[t], z)
                    /\ Occurs(m_types'[t], z) => Entry(z)' \notin since[t]
                    /\ z.kind # "function" => /\ Occurs(m_types'[t], z) => Entry(z)' \in Objects
                                              /\ Once(m_types'[t], z)
  BY DEF Records, Occurs, Once
<1>3. Entry(z)' = IF z = y THEN Null ELSE Entry(z)
  BY DEF Put
<1>4. /\ Entry(z) \in Objects \ since[t] => Occurs(m_types[t], z)
      /\ Occurs(m_types[t], z) => Entry(z) \notin since[t]
      /\ z.kind # "function" => /\ Occurs(m_types[t], z) => Entry(z) \in Objects
                                /\ Once(m_types[t], z)
  BY DEF Records
<1>5. CASE z = y
  <2>1. Entry(z)' = Null /\ z.kind # "function"
    BY <1>3, <1>5
  <2>2. Once(m_types'[t], z) /\ ~Occurs(m_types'[t], z)
    BY <1>2, <1>4, <1>5, <2>1
  <2> QED
    BY <2>1, <2>2, <1>1
<1>6. CASE z # y
  <2>1. Entry(z)' = Entry(z)
    BY <1>3, <1>6
  <2>2. Occurs(m_types'[t], z) <=> Occurs(m_types[t], z)
    BY <1>2, <1>6
  <2>3. Once(m_types[t], z) => Once(m_types'[t], z)
    BY <1>2
  <2> QED
    BY <2>1, <2>2, <2>3, <1>4
<1> QED
  BY <1>5, <1>6

\* A transaction that keeps its records while an entry that is no object it has
\* recorded, or a function type, stops being an object.
LEMMA Keeping ==
  ASSUME IInv, NEW t \in Transactions, Records(t), NEW y \in Types,
         NEW e \in Entries \ Objects, Put(y, e),
         y.kind = "function" \/ Entry(y) \notin Objects,
         since' = since, m_types'[t] = m_types[t]
  PROVE  Records(t)'
<1>1. since[t] \subseteq Objects
  BY DEF IInv, TypeOK
<1>2. ASSUME NEW z \in Types
      PROVE  Entry(z)' = IF z = y THEN e ELSE Entry(z)
  BY DEF Put
<1> QED
  BY <1>1, <1>2 DEF Records, Occurs, Once

LEMMA ReserveInv ==
  ASSUME IInv, NEW k \in {"class", "enum"}, Reserve(k)
  PROVE  IInv' /\ Put([kind |-> k, index |-> size[k]], Reserved)
<1> DEFINE y == [kind |-> k, index |-> size[k]]
<1>1. k \in Kinds /\ y \in Types /\ y.kind = k /\ y.index = size[k] /\ size[k] \in Index
  BY TypeFields DEF Reserve, Kinds
<1>2. /\ Reserved \in Entries \ Objects /\ Reserved # Null /\ TypeOK /\ Vectors
      /\ table \in [Kinds -> [Index -> Entries]] /\ size \in [Kinds -> 0 .. MaxTypes]
  BY ObjectsAssumption, Facts DEF Entries, IInv, TypeOK
<1>3. size' = [size EXCEPT ![k] = IF @ <= size[k] THEN size[k] + 1 ELSE @]
  <2>1. size[k] <= size[k]
    BY <1>1 DEF Index
  <2> QED
    BY <2>1 DEF Reserve
<1>4. table' = [table EXCEPT ![k][size[k]] = Reserved]
  BY DEF Reserve
<1>5. /\ table' \in [Kinds -> [Index -> Entries]] /\ size' \in [Kinds -> 0 .. MaxTypes]
      /\ Put(y, Reserved) /\ Vectors'
  BY <1>1, <1>2, <1>3, <1>4, Placing
<1>6. UNCHANGED <<type, prototype, classes, enums, deleted, listeners, active, m_types,
                  since, todo, rolledBack, undefined>>
  BY DEF Reserve
<1>7. Entry(y) \notin Objects
  BY <1>1, <1>2, ObjectsAssumption DEF Entry
<1>8. /\ IdsNameEntries' /\ OneTypePerPrototype' /\ NoneTwice' /\ ActiveIsOutermost'
      /\ Registered' = Registered /\ Newer'
  BY <1>1, <1>2, <1>5, <1>6, Emptying
<1>9. TypeOK'
  BY <1>2, <1>5, <1>6 DEF TypeOK
<1>10. Silent' /\ Declared' /\ Pending'
  <2>1. Silent'
    BY <1>6, <1>8 DEF IInv, Silent, Listening
  <2>2. Declared'
    BY <1>6, <1>8 DEF IInv, Declared
  <2>3. Pending'
    BY <1>6 DEF IInv, Pending
  <2> QED
    BY <2>1, <2>2, <2>3
<1>11. Recorded'
  <2>1. ASSUME NEW n \in DOMAIN listeners, NEW t \in Transactions, listeners[n] = t, ~undefined
        PROVE  Records(t)'
    <3>1. Records(t)
      BY <2>1 DEF IInv, Recorded, Reserve, Idle, Rolling
    <3> QED
      BY <3>1, <1>1, <1>2, <1>5, <1>6, <1>7, Keeping
  <2> QED
    BY <2>1, <1>6 DEF Recorded
<1>12. Undoing'
  BY <1>6 DEF Reserve, Idle, Undoing, Rolling
<1> QED
  BY <1>5, <1>8, <1>9, <1>10, <1>11, <1>12 DEF IInv

-----------------------------------------------------------------------------
(* Destruction *)

\* A call that does something else than end a rollback leaves it as it was.
LEMMA Continuing ==
  ASSUME IInv, todo # <<>>, ~undefined, Head(todo).call # "endRollback",
         NEW c \in Seq(Calls), Then(c), UNCHANGED <<type, listeners>>,
         \A i \in DOMAIN c : /\ c[i].call \in {"destroy", "unregister"}
                             /\ type[c[i].what].kind \in {"class", "enum"}
                             /\ c[i].call = "unregister" => type[c[i].what].kind = "class"
  PROVE  todo' \in Seq(Calls) /\ Pending' /\ Rolling' = Rolling
<1>1. todo \in Seq(Calls) /\ Len(todo) \in Nat /\ Len(todo) > 0 /\ DOMAIN todo = 1 .. Len(todo)
  BY DEF IInv, TypeOK
<1>2. /\ todo' \in Seq(Calls)
      /\ Len(todo') = Len(c) + Len(todo) - 1
      /\ \A i \in DOMAIN todo' : \/ i \in DOMAIN c /\ todo'[i] = c[i]
                                 \/ \E j \in DOMAIN todo : /\ j > 1 /\ i = Len(c) + j - 1
                                                           /\ todo'[i] = todo[j]
      /\ \A j \in DOMAIN todo : j > 1 => /\ Len(c) + j - 1 \in DOMAIN todo'
                                         /\ todo'[Len(c) + j - 1] = todo[j]
  <2> DEFINE w == c \o Tail(todo)
  <2>1. todo' = w
    BY DEF Then
  <2>2. todo \in Seq(Calls) /\ todo # <<>> /\ c \in Seq(Calls)
    BY <1>1
  <2>3. /\ w \in Seq(Calls)
        /\ Len(w) = Len(c) + Len(todo) - 1
        /\ \A i \in DOMAIN w : \/ i \in DOMAIN c /\ w[i] = c[i]
                               \/ \E j \in DOMAIN todo : /\ j > 1 /\ i = Len(c) + j - 1
                                                         /\ w[i] = todo[j]
        /\ \A j \in DOMAIN todo : j > 1 => /\ Len(c) + j - 1 \in DOMAIN w
                                           /\ w[Len(c) + j - 1] = todo[j]
    BY ONLY <2>2, ThenSeq, Zenon
  <2> HIDE DEF w
  <2> QED
    BY ONLY <2>1, <2>3
<1>3. /\ Len(todo') \in Nat /\ DOMAIN todo' = 1 .. Len(todo')
      /\ Len(c) \in Nat /\ DOMAIN c = 1 .. Len(c)
  BY <1>2
<1>4. Pending'
  <2>1. Pending
    BY DEF IInv
  <2> SUFFICES ASSUME NEW i \in DOMAIN todo'
               PROVE  /\ todo'[i].call \in {"destroy", "unregister"} =>
                           type[todo'[i].what].kind \in {"class", "enum"}
                      /\ todo'[i].call = "unregister" => type[todo'[i].what].kind = "class"
                      /\ todo'[i].call = "endRollback" => i = Len(todo') /\ listeners # <<>>
    BY DEF Pending
  <2>2. CASE i \in DOMAIN c /\ todo'[i] = c[i]
    BY <2>2
  <2>3. ASSUME NEW j \in DOMAIN todo, j > 1, i = Len(c) + j - 1, todo'[i] = todo[j]
        PROVE  /\ todo'[i].call \in {"destroy", "unregister"} =>
                    type[todo'[i].what].kind \in {"class", "enum"}
               /\ todo'[i].call = "unregister" => type[todo'[i].what].kind = "class"
               /\ todo'[i].call = "endRollback" => i = Len(todo') /\ listeners # <<>>
    BY <2>1, <2>3, <1>1, <1>2, <1>3 DEF Pending
  <2> QED
    BY <1>2, <2>2, <2>3
<1>5. Rolling' = Rolling
  <2>1. CASE Len(todo) = 1
    <3>1. ~Rolling
      BY <2>1, <1>1 DEF Rolling, Last
    <3>2. \A i \in DOMAIN todo' : todo'[i].call # "endRollback"
      BY <2>1, <1>1, <1>2
    <3>3. todo' # <<>> => Last(todo') = todo'[Len(todo')] /\ Len(todo') \in DOMAIN todo'
      BY <1>2, <1>3 DEF Last
    <3>4. ~Rolling'
      BY <3>2, <3>3 DEF Rolling
    <3> QED
      BY <3>1, <3>4 DEF Rolling
  <2>2. CASE Len(todo) > 1
    <3>1. Last(todo) = todo[Len(todo)] /\ Last(todo') = todo'[Len(todo')]
      BY DEF Last
    <3>2. todo'[Len(c) + Len(todo) - 1] = todo[Len(todo)]
      <4>1. Len(todo) \in DOMAIN todo
        BY <2>2, <1>1
      <4> QED
        BY <4>1, <2>2, <1>2
    <3>3. todo' # <<>> /\ Last(todo') = Last(todo)
      BY <2>2, <3>1, <3>2, <1>1, <1>2, <1>3
    <3> QED
      BY <3>3, <1>1 DEF Rolling
  <2> QED
    BY <2>1, <2>2, <1>1
<1> QED
  BY <1>2, <1>4, <1>5

\* What is left to do when a call is over.
LEMMA Finishing ==
  ASSUME IInv, todo # <<>>, ~undefined, Head(todo).call # "endRollback",
         Then(<<>>), UNCHANGED <<type, listeners>>
  PROVE  /\ todo' \in Seq(Calls) /\ Pending' /\ Rolling' = Rolling
         /\ \A i \in DOMAIN todo' : \E j \in DOMAIN todo : todo'[i] = todo[j]
         /\ \A j \in DOMAIN todo : todo[j] # Head(todo) => \E i \in DOMAIN todo' : todo'[i] = todo[j]
<1>1. todo \in Seq(Calls) /\ Len(todo) \in Nat /\ Len(todo) > 0 /\ DOMAIN todo = 1 .. Len(todo)
  BY DEF IInv, TypeOK
<1>2. todo' \in Seq(Calls) /\ Pending' /\ Rolling' = Rolling
  <2>1. <<>> \in Seq(Calls) /\ DOMAIN <<>> = {}
    OBVIOUS
  <2> QED
    BY <2>1, Continuing
<1>3. todo' = Tail(todo)
  BY <1>1 DEF Then
<1>4. /\ DOMAIN todo' = 1 .. Len(todo) - 1
      /\ \A i \in 1 .. Len(todo) - 1 : todo'[i] = todo[i + 1]
  BY <1>1, <1>3
<1>5. ASSUME NEW j \in DOMAIN todo, todo[j] # Head(todo)
      PROVE  \E i \in DOMAIN todo' : todo'[i] = todo[j]
  <2>1. j # 1
    BY <1>5, <1>1
  <2>2. j - 1 \in 1 .. Len(todo) - 1 /\ (j - 1) + 1 = j
    BY <2>1, <1>1
  <2> QED
    BY <2>2, <1>4
<1>6. \A i \in DOMAIN todo' : \E j \in DOMAIN todo : todo'[i] = todo[j]
  BY <1>1, <1>4
<1> QED
  BY <1>2, <1>5, <1>6

\* The rollback that goes on after an entry has been cleared for the last time it
\* is asked for.
LEMMA StillUndoing ==
  ASSUME IInv, todo # <<>>, ~undefined, Head(todo).call # "endRollback",
         Then(<<>>), UNCHANGED <<type, listeners, since>>,
         NEW y \in Types, Put(y, Null),
         Head(todo).call = "destroyType" =>
           Head(todo).type = y \/ Entry(Head(todo).type) \notin Objects,
         Head(todo).call \in {"destroy", "unregister"} => type[Head(todo).what] = y
  PROVE  Undoing'
<1>1. /\ Rolling' = Rolling
      /\ \A i \in DOMAIN todo' : \E j \in DOMAIN todo : todo'[i] = todo[j]
      /\ \A j \in DOMAIN todo : todo[j] # Head(todo) => \E i \in DOMAIN todo' : todo'[i] = todo[j]
  BY Finishing
<1>2. \A z \in Types : Entry(z)' = IF z = y THEN Null ELSE Entry(z)
  BY DEF Put
<1> DEFINE old == since[Last(listeners)]
<1> SUFFICES ASSUME Rolling
             PROVE  /\ \A i \in DOMAIN todo' :
                         /\ \A z \in Types : todo'[i].call = "destroyType" /\ todo'[i].type = z
                                               => Entry(z)' \notin old
                         /\ todo'[i].call \in {"destroy", "unregister"} => todo'[i].what \notin old
                    /\ \A z \in Types : Entry(z)' \in Objects \ old =>
                         \E i \in DOMAIN todo' :
                           \/ todo'[i].call = "destroyType" /\ todo'[i].type = z
                           \/ todo'[i].call \in {"destroy", "unregister"} /\ todo'[i].what = Entry(z)'
  BY <1>1 DEF Undoing
<1>3. /\ \A i \in DOMAIN todo :
           /\ \A z \in Types : todo[i].call = "destroyType" /\ todo[i].type = z
                                => Entry(z) \notin old
           /\ todo[i].call \in {"destroy", "unregister"} => todo[i].what \notin old
      /\ \A z \in Types : Entry(z) \in Objects \ old =>
           \E i \in DOMAIN todo :
             \/ todo[i].call = "destroyType" /\ todo[i].type = z
             \/ todo[i].call \in {"destroy", "unregister"} /\ todo[i].what = Entry(z)
  BY DEF IInv, Undoing
<1>4. Null \notin old
  <2>1. Pending /\ since \in [Transactions -> SUBSET Objects] /\ listeners \in Seq(Transactions)
    BY DEF IInv, TypeOK
  <2>2. todo \in Seq(Calls) /\ todo # <<>> /\ Last(todo) = todo[Len(todo)]
    BY DEF IInv, TypeOK, Last
  <2>3. Len(todo) \in DOMAIN todo /\ todo[Len(todo)].call = "endRollback"
    BY <2>2 DEF Rolling
  <2>4. listeners # <<>>
    BY <2>1, <2>3 DEF Pending
  <2>5. Last(listeners) \in Transactions
    BY <2>1, <2>4 DEF Last
  <2> QED
    BY <2>1, <2>5, ObjectsAssumption
<1> HIDE DEF old
<1>5. ASSUME NEW i \in DOMAIN todo'
      PROVE  /\ \A z \in Types : todo'[i].call = "destroyType" /\ todo'[i].type = z
                                  => Entry(z)' \notin old
             /\ todo'[i].call \in {"destroy", "unregister"} => todo'[i].what \notin old
  BY <1>1, <1>2, <1>3, <1>4
<1>6. ASSUME NEW z \in Types, Entry(z)' \in Objects \ old
      PROVE  \E i \in DOMAIN todo' :
               \/ todo'[i].call = "destroyType" /\ todo'[i].type = z
               \/ todo'[i].call \in {"destroy", "unregister"} /\ todo'[i].what = Entry(z)'
  <2>1. z # y /\ Entry(z)' = Entry(z)
    BY <1>2, <1>6, ObjectsAssumption
  <2>2. PICK i \in DOMAIN todo :
               \/ todo[i].call = "destroyType" /\ todo[i].type = z
               \/ todo[i].call \in {"destroy", "unregister"} /\ todo[i].what = Entry(z)
    BY <1>3, <1>6, <2>1
  <2>3. type[Entry(z)] = z
    BY <1>6, <2>1, Facts
  <2>4. todo[i] # Head(todo)
    <3>1. CASE todo[i].call = "destroyType" /\ todo[i].type = z
      <4>1. z # y /\ Entry(z) \in Objects
        BY <1>6, <2>1
      <4> QED
        BY <3>1, <4>1
    <3>2. CASE todo[i].call \in {"destroy", "unregister"} /\ todo[i].what = Entry(z)
      BY <3>2, <2>1, <2>3
    <3> QED
      BY <2>2, <3>1, <3>2
  <2> QED
    BY <1>1, <2>1, <2>2, <2>4
<1> QED
  BY <1>5, <1>6

\* The call in progress.
LEMMA HeadCall ==
  ASSUME IInv, todo # <<>>
  PROVE  /\ Head(todo) \in Calls /\ Head(todo) = todo[1] /\ 1 \in DOMAIN todo
         /\ Head(todo).call = "destroyType" => Head(todo).type \in Types
         /\ Head(todo).call \in {"destroy", "unregister"} =>
              /\ Head(todo).what \in Objects
              /\ type[Head(todo).what] \in Types
              /\ type[Head(todo).what].kind \in {"class", "enum"}
         /\ Head(todo).call = "unregister" => type[Head(todo).what].kind = "class"
<1>1. todo \in Seq(Calls) /\ type \in [Objects -> Types \cup {NoType}] /\ Pending
  BY DEF IInv, TypeOK
<1>2. Head(todo) \in Calls /\ Head(todo) = todo[1] /\ 1 \in DOMAIN todo
  BY <1>1
<1>3. /\ Head(todo).call = "destroyType" => Head(todo).type \in Types
      /\ Head(todo).call \in {"destroy", "unregister"} => Head(todo).what \in Objects
  BY <1>2, CallFields
<1>4. /\ Head(todo).call \in {"destroy", "unregister"} =>
           type[Head(todo).what].kind \in {"class", "enum"}
      /\ Head(todo).call = "unregister" => type[Head(todo).what].kind = "class"
  BY <1>1, <1>2 DEF Pending
<1>5. NoType.kind \notin {"class", "enum"}
  BY DEF NoType
<1> QED
  BY <1>1, <1>2, <1>3, <1>4, <1>5

LEMMA UnregisterInv ==
  ASSUME IInv, todo # <<>>, ~undefined, Head(todo).call \in {"destroy", "unregister"},
         UnregisterObject(Head(todo).what)
  PROVE  /\ IInv' /\ Rolling' = Rolling
         /\ type[Head(todo).what] \in Types /\ Put(type[Head(todo).what], Null)
<1> DEFINE y == type[Head(todo).what]
<1>1. y \in Types /\ y.kind \in {"class", "enum"} /\ Head(todo).what \in Objects
  BY HeadCall
<1>2. /\ y.index < size[y.kind] /\ Vacate(y) /\ m_types' = Destroyed(y)
      /\ deleted' = deleted \cup {Head(todo).what} /\ Then(<<>>)
      /\ UNCHANGED <<type, prototype, classes, enums, listeners, active, since,
                     rolledBack, undefined>>
  BY DEF UnregisterObject
<1> HIDE DEF y
<1>3. TypeOK /\ Vectors /\ Null \in Entries \ Objects
  BY Facts DEF IInv, Entries
<1>4. /\ table' \in [Kinds -> [Index -> Entries]] /\ size' \in [Kinds -> 0 .. MaxTypes]
      /\ Put(y, Null) /\ Vectors'
  BY <1>1, <1>2, <1>3, Vacating
<1>5. /\ IdsNameEntries' /\ OneTypePerPrototype' /\ NoneTwice' /\ ActiveIsOutermost'
      /\ Registered' = Registered /\ Newer'
  BY <1>1, <1>2, <1>3, <1>4, Emptying
<1>6. Head(todo).call # "endRollback"
  OBVIOUS
<1>7. todo' \in Seq(Calls) /\ Pending' /\ Rolling' = Rolling
  BY <1>2, <1>6, Finishing
<1>8. m_types' \in [Transactions -> Seq(Types)]
  <2>1. m_types \in [Transactions -> Seq(Types)]
    BY <1>3 DEF TypeOK
  <2>2. \A t \in Transactions : Erase(m_types[t], y) \in Seq(Types)
    BY <2>1, <1>1, Erasing
  <2> QED
    BY <2>1, <2>2, <1>2 DEF Destroyed
<1>9. TypeOK'
  BY <1>1, <1>2, <1>3, <1>4, <1>7, <1>8 DEF TypeOK
<1>10. Silent' /\ Declared'
  <2>1. m_types \in [Transactions -> Seq(Types)]
    BY <1>3 DEF TypeOK
  <2>2. Silent'
    BY <2>1, <1>2, <1>5 DEF IInv, Silent, Listening, Destroyed
  <2>3. Declared'
    BY <1>2, <1>5 DEF IInv, Declared
  <2> QED
    BY <2>2, <2>3
<1>11. Recorded'
  <2>1. ASSUME NEW n \in DOMAIN listeners, NEW t \in Transactions, listeners[n] = t,
               n < Len(listeners) \/ ~Rolling
        PROVE  Records(t)'
    <3>1. Records(t) /\ Listening(t)
      BY <2>1, Facts DEF IInv, Recorded
    <3>2. m_types'[t] = Erase(m_types[t], y)
      BY <3>1, <1>2, <1>3 DEF TypeOK, Destroyed
    <3> QED
      BY <3>1, <3>2, <1>1, <1>2, <1>4, Forgetting
  <2> QED
    BY <2>1, <1>2, <1>7 DEF Recorded
<1>12. Undoing'
  BY <1>1, <1>2, <1>4, <1>6, StillUndoing DEF y
<1> QED
  BY <1>1, <1>4, <1>5, <1>7, <1>9, <1>10, <1>11, <1>12 DEF IInv, y

\* The entry cleared is the one asked for, or that of a function type at 0.
LEMMA FreedType ==
  ASSUME IInv, UnregisterEntry
  PROVE  LET t == Head(todo).type IN
         /\ t \in Types /\ Freed(t) \in Types /\ Freed(t).kind = t.kind
         /\ Freed(t).index < size[t.kind]
         /\ Freed(t) = t \/ (t.kind = "function" /\ Entry(t) \notin Objects)
<1> DEFINE t == Head(todo).type
<1>1. /\ todo # <<>> /\ ~undefined /\ Head(todo).call = "destroyType"
      /\ \/ t.kind \in {"closure", "function"} /\ Entry(t) \in Objects
         \/ t.kind = "function" /\ t.index < size["function"]
  BY DEF UnregisterEntry, Doing
<1>2. t \in Types /\ Null \notin Objects
  BY <1>1, HeadCall, Facts
<1> HIDE DEF t
<1>3. t.kind \in Kinds /\ t.index \in Index /\ size \in [Kinds -> 0 .. MaxTypes] /\ MaxTypes \in Nat
  BY <1>2, TypeFields, ObjectsAssumption DEF IInv, TypeOK
<1>4. t.index < size[t.kind]
  BY <1>1, <1>2 DEF Entry
<1>5. CASE Entry(t) \in Objects
  <2>1. Freed(t) = t
    BY <1>5 DEF Freed
  <2> QED
    BY <2>1, <1>2, <1>4 DEF t
<1>6. CASE Entry(t) \notin Objects
  <2>1. Freed(t) = [t EXCEPT !.index = 0] /\ t.kind = "function"
    BY <1>1, <1>6 DEF Freed
  <2>2. 0 \in Index /\ 0 < size[t.kind]
    BY <1>3, <1>4 DEF Index
  <2>3. Freed(t) \in Types /\ Freed(t).kind = t.kind /\ Freed(t).index = 0
    BY <2>1, <2>2, <1>2 DEF Types
  <2> QED
    BY <2>1, <2>2, <2>3, <1>2, <1>6 DEF t
<1> QED
  BY <1>5, <1>6

\* A closure leaves undefined behaviour; a function type leaves the records alone.
LEMMA UnregisterEntryInv ==
  ASSUME IInv, UnregisterEntry
  PROVE  IInv' /\ Rolling' = Rolling /\ Put(Freed(Head(todo).type), Null)
<1> DEFINE y == Freed(Head(todo).type)
<1>0. /\ y \in Types /\ y.kind = Head(todo).type.kind /\ y.index < size[y.kind]
      /\ Head(todo).type = y \/ (y.kind = "function" /\ Entry(Head(todo).type) \notin Objects)
  BY FreedType
<1>1. /\ todo # <<>> /\ ~undefined /\ Head(todo).call = "destroyType"
      /\ y.kind \in {"closure", "function"} /\ Vacate(y)
      /\ m_types' = Destroyed(NoType) /\ deleted' = deleted \cup (Objects \cap {Entry(y)})
      /\ undefined' = (y.kind = "closure") /\ Then(<<>>)
      /\ UNCHANGED <<type, prototype, classes, enums, listeners, active, since, rolledBack>>
  BY <1>0 DEF UnregisterEntry, Doing
<1> HIDE DEF y
<1>2. y \in Types
  BY <1>0
<1>3. TypeOK /\ Vectors /\ Null \in Entries \ Objects
  BY Facts DEF IInv, Entries
<1>4. y.index < size[y.kind]
  BY <1>0
<1>5. /\ table' \in [Kinds -> [Index -> Entries]] /\ size' \in [Kinds -> 0 .. MaxTypes]
      /\ Put(y, Null) /\ Vectors'
  BY <1>1, <1>2, <1>3, <1>4, Vacating
<1>6. /\ IdsNameEntries' /\ OneTypePerPrototype' /\ NoneTwice' /\ ActiveIsOutermost'
      /\ Registered' = Registered /\ Newer'
  BY <1>1, <1>2, <1>3, <1>5, Emptying
<1>7. Head(todo).call # "endRollback"
  BY <1>1
<1>8. todo' \in Seq(Calls) /\ Pending' /\ Rolling' = Rolling
  BY <1>1, <1>7, Finishing
<1>9. m_types' = m_types
  <2>1. m_types \in [Transactions -> Seq(Types)]
    BY <1>3 DEF TypeOK
  <2>2. ASSUME NEW t \in Transactions
        PROVE  Erase(m_types[t], NoType) = m_types[t]
    BY <2>1, TypeFields DEF Erase
  <2> QED
    BY <2>1, <2>2, <1>1 DEF Destroyed
<1>10. TypeOK'
  BY <1>1, <1>3, <1>5, <1>8, <1>9 DEF TypeOK
<1>11. Silent' /\ Declared'
  <2>1. Silent'
    BY <1>1, <1>6, <1>9 DEF IInv, Silent, Listening
  <2>2. Declared'
    BY <1>1, <1>6 DEF IInv, Declared
  <2> QED
    BY <2>1, <2>2
<1>12. CASE y.kind = "closure"
  <2>1. undefined'
    BY <1>1, <1>12
  <2> QED
    BY <2>1, <1>2, <1>5, <1>6, <1>8, <1>10, <1>11 DEF IInv, Recorded, Undoing, y
<1>13. CASE y.kind = "function"
  <2>1. Recorded'
    <3>1. ASSUME NEW n \in DOMAIN listeners, NEW t \in Transactions, listeners[n] = t,
                 n < Len(listeners) \/ ~Rolling
          PROVE  Records(t)'
      <4>1. Records(t)
        BY <3>1, <1>1 DEF IInv, Recorded
      <4> QED
        BY <4>1, <1>1, <1>2, <1>3, <1>5, <1>9, <1>13, Keeping
    <3> QED
      BY <3>1, <1>1, <1>8 DEF Recorded
  <2>2. Undoing'
    <3>1. Head(todo).call = "destroyType" =>
            Head(todo).type = y \/ Entry(Head(todo).type) \notin Objects
      BY <1>0
    <3>2. Head(todo).call \in {"destroy", "unregister"} => type[Head(todo).what] = y
      BY <1>1
    <3> QED
      BY <3>1, <3>2, <1>1, <1>2, <1>5, <1>7, StillUndoing
  <2> QED
    BY <2>1, <2>2, <1>2, <1>5, <1>6, <1>8, <1>10, <1>11 DEF IInv, y
<1> QED
  BY <1>1, <1>12, <1>13

-----------------------------------------------------------------------------
(* Calls that make others: no entry changes *)

\* Invariants about entries alone.
LEMMA SameEntries ==
  ASSUME IInv, UNCHANGED <<table, size, type, prototype>>
  PROVE  /\ IdsNameEntries' /\ OneTypePerPrototype' /\ Registered' = Registered
         /\ \A y \in Types : Entry(y)' = Entry(y)
<1>1. \A y \in Types : Entry(y)' = Entry(y)
  BY DEF Entry
<1>2. IdsNameEntries'
  BY <1>1 DEF IInv, IdsNameEntries, Entry
<1>3. Live' = Live
  BY <1>1 DEF Live
<1>4. OneTypePerPrototype'
  BY <1>3 DEF IInv, OneTypePerPrototype
<1> QED
  BY <1>1, <1>2, <1>4 DEF Registered

\* What is declared in a namespace or a class, as calls.
LEMMA Members ==
  ASSUME IInv, NEW x \in Objects \cup Namespaces
  PROVE  /\ DestroyMembers(x) \in Seq(Calls)
         /\ \A i \in DOMAIN DestroyMembers(x) :
              LET c == DestroyMembers(x)[i] IN
              /\ c.call = "destroy" /\ type[c.what].kind \in {"class", "enum"}
              /\ \A t \in Transactions : Listening(t) /\ x \in Objects \ since[t]
                                           => c.what \notin since[t]
<1>a. classes[x] \in Seq(Objects) /\ enums[x] \in Seq(Objects)
  BY DEF IInv, TypeOK
<1>b. PICK a \in Seq(Objects) : a = enums[x]
  BY <1>a
<1>c. PICK b \in Seq(Objects) : b = classes[x]
  BY <1>a
<1> DEFINE list == a \o b
<1>2. list \in Seq(Objects) /\ DOMAIN list = 1 .. Len(list) /\ Len(list) \in Nat
  BY Concatenating
<1>3. ASSUME NEW i \in DOMAIN list
      PROVE  \/ \E j \in DOMAIN enums[x] : list[i] = enums[x][j]
             \/ \E j \in DOMAIN classes[x] : list[i] = classes[x][j]
  <2>1. list[i] \in Objects /\ Occurs(list, list[i])
    BY <1>2 DEF Occurs
  <2>2. Occurs(a, list[i]) \/ Occurs(b, list[i])
    BY <2>1, Joined
  <2> QED
    BY <2>2, <1>b, <1>c DEF Occurs
<1> HIDE DEF list
<1>4. DestroyMembers(x) = [i \in DOMAIN list |-> [call |-> "destroy", what |-> list[i]]]
  BY <1>b, <1>c DEF DestroyMembers, list
<1>5. \A o \in Objects : [call |-> "destroy", what |-> o] \in Calls
  BY DEF Calls
<1>6. DestroyMembers(x) \in Seq(Calls)
  BY <1>2, <1>4, <1>5
<1>7. ASSUME NEW i \in DOMAIN DestroyMembers(x)
      PROVE  LET c == DestroyMembers(x)[i] IN
             /\ c.call = "destroy" /\ type[c.what].kind \in {"class", "enum"}
             /\ \A t \in Transactions : Listening(t) /\ x \in Objects \ since[t]
                                          => c.what \notin since[t]
  <2>1. /\ i \in DOMAIN list /\ DestroyMembers(x)[i].call = "destroy"
        /\ DestroyMembers(x)[i].what = list[i]
    BY <1>4
  <2>2. type[list[i]].kind \in {"class", "enum"}
    BY <2>1, <1>3 DEF IInv, Declared
  <2>3. \A t \in Transactions : Listening(t) /\ x \in Objects \ since[t]
                                  => list[i] \notin since[t]
    BY <2>1, <1>3 DEF IInv, Newer
  <2> QED
    BY <2>1, <2>2, <2>3
<1> QED
  BY <1>6, <1>7

\* The members of x are forgotten.
LEMMA Forgotten ==
  ASSUME IInv, NEW x \in Objects \cup Namespaces,
         UNCHANGED <<table, size, type, prototype, listeners, since>>,
         \/ classes' = classes
         \/ classes' = [classes EXCEPT ![x] = <<>>],
         \/ enums' = enums
         \/ enums' = [enums EXCEPT ![x] = <<>>]
  PROVE  /\ classes' \in [Objects \cup Namespaces -> Seq(Objects)]
         /\ enums' \in [Objects \cup Namespaces -> Seq(Objects)]
         /\ Declared' /\ Newer'
<1>1. /\ classes \in [Objects \cup Namespaces -> Seq(Objects)]
      /\ enums \in [Objects \cup Namespaces -> Seq(Objects)]
      /\ Declared /\ Newer
  BY DEF IInv, TypeOK
<1>2. /\ <<>> \in Seq(Objects) /\ DOMAIN <<>> = {}
  OBVIOUS
<1>3. \A z \in Objects \cup Namespaces : classes'[z] = classes[z] \/ classes'[z] = <<>>
  BY <1>1
<1>4. \A z \in Objects \cup Namespaces : enums'[z] = enums[z] \/ enums'[z] = <<>>
  BY <1>1
<1>5. /\ classes' \in [Objects \cup Namespaces -> Seq(Objects)]
      /\ enums' \in [Objects \cup Namespaces -> Seq(Objects)]
  BY <1>1, <1>2
<1>6. Registered' = Registered /\ \A y \in Types : Entry(y)' = Entry(y)
  BY SameEntries
<1>7. Declared'
  <2>1. ASSUME NEW z \in Objects \cup Namespaces
        PROVE  /\ \A i \in DOMAIN classes'[z] : type[classes'[z][i]].kind = "class"
               /\ \A i \in DOMAIN enums'[z] : type[enums'[z][i]].kind = "enum"
               /\ z \in Objects \ Registered => classes'[z] = <<>> /\ enums'[z] = <<>>
    <3>1. /\ \A i \in DOMAIN classes[z] : type[classes[z][i]].kind = "class"
          /\ \A i \in DOMAIN enums[z] : type[enums[z][i]].kind = "enum"
          /\ z \in Objects \ Registered => classes[z] = <<>> /\ enums[z] = <<>>
      BY <1>1 DEF Declared
    <3>2. /\ classes'[z] = classes[z] \/ classes'[z] = <<>>
          /\ enums'[z] = enums[z] \/ enums'[z] = <<>>
      BY <1>3, <1>4
    <3> QED
      BY <3>1, <3>2, <1>2
  <2> QED
    BY <2>1, <1>6 DEF Declared
<1>8. Newer'
  <2> SUFFICES ASSUME NEW t \in Transactions, Listening(t)
               PROVE  /\ \A o \in Registered \ since[t], y \in Types :
                           type[o] = y => Entry(y) \notin since[t]
                      /\ \A z \in Objects \ since[t] :
                           /\ \A i \in DOMAIN classes'[z] : classes'[z][i] \notin since[t]
                           /\ \A i \in DOMAIN enums'[z] : enums'[z][i] \notin since[t]
    BY <1>6 DEF Newer, Listening
  <2>1. \A o \in Registered \ since[t], y \in Types : type[o] = y => Entry(y) \notin since[t]
    BY <1>1 DEF Newer
  <2>2. ASSUME NEW z \in Objects \ since[t]
        PROVE  /\ \A i \in DOMAIN classes'[z] : classes'[z][i] \notin since[t]
               /\ \A i \in DOMAIN enums'[z] : enums'[z][i] \notin since[t]
    <3>1. /\ \A i \in DOMAIN classes[z] : classes[z][i] \notin since[t]
          /\ \A i \in DOMAIN enums[z] : enums[z][i] \notin since[t]
      BY <1>1 DEF Newer
    <3>2. /\ classes'[z] = classes[z] \/ classes'[z] = <<>>
          /\ enums'[z] = enums[z] \/ enums'[z] = <<>>
      BY <1>3, <1>4
    <3> QED
      BY <3>1, <3>2, <1>2
  <2> QED
    BY <2>1, <2>2
<1> QED
  BY <1>5, <1>7, <1>8

LEMMA DestroyNamespaceInv ==
  ASSUME IInv, NEW ns \in Namespaces, DestroyNamespace(ns)
  PROVE  IInv'
<1>1. /\ todo = <<>> /\ ~undefined /\ todo' = DestroyMembers(ns)
      /\ classes' = [classes EXCEPT ![ns] = <<>>] /\ enums' = [enums EXCEPT ![ns] = <<>>]
      /\ UNCHANGED <<table, size, type, prototype, deleted, listeners, active,
                     m_types, since, rolledBack, undefined>>
  BY DEF DestroyNamespace, Idle
<1>2. /\ DestroyMembers(ns) \in Seq(Calls)
      /\ \A i \in DOMAIN DestroyMembers(ns) :
           /\ DestroyMembers(ns)[i].call = "destroy"
           /\ type[DestroyMembers(ns)[i].what].kind \in {"class", "enum"}
  BY Members
<1>3. /\ classes' \in [Objects \cup Namespaces -> Seq(Objects)]
      /\ enums' \in [Objects \cup Namespaces -> Seq(Objects)]
      /\ Declared' /\ Newer'
  BY <1>1, Forgotten
<1>4. /\ IdsNameEntries' /\ OneTypePerPrototype' /\ Registered' = Registered
      /\ \A y \in Types : Entry(y)' = Entry(y)
  BY <1>1, SameEntries
<1>5. TypeOK'
  BY <1>1, <1>2, <1>3 DEF IInv, TypeOK
<1>6. NoneTwice' /\ ActiveIsOutermost' /\ Silent'
  BY <1>1, <1>4 DEF IInv, NoneTwice, ActiveIsOutermost, Silent, Listening
<1>7. Pending'
  BY <1>1, <1>2 DEF Pending
<1>8. ~Rolling /\ ~Rolling'
  <2>1. todo' # <<>> => Len(todo') \in DOMAIN todo' /\ Last(todo') = todo'[Len(todo')]
    BY <1>1, <1>2 DEF Last
  <2> QED
    BY <2>1, <1>1, <1>2 DEF Rolling
<1>9. Recorded'
  <2>1. ASSUME NEW n \in DOMAIN listeners, NEW t \in Transactions, listeners[n] = t
        PROVE  Records(t)'
    BY <2>1, <1>1, <1>4, <1>8 DEF IInv, Recorded, Records
  <2> QED
    BY <2>1, <1>1 DEF Recorded
<1>10. Undoing'
  BY <1>8 DEF Undoing
<1> QED
  BY <1>3, <1>4, <1>5, <1>6, <1>7, <1>9, <1>10 DEF IInv

\* A call that is replaced by others that destroy as much, and nothing older.
LEMMA Replacing ==
  ASSUME IInv, todo # <<>>, ~undefined, Head(todo).call # "endRollback",
         NEW c \in Seq(Calls), Then(c),
         UNCHANGED <<table, size, type, prototype, enums, deleted, listeners, active,
                     m_types, since, rolledBack, undefined>>,
         NEW x \in Objects \cup Namespaces,
         classes' = classes \/ classes' = [classes EXCEPT ![x] = <<>>],
         \A i \in DOMAIN c : /\ c[i].call \in {"destroy", "unregister"}
                             /\ type[c[i].what].kind \in {"class", "enum"}
                             /\ c[i].call = "unregister" => type[c[i].what].kind = "class"
                             /\ Rolling => c[i].what \notin since[Last(listeners)],
         \A y \in Types :
           \/ Head(todo).call = "destroyType" /\ Head(todo).type = y
           \/ Head(todo).call \in {"destroy", "unregister"} /\ Head(todo).what = Entry(y)
           => \E i \in DOMAIN c : c[i].what = Entry(y)
  PROVE  IInv' /\ Rolling' = Rolling
<1>1. todo' \in Seq(Calls) /\ Pending' /\ Rolling' = Rolling
  BY Continuing
<1>2. /\ classes' \in [Objects \cup Namespaces -> Seq(Objects)]
      /\ enums' \in [Objects \cup Namespaces -> Seq(Objects)]
      /\ Declared' /\ Newer'
  BY Forgotten
<1>3. /\ IdsNameEntries' /\ OneTypePerPrototype' /\ Registered' = Registered
      /\ \A y \in Types : Entry(y)' = Entry(y)
  BY SameEntries
<1>4. TypeOK'
  BY <1>1, <1>2 DEF IInv, TypeOK
<1>5. NoneTwice' /\ ActiveIsOutermost' /\ Silent'
  BY <1>3 DEF IInv, NoneTwice, ActiveIsOutermost, Silent, Listening
<1>6. Recorded'
  <2>1. ASSUME NEW n \in DOMAIN listeners, NEW t \in Transactions, listeners[n] = t,
               n < Len(listeners) \/ ~Rolling
        PROVE  Records(t)'
    BY <2>1, <1>3 DEF IInv, Recorded, Records
  <2> QED
    BY <2>1, <1>1 DEF Recorded
<1>7. Undoing'
  <2> DEFINE old == since[Last(listeners)]
  <2> SUFFICES ASSUME Rolling
               PROVE  /\ \A i \in DOMAIN todo' :
                           /\ \A z \in Types : todo'[i].call = "destroyType" /\ todo'[i].type = z
                                                 => Entry(z) \notin old
                           /\ todo'[i].call \in {"destroy", "unregister"} => todo'[i].what \notin old
                      /\ \A z \in Types : Entry(z) \in Objects \ old =>
                           \E i \in DOMAIN todo' :
                             \/ todo'[i].call = "destroyType" /\ todo'[i].type = z
                             \/ todo'[i].call \in {"destroy", "unregister"} /\ todo'[i].what = Entry(z)
    BY <1>1, <1>3 DEF Undoing
  <2>1. /\ \A i \in DOMAIN todo :
             /\ \A z \in Types : todo[i].call = "destroyType" /\ todo[i].type = z
                                  => Entry(z) \notin old
             /\ todo[i].call \in {"destroy", "unregister"} => todo[i].what \notin old
        /\ \A z \in Types : Entry(z) \in Objects \ old =>
             \E i \in DOMAIN todo :
               \/ todo[i].call = "destroyType" /\ todo[i].type = z
               \/ todo[i].call \in {"destroy", "unregister"} /\ todo[i].what = Entry(z)
    BY DEF IInv, Undoing
  <2>2. \A i \in DOMAIN c : c[i].call \in {"destroy", "unregister"} /\ c[i].what \notin old
    OBVIOUS
  <2> HIDE DEF old
  <2>3. todo \in Seq(Calls) /\ todo # <<>> /\ todo' = c \o Tail(todo)
    BY DEF IInv, TypeOK, Then
  <2>4. /\ Tail(todo) \in Seq(Calls)
        /\ \A i \in DOMAIN Tail(todo) : \E j \in DOMAIN todo : Tail(todo)[i] = todo[j]
        /\ \A j \in DOMAIN todo : j # 1 => \E i \in DOMAIN Tail(todo) : Tail(todo)[i] = todo[j]
    <3>1. /\ Len(todo) \in Nat /\ DOMAIN todo = 1 .. Len(todo) /\ Tail(todo) \in Seq(Calls)
          /\ DOMAIN Tail(todo) = 1 .. Len(todo) - 1
          /\ \A i \in 1 .. Len(todo) - 1 : Tail(todo)[i] = todo[i + 1]
      BY <2>3
    <3>2. \A j \in DOMAIN todo : j # 1 => j - 1 \in 1 .. Len(todo) - 1 /\ (j - 1) + 1 = j
      BY <3>1
    <3>3. \A i \in 1 .. Len(todo) - 1 : i + 1 \in DOMAIN todo
      BY <3>1
    <3> QED
      BY <3>1, <3>2, <3>3
  <2>5. /\ \A i \in DOMAIN todo' : \/ \E j \in DOMAIN c : todo'[i] = c[j]
                                   \/ \E j \in DOMAIN todo : todo'[i] = todo[j]
        /\ \A j \in DOMAIN c : \E i \in DOMAIN todo' : todo'[i] = c[j]
        /\ \A j \in DOMAIN todo : j # 1 => \E i \in DOMAIN todo' : todo'[i] = todo[j]
    <3>1. PICK q \in Seq(Calls) : q = Tail(todo)
      BY <2>4
    <3> DEFINE w == c \o q
    <3>2. \A z \in Calls : Occurs(w, z) <=> Occurs(c, z) \/ Occurs(q, z)
      BY Joined
    <3>3. w \in Seq(Calls)
      BY Concatenating
    <3>4. /\ \A i \in DOMAIN q : \E j \in DOMAIN todo : q[i] = todo[j]
          /\ \A j \in DOMAIN todo : j # 1 => \E i \in DOMAIN q : q[i] = todo[j]
      BY <2>4, <3>1
    <3>5. todo' = w
      BY <2>3, <3>1
    <3> HIDE DEF w
    <3>6. \A i \in DOMAIN w : \/ \E j \in DOMAIN c : w[i] = c[j]
                              \/ \E j \in DOMAIN q : w[i] = q[j]
      BY <3>2, <3>3 DEF Occurs
    <3>7. /\ \A j \in DOMAIN c : \E i \in DOMAIN w : w[i] = c[j]
          /\ \A j \in DOMAIN q : \E i \in DOMAIN w : w[i] = q[j]
      BY <3>2, <3>3 DEF Occurs
    <3> QED
      BY <3>4, <3>5, <3>6, <3>7
  <2>6. ASSUME NEW z \in Types, Entry(z) \in Objects \ old
        PROVE  \E i \in DOMAIN todo' :
                 \/ todo'[i].call = "destroyType" /\ todo'[i].type = z
                 \/ todo'[i].call \in {"destroy", "unregister"} /\ todo'[i].what = Entry(z)
    <3>1. PICK j \in DOMAIN todo :
                 \/ todo[j].call = "destroyType" /\ todo[j].type = z
                 \/ todo[j].call \in {"destroy", "unregister"} /\ todo[j].what = Entry(z)
      BY <2>1, <2>6
    <3>2. CASE j # 1
      BY <3>1, <3>2, <2>5
    <3>3. CASE j = 1
      <4>1. \E i \in DOMAIN c : c[i].what = Entry(z)
        BY <3>1, <3>3, HeadCall
      <4> QED
        BY <4>1, <2>2, <2>5
    <3> QED
      BY <3>2, <3>3
  <2>7. ASSUME NEW i \in DOMAIN todo'
        PROVE  /\ \A z \in Types : todo'[i].call = "destroyType" /\ todo'[i].type = z
                                     => Entry(z) \notin old
               /\ todo'[i].call \in {"destroy", "unregister"} => todo'[i].what \notin old
    BY <2>1, <2>2, <2>5
  <2> QED
    BY <2>6, <2>7
<1> QED
  BY <1>1, <1>2, <1>3, <1>4, <1>5, <1>6, <1>7 DEF IInv

\* The innermost transaction is the one that is rolled back.
LEMMA Innermost ==
  ASSUME IInv, listeners # <<>>
  PROVE  /\ Last(listeners) = listeners[Len(listeners)] /\ Len(listeners) \in DOMAIN listeners
         /\ Last(listeners) \in Transactions /\ Listening(Last(listeners))
<1>1. listeners \in Seq(Transactions)
  BY DEF IInv, TypeOK
<1> QED
  BY <1>1 DEF Last, Listening

LEMMA RollingListens ==
  ASSUME IInv, Rolling
  PROVE  listeners # <<>>
<1>1. todo \in Seq(Calls) /\ Pending
  BY DEF IInv, TypeOK
<1>2. todo # <<>> /\ todo[Len(todo)].call = "endRollback"
  BY DEF Rolling, Last
<1>3. Len(todo) \in DOMAIN todo
  BY <1>1, <1>2
<1> QED
  BY <1>1, <1>2, <1>3 DEF Pending

LEMMA DestroyTypeInv ==
  ASSUME IInv, DestroyType
  PROVE  IInv' /\ Rolling' = Rolling
<1> DEFINE y == Head(todo).type
           c == <<[call |-> "destroy", what |-> Entry(y)]>>
<1>1. /\ todo # <<>> /\ ~undefined /\ Head(todo).call = "destroyType"
      /\ y.kind \in {"class", "enum"} /\ Entry(y) \in Objects /\ Then(c)
      /\ UNCHANGED <<table, size, type, prototype, classes, enums, deleted, listeners,
                     active, m_types, since, rolledBack, undefined>>
  BY DEF DestroyType, Doing
<1>2. y \in Types /\ type[Entry(y)] = y
  BY <1>1, HeadCall, Facts
<1>3. c \in Seq(Calls) /\ DOMAIN c = {1} /\ c[1].call = "destroy" /\ c[1].what = Entry(y)
  <2>1. [call |-> "destroy", what |-> Entry(y)] \in Calls
    BY <1>1 DEF Calls
  <2> QED
    BY <2>1
<1>4. Rolling => Entry(y) \notin since[Last(listeners)]
  BY <1>1, <1>2, HeadCall DEF IInv, Undoing
<1>5. /\ Head(todo).call # "endRollback"
      /\ \A i \in DOMAIN c : /\ c[i].call \in {"destroy", "unregister"}
                             /\ type[c[i].what].kind \in {"class", "enum"}
                             /\ c[i].call = "unregister" => type[c[i].what].kind = "class"
                             /\ Rolling => c[i].what \notin since[Last(listeners)]
  BY <1>1, <1>2, <1>3, <1>4
<1>6. ASSUME NEW z \in Types,
             \/ Head(todo).call = "destroyType" /\ Head(todo).type = z
             \/ Head(todo).call \in {"destroy", "unregister"} /\ Head(todo).what = Entry(z)
      PROVE  \E i \in DOMAIN c : c[i].what = Entry(z)
  BY <1>1, <1>3, <1>6
<1>7. Entry(y) \in Objects \cup Namespaces
  BY <1>1
<1> HIDE DEF c
<1> QED
  BY <1>1, <1>3, <1>5, <1>6, <1>7, Replacing

LEMMA DestroyClassInv ==
  ASSUME IInv, DestroyClass
  PROVE  IInv' /\ Rolling' = Rolling
<1> DEFINE o == Head(todo).what
           c == DestroyMembers(o) \o <<[call |-> "unregister", what |-> o]>>
<1>1. /\ todo # <<>> /\ ~undefined /\ Head(todo).call = "destroy"
      /\ type[o].kind = "class" /\ Then(c) /\ classes' = [classes EXCEPT ![o] = <<>>]
      /\ UNCHANGED <<table, size, type, prototype, enums, deleted, listeners, active,
                     m_types, since, rolledBack, undefined>>
  BY DEF DestroyClass, Doing
<1>2. o \in Objects
  BY <1>1, HeadCall
<1>3. /\ DestroyMembers(o) \in Seq(Calls)
      /\ \A i \in DOMAIN DestroyMembers(o) :
           /\ DestroyMembers(o)[i].call = "destroy"
           /\ type[DestroyMembers(o)[i].what].kind \in {"class", "enum"}
           /\ \A t \in Transactions : Listening(t) /\ o \in Objects \ since[t]
                                        => DestroyMembers(o)[i].what \notin since[t]
  BY <1>2, Members
<1>4. Rolling => o \notin since[Last(listeners)]
  BY <1>1, HeadCall DEF IInv, Undoing
<1> DEFINE u == [call |-> "unregister", what |-> o]
<1>5. u \in Calls /\ u.call = "unregister" /\ u.what = o
  BY <1>2 DEF Calls
<1>6. PICK b \in Seq(Calls) : b = <<u>> /\ DOMAIN b = {1} /\ b[1] = u
  <2>1. ASSUME NEW e \in Calls
        PROVE  <<e>> \in Seq(Calls) /\ DOMAIN <<e>> = {1} /\ <<e>>[1] = e
    OBVIOUS
  <2> QED
    BY <2>1, <1>5
<1>7. PICK a \in Seq(Calls) : a = DestroyMembers(o)
  BY <1>3
<1>8. c = a \o b /\ a \o b \in Seq(Calls)
  BY <1>6, <1>7, Concatenating
<1>9. \A z \in Calls : Occurs(a \o b, z) <=> Occurs(a, z) \/ Occurs(b, z)
  BY Joined
<1>10. ASSUME NEW i \in DOMAIN (a \o b)
       PROVE  LET m == (a \o b)[i] IN
              /\ m.call \in {"destroy", "unregister"}
              /\ type[m.what].kind \in {"class", "enum"}
              /\ m.call = "unregister" => type[m.what].kind = "class"
              /\ Rolling => m.what \notin since[Last(listeners)]
  <2>1. (a \o b)[i] \in Calls /\ Occurs(a \o b, (a \o b)[i])
    BY <1>8 DEF Occurs
  <2>2. Occurs(a, (a \o b)[i]) \/ Occurs(b, (a \o b)[i])
    BY <2>1, <1>9
  <2>3. CASE Occurs(b, (a \o b)[i])
    <3>1. (a \o b)[i] = u
      BY <2>3, <1>6 DEF Occurs
    <3> QED
      BY <3>1, <1>1, <1>4, <1>5
  <2>4. CASE Occurs(a, (a \o b)[i])
    <3>1. PICK j \in DOMAIN DestroyMembers(o) : DestroyMembers(o)[j] = (a \o b)[i]
      BY <2>4, <1>7 DEF Occurs
    <3>2. Rolling => DestroyMembers(o)[j].what \notin since[Last(listeners)]
      BY <1>2, <1>3, <1>4, RollingListens, Innermost
    <3> QED
      BY <3>1, <3>2, <1>3
  <2> QED
    BY <2>2, <2>3, <2>4
<1>11. ASSUME NEW z \in Types,
              \/ Head(todo).call = "destroyType" /\ Head(todo).type = z
              \/ Head(todo).call \in {"destroy", "unregister"} /\ Head(todo).what = Entry(z)
       PROVE  \E i \in DOMAIN (a \o b) : (a \o b)[i].what = Entry(z)
  <2>1. Occurs(b, u) /\ Entry(z) = o
    BY <1>1, <1>6, <1>11 DEF Occurs
  <2>2. Occurs(a \o b, u)
    BY <2>1, <1>5, <1>9
  <2> QED
    BY <2>1, <2>2, <1>5 DEF Occurs
<1>12. Then(a \o b) /\ Head(todo).call # "endRollback" /\ o \in Objects \cup Namespaces
  BY <1>1, <1>2, <1>8
<1>13. classes' = classes \/ classes' = [classes EXCEPT ![o] = <<>>]
  BY <1>1
<1> HIDE DEF o, c, u
<1> QED
  BY <1>1, <1>8, <1>10, <1>11, <1>12, <1>13, Replacing

LEMMA FailInv ==
  ASSUME IInv, Fail
  PROVE  IInv'
<1>1. /\ undefined' = TRUE
      /\ UNCHANGED <<table, size, type, prototype, classes, enums, deleted, listeners,
                     active, m_types, since, todo, rolledBack>>
  BY DEF Fail
<1>2. /\ IdsNameEntries' /\ OneTypePerPrototype' /\ Registered' = Registered
      /\ \A y \in Types : Entry(y)' = Entry(y)
  BY <1>1, SameEntries
<1>3. TypeOK'
  BY <1>1 DEF IInv, TypeOK
<1>4. NoneTwice' /\ ActiveIsOutermost' /\ Silent' /\ Pending'
  BY <1>1, <1>2 DEF IInv, NoneTwice, ActiveIsOutermost, Silent, Listening, Pending
<1>5. Declared' /\ Newer'
  BY <1>1, <1>2 DEF IInv, Declared, Newer, Listening
<1>6. Recorded' /\ Undoing'
  BY <1>1 DEF Recorded, Undoing
<1> QED
  BY <1>2, <1>3, <1>4, <1>5, <1>6 DEF IInv

-----------------------------------------------------------------------------
(* Transactions *)

LEMMA StartInv ==
  ASSUME IInv, NEW t \in Transactions, Start(t)
  PROVE  IInv'
<1>1. /\ todo = <<>> /\ ~undefined /\ ~Listening(t)
      /\ listeners' = Append(listeners, t)
      /\ active' = (IF active = NoTransaction THEN t ELSE active)
      /\ since' = [since EXCEPT ![t] = Registered]
      /\ UNCHANGED <<table, size, type, prototype, classes, enums, deleted, m_types, todo,
                     rolledBack, undefined>>
  BY DEF Start, Idle
<1>2. /\ TypeOK /\ listeners \in Seq(Transactions) /\ since \in [Transactions -> SUBSET Objects]
      /\ Registered \subseteq Objects
  BY DEF IInv, TypeOK, Registered
<1>3. /\ IdsNameEntries' /\ OneTypePerPrototype' /\ Registered' = Registered
      /\ \A y \in Types : Entry(y)' = Entry(y)
  BY <1>1, SameEntries
<1>4. /\ listeners' \in Seq(Transactions)
      /\ DOMAIN listeners = 1 .. Len(listeners) /\ Len(listeners) \in Nat
      /\ DOMAIN listeners' = 1 .. Len(listeners) + 1
      /\ \A i \in DOMAIN listeners : listeners'[i] = listeners[i]
      /\ listeners'[Len(listeners) + 1] = t
  BY <1>1, <1>2
<1>5. /\ since' \in [Transactions -> SUBSET Objects] /\ since'[t] = Registered
      /\ \A u \in Transactions : u # t => since'[u] = since[u]
  BY <1>1, <1>2
<1>6. \A u \in Transactions : Listening(u)' <=> Listening(u) \/ u = t
  BY <1>4 DEF Listening
<1>7. TypeOK'
  <2>1. active' \in Transactions \cup {NoTransaction}
    BY <1>1, <1>2 DEF TypeOK
  <2> QED
    BY <2>1, <1>1, <1>2, <1>4, <1>5 DEF TypeOK
<1>8. NoneTwice'
  <2>1. NoneTwice
    BY DEF IInv
  <2>2. \A i \in DOMAIN listeners : listeners[i] # t
    BY <1>1 DEF Listening
  <2> QED
    BY <2>1, <2>2, <1>4 DEF NoneTwice
<1>9. ActiveIsOutermost'
  <2>1. ActiveIsOutermost /\ NoTransaction \notin Transactions
    BY ObjectsAssumption DEF IInv
  <2>2. CASE listeners = <<>>
    BY <2>1, <2>2, <1>1, <1>4 DEF ActiveIsOutermost
  <2>3. CASE listeners # <<>>
    <3>1. 1 \in DOMAIN listeners /\ listeners' # <<>>
      BY <2>3, <1>2, <1>4
    <3>2. active = listeners[1] /\ active \in Transactions
      BY <3>1, <2>1, <2>3, <1>2 DEF ActiveIsOutermost
    <3> QED
      BY <3>1, <3>2, <2>1, <1>1, <1>4 DEF ActiveIsOutermost
  <2> QED
    BY <2>2, <2>3
<1>10. Silent'
  BY <1>1, <1>2, <1>3, <1>5, <1>6 DEF IInv, Silent
<1>11. Declared' /\ Pending'
  BY <1>1, <1>3 DEF IInv, Declared, Pending
<1>12. Newer'
  <2> SUFFICES ASSUME NEW u \in Transactions, Listening(u)'
               PROVE  /\ \A o \in Registered \ since'[u], y \in Types :
                           type[o] = y => Entry(y) \notin since'[u]
                      /\ \A x \in Objects \ since'[u] :
                           /\ \A i \in DOMAIN classes[x] : classes[x][i] \notin since'[u]
                           /\ \A i \in DOMAIN enums[x] : enums[x][i] \notin since'[u]
    BY <1>1, <1>3 DEF Newer
  <2>1. CASE u = t
    <3>1. \A x \in Objects \ Registered : classes[x] = <<>> /\ enums[x] = <<>>
      BY DEF IInv, Declared
    <3>2. DOMAIN <<>> = {}
      OBVIOUS
    <3> QED
      BY <2>1, <3>1, <3>2, <1>5
  <2>2. CASE u # t
    BY <2>2, <1>5, <1>6 DEF IInv, Newer
  <2> QED
    BY <2>1, <2>2
<1>13. Recorded'
  <2>1. ASSUME NEW u \in Transactions, Listening(u)
        PROVE  Records(u)'
    <3>1. PICK n \in DOMAIN listeners : listeners[n] = u
      BY <2>1 DEF Listening
    <3>2. Records(u)
      BY <3>1, <1>1 DEF IInv, Recorded, Rolling
    <3>3. since'[u] = since[u]
      BY <2>1, <1>1, <1>5
    <3> QED
      BY <3>2, <3>3, <1>1, <1>3 DEF Records
  <2>2. Records(t)'
    <3>1. m_types[t] = <<>> /\ ~(\E i \in DOMAIN m_types[t] : TRUE)
      BY <1>1 DEF IInv, Silent
    <3>2. \A y \in Types : Entry(y) \in Objects => Entry(y) \in Registered
      BY Facts
    <3> QED
      BY <3>1, <3>2, <1>1, <1>3, <1>5 DEF Records, Occurs, Once
  <2>3. \A n \in DOMAIN listeners', u \in Transactions : listeners'[n] = u => Listening(u)'
    BY DEF Listening
  <2> QED
    BY <2>1, <2>2, <2>3, <1>6 DEF Recorded
<1>14. Undoing'
  BY <1>1 DEF Undoing, Rolling
<1> QED
  BY <1>3, <1>7, <1>8, <1>9, <1>10, <1>11, <1>12, <1>13, <1>14 DEF IInv

\* The innermost transaction ends.
LEMMA Stopping ==
  ASSUME IInv, listeners # <<>>, Stop(Last(listeners)),
         UNCHANGED <<table, size, type, prototype, classes, enums, undefined>>
  PROVE  /\ listeners' \in Seq(Transactions) /\ active' \in Transactions \cup {NoTransaction}
         /\ m_types' \in [Transactions -> Seq(Types)]
         /\ since' \in [Transactions -> SUBSET Objects]
         /\ NoneTwice' /\ ActiveIsOutermost' /\ Silent' /\ Newer'
         /\ \A n \in DOMAIN listeners' : n \in DOMAIN listeners /\ n < Len(listeners)
         /\ \A t \in Transactions : Listening(t)' /\ Records(t) => Records(t)'
         /\ \A n \in DOMAIN listeners' : listeners'[n] = listeners[n]
<1> DEFINE t == Last(listeners)
<1>1. /\ t = listeners[Len(listeners)] /\ t \in Transactions /\ Len(listeners) \in DOMAIN listeners
  BY Innermost
<1>2. /\ listeners' = Front(listeners) /\ active' = (IF active = t THEN NoTransaction ELSE active)
      /\ m_types' = [m_types EXCEPT ![t] = <<>>] /\ since' = [since EXCEPT ![t] = {}]
  BY DEF Stop, ActiveAfter
<1>3. /\ listeners \in Seq(Transactions) /\ active \in Transactions \cup {NoTransaction}
      /\ m_types \in [Transactions -> Seq(Types)] /\ since \in [Transactions -> SUBSET Objects]
  BY DEF IInv, TypeOK
<1> HIDE DEF t
<1>4. /\ listeners' \in Seq(Transactions) /\ Len(listeners) \in Nat /\ Len(listeners) > 0
      /\ DOMAIN listeners = 1 .. Len(listeners)
      /\ DOMAIN listeners' = 1 .. Len(listeners) - 1
      /\ \A i \in DOMAIN listeners' : i \in DOMAIN listeners /\ listeners'[i] = listeners[i]
  <2>1. Len(listeners) \in Nat /\ Len(listeners) > 0 /\ DOMAIN listeners = 1 .. Len(listeners)
    BY <1>3
  <2>2. listeners' = [i \in 1 .. Len(listeners) - 1 |-> listeners[i]]
    <3>1. Front(listeners) = SubSeq(listeners, 1, Len(listeners) - 1)
      BY DEF Front
    <3>2. SubSeq(listeners, 1, Len(listeners) - 1) = [i \in 1 .. Len(listeners) - 1 |-> listeners[i]]
      BY <1>3, <2>1
    <3> QED
      BY <3>1, <3>2, <1>2
  <2>3. \A i \in 1 .. Len(listeners) - 1 : listeners[i] \in Transactions
    BY <1>3, <2>1
  <2> QED
    BY <2>1, <2>2, <2>3
<1>5. NoneTwice
  BY DEF IInv
<1>6. \A u \in Transactions : Listening(u)' => Listening(u) /\ u # t
  <2>1. \A i \in DOMAIN listeners' : listeners[i] # t
    BY <1>1, <1>4, <1>5 DEF NoneTwice
  <2> QED
    BY <2>1, <1>4 DEF Listening
<1>7. \A u \in Transactions : u # t /\ Listening(u) => Listening(u)'
  <2>1. ASSUME NEW u \in Transactions, u # t, NEW i \in DOMAIN listeners, listeners[i] = u
        PROVE  i \in DOMAIN listeners' /\ listeners'[i] = u
    BY <2>1, <1>1, <1>4
  <2> QED
    BY <2>1 DEF Listening
<1>8. NoneTwice'
  BY <1>4, <1>5 DEF NoneTwice
<1>9. ActiveIsOutermost'
  <2>1. ActiveIsOutermost /\ active = listeners[1]
    BY DEF IInv, ActiveIsOutermost
  <2>2. CASE Len(listeners) = 1
    BY <2>1, <2>2, <1>1, <1>2, <1>4 DEF ActiveIsOutermost
  <2>3. CASE Len(listeners) > 1
    <3>1. 1 \in DOMAIN listeners' /\ listeners' # <<>> /\ listeners'[1] = listeners[1]
      BY <2>3, <1>4
    <3>2. listeners[1] # t
      BY <2>3, <1>1, <1>4, <1>5 DEF NoneTwice
    <3> QED
      BY <3>1, <3>2, <2>1, <1>2 DEF ActiveIsOutermost
  <2> QED
    BY <2>2, <2>3, <1>4
<1>10. /\ m_types' \in [Transactions -> Seq(Types)] /\ since' \in [Transactions -> SUBSET Objects]
       /\ m_types'[t] = <<>> /\ since'[t] = {}
       /\ \A u \in Transactions : u # t => m_types'[u] = m_types[u] /\ since'[u] = since[u]
  <2>1. <<>> \in Seq(Types)
    OBVIOUS
  <2> QED
    BY <2>1, <1>1, <1>2, <1>3
<1>11. Registered' = Registered /\ \A y \in Types : Entry(y)' = Entry(y)
  BY SameEntries
<1>12. Silent'
  BY <1>6, <1>7, <1>10, <1>11 DEF IInv, Silent
<1>13. Newer'
  <2>1. Newer
    BY DEF IInv
  <2> QED
    BY <2>1, <1>6, <1>10, <1>11 DEF Newer
<1>14. \A u \in Transactions : Listening(u)' /\ Records(u) => Records(u)'
  BY <1>6, <1>10, <1>11 DEF Records
<1>15. active' \in Transactions \cup {NoTransaction}
  BY <1>2, <1>3
<1>a. \A n \in DOMAIN listeners' : n \in DOMAIN listeners /\ n < Len(listeners)
  BY <1>4
<1> QED
  BY <1>4, <1>8, <1>9, <1>10, <1>12, <1>13, <1>14, <1>15, <1>a

LEMMA CommitInv ==
  ASSUME IInv, Commit
  PROVE  IInv'
<1>1. /\ todo = <<>> /\ ~undefined /\ listeners # <<>> /\ Stop(Last(listeners))
      /\ UNCHANGED <<table, size, type, prototype, classes, enums, deleted, todo, rolledBack,
                     undefined>>
  BY DEF Commit, Idle
<1>2. /\ listeners' \in Seq(Transactions) /\ active' \in Transactions \cup {NoTransaction}
      /\ m_types' \in [Transactions -> Seq(Types)] /\ since' \in [Transactions -> SUBSET Objects]
      /\ NoneTwice' /\ ActiveIsOutermost' /\ Silent' /\ Newer'
      /\ \A n \in DOMAIN listeners' : n \in DOMAIN listeners /\ n < Len(listeners)
      /\ \A t \in Transactions : Listening(t)' /\ Records(t) => Records(t)'
      /\ \A n \in DOMAIN listeners' : listeners'[n] = listeners[n]
  BY <1>1, Stopping
<1>3. /\ IdsNameEntries' /\ OneTypePerPrototype' /\ Registered' = Registered
  BY <1>1, SameEntries
<1>4. TypeOK'
  BY <1>1, <1>2 DEF IInv, TypeOK
<1>5. Declared' /\ Pending' /\ Undoing'
  BY <1>1, <1>3 DEF IInv, Declared, Pending, Undoing, Rolling
<1>6. Recorded'
  <2>1. \A n \in DOMAIN listeners, t \in Transactions : listeners[n] = t => Records(t)
    BY <1>1 DEF IInv, Recorded, Rolling
  <2>2. \A n \in DOMAIN listeners', t \in Transactions : listeners'[n] = t => Listening(t)'
    BY DEF Listening
  <2> QED
    BY <2>1, <2>2, <1>2 DEF Recorded
<1> QED
  BY <1>2, <1>3, <1>4, <1>5, <1>6 DEF IInv

LEMMA EndRollbackInv ==
  ASSUME IInv, EndRollback
  PROVE  IInv'
<1>1. /\ todo # <<>> /\ ~undefined /\ Head(todo).call = "endRollback"
      /\ Stop(Last(listeners)) /\ Then(<<>>)
      /\ UNCHANGED <<table, size, type, prototype, classes, enums, deleted, rolledBack,
                     undefined>>
  BY DEF EndRollback, Doing
<1>2. todo \in Seq(Calls) /\ Head(todo) = todo[1] /\ 1 \in DOMAIN todo
  BY <1>1, HeadCall DEF IInv, TypeOK
<1>3. Len(todo) = 1 /\ listeners # <<>>
  BY <1>1, <1>2 DEF IInv, Pending
<1>4. todo' = <<>>
  BY <1>1, <1>2, <1>3 DEF Then
<1>5. /\ listeners' \in Seq(Transactions) /\ active' \in Transactions \cup {NoTransaction}
      /\ m_types' \in [Transactions -> Seq(Types)] /\ since' \in [Transactions -> SUBSET Objects]
      /\ NoneTwice' /\ ActiveIsOutermost' /\ Silent' /\ Newer'
      /\ \A n \in DOMAIN listeners' : n \in DOMAIN listeners /\ n < Len(listeners)
      /\ \A t \in Transactions : Listening(t)' /\ Records(t) => Records(t)'
      /\ \A n \in DOMAIN listeners' : listeners'[n] = listeners[n]
  BY <1>1, <1>3, Stopping
<1>6. /\ IdsNameEntries' /\ OneTypePerPrototype' /\ Registered' = Registered
  BY <1>1, SameEntries
<1>7. TypeOK'
  BY <1>1, <1>4, <1>5 DEF IInv, TypeOK
<1>8. Declared' /\ Pending' /\ Undoing'
  BY <1>1, <1>4, <1>6 DEF IInv, Declared, Pending, Undoing, Rolling
<1>9. Recorded'
  <2>1. \A n \in DOMAIN listeners, t \in Transactions :
          listeners[n] = t /\ n < Len(listeners) => Records(t)
    BY <1>1 DEF IInv, Recorded
  <2>2. \A n \in DOMAIN listeners', t \in Transactions : listeners'[n] = t => Listening(t)'
    BY DEF Listening
  <2> QED
    BY <2>1, <2>2, <1>5 DEF Recorded
<1> QED
  BY <1>5, <1>6, <1>7, <1>8, <1>9 DEF IInv

LEMMA BeginRollbackInv ==
  ASSUME IInv, BeginRollback
  PROVE  IInv' /\ Rolling' /\ ~Rolling
<1> DEFINE t == Last(listeners)
           e == [call |-> "endRollback"]
<1>1. /\ todo = <<>> /\ ~undefined /\ listeners # <<>>
      /\ todo' = RolledBack(m_types[t]) \o <<e>>
      /\ m_types' = [m_types EXCEPT ![t] = <<>>] /\ rolledBack' = TRUE
      /\ UNCHANGED <<table, size, type, prototype, classes, enums, deleted, listeners,
                     active, since, undefined>>
  BY DEF BeginRollback, Idle
<1>2. /\ t = listeners[Len(listeners)] /\ t \in Transactions /\ Len(listeners) \in DOMAIN listeners
  BY <1>1, Innermost
<1>3. ~Rolling
  BY <1>1 DEF Rolling
<1>4. Records(t)
  BY <1>1, <1>2, <1>3 DEF IInv, Recorded
<1>5. m_types \in [Transactions -> Seq(Types)]
  BY DEF IInv, TypeOK
<1>6. PICK s \in Seq(Types) : s = m_types[t]
  BY <1>2, <1>5
<1>7. e \in Calls
  BY DEF Calls
<1>8. /\ Len(s) \in Nat /\ DOMAIN s = 1 .. Len(s)
      /\ \A i \in DOMAIN s : s[i] \in Types
  BY <1>6
<1>9. RolledBack(s) \in Seq(Calls) /\ Len(RolledBack(s)) = Len(s)
      /\ \A i \in DOMAIN s : RolledBack(s)[i] = [call |-> "destroyType", type |-> s[i]]
  <2>1. RolledBack(s) = [i \in 1 .. Len(s) |-> [call |-> "destroyType", type |-> s[i]]]
    BY <1>8 DEF RolledBack
  <2>2. \A i \in 1 .. Len(s) : [call |-> "destroyType", type |-> s[i]] \in Calls
    BY <1>8 DEF Calls
  <2> QED
    BY <2>1, <2>2, <1>8
<1>10. todo' = Append(RolledBack(s), e)
  BY <1>1, <1>6, <1>9
<1>11. /\ todo' \in Seq(Calls) /\ Len(todo') = Len(s) + 1 /\ DOMAIN todo' = 1 .. Len(s) + 1
       /\ todo'[Len(s) + 1] = e
       /\ \A i \in DOMAIN s : todo'[i] = [call |-> "destroyType", type |-> s[i]]
  BY <1>7, <1>8, <1>9, <1>10
<1>12. /\ e.call = "endRollback"
       /\ \A i \in DOMAIN s : todo'[i].call = "destroyType" /\ todo'[i].type = s[i]
  <2>1. e.call = "endRollback"
    OBVIOUS
  <2>2. ASSUME NEW i \in DOMAIN s
        PROVE  todo'[i].call = "destroyType" /\ todo'[i].type = s[i]
    <3>1. todo'[i] = [call |-> "destroyType", type |-> s[i]]
      BY <1>11
    <3> QED
      BY <3>1
  <2> QED
    BY <2>1, <2>2
<1> HIDE DEF e, t
<1>13. /\ \A i \in DOMAIN todo' : i \in DOMAIN s \/ i = Len(s) + 1
       /\ Last(todo') = todo'[Len(s) + 1] /\ todo' # <<>>
  BY <1>8, <1>11 DEF Last
<1>14. Rolling'
  BY <1>11, <1>12, <1>13 DEF Rolling
<1>15. /\ IdsNameEntries' /\ OneTypePerPrototype' /\ Registered' = Registered
       /\ \A y \in Types : Entry(y)' = Entry(y)
  BY <1>1, SameEntries
<1>a. /\ m_types' \in [Transactions -> Seq(Types)] /\ m_types'[t] = <<>>
       /\ \A u \in Transactions : u # t => m_types'[u] = m_types[u]
  <2>1. <<>> \in Seq(Types)
    OBVIOUS
  <2> QED
    BY <2>1, <1>1, <1>2, <1>5
<1>17. TypeOK'
  BY <1>1, <1>11, <1>a DEF IInv, TypeOK
<1>18. NoneTwice' /\ ActiveIsOutermost' /\ Silent'
  BY <1>1, <1>15, <1>a DEF IInv, NoneTwice, ActiveIsOutermost, Silent, Listening
<1>19. Declared' /\ Newer'
  BY <1>1, <1>15 DEF IInv, Declared, Newer, Listening
<1>20. Pending'
  <2>1. ASSUME NEW i \in DOMAIN todo'
        PROVE  /\ todo'[i].call \notin {"destroy", "unregister"}
               /\ todo'[i].call = "endRollback" => i = Len(todo') /\ listeners # <<>>
    BY <1>1, <1>11, <1>12, <1>13
  <2> QED
    BY <2>1, <1>1 DEF Pending
<1>21. Recorded'
  <2>1. ASSUME NEW n \in DOMAIN listeners, NEW u \in Transactions, listeners[n] = u,
               n < Len(listeners)
        PROVE  Records(u)'
    <3>1. Records(u)
      BY <2>1, <1>1 DEF IInv, Recorded
    <3>2. n # Len(listeners)
      BY <2>1
    <3>3. u # t
      BY <2>1, <3>2, <1>2 DEF IInv, NoneTwice
    <3> QED
      BY <3>1, <3>3, <1>1, <1>15, <1>a DEF Records
  <2> QED
    BY <2>1, <1>1, <1>14 DEF Recorded
<1>22. Undoing'
  <2> SUFFICES /\ \A i \in DOMAIN todo' :
                    /\ \A z \in Types : todo'[i].call = "destroyType" /\ todo'[i].type = z
                                          => Entry(z) \notin since[t]
                    /\ todo'[i].call \in {"destroy", "unregister"} => todo'[i].what \notin since[t]
               /\ \A z \in Types : Entry(z) \in Objects \ since[t] =>
                    \E i \in DOMAIN todo' :
                      \/ todo'[i].call = "destroyType" /\ todo'[i].type = z
                      \/ todo'[i].call \in {"destroy", "unregister"} /\ todo'[i].what = Entry(z)
    BY ZenonT(60), <1>1, <1>15 DEF Undoing, t
  <2>1. \A z \in Types : /\ Entry(z) \in Objects \ since[t] => Occurs(s, z)
                         /\ Occurs(s, z) => Entry(z) \notin since[t]
    BY <1>4, <1>6 DEF Records
  <2>2. ASSUME NEW i \in DOMAIN todo'
        PROVE  /\ \A z \in Types : todo'[i].call = "destroyType" /\ todo'[i].type = z
                                     => Entry(z) \notin since[t]
               /\ todo'[i].call \in {"destroy", "unregister"} => todo'[i].what \notin since[t]
    <3>1. CASE i \in DOMAIN s
      BY <3>1, <2>1, <1>12 DEF Occurs
    <3>2. CASE i = Len(s) + 1
      BY <3>2, <1>11, <1>12
    <3> QED
      BY <3>1, <3>2, <1>13
  <2>3. ASSUME NEW z \in Types, Entry(z) \in Objects \ since[t]
        PROVE  \E i \in DOMAIN todo' : todo'[i].call = "destroyType" /\ todo'[i].type = z
    <3>1. PICK i \in DOMAIN s : s[i] = z
      BY <2>1, <2>3 DEF Occurs
    <3>2. i \in DOMAIN todo'
      BY <1>8, <1>11
    <3> QED
      BY <3>1, <3>2, <1>12
  <2> QED
    BY <2>2, <2>3
<1> QED
  BY <1>3, <1>14, <1>15, <1>17, <1>18, <1>19, <1>20, <1>21, <1>22 DEF IInv

-----------------------------------------------------------------------------
(* Creation, again: what each operation registers *)

LEMMA CreateInv ==
  ASSUME IInv,
         \/ \E o \in Objects, owner \in Owners, i \in Index :
              NewClass(o, owner, i) \/ NewEnum(o, owner, i)
         \/ \E o \in Objects : NewLambda(o)
         \/ \E o \in Objects, p \in Prototypes : NewFunctionType(o, p)
  PROVE  IInv' /\ Idle /\ \E o \in Objects, k \in Kinds, i \in Index :
                            Register(o, k, i) /\ (i = size[k] \/ Free(k, i))
<1>1. /\ prototype \in [Objects -> Prototypes \cup {NoObject}]
      /\ classes \in [Objects \cup Namespaces -> Seq(Objects)]
      /\ enums \in [Objects \cup Namespaces -> Seq(Objects)]
      /\ size \in [Kinds -> 0 .. MaxTypes]
  BY DEF IInv, TypeOK
<1>2. \A owner \in Owners : owner # NoOwner => /\ owner \in Objects \cup Namespaces
                                               /\ owner \notin Objects \ Registered
  <2>1. Namespaces \cap Objects = {}
    BY ObjectsAssumption
  <2>2. NoType.kind # "class"
    BY DEF NoType
  <2> QED
    BY <2>1, <2>2 DEF Owners, Registered
<1>3. \A x \in Objects \cup Namespaces, o \in Objects :
        Append(classes[x], o) \in Seq(Objects) /\ Append(enums[x], o) \in Seq(Objects)
  BY <1>1
<1>4. /\ "class" \in Kinds /\ "enum" \in Kinds /\ "closure" \in Kinds /\ "function" \in Kinds
      /\ "class" # "function" /\ "enum" # "function" /\ "closure" # "function"
  BY DEF Kinds
<1>5. ASSUME NEW o \in Objects, NEW k \in Kinds, NEW i, Register(o, k, i)
      PROVE  i \in Index
  BY <1>5 DEF Register
<1>6. ASSUME NEW o \in Objects, NEW owner \in Owners, NEW i \in Index, NewClass(o, owner, i)
      PROVE  IInv' /\ Idle /\ Register(o, "class", i) /\ (i = size["class"] \/ Free("class", i))
  <2>1. /\ Idle /\ Register(o, "class", i) /\ (i = size["class"] \/ Free("class", i))
        /\ prototype' = prototype /\ enums' = enums
        /\ classes' = (IF owner = NoOwner THEN classes
                       ELSE [classes EXCEPT ![owner] = Append(@, o)])
    BY <1>6 DEF NewClass
  <2>2. classes' \in [Objects \cup Namespaces -> Seq(Objects)]
    BY <2>1, <1>1, <1>2, <1>3
  <2>3. \A x \in Objects \cup Namespaces :
          \/ classes'[x] = classes[x]
          \/ x \notin Objects \ Registered /\ classes'[x] = Append(classes[x], o)
    BY <2>1, <1>1, <1>2
  <2>4. IInv'
    <3>1. \A x \in Objects \cup Namespaces :
            \/ classes'[x] = classes[x]
            \/ /\ "class" = "class" /\ x \notin Objects \ (Registered \cup {o})
               /\ classes'[x] = Append(classes[x], o)
      BY <2>3
    <3>2. \A x \in Objects \cup Namespaces :
            \/ enums'[x] = enums[x]
            \/ /\ "class" = "enum" /\ x \notin Objects \ (Registered \cup {o})
               /\ enums'[x] = Append(enums[x], o)
      BY <2>1
    <3>3. \A x \in Objects \ Registered : classes'[x] = classes[x] /\ enums'[x] = enums[x]
      BY <2>1, <2>3
    <3>4. /\ prototype' \in [Objects -> Prototypes \cup {NoObject}]
          /\ \A q \in Objects \ {o} : prototype'[q] = prototype[q]
          /\ enums' \in [Objects \cup Namespaces -> Seq(Objects)]
      BY <2>1, <1>1
    <3> QED
      BY <2>1, <2>2, <3>1, <3>2, <3>3, <3>4, <1>4, Registering
  <2> QED
    BY <2>1, <2>4
<1>7. ASSUME NEW o \in Objects, NEW owner \in Owners, NEW i \in Index, NewEnum(o, owner, i)
      PROVE  IInv' /\ Idle /\ Register(o, "enum", i) /\ (i = size["enum"] \/ Free("enum", i))
  <2>1. /\ Idle /\ Register(o, "enum", i) /\ (i = size["enum"] \/ Free("enum", i))
        /\ prototype' = prototype /\ classes' = classes /\ owner # NoOwner
        /\ enums' = [enums EXCEPT ![owner] = Append(@, o)]
    BY <1>7 DEF NewEnum
  <2>2. enums' \in [Objects \cup Namespaces -> Seq(Objects)]
    BY <2>1, <1>1, <1>2, <1>3
  <2>3. \A x \in Objects \cup Namespaces :
          \/ enums'[x] = enums[x]
          \/ x \notin Objects \ Registered /\ enums'[x] = Append(enums[x], o)
    BY <2>1, <1>1, <1>2
  <2>4. IInv'
    <3>1. \A x \in Objects \cup Namespaces :
            \/ enums'[x] = enums[x]
            \/ /\ "enum" = "enum" /\ x \notin Objects \ (Registered \cup {o})
               /\ enums'[x] = Append(enums[x], o)
      BY <2>3
    <3>2. \A x \in Objects \cup Namespaces :
            \/ classes'[x] = classes[x]
            \/ /\ "enum" = "class" /\ x \notin Objects \ (Registered \cup {o})
               /\ classes'[x] = Append(classes[x], o)
      BY <2>1
    <3>3. \A x \in Objects \ Registered : classes'[x] = classes[x] /\ enums'[x] = enums[x]
      BY <2>1, <2>3
    <3>4. /\ prototype' \in [Objects -> Prototypes \cup {NoObject}]
          /\ \A q \in Objects \ {o} : prototype'[q] = prototype[q]
          /\ classes' \in [Objects \cup Namespaces -> Seq(Objects)]
      BY <2>1, <1>1
    <3> QED
      BY <2>1, <2>2, <3>1, <3>2, <3>3, <3>4, <1>4, Registering
  <2> QED
    BY <2>1, <2>4
<1>8. ASSUME NEW o \in Objects, NEW k \in {"closure", "function"},
             Idle, Register(o, k, size[k]), UNCHANGED <<classes, enums>>,
             prototype' \in [Objects -> Prototypes \cup {NoObject}],
             \A q \in Objects \ {o} : prototype'[q] = prototype[q],
             k = "function" => ~Known(prototype'[o])
      PROVE  IInv'
  <2>1. \A x \in Objects \cup Namespaces : classes'[x] = classes[x] /\ enums'[x] = enums[x]
    BY <1>8
  <2>2. /\ classes' \in [Objects \cup Namespaces -> Seq(Objects)]
        /\ enums' \in [Objects \cup Namespaces -> Seq(Objects)] /\ k \in Kinds
    BY <1>1, <1>4, <1>8
  <2> QED
    BY <2>1, <2>2, <1>8, Registering
<1>9. ASSUME NEW o \in Objects, NewLambda(o)
      PROVE  /\ IInv' /\ Idle /\ Register(o, "closure", size["closure"])
  <2>1. /\ Idle /\ Register(o, "closure", size["closure"])
        /\ prototype' = prototype /\ UNCHANGED <<classes, enums>>
    BY <1>9 DEF NewLambda
  <2> QED
    BY <2>1, <1>1, <1>4, <1>8
<1>10. ASSUME NEW o \in Objects, NEW p \in Prototypes, NewFunctionType(o, p)
       PROVE  /\ IInv' /\ Idle /\ Register(o, "function", size["function"])
  <2>1. /\ Idle /\ Register(o, "function", size["function"]) /\ ~Known(p)
        /\ prototype' = [prototype EXCEPT ![o] = p] /\ UNCHANGED <<classes, enums>>
    BY <1>10 DEF NewFunctionType
  <2>2. /\ prototype' \in [Objects -> Prototypes \cup {NoObject}] /\ prototype'[o] = p
        /\ \A q \in Objects \ {o} : prototype'[q] = prototype[q]
    BY <2>1, <1>1
  <2> QED
    BY <2>1, <2>2, <1>4, <1>8
<1> QED
  BY <1>4, <1>5, <1>6, <1>7, <1>9, <1>10

-----------------------------------------------------------------------------
(* The invariant *)

LEMMA NextInv ==
  ASSUME IInv, [Next]_vars
  PROVE  IInv'
<1>1. CASE UNCHANGED vars
  <2>1. UNCHANGED <<table, size, type, prototype, classes, enums, deleted, listeners,
                    active, m_types, since, todo, rolledBack, undefined>>
    BY <1>1 DEF vars
  <2>2. /\ IdsNameEntries' /\ OneTypePerPrototype' /\ Registered' = Registered
        /\ \A y \in Types : Entry(y)' = Entry(y)
    BY <2>1, SameEntries
  <2>3. TypeOK' /\ NoneTwice' /\ ActiveIsOutermost' /\ Silent' /\ Pending'
    BY <2>1, <2>2 DEF IInv, TypeOK, NoneTwice, ActiveIsOutermost, Silent, Listening, Pending
  <2>4. Declared' /\ Newer'
    BY <2>1, <2>2 DEF IInv, Declared, Newer, Listening
  <2>5. Recorded' /\ Undoing'
    BY <2>1, <2>2 DEF IInv, Recorded, Records, Undoing, Rolling
  <2> QED
    BY <2>2, <2>3, <2>4, <2>5 DEF IInv
<1>2. ASSUME \/ \E o \in Objects, owner \in Owners, i \in Index :
                  NewClass(o, owner, i) \/ NewEnum(o, owner, i)
             \/ \E o \in Objects : NewLambda(o)
             \/ \E o \in Objects, p \in Prototypes : NewFunctionType(o, p)
      PROVE  IInv'
  BY <1>2, CreateInv
<1>3. ASSUME NEW k \in {"class", "enum"}, Reserve(k)
      PROVE  IInv'
  BY <1>3, ReserveInv
<1>4. ASSUME NEW ns \in Namespaces, DestroyNamespace(ns)
      PROVE  IInv'
  BY <1>4, DestroyNamespaceInv
<1>5. CASE DestroyType
  BY <1>5, DestroyTypeInv
<1>6. CASE DestroyEnum \/ UnregisterClass
  BY <1>6, UnregisterInv DEF DestroyEnum, UnregisterClass, Doing
<1>7. CASE DestroyClass
  BY <1>7, DestroyClassInv
<1>8. CASE UnregisterEntry
  BY <1>8, UnregisterEntryInv
<1>9. CASE Fail
  BY <1>9, FailInv
<1>10. ASSUME NEW t \in Transactions, Start(t)
       PROVE  IInv'
  BY <1>10, StartInv
<1>11. CASE Commit
  BY <1>11, CommitInv
<1>12. CASE BeginRollback
  BY <1>12, BeginRollbackInv
<1>13. CASE EndRollback
  BY <1>13, EndRollbackInv
<1> QED
  BY <1>1, <1>2, <1>3, <1>4, <1>5, <1>6, <1>7, <1>8, <1>9, <1>10, <1>11, <1>12, <1>13 DEF Next

LEMMA Invariance == Spec => []IInv
<1>1. Init => IInv
  BY InitInv
<1>2. IInv /\ [Next]_vars => IInv'
  BY NextInv
<1> QED
  BY <1>1, <1>2, PTL DEF Spec

\* The vectors, the lists of members, the listeners and what they record stay well
\* formed, whatever is created, destroyed, committed and rolled back.
THEOREM TypeCorrect == Spec => []TypeOK
<1>1. IInv => TypeOK
  BY DEF IInv
<1> QED
  BY <1>1, Invariance, PTL

\* An entry is found under the id that its object was given, and each vector ends
\* with an entry (register_class, register_enum, reserve, squeeze).
THEOREM IdsAreUnique == Spec => []IdsNameEntries
<1>1. IInv => IdsNameEntries
  BY DEF IInv
<1> QED
  BY <1>1, Invariance, PTL

\* No two function types have the same prototype (getFunctionType).
THEOREM FunctionTypesAreUnique == Spec => []OneTypePerPrototype
<1>1. IInv => OneTypePerPrototype
  BY DEF IInv
<1> QED
  BY <1>1, Invariance, PTL

\* hasActiveTransaction() is right, and the active transaction is alive (start,
\* commit, rollback).
THEOREM OutermostIsActive == Spec => []ActiveIsOutermost
<1>1. IInv => ActiveIsOutermost
  BY DEF IInv
<1> QED
  BY <1>1, Invariance, PTL

\* A transaction has recorded once each class, enumeration and closure type made
\* since it started that still exists, and nothing else (created, destroyed).
THEOREM RecordsAreRight == Spec => []RecordsWhatItMade
<1>1. IInv => RecordsWhatItMade
  <2> SUFFICES ASSUME IInv, ~undefined, NEW n \in DOMAIN listeners,
                      n < Len(listeners) \/ ~Rolling, NEW y \in Types, y.kind # "function"
               PROVE  LET types == m_types[listeners[n]] IN
                      /\ (\E i \in DOMAIN types : types[i] = y)
                           <=> Entry(y) \in Objects \ since[listeners[n]]
                      /\ \A i, j \in DOMAIN types : types[i] = y /\ types[j] = y => i = j
    BY DEF RecordsWhatItMade
  <2>1. listeners[n] \in Transactions
    BY Facts
  <2>2. Records(listeners[n])
    BY <2>1 DEF IInv, Recorded
  <2>3. /\ Entry(y) \in Objects \ since[listeners[n]] => Occurs(m_types[listeners[n]], y)
        /\ Occurs(m_types[listeners[n]], y) => /\ Entry(y) \notin since[listeners[n]]
                                               /\ Entry(y) \in Objects
        /\ Once(m_types[listeners[n]], y)
    BY <2>2 DEF Records
  <2> QED
    BY <2>3 DEF Occurs, Once
<1> QED
  BY <1>1, Invariance, PTL

\* Transactions know what to reverse, and which of them is told first.
THEOREM TransactionsAreRight == Spec => []TransactionsAreSound
BY RecordsAreRight, OutermostIsActive, PTL DEF TransactionsAreSound

-----------------------------------------------------------------------------
(* TypeSystem implements TypeTransactions *)

Marks == [n \in DOMAIN listeners |-> since[listeners[n]]]

LEMMA MarksSeq ==
  ASSUME IInv
  PROVE  /\ Marks \in Seq(SUBSET Objects) /\ Len(Marks) = Len(listeners)
         /\ DOMAIN Marks = 1 .. Len(listeners) /\ Len(listeners) \in Nat
         /\ listeners # <<>> => /\ Marks # <<>> /\ Last(Marks) = since[Last(listeners)]
<1>1. /\ listeners \in Seq(Transactions) /\ since \in [Transactions -> SUBSET Objects]
  BY DEF IInv, TypeOK
<1>2. /\ Len(listeners) \in Nat /\ DOMAIN listeners = 1 .. Len(listeners)
      /\ \A n \in DOMAIN listeners : listeners[n] \in Transactions
  BY <1>1
<1>3. Marks = [n \in 1 .. Len(listeners) |-> since[listeners[n]]]
  BY <1>2 DEF Marks
<1>4. \A n \in 1 .. Len(listeners) : since[listeners[n]] \in SUBSET Objects
  BY <1>1, <1>2
<1>5. Marks \in Seq(SUBSET Objects) /\ Len(Marks) = Len(listeners) /\ DOMAIN Marks = 1 .. Len(listeners)
  BY <1>2, <1>3, <1>4
<1>6. ASSUME listeners # <<>>
      PROVE  Marks # <<>> /\ Last(Marks) = since[Last(listeners)]
  <2>1. Len(listeners) \in 1 .. Len(listeners)
    BY <1>1, <1>2, <1>6
  <2>2. Last(Marks) = Marks[Len(listeners)] /\ Last(listeners) = listeners[Len(listeners)]
    BY <1>5 DEF Last
  <2> QED
    BY <2>1, <2>2, <1>3, <1>5
<1> QED
  BY <1>2, <1>5, <1>6

\* The end of the innermost transaction.
LEMMA Popped ==
  ASSUME IInv, listeners # <<>>, Stop(Last(listeners))
  PROVE  Marks' = Front(Marks)
<1> DEFINE t == Last(listeners)
           L == Len(listeners)
<1>1. /\ listeners \in Seq(Transactions) /\ since \in [Transactions -> SUBSET Objects]
      /\ L \in Nat /\ L > 0 /\ t = listeners[L] /\ t \in Transactions
      /\ DOMAIN listeners = 1 .. L
  BY Innermost DEF IInv, TypeOK
<1>2. listeners' = SubSeq(listeners, 1, L - 1) /\ since' = [since EXCEPT ![t] = {}]
  BY DEF Stop, Front
<1>3. /\ DOMAIN listeners' = 1 .. L - 1
      /\ \A n \in 1 .. L - 1 : listeners'[n] = listeners[n]
  BY <1>1, <1>2
<1>4. \A n \in 1 .. L - 1 : listeners[n] \in Transactions /\ listeners[n] # t
  BY <1>1 DEF IInv, NoneTwice
<1>5. Marks' = [n \in 1 .. L - 1 |-> since[listeners[n]]]
  <2>1. Marks' = [n \in 1 .. L - 1 |-> since'[listeners'[n]]]
    BY <1>3 DEF Marks
  <2>2. \A n \in 1 .. L - 1 : since'[listeners'[n]] = since[listeners[n]]
    BY <1>1, <1>2, <1>3, <1>4
  <2> QED
    BY <2>1, <2>2
<1>6. Marks = [n \in 1 .. L |-> since[listeners[n]]]
  BY <1>1 DEF Marks
<1>7. Marks \in Seq(SUBSET Objects) /\ Len(Marks) = L
  BY MarksSeq
<1> HIDE DEF L
<1>8. /\ Front(Marks) \in Seq(SUBSET Objects) /\ Len(Front(Marks)) = L - 1
      /\ \A n \in 1 .. L - 1 : Front(Marks)[n] = Marks[n]
  BY <1>1, <1>7 DEF Front
<1>9. Marks' \in Seq(SUBSET Objects) /\ Len(Marks') = L - 1
  <2>1. \A n \in 1 .. L - 1 : since[listeners[n]] \in SUBSET Objects
    BY <1>1, <1>4
  <2>2. L - 1 \in Nat
    BY <1>1
  <2> QED
    BY <2>1, <2>2, <1>5
<1>10. \A n \in 1 .. L - 1 : Marks'[n] = Front(Marks)[n]
  BY <1>1, <1>5, <1>6, <1>8
<1> QED
  BY <1>8, <1>9, <1>10, SeqEqual

\* Every step of the vectors is a step of the promise, or none.
LEMMA Simulation ==
  ASSUME IInv, [Next]_vars
  PROVE  [Transactional!Next]_(Transactional!vars)
<1> DEFINE Same == /\ Live' = Live /\ Registered' = Registered /\ Unannounced' = Unannounced
                   /\ Marks' = Marks /\ Rolling' = Rolling
<1>0. Same => [Transactional!Next]_(Transactional!vars)
  BY DEF Transactional!vars, Marks
<1> HIDE DEF Same
<1>a. /\ Transactional!Last(Marks) = Last(Marks)
       /\ Transactional!Front(Marks) = Front(Marks)
  BY DEF Transactional!Last, Transactional!Front, Last, Front
<1>1. ASSUME UNCHANGED <<table, size, type, prototype, listeners, since>>, Rolling' = Rolling
      PROVE  Same
  <2>1. Registered' = Registered /\ \A y \in Types : Entry(y)' = Entry(y)
    BY <1>1, SameEntries
  <2>2. Live' = Live
    BY <2>1 DEF Live
  <2>3. Marks' = Marks /\ Unannounced' = Unannounced
    BY <1>1, <2>1 DEF Marks, Unannounced
  <2> QED
    BY <2>1, <2>2, <2>3, <1>1 DEF Same
<1>2. CASE UNCHANGED vars
  BY <1>0, <1>1, <1>2 DEF vars, Rolling
<1>3. CASE \/ \E o \in Objects, owner \in Owners, i \in Index :
                NewClass(o, owner, i) \/ NewEnum(o, owner, i)
           \/ \E o \in Objects : NewLambda(o)
           \/ \E o \in Objects, p \in Prototypes : NewFunctionType(o, p)
  <2>1. Idle /\ IInv'
    BY <1>3, CreateInv
  <2>2. PICK o \in Objects, k \in Kinds, i \in Index :
               Register(o, k, i) /\ (i = size[k] \/ Free(k, i))
    BY <1>3, CreateInv
  <2> DEFINE y == [kind |-> k, index |-> i]
  <2>3. y \in Types /\ y.kind = k /\ y.index = i
    BY TypeFields
  <2>4. /\ o \notin Registered /\ type' = [type EXCEPT ![o] = y]
        /\ table' = [table EXCEPT ![k][i] = o]
        /\ size' = [size EXCEPT ![k] = IF @ <= i THEN i + 1 ELSE @]
        /\ UNCHANGED <<listeners, since, todo>>
    BY <2>2 DEF Register
  <2>5. /\ TypeOK /\ Vectors /\ o \in Entries /\ o # Null
        /\ type \in [Objects -> Types \cup {NoType}] /\ size \in [Kinds -> 0 .. MaxTypes]
    BY Facts DEF IInv, TypeOK, Entries
  <2>6. Put(y, o)
    BY <2>4, <2>5, Placing
  <2>7. Entry(y) \notin Objects
    <3>1. i = size[k] => Entry(y) = Null
      BY <2>3, <2>5 DEF Entry
    <3>2. Free(k, i) => Entry(y) \in {Null, Reserved}
      <4>1. size[k] \in Int /\ i \in Int
        BY <2>5, ObjectsAssumption DEF Index
      <4> QED
        BY <4>1, <2>3 DEF Entry, Free
    <3> QED
      BY <3>1, <3>2, <2>2, Facts
  <2> HIDE DEF y
  <2>8. \A z \in Types : Entry(z)' = IF z = y THEN o ELSE Entry(z)
    BY <2>6 DEF Put
  <2>9. Live' = Live \cup {o}
    <3>1. ASSUME NEW q \in Live
          PROVE  q \in Live'
      <4>1. PICK z \in Types : Entry(z) = q /\ q \in Objects
        BY DEF Live
      <4>2. Entry(z)' = q
        BY <4>1, <2>7, <2>8
      <4> QED
        BY <4>1, <4>2 DEF Live
    <3>2. Entry(y)' = o
      BY <2>3, <2>8
    <3>3. o \in Live'
      BY <3>2, <2>3 DEF Live
    <3>4. ASSUME NEW q \in Live'
          PROVE  q \in Live \cup {o}
      <4>1. q \in Objects /\ \E z \in Types : Entry(z)' = q
        BY DEF Live
      <4>2. PICK z \in Types : Entry(z)' = q
        BY <4>1
      <4> QED
        BY <4>1, <4>2, <2>8 DEF Live
    <3> QED
      BY <3>1, <3>3, <3>4
  <2>10. Registered' = Registered \cup {o}
    <3>1. /\ type'[o] = y /\ \A q \in Objects : q # o => type'[q] = type[q]
      BY <2>4, <2>5
    <3> QED
      BY <3>1, <2>3, TypeFields DEF Registered
  <2>15. Unannounced' \in {Unannounced, Unannounced \cup {o}}
    <3>1. \A q \in Registered : type'[q] = type[q]
      BY <2>4, <2>5
    <3>2. Unannounced \subseteq Unannounced' /\ Unannounced' \subseteq Unannounced \cup {o}
      BY <3>1, <2>10 DEF Unannounced
    <3> QED
      BY <3>2
  <2>11. Marks' = Marks /\ ~Rolling /\ ~Rolling'
    BY <2>1, <2>4 DEF Marks, Rolling, Idle
  <2>12. o \in Objects \ Registered
    BY <2>4
  <2>13. Rolling \in BOOLEAN /\ Rolling' \in BOOLEAN
    BY DEF Rolling
  <2>14. Transactional!Create
    BY <2>9, <2>10, <2>11, <2>12, <2>13, <2>15 DEF Transactional!Create, Marks
  <2> QED
    BY <2>14 DEF Transactional!Next
<1>4. ASSUME NEW k \in {"class", "enum"}, Reserve(k)
      PROVE  Same
  <2> DEFINE y == [kind |-> k, index |-> size[k]]
  <2>1. k \in Kinds /\ y \in Types /\ y.kind = k /\ y.index = size[k] /\ size[k] \in Index
    BY <1>4, TypeFields DEF Reserve, Kinds
  <2>2. /\ Reserved \in Entries \ Objects /\ Reserved # Null /\ Null \notin Objects
        /\ TypeOK /\ Vectors /\ size \in [Kinds -> 0 .. MaxTypes]
    BY ObjectsAssumption, Facts DEF Entries, IInv, TypeOK
  <2>3. size[k] <= size[k]
    BY <2>1 DEF Index
  <2>4. /\ table' = [table EXCEPT ![k][size[k]] = Reserved]
        /\ UNCHANGED <<type, listeners, since, todo>>
    BY <1>4 DEF Reserve
  <2>5. Put(y, Reserved)
    BY <1>4, ReserveInv
  <2>6. Entry(y) = Null
    <3>1. ~(size[k] < size[k])
      BY <2>1, ObjectsAssumption DEF Index
    <3>2. ~(y.index < size[y.kind])
      BY <3>1, <2>1
    <3> QED
      BY <3>2 DEF Entry
  <2> HIDE DEF y
  <2>7. \A z \in Types : (Entry(z)' \in Objects \/ Entry(z) \in Objects) => Entry(z)' = Entry(z)
    BY <2>2, <2>5, <2>6 DEF Put
  <2>8. Live' = Live
    <3>1. ASSUME NEW q \in Live
          PROVE  q \in Live'
      <4>1. PICK z \in Types : Entry(z) = q /\ q \in Objects
        BY DEF Live
      <4>2. Entry(z)' = q
        BY <4>1, <2>7
      <4> QED
        BY <4>1, <4>2 DEF Live
    <3>2. ASSUME NEW q \in Live'
          PROVE  q \in Live
      <4>1. q \in Objects /\ \E z \in Types : Entry(z)' = q
        BY DEF Live
      <4> QED
        BY <4>1, <2>7 DEF Live
    <3> QED
      BY <3>1, <3>2
  <2> QED
    BY <2>4, <2>8 DEF Same, Registered, Unannounced, Marks, Rolling
<1>5. ASSUME NEW ns \in Namespaces, DestroyNamespace(ns)
      PROVE  Same
  <2>1. /\ todo = <<>> /\ todo' = DestroyMembers(ns)
        /\ UNCHANGED <<table, size, type, prototype, listeners, since>>
    BY <1>5 DEF DestroyNamespace, Idle
  <2>2. /\ DestroyMembers(ns) \in Seq(Calls)
        /\ \A i \in DOMAIN DestroyMembers(ns) : DestroyMembers(ns)[i].call = "destroy"
    BY Members
  <2>3. todo' # <<>> => Len(todo') \in DOMAIN todo' /\ Last(todo') = todo'[Len(todo')]
    BY <2>1, <2>2 DEF Last
  <2>4. Rolling' = Rolling
    BY <2>1, <2>2, <2>3 DEF Rolling
  <2> QED
    BY <1>1, <2>1, <2>4
<1>6. CASE DestroyType \/ DestroyClass \/ Fail
  <2>1. UNCHANGED <<table, size, type, prototype, listeners, since>>
    BY <1>6 DEF DestroyType, DestroyClass, Fail
  <2>2. CASE DestroyType \/ DestroyClass
    BY <2>1, <2>2, <1>0, <1>1, DestroyTypeInv, DestroyClassInv
  <2>3. CASE Fail
    BY <2>1, <2>3, <1>0, <1>1 DEF Fail, Rolling
  <2> QED
    BY <1>6, <2>2, <2>3
<1>7. ASSUME NEW y \in Types, Put(y, Null), UNCHANGED <<type, listeners, since>>,
             Rolling' = Rolling,
             Rolling /\ Entry(y) \in Objects =>
               Entry(y) \notin since[Last(listeners)] \/ y.kind = "function"
      PROVE  [Transactional!Next]_(Transactional!vars)
  <2> DEFINE S == {o \in Objects : o = Entry(y)}
  <2>1. \A z \in Types : Entry(z)' = IF z = y THEN Null ELSE Entry(z)
    BY <1>7 DEF Put
  <2>2. Null \notin Objects
    BY ObjectsAssumption
  <2>3. S \subseteq Live
    BY <1>7 DEF Live
  <2>4. Live' = Live \ S
    <3>1. ASSUME NEW q \in Live'
          PROVE  q \in Live \ S
      <4>1. q \in Objects /\ \E z \in Types : Entry(z)' = q
        BY DEF Live
      <4>2. PICK z \in Types : Entry(z)' = q
        BY <4>1
      <4>3. z # y /\ Entry(z) = q
        BY <4>1, <4>2, <2>1, <2>2
      <4>4. type[q] = z /\ (Entry(y) = q => type[q] = y)
        BY <1>7, <4>1, <4>3, Facts
      <4> QED
        BY <4>1, <4>3, <4>4 DEF Live
    <3>2. ASSUME NEW q \in Live \ S
          PROVE  q \in Live'
      <4>1. PICK z \in Types : Entry(z) = q /\ q \in Objects
        BY DEF Live
      <4>2. z # y
        BY <4>1, <3>2
      <4>3. Entry(z)' = q
        BY <4>1, <4>2, <2>1
      <4> QED
        BY <4>1, <4>3 DEF Live
    <3> QED
      BY <3>1, <3>2
  <2>5. Registered' = Registered /\ Unannounced' = Unannounced /\ Marks' = Marks
    BY <1>7 DEF Registered, Unannounced, Marks
  <2>6. Rolling \in BOOLEAN
    BY DEF Rolling
  <2>7. CASE Rolling
    <3>1. S \subseteq Live \ (Last(Marks) \ Unannounced)
      <4>1. Last(Marks) = since[Last(listeners)]
        BY <2>7, RollingListens, MarksSeq
      <4>2. ASSUME NEW o \in S
            PROVE  o \notin since[Last(listeners)] \/ o \in Unannounced
        <5>1. o = Entry(y) /\ o \in Objects
          OBVIOUS
        <5>2. type[o] = y /\ o \in Registered
          BY <5>1, <1>7, Facts
        <5> QED
          BY <5>1, <5>2, <1>7, <2>7 DEF Unannounced
      <4> QED
        BY <4>1, <4>2, <2>3
    <3>2. S \in SUBSET (Live \ (Last(Marks) \ Unannounced))
      BY <3>1
    <3> HIDE DEF S
    <3>3. Transactional!Undo
      BY <3>2, <2>4, <2>5, <2>6, <2>7, <1>7, <1>a, Zenon
      DEF Transactional!Undo, Transactional!Removable, Marks
    <3> QED
      BY <3>3 DEF Transactional!Next
  <2>8. CASE ~Rolling
    <3>1. Transactional!Destroy
      BY <2>3, <2>4, <2>5, <2>6, <2>8, <1>7 DEF Transactional!Destroy, Marks
    <3> QED
      BY <3>1 DEF Transactional!Next
  <2> QED
    BY <2>7, <2>8
<1>8. CASE DestroyEnum \/ UnregisterClass
  <2> DEFINE y == type[Head(todo).what]
  <2>1. /\ todo # <<>> /\ ~undefined /\ Head(todo).call \in {"destroy", "unregister"}
        /\ UnregisterObject(Head(todo).what)
    BY <1>8 DEF DestroyEnum, UnregisterClass, Doing
  <2>2. Rolling' = Rolling /\ y \in Types /\ Put(y, Null)
    BY <2>1, UnregisterInv
  <2>3. UNCHANGED <<type, listeners, since>>
    BY <2>1 DEF UnregisterObject
  <2>4. ASSUME Rolling
        PROVE  Entry(y) \notin since[Last(listeners)]
    <3>1. 1 \in DOMAIN todo /\ Head(todo) = todo[1] /\ Head(todo).what \in Objects
      BY <2>1, HeadCall
    <3>2. Head(todo).what \notin since[Last(listeners)]
      BY <3>1, <2>1, <2>4 DEF IInv, Undoing
    <3>3. Last(listeners) \in Transactions /\ Listening(Last(listeners))
      BY <2>4, RollingListens, Innermost
    <3>4. Head(todo).what \in Registered
      BY <3>1, <2>2, TypeFields DEF Registered
    <3> QED
      BY <3>1, <3>2, <3>3, <3>4, <2>2 DEF IInv, Newer
  <2> HIDE DEF y
  <2> QED
    BY <2>2, <2>3, <2>4, <1>7
<1>9. CASE UnregisterEntry
  <2> DEFINE y == Freed(Head(todo).type)
  <2>1. /\ todo # <<>> /\ ~undefined /\ Head(todo).call = "destroyType"
        /\ UNCHANGED <<type, listeners, since>>
    BY <1>9 DEF UnregisterEntry, Doing
  <2>2. /\ Rolling' = Rolling /\ y \in Types /\ Put(y, Null)
        /\ y = Head(todo).type \/ y.kind = "function"
    BY <1>9, UnregisterEntryInv, FreedType
  <2>3. Rolling /\ y = Head(todo).type => Entry(y) \notin since[Last(listeners)]
    BY <2>1, <2>2, HeadCall DEF IInv, Undoing
  <2> HIDE DEF y
  <2> QED
    BY <2>1, <2>2, <2>3, <1>7
<1>10. ASSUME NEW t \in Transactions, Start(t)
       PROVE  Transactional!Begin
  <2>1. /\ todo = <<>> /\ listeners' = Append(listeners, t)
        /\ since' = [since EXCEPT ![t] = Registered] /\ ~Listening(t)
        /\ UNCHANGED <<table, size, type, prototype, todo>>
    BY <1>10 DEF Start, Idle
  <2>2. ~Rolling /\ ~Rolling' /\ Rolling \in BOOLEAN /\ Rolling' \in BOOLEAN
    BY <2>1 DEF Rolling
  <2>3. Registered' = Registered /\ Unannounced' = Unannounced /\ Live' = Live
    BY <2>1, SameEntries DEF Live, Unannounced
  <2>4. Marks' = Append(Marks, Registered)
    <3>1. /\ listeners \in Seq(Transactions) /\ since \in [Transactions -> SUBSET Objects]
      BY DEF IInv, TypeOK
    <3>2. /\ Len(listeners) \in Nat /\ DOMAIN listeners = 1 .. Len(listeners)
          /\ DOMAIN listeners' = 1 .. Len(listeners) + 1
          /\ \A n \in 1 .. Len(listeners) : listeners'[n] = listeners[n]
          /\ listeners'[Len(listeners) + 1] = t
      BY <2>1, <3>1
    <3>3. \A n \in 1 .. Len(listeners) : listeners[n] \in Transactions /\ listeners[n] # t
      BY <2>1, <3>1, <3>2 DEF Listening
    <3>4. Marks' = [n \in 1 .. Len(listeners) + 1 |->
                      IF n = Len(listeners) + 1 THEN Registered ELSE since[listeners[n]]]
      <4>1. Marks' = [n \in 1 .. Len(listeners) + 1 |-> since'[listeners'[n]]]
        BY <3>2 DEF Marks
      <4>2. ASSUME NEW n \in 1 .. Len(listeners) + 1
            PROVE  since'[listeners'[n]] =
                     IF n = Len(listeners) + 1 THEN Registered ELSE since[listeners[n]]
        <5>1. CASE n <= Len(listeners)
          BY <5>1, <2>1, <3>1, <3>2, <3>3
        <5>2. CASE n = Len(listeners) + 1
          BY <5>2, <2>1, <3>1, <3>2
        <5> QED
          BY <5>1, <5>2, <3>2
      <4> QED
        BY <4>1, <4>2
    <3>5. Marks = [n \in 1 .. Len(listeners) |-> since[listeners[n]]]
      BY <3>2 DEF Marks
    <3>6. Marks \in Seq(SUBSET Objects) /\ Len(Marks) = Len(listeners)
      BY MarksSeq
    <3>7. Registered \in SUBSET Objects
      BY DEF Registered
    <3>8. /\ Append(Marks, Registered) \in Seq(SUBSET Objects)
          /\ Len(Append(Marks, Registered)) = Len(listeners) + 1
          /\ \A n \in 1 .. Len(listeners) : Append(Marks, Registered)[n] = Marks[n]
          /\ Append(Marks, Registered)[Len(listeners) + 1] = Registered
      BY <3>2, <3>6, <3>7
    <3>9. Marks' \in Seq(SUBSET Objects) /\ Len(Marks') = Len(listeners) + 1
      <4>1. \A n \in 1 .. Len(listeners) + 1 :
              (IF n = Len(listeners) + 1 THEN Registered ELSE since[listeners[n]]) \in SUBSET Objects
        BY <3>1, <3>2, <3>3, <3>7
      <4>2. Len(listeners) + 1 \in Nat
        BY <3>2
      <4> QED
        BY <4>1, <4>2, <3>4
    <3>10. \A n \in 1 .. Len(listeners) + 1 : Marks'[n] = Append(Marks, Registered)[n]
      <4> TAKE n \in 1 .. Len(listeners) + 1
      <4>1. CASE n = Len(listeners) + 1
        BY <4>1, <3>4, <3>8
      <4>2. CASE n \in 1 .. Len(listeners)
        <5>1. Marks'[n] = since[listeners[n]] /\ Marks[n] = since[listeners[n]]
          BY <4>2, <3>2, <3>4, <3>5
        <5> QED
          BY <5>1, <4>2, <3>8
      <4>3. n = Len(listeners) + 1 \/ n \in 1 .. Len(listeners)
        BY <3>2
      <4> QED
        BY <4>1, <4>2, <4>3
    <3> QED
      BY <3>8, <3>9, <3>10, SeqEqual
  <2> QED
    BY <2>2, <2>3, <2>4 DEF Transactional!Begin, Marks
<1>11. CASE Commit
  <2>1. /\ todo = <<>> /\ listeners # <<>> /\ Stop(Last(listeners))
        /\ UNCHANGED <<table, size, type, prototype, todo>>
    BY <1>11 DEF Commit, Idle
  <2>2. Marks # <<>> /\ Marks' = Front(Marks)
    BY <2>1, Popped, MarksSeq
  <2>3. Registered' = Registered /\ Unannounced' = Unannounced /\ Live' = Live
    BY <2>1, SameEntries DEF Live, Unannounced
  <2>4. ~Rolling /\ ~Rolling' /\ Rolling \in BOOLEAN /\ Rolling' \in BOOLEAN
    BY <2>1 DEF Rolling
  <2>5. Transactional!Commit
    BY <2>2, <2>3, <2>4, <1>a, Zenon DEF Transactional!Commit, Marks
  <2> QED
    BY <2>5 DEF Transactional!Next
<1>12. CASE BeginRollback
  <2>1. /\ listeners # <<>>
        /\ UNCHANGED <<table, size, type, prototype, listeners, since>>
    BY <1>12 DEF BeginRollback
  <2>2. Marks # <<>> /\ Marks' = Marks
    BY <2>1, MarksSeq DEF Marks
  <2>3. Registered' = Registered /\ Unannounced' = Unannounced /\ Live' = Live
    BY <2>1, SameEntries DEF Live, Unannounced
  <2>4. ~Rolling /\ Rolling' = TRUE
    BY <1>12, BeginRollbackInv DEF Rolling
  <2>5. Transactional!Rollback
    BY <2>2, <2>3, <2>4 DEF Transactional!Rollback, Marks
  <2> QED
    BY <2>5 DEF Transactional!Next
<1>13. CASE EndRollback
  <2>1. /\ todo # <<>> /\ ~undefined /\ Head(todo).call = "endRollback"
        /\ Stop(Last(listeners)) /\ Then(<<>>)
        /\ UNCHANGED <<table, size, type, prototype>>
    BY <1>13 DEF EndRollback, Doing
  <2>2. todo \in Seq(Calls) /\ Head(todo) = todo[1] /\ 1 \in DOMAIN todo
    BY <2>1, HeadCall DEF IInv, TypeOK
  <2>3. Len(todo) = 1 /\ listeners # <<>>
    BY <2>1, <2>2 DEF IInv, Pending
  <2>4. todo' = <<>>
    BY <2>1, <2>2, <2>3 DEF Then
  <2>5. Rolling = TRUE /\ Rolling' = FALSE
    BY <2>1, <2>2, <2>3, <2>4 DEF Rolling, Last
  <2>6. Marks' = Front(Marks) /\ Last(Marks) = since[Last(listeners)]
    BY <2>1, <2>3, Popped, MarksSeq
  <2>7. Registered' = Registered /\ Unannounced' = Unannounced /\ Live' = Live
    BY <2>1, SameEntries DEF Live, Unannounced
  <2>8. Live \subseteq Last(Marks)
    <3>1. ASSUME NEW q \in Live, q \notin since[Last(listeners)]
          PROVE  FALSE
      <4>1. PICK y \in Types : Entry(y) = q /\ q \in Objects
        BY DEF Live
      <4>2. Entry(y) \in Objects \ since[Last(listeners)]
        BY <3>1, <4>1
      <4>3. PICK i \in DOMAIN todo : todo[i].call \in {"destroyType", "destroy", "unregister"}
        BY <4>2, <2>1, <2>5 DEF IInv, Undoing
      <4>4. i = 1
        BY <4>3, <2>2, <2>3
      <4> QED
        BY <4>3, <4>4, <2>1, <2>2
    <3> QED
      BY <3>1, <2>6
  <2>9. Transactional!RolledBack
    BY <2>5, <2>6, <2>7, <2>8, <1>a, Zenon DEF Transactional!RolledBack, Marks
  <2> QED
    BY <2>9 DEF Transactional!Next
<1>14. ASSUME \/ \E k \in {"class", "enum"} : Reserve(k)
              \/ \E ns \in Namespaces : DestroyNamespace(ns)
       PROVE  [Transactional!Next]_(Transactional!vars)
  BY <1>0, <1>4, <1>5, <1>14
<1>15. ASSUME NEW t \in Transactions, Start(t)
       PROVE  [Transactional!Next]_(Transactional!vars)
  <2>1. Transactional!Begin
    BY <1>10, <1>15
  <2> QED
    BY <2>1 DEF Transactional!Next
<1> QED
  BY <1>2, <1>3, <1>6, <1>8, <1>9, <1>11, <1>12, <1>13, <1>14, <1>15 DEF Next

\* Each transaction that is rolled back removes the types made since it started, all
\* of them, and no older class, enumeration or closure type, whatever is nested in it
\* (TypeSystemTransaction::rollback).
THEOREM Implements == Spec => ImplementsTransactions
<1>1. Init => Transactional!Init
  <2> SUFFICES ASSUME Init
               PROVE  Transactional!Init
    OBVIOUS
  <2>1. Live = {}
    <3>1. \A y \in Types : Entry(y) \notin Objects
      BY TypeFields, ObjectsAssumption DEF Init, Entry
    <3> QED
      BY <3>1 DEF Live
  <2>2. Registered = {} /\ Unannounced = {}
    BY DEF Init, Registered, Unannounced
  <2>3. Marks = <<>> /\ Rolling = FALSE
    BY DEF Init, Marks, Rolling
  <2> QED
    BY <2>1, <2>2, <2>3 DEF Transactional!Init, Marks
<1>2. IInv /\ [Next]_vars => [Transactional!Next]_(Transactional!vars)
  BY Simulation
<1> QED
  BY <1>1, <1>2, Invariance, PTL DEF Spec, ImplementsTransactions, Transactional!Spec
-----------------------------------------------------------------------------
(* Declarations form a tree *)

\* Nothing has begun to destroy what is declared in x.
Open(x) ==
  \/ x \in Namespaces
  \/ x \notin deleted /\ \A i \in DOMAIN todo : todo[i].call = "unregister" => todo[i].what # x

Owning == Objects \cup Namespaces
Within(o, x) == Occurs(classes[x], o) \/ Occurs(enums[x], o)

\* An object is at one place only, in a list of members or among what is still to be
\* destroyed.
AtOnePlace ==
  /\ \A i, j \in DOMAIN todo : todo[i].what = todo[j].what => i = j
  /\ \A i \in DOMAIN todo, x \in Owning : Open(x) => ~Within(todo[i].what, x)
  /\ \A x, y \in Owning, o \in Objects :
       Open(x) /\ Open(y) /\ Within(o, x) /\ Within(o, y) => x = y
  /\ \A x \in Owning, o \in Objects : Open(x) => Once(classes[x], o) /\ Once(enums[x], o)

NoneDeleted ==
  /\ deleted \subseteq Registered
  /\ \A i \in DOMAIN todo : todo[i].what \notin deleted
  /\ \A x \in Owning, o \in Objects : Open(x) /\ Within(o, x) => o \notin deleted

Found == \A o \in Registered \ deleted : Entry(type[o]) = o

Tree ==
  /\ \A i \in DOMAIN todo : todo[i].call \in {"destroy", "unregister"}
  /\ AtOnePlace /\ NoneDeleted /\ Found

LEMMA Distinct ==
  ASSUME NEW S, NEW a \in Seq(S), NEW b \in Seq(S),
         \A z \in S : Once(a, z) /\ Once(b, z) /\ ~(Occurs(a, z) /\ Occurs(b, z))
  PROVE  \A i, j \in DOMAIN (a \o b) : (a \o b)[i] = (a \o b)[j] => i = j
<1> DEFINE w == a \o b
<1>1. /\ w \in Seq(S) /\ DOMAIN w = 1 .. Len(a) + Len(b)
      /\ Len(a) \in Nat /\ Len(b) \in Nat /\ DOMAIN a = 1 .. Len(a) /\ DOMAIN b = 1 .. Len(b)
      /\ \A i \in 1 .. Len(a) + Len(b) : w[i] = IF i <= Len(a) THEN a[i] ELSE b[i - Len(a)]
  OBVIOUS
<1> HIDE DEF w
<1>2. ASSUME NEW i \in DOMAIN w
      PROVE  \/ i \in DOMAIN a /\ w[i] = a[i]
             \/ i - Len(a) \in DOMAIN b /\ w[i] = b[i - Len(a)]
  <2>1. CASE i <= Len(a)
    BY <2>1, <1>1
  <2>2. CASE ~(i <= Len(a))
    <3>1. i - Len(a) \in 1 .. Len(b)
      BY <2>2, <1>1
    <3> QED BY <2>2, <3>1, <1>1
  <2> QED BY <2>1, <2>2
<1>3. ASSUME NEW i \in DOMAIN w, NEW j \in DOMAIN w, w[i] = w[j]
      PROVE  i = j
  <2>1. w[i] \in S /\ i \in Int /\ j \in Int
    BY <1>1
  <2>2. CASE i \in DOMAIN a /\ w[i] = a[i]
    <3>1. Occurs(a, w[i])
      BY <2>2 DEF Occurs
    <3>2. ~Occurs(b, w[j])
      BY <3>1, <2>1, <1>3
    <3>3. j \in DOMAIN a /\ w[j] = a[j]
      BY <3>2, <1>2 DEF Occurs
    <3> QED BY <2>1, <2>2, <3>3, <1>3 DEF Once
  <2>3. CASE i - Len(a) \in DOMAIN b /\ w[i] = b[i - Len(a)]
    <3>1. Occurs(b, w[i])
      BY <2>3 DEF Occurs
    <3>2. ~Occurs(a, w[j])
      BY <3>1, <2>1, <1>3
    <3>3. j - Len(a) \in DOMAIN b /\ w[j] = b[j - Len(a)]
      BY <3>2, <1>2 DEF Occurs
    <3>4. i - Len(a) = j - Len(a)
      BY <2>1, <2>3, <3>3, <1>3 DEF Once
    <3> QED BY <2>1, <3>4, <1>1
  <2> QED BY <2>2, <2>3, <1>2
<1> QED BY <1>3 DEF w

\* The members of x, as calls, each once.
LEMMA MembersOnce ==
  ASSUME IInv, Tree, NEW x \in Owning, Open(x)
  PROVE  /\ DestroyMembers(x) \in Seq(Calls)
         /\ \A i \in DOMAIN DestroyMembers(x) :
              /\ DestroyMembers(x)[i].call = "destroy"
              /\ DestroyMembers(x)[i].what \in Objects
              /\ Within(DestroyMembers(x)[i].what, x)
         /\ \A i, j \in DOMAIN DestroyMembers(x) :
              DestroyMembers(x)[i].what = DestroyMembers(x)[j].what => i = j
<1>1. classes[x] \in Seq(Objects) /\ enums[x] \in Seq(Objects)
  BY DEF IInv, TypeOK, Owning
<1>2. PICK a \in Seq(Objects), b \in Seq(Objects) : a = enums[x] /\ b = classes[x]
  BY <1>1
<1>3. \A z \in Objects : Once(a, z) /\ Once(b, z)
  BY <1>2 DEF Tree, AtOnePlace
<1>4. \A z \in Objects : ~(Occurs(a, z) /\ Occurs(b, z))
  BY <1>2 DEF Occurs, IInv, Declared, Owning
<1> DEFINE list == a \o b
<1>5. list \in Seq(Objects) /\ DOMAIN list = 1 .. Len(list) /\ Len(list) \in Nat
  BY Concatenating
<1>6. \A i, j \in DOMAIN list : list[i] = list[j] => i = j
  BY <1>3, <1>4, Distinct
<1>7. \A z \in Objects : Occurs(list, z) => Within(z, x)
  BY <1>2, Joined DEF Within
<1> HIDE DEF list
<1>8. DestroyMembers(x) = [i \in DOMAIN list |-> [call |-> "destroy", what |-> list[i]]]
  BY <1>2 DEF DestroyMembers, list
<1>9. \A i \in DOMAIN list : list[i] \in Objects /\ Within(list[i], x)
  BY <1>5, <1>7 DEF Occurs
<1>10. DestroyMembers(x) \in Seq(Calls)
  BY <1>5, <1>8, <1>9 DEF Calls
<1> QED BY <1>6, <1>8, <1>9, <1>10

\* What is still to be destroyed are objects, and they are in the tables.
LEMMA Doomed ==
  ASSUME IInv, Tree, NEW i \in DOMAIN todo
  PROVE  /\ todo[i].what \in Objects /\ todo[i].what \in Registered \ deleted
         /\ Entry(type[todo[i].what]) = todo[i].what /\ type[todo[i].what] \in Types
<1>1. todo[i] \in Calls /\ todo[i].call \in {"destroy", "unregister"}
  BY DEF IInv, TypeOK, Tree
<1>2. todo[i].what \in Objects
  BY <1>1, CallFields
<1>3. type[todo[i].what].kind \in {"class", "enum"}
  BY <1>1 DEF IInv, Pending
<1>4. todo[i].what \in Registered
  BY <1>2, <1>3 DEF Registered, NoType
<1>5. todo[i].what \notin deleted
  BY DEF Tree, NoneDeleted
<1> QED BY <1>2, <1>4, <1>5, Facts DEF Tree, Found

\* An object that is made is a member of one namespace or class, or of none.
LEMMA TreeGrows ==
  ASSUME IInv, Tree, Idle, NEW o \in Objects, NEW k \in Kinds, NEW i,
         i = size[k] \/ Free(k, i), Register(o, k, i), NEW owner,
         owner \notin Owning \/ Open(owner),
         \A x \in Owning :
           \/ classes'[x] = classes[x] /\ enums'[x] = enums[x]
           \/ x = owner /\ classes'[x] = Append(classes[x], o) /\ enums'[x] = enums[x]
           \/ x = owner /\ enums'[x] = Append(enums[x], o) /\ classes'[x] = classes[x]
  PROVE  Tree'
<1> DEFINE y == [kind |-> k, index |-> i]
<1>1. /\ i \in Index /\ o \notin Registered /\ y \in Types
      /\ o \in Entries /\ o # Null /\ y.kind = k /\ y.index = i
  <2>1. i \in Index /\ o \notin Registered
    BY DEF Register
  <2> QED BY <2>1, TypeFields, ObjectsAssumption DEF Entries
<1>2. /\ TypeOK /\ type \in [Objects -> Types \cup {NoType}] /\ size \in [Kinds -> 0 .. MaxTypes]
      /\ \A x \in Owning : classes[x] \in Seq(Objects) /\ enums[x] \in Seq(Objects)
  BY DEF IInv, TypeOK, Owning
<1>3. Entry(y) \notin Objects
  <2>1. i = size[k] => Entry(y) = Null
    BY <1>1, <1>2 DEF Entry
  <2>2. Free(k, i) => Entry(y) \in {Null, Reserved}
    <3>1. size[k] \in Int /\ i \in Int
      BY <1>1, <1>2, ObjectsAssumption DEF Index
    <3> QED BY <3>1, <1>1 DEF Entry, Free
  <2> QED BY <2>1, <2>2, Facts
<1>4. Put(y, o)
  BY <1>1, <1>2, Facts, Placing DEF Register
<1>5. /\ type'[o] = y /\ \A q \in Objects : q # o => type'[q] = type[q]
      /\ Registered' = Registered \cup {o}
  <2>1. type' = [type EXCEPT ![o] = y]
    BY DEF Register
  <2>2. type'[o] = y /\ \A q \in Objects : q # o => type'[q] = type[q]
    BY <2>1, <1>1, <1>2
  <2> QED BY <2>2, <1>1, TypeFields DEF Registered
<1>6. todo = <<>> /\ todo' = todo /\ deleted' = deleted
  BY DEF Register, Idle
<1> HIDE DEF y
<1>7. Found'
  <2> SUFFICES ASSUME NEW q \in Registered', q \notin deleted'
               PROVE  (Entry(type[q]))' = q
    BY DEF Found
  <2>1. \A z \in Types : type'[q] = z => (Entry(type[q]))' = Entry(z)'
    BY DEF Entry
  <2>2. CASE q = o
    BY <2>1, <2>2, <1>1, <1>4, <1>5 DEF Put
  <2>3. CASE q # o
    <3>1. q \in Registered \ deleted /\ q \in Objects /\ type[q] \in Types
      BY <2>3, <1>5, <1>6, Facts
    <3>2. Entry(type[q]) = q /\ type[q] # y
      BY <3>1, <1>3 DEF Tree, Found
    <3>3. Entry(type[q])' = q
      <4>1. PICK z \in Types : z = type[q]
        BY <3>1
      <4>2. Entry(z)' = Entry(z)
        BY <4>1, <3>2, <1>4 DEF Put
      <4> QED BY <4>1, <4>2, <2>1, <2>3, <3>1, <3>2, <1>5
    <3> QED BY <3>3
  <2> QED BY <2>2, <2>3
<1>8. \A x \in Owning : Open(x)' = Open(x)
  BY <1>6 DEF Open
<1>9. \A x \in Owning, z \in Objects : Within(z, x) => z \in Registered
  BY DEF Within, Occurs, IInv, Declared, Owning, Registered, NoType
<1>10. \A x \in Owning, z \in Objects :
         /\ Within(z, x)' => Within(z, x) \/ (z = o /\ x = owner)
         /\ Open(x) => (Once(classes[x], z) /\ Once(enums[x], z))'
  <2> SUFFICES ASSUME NEW x \in Owning, NEW z \in Objects
               PROVE  /\ Within(z, x)' => Within(z, x) \/ (z = o /\ x = owner)
                      /\ Open(x) => (Once(classes[x], z) /\ Once(enums[x], z))'
    OBVIOUS
  <2>1. Open(x) => Once(classes[x], z) /\ Once(enums[x], z)
    BY DEF Tree, AtOnePlace
  <2>2. CASE classes'[x] = classes[x] /\ enums'[x] = enums[x]
    BY <2>1, <2>2 DEF Within, Occurs, Once
  <2>3. ~Occurs(classes[x], o) /\ ~Occurs(enums[x], o)
    BY <1>1, <1>9 DEF Within
  <2>4. ASSUME NEW s \in Seq(Objects), ~Occurs(s, o)
        PROVE  /\ Occurs(Append(s, o), z) => Occurs(s, z) \/ z = o
               /\ Once(s, z) => Once(Append(s, o), z)
    <3>1. /\ \A j \in DOMAIN Append(s, o) : \/ j \in DOMAIN s /\ Append(s, o)[j] = s[j]
                                            \/ j = Len(s) + 1 /\ Append(s, o)[j] = o
      BY Appending
    <3> QED BY <2>4, <3>1 DEF Occurs, Once
  <2>5. CASE x = owner /\ classes'[x] = Append(classes[x], o) /\ enums'[x] = enums[x]
    BY <2>1, <2>3, <2>4, <2>5, <1>2 DEF Within, Occurs, Once
  <2>6. CASE x = owner /\ enums'[x] = Append(enums[x], o) /\ classes'[x] = classes[x]
    BY <2>1, <2>3, <2>4, <2>6, <1>2 DEF Within, Occurs, Once
  <2> QED BY <2>2, <2>5, <2>6
<1>11. o \notin deleted
  BY <1>1 DEF Tree, NoneDeleted
<1>12. NoneDeleted'
  BY <1>5, <1>6, <1>8, <1>10, <1>11 DEF NoneDeleted, Tree
<1>13. AtOnePlace'
  BY <1>1, <1>6, <1>8, <1>9, <1>10 DEF AtOnePlace, Tree
<1> QED BY <1>6, <1>7, <1>12, <1>13 DEF Tree

\* An object is destroyed: it is nowhere else.
LEMMA TreeShrinks ==
  ASSUME IInv, Tree, todo # <<>>, ~undefined, UnregisterObject(Head(todo).what)
  PROVE  Tree'
<1> DEFINE o == Head(todo).what
<1>1. /\ 1 \in DOMAIN todo /\ Head(todo) = todo[1] /\ Head(todo).call \in {"destroy", "unregister"}
      /\ o \in Objects /\ o \in Registered \ deleted /\ Entry(type[o]) = o /\ type[o] \in Types
  <2>1. 1 \in DOMAIN todo /\ Head(todo) = todo[1]
    BY HeadCall
  <2> QED BY <2>1, Doomed DEF Tree
<1>2. /\ deleted' = deleted \cup {o} /\ Then(<<>>)
      /\ UNCHANGED <<type, classes, enums>>
  BY DEF UnregisterObject
<1>3. Put(type[o], Null)
  BY <1>1, UnregisterInv
<1>4. /\ \A i \in DOMAIN todo' : \E j \in DOMAIN todo : j > 1 /\ i = j - 1 /\ todo'[i] = todo[j]
      /\ \A j \in DOMAIN todo : j > 1 => j - 1 \in DOMAIN todo' /\ todo'[j - 1] = todo[j]
  <2>1. PICK s \in Seq(Calls) : s = todo /\ s # <<>>
    BY DEF IInv, TypeOK
  <2>e. <<>> \in Seq(Calls)
    OBVIOUS
  <2>2. PICK e \in Seq(Calls) : e = <<>>
    BY <2>e, Zenon
  <2>a. Len(e) = 0 /\ DOMAIN e = {}
    BY <2>2
  <2>b. s # <<>> /\ s \in Seq(Calls) /\ e \in Seq(Calls)
    BY <2>1
  <2> DEFINE w == e \o Tail(s)
  <2>3. /\ \A i \in DOMAIN w : \/ i \in DOMAIN e /\ w[i] = e[i]
                               \/ \E j \in DOMAIN s : /\ j > 1 /\ i = Len(e) + j - 1
                                                      /\ w[i] = s[j]
        /\ \A j \in DOMAIN s : j > 1 => /\ Len(e) + j - 1 \in DOMAIN w
                                        /\ w[Len(e) + j - 1] = s[j]
    BY ONLY <2>b, ThenSeq, Zenon
  <2>4. todo' = w
    BY <1>2, <2>1, <2>2 DEF Then
  <2>5. DOMAIN s = 1 .. Len(s) /\ Len(s) \in Nat
    OBVIOUS
  <2>6. \A j \in DOMAIN s : Len(e) + j - 1 = j - 1
    BY <2>a, <2>5
  <2> HIDE DEF w
  <2>7. /\ \A i \in DOMAIN w : \E j \in DOMAIN s : j > 1 /\ i = j - 1 /\ w[i] = s[j]
        /\ \A j \in DOMAIN s : j > 1 => j - 1 \in DOMAIN w /\ w[j - 1] = s[j]
    BY ONLY <2>a, <2>3, <2>6
  <2> QED BY <2>1, <2>4, <2>7
<1> HIDE DEF o
<1>5. \A j \in DOMAIN todo : j > 1 => todo[j].what # o
  BY <1>1 DEF Tree, AtOnePlace, o
<1>6. \A x \in Owning : Open(x)' => Open(x) /\ x # o
  <2> SUFFICES ASSUME NEW x \in Owning, Open(x)', x \notin Namespaces
               PROVE  Open(x) /\ x # o
    BY <1>1, ObjectsAssumption DEF Open
  <2>1. x \notin deleted /\ x # o
    BY <1>2 DEF Open
  <2>2. ASSUME NEW j \in DOMAIN todo, todo[j].call = "unregister"
        PROVE  todo[j].what # x
    <3>1. CASE j > 1
      BY <2>2, <3>1, <1>4 DEF Open
    <3>2. CASE ~(j > 1)
      <4>1. j = 1
        BY <3>2 DEF IInv, TypeOK
      <4> QED BY <4>1, <2>1, <1>1 DEF o
    <3> QED BY <3>1, <3>2
  <2> QED BY <2>1, <2>2 DEF Open
<1>7. Registered' = Registered /\ \A x \in Owning, z \in Objects : Within(z, x)' = Within(z, x)
  BY <1>2 DEF Registered, Within, Occurs
<1>8. \A x \in Owning : Open(x) => ~Within(o, x)
  BY <1>1 DEF Tree, AtOnePlace, o
<1>9. \A i \in DOMAIN todo' : todo'[i].call \in {"destroy", "unregister"}
  BY <1>4 DEF Tree
<1>10. AtOnePlace'
  <2>1. \A i, j \in DOMAIN todo' : todo'[i].what = todo'[j].what => i = j
    BY <1>4 DEF Tree, AtOnePlace
  <2>2. \A i \in DOMAIN todo', x \in Owning, z \in Objects :
          todo'[i].what = z /\ Open(x)' => ~Within(z, x)'
    BY <1>4, <1>6, <1>7 DEF Tree, AtOnePlace
  <2>3. \A x, y \in Owning, z \in Objects :
          Open(x)' /\ Open(y)' /\ Within(z, x)' /\ Within(z, y)' => x = y
    BY <1>6, <1>7 DEF Tree, AtOnePlace
  <2>4. \A x \in Owning, z \in Objects : Open(x)' => (Once(classes[x], z) /\ Once(enums[x], z))'
    BY <1>2, <1>6 DEF Tree, AtOnePlace, Once
  <2>5. \A i \in DOMAIN todo' : todo'[i].what \in Objects
    BY <1>4, Doomed
  <2> QED BY <2>1, <2>2, <2>3, <2>4, <2>5 DEF AtOnePlace
<1>11. NoneDeleted'
  BY <1>1, <1>2, <1>4, <1>5, <1>6, <1>7, <1>8 DEF Tree, NoneDeleted
<1>12. Found'
  <2> SUFFICES ASSUME NEW q \in Registered, q \notin deleted, q # o
               PROVE  (Entry(type[q]))' = q
    BY <1>2, <1>7 DEF Found
  <2>1. type[q] \in Types /\ Entry(type[q]) = q
    BY Facts DEF Tree, Found
  <2>2. type[q] # type[o]
    BY <2>1, <1>1
  <2>3. PICK z \in Types : z = type[q]
    BY <2>1
  <2>4. Entry(z)' = Entry(z)
    BY <2>2, <2>3, <1>3 DEF Put
  <2>5. (Entry(type[q]))' = Entry(z)'
    BY <2>3, <1>2 DEF Entry
  <2> QED BY <2>1, <2>3, <2>4, <2>5
<1> QED BY <1>9, <1>10, <1>11, <1>12 DEF Tree

\* The members of a namespace are to be destroyed.
LEMMA TreeEmptied ==
  ASSUME IInv, Tree, NEW ns \in Namespaces, DestroyNamespace(ns)
  PROVE  Tree'
<1> DEFINE D == DestroyMembers(ns)
<1>1. /\ todo = <<>> /\ todo' = D
      /\ classes' = [classes EXCEPT ![ns] = <<>>] /\ enums' = [enums EXCEPT ![ns] = <<>>]
      /\ UNCHANGED <<table, size, type, deleted>>
  BY DEF DestroyNamespace, Idle
<1>2. ns \in Owning /\ Open(ns)
  BY DEF Owning, Open
<1>3. /\ \A i \in DOMAIN D : /\ D[i].call = "destroy" /\ D[i].what \in Objects
                             /\ Within(D[i].what, ns)
      /\ \A i, j \in DOMAIN D : D[i].what = D[j].what => i = j
  BY <1>2, MembersOnce
<1> HIDE DEF D
<1>4. \A x \in Owning : Open(x)' => Open(x)
  BY <1>1 DEF Open
<1>5. /\ classes'[ns] = <<>> /\ enums'[ns] = <<>>
      /\ \A x \in Owning : x # ns => classes'[x] = classes[x] /\ enums'[x] = enums[x]
  BY <1>1, <1>2 DEF IInv, TypeOK, Owning
<1>6. /\ \A x \in Owning, z \in Objects : Within(z, x)' => Within(z, x) /\ x # ns
      /\ Registered' = Registered
  <2>1. \A z : ~Occurs(<<>>, z)
    BY DEF Occurs
  <2>2. \A x \in Owning, z \in Objects : Within(z, x)' <=> Occurs(classes'[x], z) \/ Occurs(enums'[x], z)
    BY DEF Within, Occurs
  <2> QED BY <1>1, <1>5, <2>1, <2>2 DEF Within, Registered
<1>7. AtOnePlace'
  <2>1. \A i, j \in DOMAIN todo' : todo'[i].what = todo'[j].what => i = j
    BY <1>1, <1>3
  <2>2. \A i \in DOMAIN todo', x \in Owning, z \in Objects :
          todo'[i].what = z /\ Open(x)' => ~Within(z, x)'
    BY <1>1, <1>2, <1>3, <1>4, <1>6 DEF Tree, AtOnePlace
  <2>3. \A x, y \in Owning, z \in Objects :
          Open(x)' /\ Open(y)' /\ Within(z, x)' /\ Within(z, y)' => x = y
    BY <1>4, <1>6 DEF Tree, AtOnePlace
  <2>4. \A x \in Owning, z \in Objects : Open(x)' => (Once(classes[x], z) /\ Once(enums[x], z))'
    BY <1>4, <1>5 DEF Tree, AtOnePlace, Once
  <2>5. \A i \in DOMAIN todo' : todo'[i].what \in Objects
    BY <1>1, <1>3
  <2> QED BY <2>1, <2>2, <2>3, <2>4, <2>5 DEF AtOnePlace
<1>8. NoneDeleted'
  BY <1>1, <1>2, <1>3, <1>4, <1>6 DEF Tree, NoneDeleted
<1>9. Found'
  BY <1>1, <1>6 DEF Tree, Found, Entry
<1> QED BY <1>1, <1>3, <1>7, <1>8, <1>9 DEF Tree

\* A class is to be destroyed: its members first, each once, then the class itself.
LEMMA TreeOpened ==
  ASSUME IInv, Tree, DestroyClass
  PROVE  Tree'
<1> DEFINE o == Head(todo).what
           D == DestroyMembers(o)
           u == [call |-> "unregister", what |-> o]
<1>1. /\ todo # <<>> /\ Head(todo).call = "destroy" /\ Then(D \o <<u>>)
      /\ classes' = [classes EXCEPT ![o] = <<>>]
      /\ UNCHANGED <<table, size, type, enums, deleted>>
  BY DEF DestroyClass, Doing
<1>2. /\ 1 \in DOMAIN todo /\ todo[1].what = o /\ todo[1].call = "destroy"
      /\ o \in Objects /\ o \in Registered \ deleted /\ o \in Owning
  <2>1. 1 \in DOMAIN todo /\ Head(todo) = todo[1]
    BY <1>1, HeadCall
  <2> QED BY <2>1, <1>1, Doomed DEF Owning
<1> HIDE DEF o
<1>3. \A j \in DOMAIN todo : todo[j].what = o => j = 1
  BY <1>2 DEF Tree, AtOnePlace
<1>4. Open(o)
  <2>1. \A j \in DOMAIN todo : todo[j].call = "unregister" => todo[j].what # o
    BY <1>2, <1>3
  <2> QED BY <2>1, <1>2 DEF Open
<1>5. /\ D \in Seq(Calls)
      /\ \A i \in DOMAIN D : /\ D[i].call = "destroy" /\ D[i].what \in Objects
                             /\ Within(D[i].what, o)
      /\ \A i, j \in DOMAIN D : D[i].what = D[j].what => i = j
  BY <1>2, <1>4, MembersOnce
<1>6. u \in Calls /\ u.call = "unregister" /\ u.what = o
  BY <1>2 DEF Calls
<1> HIDE DEF D, u
<1>7. PICK n \in Nat :
        /\ DOMAIN D = 1 .. n
        /\ \A i \in DOMAIN todo' :
             \/ i \in DOMAIN D /\ todo'[i] = D[i]
             \/ i = n + 1 /\ todo'[i] = u
             \/ \E j \in DOMAIN todo : j > 1 /\ i = n + j /\ todo'[i] = todo[j]
        /\ n + 1 \in DOMAIN todo' /\ todo'[n + 1] = u
        /\ \A j \in DOMAIN todo : j > 1 => n + j \in DOMAIN todo' /\ todo'[n + j] = todo[j]
  <2>1. PICK s \in Seq(Calls) : s = todo /\ s # <<>>
    BY <1>1 DEF IInv, TypeOK
  <2>c. ASSUME NEW c \in Calls
        PROVE  /\ <<c>> \in Seq(Calls) /\ Len(<<c>>) = 1 /\ <<c>>[1] = c
    OBVIOUS
  <2>d. D \o <<u>> \in Seq(Calls)
    BY <1>5, <1>6, <2>c, Concatenating
  <2>2. PICK e \in Seq(Calls) : e = D \o <<u>>
    BY <2>d, Zenon
  <2>3. PICK n \in Nat : n = Len(D)
    BY <1>5
  <2>4. /\ DOMAIN D = 1 .. n /\ Len(e) = n + 1 /\ DOMAIN e = 1 .. n + 1
        /\ \A i \in 1 .. n : e[i] = D[i]
        /\ e[n + 1] = u
    BY <1>5, <1>6, <2>2, <2>3, <2>c
  <2> DEFINE w == e \o Tail(s)
  <2>b. s # <<>> /\ s \in Seq(Calls) /\ e \in Seq(Calls)
    BY <2>1
  <2>5. /\ \A i \in DOMAIN w : \/ i \in DOMAIN e /\ w[i] = e[i]
                               \/ \E j \in DOMAIN s : /\ j > 1 /\ i = Len(e) + j - 1
                                                      /\ w[i] = s[j]
        /\ \A i \in DOMAIN e : i \in DOMAIN w /\ w[i] = e[i]
        /\ \A j \in DOMAIN s : j > 1 => /\ Len(e) + j - 1 \in DOMAIN w
                                        /\ w[Len(e) + j - 1] = s[j]
    BY ONLY <2>b, ThenSeq, Zenon
  <2>f. DOMAIN s = 1 .. Len(s) /\ Len(s) \in Nat
    OBVIOUS
  <2>6. todo' = w
    BY <1>1, <2>1, <2>2 DEF Then
  <2>7. \A j \in DOMAIN s : Len(e) + j - 1 = n + j
    BY <2>4, <2>f
  <2> HIDE DEF w
  <2>8. \A i \in DOMAIN w :
          \/ i \in DOMAIN D /\ w[i] = D[i]
          \/ i = n + 1 /\ w[i] = u
          \/ \E j \in DOMAIN s : j > 1 /\ i = n + j /\ w[i] = s[j]
    BY ONLY <2>4, <2>5, <2>7, n \in Nat
  <2>9. /\ n + 1 \in DOMAIN w /\ w[n + 1] = u
        /\ \A j \in DOMAIN s : j > 1 => n + j \in DOMAIN w /\ w[n + j] = s[j]
    BY ONLY <2>4, <2>5, <2>7, n \in Nat
  <2> QED BY <2>1, <2>4, <2>6, <2>8, <2>9
<1>8. \A x \in Owning : Open(x)' => Open(x) /\ x # o
  <2> SUFFICES ASSUME NEW x \in Owning, Open(x)', x \notin Namespaces
               PROVE  Open(x) /\ x # o
    BY <1>2, ObjectsAssumption DEF Open
  <2>1. x # o
    BY <1>6, <1>7 DEF Open
  <2>2. \A j \in DOMAIN todo : todo[j].call = "unregister" => todo[j].what # x
    <3>1. \A j \in DOMAIN todo : j = 1 \/ j > 1
      BY DEF IInv, TypeOK
    <3> QED BY <3>1, <1>2, <1>7 DEF Open
  <2> QED BY <2>1, <2>2, <1>1 DEF Open
<1>9. /\ \A x \in Owning : x # o => classes'[x] = classes[x] /\ enums'[x] = enums[x]
      /\ Registered' = Registered
  BY <1>1, <1>2 DEF IInv, TypeOK, Owning, Registered
<1>10. \A x \in Owning, z \in Objects : x # o => Within(z, x)' = Within(z, x)
  BY <1>9 DEF Within, Occurs
<1>11. \A i \in DOMAIN todo' : /\ todo'[i].call \in {"destroy", "unregister"}
                               /\ todo'[i].what \in Objects
  BY <1>2, <1>5, <1>6, <1>7, Doomed DEF Tree
<1>12. \A j \in DOMAIN todo : ~Within(todo[j].what, o)
  BY <1>2, <1>4 DEF Tree, AtOnePlace
<1>13. \A i, h \in DOMAIN todo' : todo'[i].what = todo'[h].what => i = h
  <2> SUFFICES ASSUME NEW i \in DOMAIN todo', NEW h \in DOMAIN todo', todo'[i].what = todo'[h].what
               PROVE  i = h
    OBVIOUS
  <2>1. /\ \A j \in DOMAIN D, g \in DOMAIN todo : D[j].what # todo[g].what
        /\ \A j \in DOMAIN D : D[j].what # u.what
        /\ \A g \in DOMAIN todo : g > 1 => todo[g].what # u.what
    <3>1. \A j \in DOMAIN D, g \in DOMAIN todo : D[j].what # todo[g].what
      BY <1>5, <1>12
    <3>2. u.what = todo[1].what /\ 1 \in DOMAIN todo
      BY <1>2, <1>6
    <3>3. \A g \in DOMAIN todo : g > 1 => todo[g].what # u.what
      BY <1>3, <1>6
    <3> QED BY <3>1, <3>2, <3>3
  <2>2. CASE i \in DOMAIN D /\ todo'[i] = D[i]
    BY <2>1, <2>2, <1>5, <1>7
  <2>3. CASE i = n + 1 /\ todo'[i] = u
    BY <2>1, <2>3, <1>7
  <2>4. ASSUME NEW j \in DOMAIN todo, j > 1, i = n + j, todo'[i] = todo[j]
        PROVE  i = h
    <3>1. PICK g \in DOMAIN todo : g > 1 /\ h = n + g /\ todo'[h] = todo[g]
      BY <2>1, <2>4, <1>7
    <3>2. j = g
      BY <2>4, <3>1 DEF Tree, AtOnePlace
    <3> QED BY <2>4, <3>1, <3>2
  <2> QED BY <2>2, <2>3, <2>4, <1>7
<1>14. AtOnePlace'
  <2>1. \A i \in DOMAIN todo', x \in Owning, z \in Objects :
          todo'[i].what = z /\ Open(x)' => ~Within(z, x)'
    <3> SUFFICES ASSUME NEW i \in DOMAIN todo', NEW x \in Owning, Open(x)', Open(x), x # o
                 PROVE  ~Within(todo'[i].what, x)
      BY <1>8, <1>10
    <3>1. CASE i \in DOMAIN D /\ todo'[i] = D[i]
      BY <3>1, <1>2, <1>4, <1>5 DEF Tree, AtOnePlace
    <3>2. CASE i = n + 1 /\ todo'[i] = u
      BY <3>2, <1>2, <1>6 DEF Tree, AtOnePlace
    <3>3. ASSUME NEW j \in DOMAIN todo, todo'[i] = todo[j]
          PROVE  ~Within(todo'[i].what, x)
      BY <3>3 DEF Tree, AtOnePlace
    <3> QED BY <3>1, <3>2, <3>3, <1>7
  <2>2. \A x, y \in Owning, z \in Objects :
          Open(x)' /\ Open(y)' /\ Within(z, x)' /\ Within(z, y)' => x = y
    BY <1>8, <1>10 DEF Tree, AtOnePlace
  <2>3. \A x \in Owning, z \in Objects : Open(x)' => (Once(classes[x], z) /\ Once(enums[x], z))'
    BY <1>8, <1>9 DEF Tree, AtOnePlace, Once
  <2> QED BY <2>1, <2>2, <2>3, <1>11, <1>13 DEF AtOnePlace
<1>15. NoneDeleted'
  <2>1. \A i \in DOMAIN todo' : todo'[i].what \notin deleted
    BY <1>2, <1>4, <1>5, <1>6, <1>7 DEF Tree, NoneDeleted
  <2> QED BY <2>1, <1>1, <1>8, <1>9, <1>10 DEF Tree, NoneDeleted
<1>16. Found'
  BY <1>1, <1>9 DEF Tree, Found, Entry
<1> QED BY <1>11, <1>14, <1>15, <1>16 DEF Tree

\* Nothing is destroyed, and what is made is reserved only.
LEMMA TreeKept ==
  ASSUME IInv, Tree, UNCHANGED <<type, classes, enums, deleted, todo>>,
         \A y \in Types : Entry(y) \in Objects => Entry(y)' = Entry(y)
  PROVE  Tree'
<1>1. /\ Registered' = Registered
      /\ \A x \in Owning : Open(x)' = Open(x)
      /\ \A x \in Owning, z \in Objects : Within(z, x)' = Within(z, x)
  BY DEF Registered, Open, Within, Occurs
<1>2. AtOnePlace'
  <2>1. \A i \in DOMAIN todo : todo[i].what \in Objects
    BY Doomed
  <2>2. \A i \in DOMAIN todo, x \in Owning, z \in Objects :
          todo[i].what = z /\ Open(x)' => ~Within(z, x)'
    BY <1>1 DEF Tree, AtOnePlace
  <2>3. \A x, y \in Owning, z \in Objects :
          Open(x)' /\ Open(y)' /\ Within(z, x)' /\ Within(z, y)' => x = y
    BY <1>1 DEF Tree, AtOnePlace
  <2>4. \A x \in Owning, z \in Objects : Open(x)' => (Once(classes[x], z) /\ Once(enums[x], z))'
    BY <1>1 DEF Tree, AtOnePlace, Once
  <2> QED BY <2>1, <2>2, <2>3, <2>4 DEF Tree, AtOnePlace
<1>3. NoneDeleted'
  BY <1>1 DEF Tree, NoneDeleted
<1>4. Found'
  <2> SUFFICES ASSUME NEW q \in Registered \ deleted
               PROVE  (Entry(type[q]))' = q
    BY <1>1 DEF Found
  <2>1. type[q] \in Types /\ Entry(type[q]) = q /\ q \in Objects
    BY Facts DEF Tree, Found
  <2>2. PICK z \in Types : z = type[q]
    BY <2>1
  <2>3. (Entry(type[q]))' = Entry(z)'
    BY <2>2 DEF Entry
  <2> QED BY <2>1, <2>2, <2>3
<1> QED BY <1>2, <1>3, <1>4 DEF Tree

LEMMA TreeMade ==
  ASSUME IInv, Tree,
         \/ \E o \in Objects, owner \in Owners, i \in Index :
              NewClass(o, owner, i) \/ NewEnum(o, owner, i)
         \/ \E o \in Objects : NewLambda(o)
         \/ \E o \in Objects, p \in Prototypes : NewFunctionType(o, p)
  PROVE  Tree'
<1>1. /\ "class" \in Kinds /\ "enum" \in Kinds /\ "closure" \in Kinds /\ "function" \in Kinds
      /\ classes \in [Owning -> Seq(Objects)] /\ enums \in [Owning -> Seq(Objects)]
      /\ NoOwner \notin Owning
  BY ObjectsAssumption DEF Kinds, IInv, TypeOK, Owning
<1>2. ASSUME NEW owner \in Owners, Idle
      PROVE  owner \notin Owning \/ Open(owner)
  <2>1. DOMAIN todo = {}
    BY <1>2 DEF Idle
  <2> QED BY <2>1, <1>1 DEF Owners, Open, Owning
<1>3. ASSUME NEW o \in Objects, NEW owner \in Owners, NEW i \in Index, NewClass(o, owner, i)
      PROVE  Tree'
  <2>1. \A x \in Owning :
          \/ classes'[x] = classes[x] /\ enums'[x] = enums[x]
          \/ x = owner /\ classes'[x] = Append(classes[x], o) /\ enums'[x] = enums[x]
    BY <1>1, <1>3 DEF NewClass
  <2>2. Idle /\ Register(o, "class", i) /\ (i = size["class"] \/ Free("class", i))
    BY <1>3 DEF NewClass
  <2> QED BY <1>1, <1>2, <2>1, <2>2, TreeGrows
<1>4. ASSUME NEW o \in Objects, NEW owner \in Owners, NEW i \in Index, NewEnum(o, owner, i)
      PROVE  Tree'
  <2>1. \A x \in Owning :
          \/ classes'[x] = classes[x] /\ enums'[x] = enums[x]
          \/ x = owner /\ enums'[x] = Append(enums[x], o) /\ classes'[x] = classes[x]
    BY <1>1, <1>4 DEF NewEnum
  <2>2. Idle /\ Register(o, "enum", i) /\ (i = size["enum"] \/ Free("enum", i))
    BY <1>4 DEF NewEnum
  <2> QED BY <1>1, <1>2, <2>1, <2>2, TreeGrows
<1>5. ASSUME NEW o \in Objects, NEW k \in Kinds, Idle, Register(o, k, size[k]),
             UNCHANGED <<classes, enums>>
      PROVE  Tree'
  <2>1. \A x \in Owning : classes'[x] = classes[x] /\ enums'[x] = enums[x]
    BY <1>5
  <2> QED BY <1>1, <1>5, <2>1, TreeGrows
<1>6. ASSUME NEW o \in Objects, NewLambda(o)
      PROVE  Tree'
  BY <1>1, <1>5, <1>6 DEF NewLambda
<1>7. ASSUME NEW o \in Objects, NEW p \in Prototypes, NewFunctionType(o, p)
      PROVE  Tree'
  BY <1>1, <1>5, <1>7 DEF NewFunctionType
<1> QED BY <1>3, <1>4, <1>6, <1>7

LEMMA TreeReserved ==
  ASSUME IInv, Tree, NEW k \in {"class", "enum"}, Reserve(k)
  PROVE  Tree'
<1> DEFINE y == [kind |-> k, index |-> size[k]]
<1>1. Put(y, Reserved) /\ UNCHANGED <<type, classes, enums, deleted, todo>>
  BY ReserveInv DEF Reserve
<1>2. y \in Types /\ Entry(y) = Null /\ Null \notin Objects
  <2>1. /\ size[k] \in Index /\ k \in Kinds
    BY DEF Reserve, Kinds
  <2>2. y \in Types /\ y.kind = k /\ y.index = size[k]
    BY <2>1, TypeFields
  <2> QED BY <2>1, <2>2, Facts DEF Entry, Index
<1> HIDE DEF y
<1>3. \A z \in Types : Entry(z) \in Objects => Entry(z)' = Entry(z)
  BY <1>1, <1>2 DEF Put
<1> QED BY <1>1, <1>3, TreeKept

\* What is not to be destroyed cannot be: there is no rollback.
LEMMA TreeNext ==
  ASSUME IInv, ~rolledBack => Tree, [Next]_vars
  PROVE  (~rolledBack => Tree)'
<1> SUFFICES ASSUME ~rolledBack'
             PROVE  Tree'
  OBVIOUS
<1>1. CASE UNCHANGED vars
  <2>1. /\ UNCHANGED <<type, classes, enums, deleted, todo, rolledBack>>
        /\ \A y \in Types : Entry(y)' = Entry(y)
    BY <1>1 DEF vars, Entry
  <2> QED BY <2>1, TreeKept
<1>2. ASSUME \/ \E o \in Objects, owner \in Owners, i \in Index :
                  NewClass(o, owner, i) \/ NewEnum(o, owner, i)
             \/ \E o \in Objects : NewLambda(o)
             \/ \E o \in Objects, p \in Prototypes : NewFunctionType(o, p)
      PROVE  Tree'
  <2>1. UNCHANGED rolledBack
    BY ZenonT(60), <1>2 DEF NewClass, NewEnum, NewLambda, NewFunctionType, Register
  <2> QED BY <2>1, <1>2, TreeMade
<1>3. ASSUME NEW k \in {"class", "enum"}, Reserve(k)
      PROVE  Tree'
  <2>1. UNCHANGED rolledBack
    BY <1>3 DEF Reserve
  <2> QED BY <2>1, <1>3, TreeReserved
<1>4. ASSUME NEW ns \in Namespaces, DestroyNamespace(ns)
      PROVE  Tree'
  <2>1. UNCHANGED rolledBack
    BY <1>4 DEF DestroyNamespace
  <2> QED BY <2>1, <1>4, TreeEmptied
<1>5. ASSUME ~rolledBack, todo # <<>>
      PROVE  Head(todo).call \in {"destroy", "unregister"}
  BY <1>5, HeadCall DEF Tree
<1>6. CASE DestroyType \/ UnregisterEntry \/ EndRollback
  <2>1. UNCHANGED rolledBack /\ todo # <<>> /\ Head(todo).call \in {"destroyType", "endRollback"}
    BY <1>6 DEF DestroyType, UnregisterEntry, EndRollback, Doing
  <2> QED BY <2>1, <1>5
<1>7. CASE DestroyEnum \/ UnregisterClass
  <2>1. UNCHANGED rolledBack /\ todo # <<>> /\ ~undefined /\ UnregisterObject(Head(todo).what)
    BY <1>7 DEF DestroyEnum, UnregisterClass, UnregisterObject, Doing
  <2> QED BY <2>1, TreeShrinks
<1>8. CASE DestroyClass
  <2>1. UNCHANGED rolledBack
    BY <1>8 DEF DestroyClass
  <2> QED BY <2>1, <1>8, TreeOpened
<1>9. CASE Fail
  <2>1. /\ UNCHANGED <<type, classes, enums, deleted, todo, rolledBack>>
        /\ \A y \in Types : Entry(y)' = Entry(y)
    BY <1>9 DEF Fail, Entry
  <2> QED BY <2>1, TreeKept
<1>10. ASSUME NEW t \in Transactions, Start(t)
       PROVE  Tree'
  <2>1. /\ UNCHANGED <<type, classes, enums, deleted, todo, rolledBack>>
        /\ \A y \in Types : Entry(y)' = Entry(y)
    BY <1>10 DEF Start, Entry
  <2> QED BY <2>1, TreeKept
<1>11. CASE Commit
  <2>1. /\ UNCHANGED <<type, classes, enums, deleted, todo, rolledBack>>
        /\ \A y \in Types : Entry(y)' = Entry(y)
    BY <1>11 DEF Commit, Entry
  <2> QED BY <2>1, TreeKept
<1>12. CASE BeginRollback
  BY <1>12 DEF BeginRollback
<1> QED
  BY <1>1, <1>2, <1>3, <1>4, <1>6, <1>7, <1>8, <1>9, <1>10, <1>11, <1>12 DEF Next

LEMMA TreeInit == Init => Tree
<1> SUFFICES ASSUME Init
             PROVE  Tree
  OBVIOUS
<1>1. /\ Registered = {} /\ deleted = {} /\ DOMAIN todo = {}
  BY DEF Init, Registered
<1>2. \A x \in Owning : classes[x] = <<>> /\ enums[x] = <<>>
  BY DEF Init, Owning
<1>3. \A x \in Owning, z \in Objects : ~Within(z, x) /\ Once(classes[x], z) /\ Once(enums[x], z)
  BY <1>2 DEF Within, Occurs, Once
<1> QED BY <1>1, <1>3 DEF Tree, AtOnePlace, NoneDeleted, Found

\* Until a transaction is rolled back, every type that was registered and not
\* destroyed is found under its id: destroying a class or a namespace frees the
\* ids of its members, each once, and of nothing else (destroy, squeeze).
THEOREM FoundAlways == Spec => []FoundUnderItsId
<1>1. Init => IInv /\ (~rolledBack => Tree)
  BY InitInv, TreeInit
<1>2. IInv /\ (~rolledBack => Tree) /\ [Next]_vars => IInv' /\ (~rolledBack => Tree)'
  BY NextInv, TreeNext
<1>3. IInv /\ (~rolledBack => Tree) => FoundUnderItsId
  BY DEF Tree, Found, FoundUnderItsId
<1> QED BY <1>1, <1>2, <1>3, PTL DEF Spec
=============================================================================
