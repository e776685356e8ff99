------------------------- MODULE InterpreterProofs -------------------------
(***************************************************************************)
(* Theorems about Interpreter, for every set of functions, every arity and *)
(* every bound.  The inductive invariant says how the activations tile the *)
(* two stacks: each begins where its caller's slots and frames end.  What  *)
(* the two buffers hold follows after that.                                *)
(***************************************************************************)
EXTENDS Interpreter, SequenceTheorems, TLAPS

\* What an activation owns of the data stack and of the callstack.
Used(a) == IF a.kind = "call" THEN 1 + a.pushed + a.locals ELSE 0
Frames(a) == IF a.kind = "call" /\ a.running THEN 1 ELSE 0

StackTop(acts, i) == IF i = 0 THEN 0 ELSE acts[i].sp + Used(acts[i])
FrameTop(acts, i) == IF i = 0 THEN 0 ELSE acts[i].base + Frames(acts[i])

\* The activations tile both stacks.
Contiguous ==
  /\ \A i \in 1 .. depth : /\ act[i].sp = StackTop(act, i - 1)
                           /\ act[i].base = FrameTop(act, i - 1)
  /\ size = StackTop(act, depth) /\ mSize = FrameTop(act, depth)

\* The same, between any two activations, and for the marks of the buffers.
Below(a, b) ==
  /\ a.sp + Used(a) <= b.sp
  /\ a.base + Frames(a) <= b.base
  /\ a.gcs <= b.gcs
  /\ a.ils <= b.ils
  /\ b.use = "dropTemp" => a.gcs < b.gcs
  /\ b.use = "dropElement" => a.ils < b.ils

Ordered == \A i, j \in 1 .. depth : i < j => Below(act[i], act[j])

Marks == \A i \in 1 .. depth : act[i].gcs <= gc /\ act[i].ils <= ilist

\* A running body has all its arguments and a clean frame of its own; a call
\* in preparation has no locals yet; a list is a node of an expression, and an
\* eval never is.
Shape(a) ==
  /\ Frames(a) = 1 => a.pushed = Argc[a.fn]
  /\ a.kind = "call" /\ ~a.running => a.locals = 0
  /\ a.kind = "list" => a.use \in NodeUses
  /\ a.kind = "eval" => a.use \in {"nothing", "push", "delegate"}

FrameOf(a) == [mStackIndex |-> a.sp, mCallee |-> a.fn, flags |-> NoFlags]

Shapes ==
  \A i \in 1 .. depth :
    Shape(act[i]) /\ (Frames(act[i]) = 1 => mData[act[i].base] = FrameOf(act[i]))

\* Every frame of the callstack belongs to an activation.
Owned ==
  \A k \in 0 .. mSize - 1 :
    \E i \in 1 .. depth : Frames(act[i]) = 1 /\ act[i].base = k

\* What an activation will do with its result suits its caller.
Fits(a, c) ==
  /\ a.use = "push" => a.kind = "eval" /\ c.kind = "call" /\ c.running
  /\ a.use = "pop" => a.kind = "call" /\ c.kind = "call" /\ c.running /\ c.locals > 0
  /\ a.use = "delegate" => a.kind = "eval" /\ c.kind = "call" /\ ~c.running
                           /\ c.pushed < Argc[c.fn]
  /\ a.use = "argument" => /\ a.kind \in {"call", "list"}
                           /\ \/ c.kind = "list"
                              \/ c.kind = "call" /\ ~c.running /\ c.pushed < Argc[c.fn]
  /\ a.use = "operand" => a.kind \in {"call", "list"}
  /\ a.use = "this" => a.kind = "call"
  /\ a.use \in {"dropTemp", "dropElement"} => a.kind = "call" /\ c.kind = "eval"

Nested ==
  \A i \in 1 .. depth : IF i = 1 THEN act[i].use = "nothing"
                        ELSE Fits(act[i], act[i - 1])

\* An exception is in flight exactly while C++ unwinds.
InFlight == exc = IF mode = "unwind" THEN 1 ELSE 0

IInv == /\ TypeOK /\ Contiguous /\ Ordered /\ Marks
        /\ Shapes /\ Owned /\ Nested /\ InFlight

-----------------------------------------------------------------------------
(* Facts about the pieces *)

LEMMA BlankType == Blank \in Activation
<1>1. AnyFunction \in Functions
  BY FunctionsAssumption DEF AnyFunction
<1> QED
  BY <1>1 DEF Blank, Activation, Kinds, Uses, NodeUses

LEMMA FreshType ==
  ASSUME TypeOK, NEW kind \in Kinds, NEW use \in Uses
  PROVE  Fresh(kind, use) \in Activation
<1>1. AnyFunction \in Functions
  BY FunctionsAssumption DEF AnyFunction
<1> QED
  BY <1>1 DEF TypeOK, Fresh, Activation

\* The two ways of owning something.
LEMMA OwnedTypes ==
  ASSUME NEW a \in Activation
  PROVE  /\ Used(a) \in Nat /\ Frames(a) \in {0, 1} /\ Frames(a) \in Nat
         /\ a.sp \in Nat /\ a.base \in Nat /\ a.gcs \in Nat /\ a.ils \in Nat
         /\ a.pushed \in Nat /\ a.locals \in Nat /\ a.fn \in Functions
BY DEF Activation, Used, Frames

\* What an activation owns lies within both stacks.
LEMMA WithinStacks ==
  ASSUME IInv, NEW i \in 1 .. depth
  PROVE  act[i].sp + Used(act[i]) <= size /\ act[i].base + Frames(act[i]) <= mSize
<1>0. /\ depth \in Nat /\ depth \in 1 .. depth /\ depth # 0
      /\ act[i] \in Activation /\ act[depth] \in Activation
  BY BoundsAssumption DEF IInv, TypeOK
<1>1. size = act[depth].sp + Used(act[depth]) /\ mSize = act[depth].base + Frames(act[depth])
  BY <1>0 DEF IInv, Contiguous, StackTop, FrameTop
<1>2. /\ Used(act[depth]) \in Nat /\ Frames(act[depth]) \in Nat
      /\ Used(act[i]) \in Nat /\ Frames(act[i]) \in Nat
      /\ act[i].sp \in Nat /\ act[i].base \in Nat
      /\ act[depth].sp \in Nat /\ act[depth].base \in Nat
  BY <1>0, OwnedTypes
<1>3. CASE i = depth
  BY <1>1, <1>2, <1>3
<1>4. CASE i < depth
  <2>1. Below(act[i], act[depth])
    BY <1>0, <1>4 DEF IInv, Ordered
  <2> QED
    BY <2>1, <1>1, <1>2 DEF Below
<1> QED
  BY <1>0, <1>3, <1>4

\* A new activation on top keeps the invariant, if what it owns is what the two
\* stacks have grown by.
LEMMA Entering ==
  ASSUME IInv, depth < MaxDepth, NEW r \in Activation, Enter(r),
         r.sp = size, r.base = mSize, r.gcs = gc, r.ils = ilist,
         size' = size + Used(r), mSize' = mSize + Frames(r),
         mSize' <= CallstackCapacity,
         gc' = gc, ilist' = ilist, mode' = mode, exc' = exc, caught' = caught,
         mData' = IF Frames(r) = 1 THEN [mData EXCEPT ![mSize] = FrameOf(r)] ELSE mData,
         Shape(r),
         IF depth = 0 THEN r.use = "nothing" ELSE Fits(r, act[depth]),
         r.use = "dropTemp" => depth > 0 /\ act[depth].gcs < gc,
         r.use = "dropElement" => depth > 0 /\ act[depth].ils < ilist
  PROVE  IInv'
<1> USE DEF Enter
<1>0. /\ depth \in Nat /\ MaxDepth \in Nat /\ depth + 1 \in 1 .. MaxDepth
      /\ act \in [1 .. MaxDepth -> Activation]
      /\ act' \in [1 .. MaxDepth -> Activation]
      /\ act'[depth + 1] = r
      /\ \A i \in 1 .. depth : act'[i] = act[i]
      /\ \A i \in 1 .. depth : act[i] \in Activation
  <2>1. /\ depth \in Nat /\ MaxDepth \in Nat /\ depth + 1 \in 1 .. MaxDepth
        /\ act \in [1 .. MaxDepth -> Activation]
    BY BoundsAssumption DEF IInv, TypeOK
  <2>2. act' = [act EXCEPT ![depth + 1] = r]
    OBVIOUS
  <2>3. \A i \in 1 .. depth : i \in 1 .. MaxDepth /\ i # depth + 1
    BY <2>1
  <2> QED
    BY <2>1, <2>2, <2>3
<1>1. Used(r) \in Nat /\ Frames(r) \in {0, 1} /\ size \in Nat /\ mSize \in Nat
  BY OwnedTypes DEF IInv, TypeOK
<1>2. TypeOK'
  <2> DEFINE F == [mStackIndex : Nat, mCallee : Functions,
                   flags : {NoFlags, ReturnFlag}]
  <2>1. mData' \in [0 .. CallstackCapacity - 1 -> F]
    <3>1. FrameOf(r) \in F
      BY OwnedTypes DEF FrameOf
    <3>2. mData \in [0 .. CallstackCapacity - 1 -> F]
      BY DEF IInv, TypeOK
    <3>3. mData' = mData \/ mData' = [mData EXCEPT ![mSize] = FrameOf(r)]
      OBVIOUS
    <3> HIDE DEF F
    <3>4. CASE mData' = mData
      BY <3>2, <3>4
    <3>5. CASE mData' = [mData EXCEPT ![mSize] = FrameOf(r)]
      BY <3>1, <3>2, <3>5, ZenonT(30)
    <3> QED
      BY <3>3, <3>4, <3>5
  <2> HIDE DEF F
  <2>2. size' \in Nat
    BY <1>1
  <2>3. mSize' \in 0 .. CallstackCapacity
    BY <1>1, BoundsAssumption
  <2>4. depth' \in 0 .. MaxDepth
    BY <1>0
  <2>5. /\ gc' \in Nat /\ ilist' \in Nat /\ mode' \in {"run", "unwind"}
        /\ exc' \in Nat /\ caught' \in Catchers
    BY DEF IInv, TypeOK
  <2> QED
    BY <1>0, <2>1, <2>2, <2>3, <2>4, <2>5 DEF TypeOK, F
<1>3. Contiguous'
  <2>1. ASSUME NEW i \in 0 .. depth
        PROVE  StackTop(act', i) = StackTop(act, i) /\ FrameTop(act', i) = FrameTop(act, i)
    BY <1>0 DEF StackTop, FrameTop
  <2>2. r.sp = StackTop(act', depth) /\ r.base = FrameTop(act', depth)
    <3>1. depth \in 0 .. depth
      BY <1>0
    <3> QED
      BY <2>1, <3>1 DEF IInv, Contiguous
  <2>3. size' = StackTop(act', depth + 1) /\ mSize' = FrameTop(act', depth + 1)
    BY <1>0, <1>1 DEF StackTop, FrameTop
  <2>4. ASSUME NEW i \in 1 .. depth
        PROVE  act'[i].sp = StackTop(act', i - 1) /\ act'[i].base = FrameTop(act', i - 1)
    <3>1. i - 1 \in 0 .. depth
      BY <1>0
    <3> QED
      BY <2>1, <3>1, <1>0 DEF IInv, Contiguous
  <2>5. ASSUME NEW i \in 1 .. depth + 1
        PROVE  act'[i].sp = StackTop(act', i - 1) /\ act'[i].base = FrameTop(act', i - 1)
    <3>1. CASE i \in 1 .. depth
      BY <3>1, <2>4
    <3>2. CASE i = depth + 1
      <4>1. i - 1 = depth
        BY <3>2, <1>0
      <4> QED
        BY <3>2, <4>1, <2>2, <1>0
    <3> QED
      BY <3>1, <3>2, <1>0
  <2> QED
    BY <2>3, <2>5, <1>0 DEF Contiguous
<1>4. \A i \in 1 .. depth : Below(act[i], r)
  <2> SUFFICES ASSUME NEW i \in 1 .. depth PROVE Below(act[i], r)
    OBVIOUS
  <2>1. act[i].sp + Used(act[i]) <= size /\ act[i].base + Frames(act[i]) <= mSize
    BY WithinStacks
  <2>2. act[i].gcs <= gc /\ act[i].ils <= ilist
    BY DEF IInv, Marks
  <2>3. act[i].gcs <= act[depth].gcs /\ act[i].ils <= act[depth].ils
    <3>1. act[i].gcs \in Nat /\ act[i].ils \in Nat
      BY <1>0, OwnedTypes
    <3>2. CASE i = depth
      BY <3>1, <3>2
    <3>3. CASE i < depth
      BY <3>3, <1>0 DEF IInv, Ordered, Below
    <3> QED
      BY <3>2, <3>3, <1>0
  <2>4. /\ act[i].gcs \in Nat /\ act[i].ils \in Nat
        /\ act[depth].gcs \in Nat /\ act[depth].ils \in Nat
        /\ gc \in Nat /\ ilist \in Nat
    <3>1. depth \in 1 .. depth
      BY <1>0
    <3> QED
      BY <3>1, <1>0, OwnedTypes DEF IInv, TypeOK
  <2>5. r.use = "dropTemp" => act[i].gcs < gc
    BY <2>3, <2>4
  <2>6. r.use = "dropElement" => act[i].ils < ilist
    BY <2>3, <2>4
  <2> QED
    BY <2>1, <2>2, <2>5, <2>6 DEF Below
<1>5. Ordered'
  BY <1>0, <1>4 DEF IInv, Ordered
<1>6. Marks'
  BY <1>0, <1>1 DEF IInv, Marks, TypeOK
<1>7. Shapes'
  <2> SUFFICES ASSUME NEW i \in 1 .. depth + 1
               PROVE  /\ Shape(act'[i])
                      /\ Frames(act'[i]) = 1 => mData'[act'[i].base] = FrameOf(act'[i])
    BY <1>0 DEF Shapes
  <2>1. CASE i = depth + 1
    <3>1. mSize \in 0 .. CallstackCapacity - 1 \/ Frames(r) # 1
      BY <1>1, BoundsAssumption
    <3> QED
      BY <2>1, <3>1, <1>0 DEF IInv, TypeOK
  <2>2. CASE i \in 1 .. depth
    <3>1. Below(act[i], r)
      BY <2>2, <1>4
    <3>2. Frames(act[i]) = 1 => act[i].base < mSize
      <4>1. act[i] \in Activation
        BY <2>2, <1>0
      <4>2. act[i].base \in Nat /\ r.base \in Nat
        BY <4>1, OwnedTypes
      <4> QED
        BY <3>1, <4>2 DEF Below
    <3>3. Frames(act[i]) = 1 => mData'[act[i].base] = mData[act[i].base]
      <4>1. act[i].base \in Nat
        BY <2>2, <1>0, OwnedTypes
      <4> QED
        BY SMTT(30), <3>2, <4>1, <1>1, BoundsAssumption DEF IInv, TypeOK
    <3> QED
      BY <2>2, <3>3, <1>0 DEF IInv, Shapes
  <2> QED
    BY <2>1, <2>2, <1>0
<1>8. Owned'
  <2> SUFFICES ASSUME NEW k \in 0 .. mSize' - 1
               PROVE  \E i \in 1 .. depth + 1 : Frames(act'[i]) = 1 /\ act'[i].base = k
    BY <1>0 DEF Owned
  <2>1. CASE k < mSize
    BY <2>1, <1>0, <1>1 DEF IInv, Owned
  <2>2. CASE k >= mSize
    BY <2>2, <1>0, <1>1
  <2> QED
    BY <2>1, <2>2, <1>1
<1>9. Nested'
  BY <1>0 DEF IInv, Nested
<1>10. InFlight'
  BY DEF IInv, InFlight
<1> QED
  BY <1>2, <1>3, <1>5, <1>6, <1>7, <1>8, <1>9, <1>10 DEF IInv

\* What no step changes of an activation, once it has begun.
Same(p, a) ==
  /\ p.kind = a.kind /\ p.use = a.use /\ p.fn = a.fn
  /\ p.sp = a.sp /\ p.base = a.base /\ p.gcs = a.gcs /\ p.ils = a.ils

\* A step that leaves d of the activations, and changes no other than the topmost
\* of them, keeps the invariant, if it sizes the stacks for that one.
LEMMA Settling ==
  ASSUME IInv, NEW d \in 0 .. depth, depth' = d, NEW p \in Activation,
         act' \in [1 .. MaxDepth -> Activation],
         \A i \in 1 .. d - 1 : act'[i] = act[i],
         d > 0 => act'[d] = p /\ Same(p, act[d]) /\ Shape(p),
         size' = StackTop(act', d), mSize' = FrameTop(act', d),
         mSize' <= CallstackCapacity,
         mData' \in [0 .. CallstackCapacity - 1 ->
                 [mStackIndex : Nat, mCallee : Functions,
                  flags : {NoFlags, ReturnFlag}]],
         d > 0 => \A k \in 0 .. act[d].base - 1 : mData'[k] = mData[k],
         d > 0 /\ Frames(p) = 1 => mData'[p.base] = FrameOf(p),
         gc' \in Nat, ilist' \in Nat,
         d > 0 => act[d].gcs <= gc' /\ act[d].ils <= ilist',
         mode' \in {"run", "unwind"}, caught' \in Catchers,
         exc' = IF mode' = "unwind" THEN 1 ELSE 0
  PROVE  IInv'
<1>0. /\ depth \in Nat /\ MaxDepth \in Nat /\ d \in Nat
      /\ d <= depth /\ depth <= MaxDepth
      /\ act \in [1 .. MaxDepth -> Activation]
      /\ \A i \in 1 .. depth : act[i] \in Activation
      /\ \A i \in 1 .. d : act[i] \in Activation /\ act'[i] \in Activation
      /\ \A i \in 1 .. d : i \in 1 .. depth
      /\ \A i \in 1 .. d : i < d => act'[i] = act[i]
      /\ \A i \in 1 .. d : i < d \/ i = d
  BY BoundsAssumption DEF IInv, TypeOK
<1>1. \A i \in 1 .. d : Same(act'[i], act[i])
  BY <1>0 DEF Same
<1>2. TypeOK'
  <2>1. size' \in Nat /\ mSize' \in Nat
    <3>1. CASE d = 0
      BY <3>1 DEF StackTop, FrameTop
    <3>2. CASE d > 0
      BY SMTT(30), <3>2, OwnedTypes DEF StackTop, FrameTop
    <3> QED
      BY <3>1, <3>2, <1>0
  <2>2. mSize' \in 0 .. CallstackCapacity
    <3>1. mSize' \in Nat /\ CallstackCapacity \in Nat /\ mSize' <= CallstackCapacity
      BY <2>1, BoundsAssumption
    <3> QED
      BY ONLY <3>1, SMTT(30)
  <2>3. exc' \in Nat
    OBVIOUS
  <2>4. depth' \in 0 .. MaxDepth
    BY <1>0
  <2> QED
    BY <2>1, <2>2, <2>3, <2>4 DEF TypeOK
<1>3. \A i \in 1 .. d : act[i].sp = StackTop(act, i - 1)
                        /\ act[i].base = FrameTop(act, i - 1)
  BY <1>0 DEF IInv, Contiguous
<1>4. Contiguous'
  <2>1. ASSUME NEW i \in 1 .. d
        PROVE  act'[i].sp = StackTop(act', i - 1) /\ act'[i].base = FrameTop(act', i - 1)
    <3>1. i = 1 \/ (i - 1 \in 1 .. d /\ i - 1 < d)
      BY <1>0
    <3>2. StackTop(act', i - 1) = StackTop(act, i - 1)
          /\ FrameTop(act', i - 1) = FrameTop(act, i - 1)
      BY <3>1, <1>0 DEF StackTop, FrameTop
    <3> QED
      BY <3>2, <1>3, <1>1 DEF Same
  <2> QED
    BY <2>1 DEF Contiguous
<1>5. Ordered'
  <2> SUFFICES ASSUME NEW i \in 1 .. d, NEW j \in 1 .. d, i < j
               PROVE  Below(act'[i], act'[j])
    BY DEF Ordered
  <2>1. Below(act[i], act[j])
    BY <1>0 DEF IInv, Ordered
  <2>2. act'[i] = act[i]
    BY <1>0
  <2> QED
    BY <2>1, <2>2, <1>1 DEF Below, Same
<1>6. Marks'
  <2> SUFFICES ASSUME NEW i \in 1 .. d
               PROVE  act'[i].gcs <= gc' /\ act'[i].ils <= ilist'
    BY DEF Marks
  <2>1. CASE i = d
    BY <2>1, <1>0, <1>1 DEF Same
  <2>2. CASE i < d
    <3>1. d \in 1 .. depth
      BY <2>2, <1>0
    <3>2. act[i].gcs <= act[d].gcs /\ act[i].ils <= act[d].ils
      BY <3>1, <2>2, <1>0 DEF IInv, Ordered, Below
    <3>3. /\ act[i].gcs \in Nat /\ act[i].ils \in Nat
          /\ act[d].gcs \in Nat /\ act[d].ils \in Nat
      BY <3>1, <1>0, OwnedTypes
    <3>4. act'[i] = act[i]
      BY <2>2, <1>0
    <3> QED
      BY SMTT(30), <3>1, <3>2, <3>3, <3>4
  <2> QED
    BY <2>1, <2>2, <1>0
<1>7. Shapes'
  <2> SUFFICES ASSUME NEW i \in 1 .. d
               PROVE  /\ Shape(act'[i])
                      /\ Frames(act'[i]) = 1 => mData'[act'[i].base] = FrameOf(act'[i])
    BY DEF Shapes
  <2>1. CASE i = d
    BY <2>1, <1>0
  <2>2. CASE i < d
    <3>1. d \in 1 .. depth /\ i \in 1 .. depth
      BY <2>2, <1>0
    <3>2. act[i].base + Frames(act[i]) <= act[d].base
      BY <3>1, <2>2 DEF IInv, Ordered, Below
    <3>3. act[i].base \in Nat /\ act[d].base \in Nat /\ Frames(act[i]) \in Nat
      BY <3>1, <1>0, OwnedTypes
    <3>4. Frames(act[i]) = 1 => mData'[act[i].base] = mData[act[i].base]
      BY <3>1, <3>2, <3>3
    <3> QED
      BY <2>2, <3>1, <3>4, <1>0 DEF IInv, Shapes
  <2> QED
    BY <2>1, <2>2, <1>0
<1>8. Owned'
  <2> SUFFICES ASSUME NEW k \in 0 .. mSize' - 1
               PROVE  \E i \in 1 .. d : Frames(act'[i]) = 1 /\ act'[i].base = k
    BY DEF Owned
  <2>0. d \in 1 .. d /\ d > 0
    BY <1>2, <1>0 DEF FrameTop, TypeOK
  <2>1. p = act'[d] /\ p.base \in Nat /\ mSize' = p.base + Frames(p)
        /\ p.base = act[d].base /\ Frames(p) \in {0, 1}
    BY <2>0, OwnedTypes DEF FrameTop, Same
  <2>2. CASE k = p.base
    <3>1. Frames(p) = 1
      BY <2>1, <2>2
    <3> QED
      BY <3>1, <2>0, <2>1, <2>2
  <2>3. CASE k < p.base
    <3>1. act[d].base <= mSize
      <4>1. CASE d = depth
        <5>1. mSize = act[d].base + Frames(act[d])
          BY <4>1, <2>0 DEF IInv, Contiguous, FrameTop
        <5>2. act[d].base \in Nat /\ Frames(act[d]) \in Nat
          BY <2>0, <1>0, OwnedTypes
        <5> QED
          BY <5>1, <5>2
      <4>2. CASE d < depth
        <5>1. depth \in 1 .. depth /\ d \in 1 .. depth
          BY <4>2, <2>0, <1>0
        <5>2. act[d].base + Frames(act[d]) <= act[depth].base
          BY <5>1, <4>2 DEF IInv, Ordered, Below
        <5>3. mSize = act[depth].base + Frames(act[depth])
          BY <5>1, <1>0 DEF IInv, Contiguous, FrameTop
        <5>4. /\ act[d].base \in Nat /\ Frames(act[d]) \in Nat
              /\ act[depth].base \in Nat /\ Frames(act[depth]) \in Nat
          BY <5>1, <1>0, OwnedTypes
        <5> QED
          BY <5>2, <5>3, <5>4
      <4> QED
        BY <4>1, <4>2, <1>0
    <3>2. mSize \in Nat
      BY DEF IInv, TypeOK
    <3>3. PICK i \in 1 .. depth : Frames(act[i]) = 1 /\ act[i].base = k
      BY <2>1, <2>3, <3>1, <3>2 DEF IInv, Owned
    <3>4. i < d
      <4>1. SUFFICES ASSUME d < i PROVE FALSE
        BY <3>3, <2>1, <2>3, <1>0
      <4>2. act[d].base + Frames(act[d]) <= act[i].base
        BY <4>1, <2>0, <1>0 DEF IInv, Ordered, Below
      <4>3. act[d].base \in Nat /\ Frames(act[d]) \in Nat /\ act[i].base \in Nat
        BY <2>0, <1>0, OwnedTypes
      <4> QED
        BY <4>2, <4>3, <3>3, <2>1, <2>3
    <3>5. i \in 1 .. d /\ act'[i] = act[i]
      BY <3>4, <1>0
    <3> QED
      BY <3>3, <3>5
  <2> QED
    BY <2>1, <2>2, <2>3
<1>9. Nested'
  <2> SUFFICES ASSUME NEW i \in 1 .. d
               PROVE  IF i = 1 THEN act'[i].use = "nothing" ELSE Fits(act'[i], act'[i - 1])
    BY DEF Nested
  <2>1. IF i = 1 THEN act[i].use = "nothing" ELSE Fits(act[i], act[i - 1])
    BY <1>0 DEF IInv, Nested
  <2>2. i # 1 => act'[i - 1] = act[i - 1]
    BY <1>0
  <2> QED
    BY <2>1, <2>2, <1>1 DEF Same, Fits
<1>10. InFlight'
  BY DEF InFlight
<1> QED
  BY <1>2, <1>4, <1>5, <1>6, <1>7, <1>8, <1>9, <1>10 DEF IInv

-----------------------------------------------------------------------------
(* Every step keeps the invariant *)

LEMMA TopFacts ==
  ASSUME IInv, depth > 0
  PROVE  /\ depth \in 1 .. MaxDepth /\ depth \in 1 .. depth
         /\ Top \in Activation /\ Top = act[depth]
         /\ size = Top.sp + Used(Top) /\ mSize = Top.base + Frames(Top)
         /\ Shape(Top)
         /\ Frames(Top) = 1 => mData[Top.base] = FrameOf(Top)
         /\ Top.gcs <= gc /\ Top.ils <= ilist
BY BoundsAssumption DEF IInv, TypeOK, Top, Contiguous, StackTop, FrameTop, Shapes, Marks

\* The same for the caller, which survives when the topmost activation is left.
LEMMA CallerFacts ==
  ASSUME IInv, depth > 1
  PROVE  /\ depth - 1 \in 1 .. MaxDepth /\ depth - 1 \in 1 .. depth
         /\ Caller = act[depth - 1] /\ Caller \in Activation
         /\ Top.sp = Caller.sp + Used(Caller)
         /\ Top.base = Caller.base + Frames(Caller)
         /\ Shape(Caller)
         /\ Frames(Caller) = 1 => mData[Caller.base] = FrameOf(Caller)
         /\ Below(Caller, Top)
         /\ Fits(Top, Caller)
<1>1. /\ depth \in Nat /\ depth - 1 \in 1 .. MaxDepth /\ depth - 1 \in 1 .. depth
      /\ depth \in 1 .. depth /\ depth - 1 < depth /\ depth - 1 # 0 /\ depth # 1
      /\ act \in [1 .. MaxDepth -> Activation]
  BY BoundsAssumption DEF IInv, TypeOK
<1>2. Caller = act[depth - 1] /\ Caller \in Activation
  BY <1>1 DEF Caller
<1>3. Top.sp = Caller.sp + Used(Caller) /\ Top.base = Caller.base + Frames(Caller)
  BY <1>1, <1>2 DEF IInv, Contiguous, Top, StackTop, FrameTop
<1>4. Shape(Caller) /\ (Frames(Caller) = 1 => mData[Caller.base] = FrameOf(Caller))
  BY <1>1, <1>2 DEF IInv, Shapes
<1>5. Below(Caller, Top)
  BY <1>1, <1>2 DEF IInv, Ordered, Top
<1>6. Fits(Top, Caller)
  BY <1>1, <1>2 DEF IInv, Nested, Top
<1> QED
  BY <1>1, <1>2, <1>3, <1>4, <1>5, <1>6

LEMMA GivenFacts ==
  ASSUME NEW i \in 1 .. MaxDepth, act[i] \in Activation, NEW use \in Uses
  PROVE  /\ Given(i, use) \in Activation
         /\ Same(Given(i, use), act[i])
         /\ Given(i, use).running = act[i].running
         /\ Given(i, use).locals = act[i].locals
         /\ Used(Given(i, use)) = Used(act[i]) + Slots(i, use)
         /\ Frames(Given(i, use)) = Frames(act[i])
BY DEF Given, Activation, Same, Used, Frames, Slots

\* A step that only throws or catches.
LEMMA StillInv ==
  ASSUME IInv, UNCHANGED <<size, mSize, mData, gc, ilist, depth, act>>,
         mode' \in {"run", "unwind"}, caught' \in Catchers,
         exc' = IF mode' = "unwind" THEN 1 ELSE 0
  PROVE  IInv'
<1>1. TypeOK'
  BY DEF IInv, TypeOK
<1>2. Contiguous' /\ Ordered' /\ Marks' /\ Shapes' /\ Owned' /\ Nested'
  BY DEF IInv, Contiguous, Ordered, Marks, Shapes, Owned, Nested
<1>3. InFlight'
  BY DEF InFlight
<1> QED
  BY <1>1, <1>2, <1>3 DEF IInv

LEMMA RaiseInv ==
  ASSUME IInv, Running, Raise
  PROVE  IInv'
<1>1. exc = 0 /\ exc' = 1 /\ mode' = "unwind" /\ caught' = caught
  BY DEF IInv, InFlight, Running, Raise
<1> QED
  BY <1>1, StillInv DEF IInv, TypeOK, Raise

LEMMA NodeFits ==
  ASSUME IInv, NEW use \in NodeUses, NodeExpected(use), NEW r, r.use = use,
         r.kind \in {"call", "list"}
  PROVE  /\ depth > 0 /\ depth # 0
         /\ Fits(r, Top)
         /\ Frames(Top) = 0
         /\ use = "argument" =>
              \/ Top.kind = "list"
              \/ Top.kind = "call" /\ ~Top.running /\ Top.pushed < Argc[Top.fn]
<1>1. CASE use = "operand" /\ (Evaluating \/ InList)
  BY <1>1 DEF IInv, TypeOK, Evaluating, InList, Fits, Frames
<1>2. CASE use = "argument" /\ InList
  <2>1. depth > 0 /\ depth # 0 /\ Top.kind = "list"
    BY <1>2 DEF IInv, TypeOK, InList
  <2>2. Fits(r, Top)
    BY <2>1, <1>2 DEF Fits
  <2>3. Frames(Top) = 0
    BY <2>1 DEF Frames
  <2>4. use = "argument" => Top.kind = "list"
    BY <2>1
  <2> QED
    BY <2>1, <2>2, <2>3, <2>4
<1>3. CASE Preparing /\ Top.pushed < Argc[Top.fn]
  <2>1. /\ depth > 0 /\ Top.kind = "call" /\ ~Top.running
        /\ Top.pushed < Argc[Top.fn]
    BY <1>3 DEF Preparing
  <2>2. Frames(Top) = 0
    BY <2>1 DEF Frames
  <2>3. CASE use = "operand"
    BY <2>1, <2>2, <2>3 DEF IInv, TypeOK, Fits
  <2>4. CASE use = "argument"
    BY <2>1, <2>2, <2>4 DEF IInv, TypeOK, Fits
  <2> QED
    BY <2>3, <2>4 DEF NodeUses
<1> QED
  BY <1>1, <1>2, <1>3 DEF NodeExpected

LEMMA InvokeWithInv ==
  ASSUME IInv, Running, depth < MaxDepth, NEW f \in Functions, NEW use \in Uses,
         InvokeWith(f, use),
         IF depth = 0 THEN use = "nothing"
         ELSE /\ use \in NodeUses \cup {"nothing", "pop", "dropTemp", "dropElement"}
              /\ use \in NodeUses => NodeExpected(use)
              /\ use = "pop" => Top.kind = "call" /\ Top.running /\ Top.locals > 0
              /\ use \in {"dropTemp", "dropElement"} => Top.kind = "eval",
         use = "dropTemp" => depth > 0 /\ Top.gcs < gc,
         use = "dropElement" => depth > 0 /\ Top.ils < ilist
  PROVE  IInv'
<1>1. CASE mSize = CallstackCapacity /\ Raise
  BY <1>1, RaiseInv
<1>2. CASE /\ mSize < CallstackCapacity
           /\ PushFrame(f, size)
           /\ size' = size + 1 + Argc[f]
           /\ Enter([Fresh("call", use) EXCEPT !.fn = f, !.running = TRUE,
                                               !.pushed = Argc[f]])
           /\ UNCHANGED <<gc, ilist, mode, exc, caught>>
  <2> DEFINE r == [Fresh("call", use) EXCEPT !.fn = f, !.running = TRUE,
                                             !.pushed = Argc[f]]
  <2>1. Fresh("call", use) \in Activation
    BY FreshType DEF IInv, Kinds
  <2>2. Argc[f] \in Nat
    BY FunctionsAssumption
  <2>3. r \in Activation
    BY <2>1, <2>2 DEF Activation
  <2>4. /\ r.kind = "call" /\ r.use = use /\ r.fn = f /\ r.running = TRUE
        /\ r.pushed = Argc[f] /\ r.locals = 0
        /\ r.sp = size /\ r.base = mSize /\ r.gcs = gc /\ r.ils = ilist
    BY DEF Fresh
  <2> HIDE DEF r
  <2>5. Used(r) = 1 + Argc[f] /\ Frames(r) = 1 /\ Shape(r)
    BY <2>2, <2>4 DEF Used, Frames, Shape
  <2>6. size \in Nat /\ mSize \in Nat /\ CallstackCapacity \in Nat
    BY BoundsAssumption DEF IInv, TypeOK
  <2>7. Enter(r)
    BY <1>2 DEF r
  <2>8. /\ size' = size + Used(r) /\ mSize' = mSize + Frames(r)
        /\ mSize' <= CallstackCapacity
    BY <1>2, <2>2, <2>5, <2>6 DEF PushFrame
  <2>9. mData' = [mData EXCEPT ![mSize] = FrameOf(r)]
    BY <1>2, <2>4 DEF PushFrame, FrameOf
  <2>10. depth # 0 => Fits(r, act[depth])
    <3>1. CASE use \in NodeUses
      BY <3>1, <2>4, NodeFits DEF Top
    <3>2. CASE use \notin NodeUses
      BY <3>2, <2>4 DEF Fits, Top, NodeUses
    <3> QED
      BY <3>1, <3>2
  <2>11. IF depth = 0 THEN r.use = "nothing" ELSE Fits(r, act[depth])
    BY <2>4, <2>10
  <2>12. UNCHANGED <<gc, ilist, mode, exc, caught>>
    BY <1>2
  <2> QED
    BY <2>3, <2>4, <2>5, <2>7, <2>8, <2>9, <2>11, <2>12, Entering DEF Top
<1> QED
  BY <1>1, <1>2 DEF InvokeWith

LEMMA InvokeInv ==
  ASSUME IInv, NEW f \in Functions, Invoke(f)
  PROVE  IInv'
<1>1. Running /\ depth < MaxDepth /\ InvokeWith(f, "nothing") /\ "nothing" \in Uses
  BY DEF Invoke, CanEnter, Uses
<1> QED
  BY <1>1, InvokeWithInv DEF NodeUses

LEMMA DestroyValueInv ==
  ASSUME IInv, NEW f \in Functions, NEW use \in {"nothing", "pop"}, DestroyValue(f, use)
  PROVE  IInv'
<1>1. Running /\ depth < MaxDepth /\ InvokeWith(f, use) /\ use \in Uses
      /\ depth > 0 /\ Top.kind = "call" /\ Top.running
      /\ (use = "pop" => Top.locals > 0)
  BY DEF DestroyValue, CanEnter, Uses, InScript
<1>2. depth # 0 /\ use # "dropTemp" /\ use # "dropElement"
  BY <1>1 DEF IInv, TypeOK
<1> QED
  BY <1>1, <1>2, InvokeWithInv DEF NodeUses

LEMMA CopyInv ==
  ASSUME IInv, NEW f \in Functions, NEW use \in NodeUses, Copy(f, use)
  PROVE  IInv'
<1>1. Running /\ depth < MaxDepth /\ InvokeWith(f, use) /\ use \in Uses
      /\ NodeExpected(use)
  BY DEF Copy, CanEnter, Uses
<1>2. depth # 0 /\ use \notin {"dropTemp", "dropElement", "pop"}
  BY <1>1 DEF NodeExpected, Evaluating, InList, Preparing, NodeUses, IInv, TypeOK
<1> QED
  BY <1>1, <1>2, InvokeWithInv

LEMMA DestroyTemporaryInv ==
  ASSUME IInv, NEW f \in Functions, DestroyTemporary(f)
  PROVE  IInv'
<1>1. Running /\ depth < MaxDepth /\ depth > 0 /\ depth # 0 /\ Top.kind = "eval"
  BY DEF DestroyTemporary, CanEnter, Dropping
<1>2. CASE gc > Top.gcs /\ InvokeWith(f, "dropTemp")
  <2>1. "dropTemp" \in Uses /\ Top.gcs < gc
    BY <1>2, <1>1, TopFacts, OwnedTypes DEF Uses, IInv, TypeOK
  <2> QED
    BY <1>1, <1>2, <2>1, InvokeWithInv DEF NodeUses
<1>3. CASE ilist > Top.ils /\ InvokeWith(f, "dropElement")
  <2>1. "dropElement" \in Uses /\ Top.ils < ilist
    BY <1>3, <1>1, TopFacts, OwnedTypes DEF Uses, IInv, TypeOK
  <2> QED
    BY <1>1, <1>3, <2>1, InvokeWithInv DEF NodeUses
<1> QED
  BY <1>2, <1>3 DEF DestroyTemporary

\* An activation that begins with no frame and no locals of its own.
LEMMA BeginInv ==
  ASSUME IInv, depth < MaxDepth, NEW r \in Activation, Enter(r),
         r.sp = size, r.base = mSize, r.gcs = gc, r.ils = ilist,
         r.running = FALSE, r.locals = 0,
         r.use \notin {"dropTemp", "dropElement"},
         r.kind = "list" => r.use \in NodeUses,
         r.kind = "eval" => r.use \in {"nothing", "push", "delegate"},
         IF depth = 0 THEN r.use = "nothing" ELSE Fits(r, Top),
         size' = size + Used(r),
         UNCHANGED <<mSize, mData, gc, ilist, mode, exc, caught>>
  PROVE  IInv'
<1>1. Frames(r) = 0 /\ Shape(r)
  BY DEF Frames, Shape
<1>2. mSize' = mSize + Frames(r) /\ mSize' <= CallstackCapacity
  BY <1>1, BoundsAssumption DEF IInv, TypeOK
<1>3. mData' = IF Frames(r) = 1 THEN [mData EXCEPT ![mSize] = FrameOf(r)] ELSE mData
  BY <1>1
<1> QED
  BY <1>1, <1>2, <1>3, Entering DEF Top

LEMMA BeginEvalInv ==
  ASSUME IInv, NEW use \in {"nothing", "push", "delegate"}, BeginEval(use)
  PROVE  IInv'
<1> DEFINE r == Fresh("eval", use)
<1>1. r \in Activation
  BY FreshType DEF IInv, Kinds, Uses
<1>2. /\ r.kind = "eval" /\ r.use = use /\ r.running = FALSE /\ r.locals = 0
      /\ r.sp = size /\ r.base = mSize /\ r.gcs = gc /\ r.ils = ilist
  BY DEF Fresh
<1>3. Enter(r)
  BY DEF BeginEval
<1> HIDE DEF r
<1>4. IF depth = 0 THEN r.use = "nothing" ELSE Fits(r, Top)
  <2>1. CASE use = "nothing"
    BY <2>1, <1>2 DEF Fits
  <2>2. CASE use = "push"
    <3>1. InScript
      BY <2>2 DEF BeginEval
    <3> QED
      BY <2>2, <3>1, <1>2 DEF InScript, Fits
  <2>3. CASE use = "delegate"
    <3>1. Preparing /\ Top.pushed < Argc[Top.fn]
      BY <2>3 DEF BeginEval
    <3> QED
      BY <2>3, <3>1, <1>2 DEF Preparing, Fits
  <2> QED
    BY <2>1, <2>2, <2>3
<1>5. size' = size + Used(r)
  BY <1>2 DEF BeginEval, Used, IInv, TypeOK
<1>6. depth < MaxDepth /\ UNCHANGED <<mSize, mData, gc, ilist, mode, exc, caught>>
  BY DEF BeginEval, CanEnter
<1>7. r.use \notin {"dropTemp", "dropElement"}
  BY <1>2
<1> QED
  BY <1>1, <1>2, <1>3, <1>4, <1>5, <1>6, <1>7, BeginInv

LEMMA BeginListInv ==
  ASSUME IInv, NEW use \in NodeUses, BeginList(use)
  PROVE  IInv'
<1> DEFINE r == Fresh("list", use)
<1>1. r \in Activation
  BY FreshType DEF IInv, Kinds, Uses, NodeUses
<1>2. /\ r.kind = "list" /\ r.use = use /\ r.running = FALSE /\ r.locals = 0
      /\ r.sp = size /\ r.base = mSize /\ r.gcs = gc /\ r.ils = ilist
  BY DEF Fresh
<1>3. Enter(r) /\ NodeExpected(use) /\ depth < MaxDepth
      /\ UNCHANGED <<size, mSize, mData, gc, ilist, mode, exc, caught>>
  BY DEF BeginList, CanEnter
<1> HIDE DEF r
<1>4. depth # 0 /\ Fits(r, Top)
  BY <1>2, <1>3, NodeFits
<1>5. size' = size + Used(r)
  BY <1>2, <1>3 DEF Used, IInv, TypeOK
<1>6. r.use \notin {"dropTemp", "dropElement"}
  BY <1>2 DEF NodeUses
<1> QED
  BY <1>1, <1>2, <1>3, <1>4, <1>5, <1>6, BeginInv

LEMMA BeginCallInv ==
  ASSUME IInv, NEW f \in Functions, NEW use \in NodeUses, NEW n \in {0, 1},
         BeginCall(f, use, n)
  PROVE  IInv'
<1> DEFINE r == [Fresh("call", use) EXCEPT !.fn = f, !.pushed = n]
<1>1. r \in Activation
  <2>1. Fresh("call", use) \in Activation
    BY FreshType DEF IInv, Kinds, Uses, NodeUses
  <2>2. n \in Nat
    OBVIOUS
  <2> QED
    BY <2>1, <2>2 DEF Activation
<1>2. /\ r.kind = "call" /\ r.use = use /\ r.running = FALSE /\ r.locals = 0
      /\ r.sp = size /\ r.base = mSize /\ r.gcs = gc /\ r.ils = ilist
      /\ r.pushed = n
  BY DEF Fresh
<1>3. Enter(r) /\ NodeExpected(use) /\ depth < MaxDepth /\ size' = size + 1 + n
      /\ UNCHANGED <<mSize, mData, gc, ilist, mode, exc, caught>>
  BY DEF BeginCall, CanEnter
<1> HIDE DEF r
<1>4. depth # 0 /\ Fits(r, Top)
  BY <1>2, <1>3, NodeFits
<1>5. size' = size + Used(r)
  BY <1>2, <1>3 DEF Used, IInv, TypeOK
<1>6. r.use \notin {"dropTemp", "dropElement"}
  BY <1>2 DEF NodeUses
<1> QED
  BY <1>1, <1>2, <1>3, <1>4, <1>5, <1>6, BeginInv

LEMMA BeginDelegateInv ==
  ASSUME IInv, NEW f \in Functions, BeginDelegate(f)
  PROVE  IInv'
<1> DEFINE r == [Fresh("call", "this") EXCEPT !.fn = f, !.pushed = 1]
<1>1. r \in Activation
  <2>1. Fresh("call", "this") \in Activation
    BY FreshType DEF IInv, Kinds, Uses
  <2> QED
    BY <2>1 DEF Activation
<1>2. /\ r.kind = "call" /\ r.use = "this" /\ r.running = FALSE /\ r.locals = 0
      /\ r.sp = size /\ r.base = mSize /\ r.gcs = gc /\ r.ils = ilist
      /\ r.pushed = 1
  BY DEF Fresh
<1>3. Enter(r) /\ depth < MaxDepth /\ size' = size + 2 /\ depth > 0
      /\ UNCHANGED <<mSize, mData, gc, ilist, mode, exc, caught>>
  BY DEF BeginDelegate, CanEnter, InScript
<1> HIDE DEF r
<1>4. depth # 0 /\ Fits(r, Top)
  BY <1>2, <1>3 DEF Fits
<1>5. size' = size + Used(r)
  BY <1>2, <1>3 DEF Used, IInv, TypeOK
<1>6. r.use \notin {"dropTemp", "dropElement"}
  BY <1>2
<1> QED
  BY <1>1, <1>2, <1>3, <1>4, <1>5, <1>6, BeginInv

\* Steps that change the topmost activation in place.
LEMMA UpdateInv ==
  ASSUME IInv, depth > 0, depth' = depth, NEW r \in Activation,
         act' = [act EXCEPT ![depth] = r], Same(r, Top), Shape(r),
         size' = r.sp + Used(r), mSize' = r.base + Frames(r),
         mSize' <= CallstackCapacity,
         mData' = IF Frames(r) = 1 THEN [mData EXCEPT ![r.base] = FrameOf(r)] ELSE mData,
         gc' \in Nat, ilist' \in Nat, Top.gcs <= gc', Top.ils <= ilist',
         UNCHANGED <<mode, exc, caught>>
  PROVE  IInv'
<1>1. /\ depth \in 1 .. MaxDepth /\ depth \in 0 .. depth /\ depth # 0
      /\ act \in [1 .. MaxDepth -> Activation]
  BY TopFacts DEF IInv, TypeOK
<1>2. /\ act' \in [1 .. MaxDepth -> Activation] /\ act'[depth] = r
      /\ \A i \in 1 .. depth - 1 : act'[i] = act[i]
  BY <1>1
<1>3. size' = StackTop(act', depth) /\ mSize' = FrameTop(act', depth)
  BY <1>1, <1>2 DEF StackTop, FrameTop
<1>4. r.base = Top.base /\ r.base \in Nat /\ CallstackCapacity \in Nat
      /\ FrameOf(r) \in [mStackIndex : Nat, mCallee : Functions,
                         flags : {NoFlags, ReturnFlag}]
  BY OwnedTypes, BoundsAssumption DEF Same, FrameOf
<1>5. Frames(r) = 1 => r.base \in 0 .. CallstackCapacity - 1
  BY <1>4
<1>6. mData' \in [0 .. CallstackCapacity - 1 ->
                    [mStackIndex : Nat, mCallee : Functions,
                     flags : {NoFlags, ReturnFlag}]]
  BY <1>4 DEF IInv, TypeOK
<1>7. /\ \A k \in 0 .. r.base - 1 : mData'[k] = mData[k]
      /\ Frames(r) = 1 => mData'[r.base] = FrameOf(r)
  <2>1. CASE Frames(r) = 1
    BY <2>1, <1>4, <1>5 DEF IInv, TypeOK
  <2>2. CASE Frames(r) # 1
    BY <2>2
  <2> QED
    BY <2>1, <2>2
<1>8. exc' = (IF mode' = "unwind" THEN 1 ELSE 0) /\ mode' \in {"run", "unwind"}
      /\ caught' \in Catchers
  BY DEF IInv, TypeOK, InFlight
<1> QED
  BY <1>1, <1>2, <1>3, <1>4, <1>6, <1>7, <1>8, Settling DEF Top

\* ... without touching the callstack.
LEMMA QuietUpdateInv ==
  ASSUME IInv, depth > 0, depth' = depth, NEW r \in Activation,
         act' = [act EXCEPT ![depth] = r], Same(r, Top), Shape(r),
         Frames(r) = Frames(Top), size' = size + Used(r) - Used(Top),
         gc' \in Nat, ilist' \in Nat, Top.gcs <= gc', Top.ils <= ilist',
         UNCHANGED <<mSize, mData, mode, exc, caught>>
  PROVE  IInv'
<1>1. /\ size = Top.sp + Used(Top) /\ mSize = Top.base + Frames(Top)
      /\ Top \in Activation
      /\ Frames(Top) = 1 => mData[Top.base] = FrameOf(Top)
  BY TopFacts
<1>2. Used(r) \in Nat /\ Used(Top) \in Nat /\ Top.sp \in Nat
  BY <1>1, OwnedTypes
<1>3. size' = r.sp + Used(r) /\ mSize' = r.base + Frames(r)
  BY <1>1, <1>2 DEF Same
<1>4. FrameOf(r) = FrameOf(Top) /\ r.base = Top.base
  BY DEF Same, FrameOf
<1>5. mData' = IF Frames(r) = 1 THEN [mData EXCEPT ![r.base] = FrameOf(r)] ELSE mData
  <2>1. CASE Frames(r) = 1
    <3>1. [mData EXCEPT ![r.base] = mData[r.base]] = mData
      BY DEF IInv, TypeOK
    <3> QED
      BY <2>1, <3>1, <1>1, <1>4
  <2>2. CASE Frames(r) # 1
    BY <2>2
  <2> QED
    BY <2>1, <2>2
<1>6. mSize' <= CallstackCapacity
  BY BoundsAssumption DEF IInv, TypeOK
<1> QED
  BY <1>3, <1>5, <1>6, UpdateInv

LEMMA LeafInv ==
  ASSUME IInv, NEW use \in NodeUses, Leaf(use)
  PROVE  IInv'
<1> DEFINE r == Given(depth, use)
<1>1. NodeExpected(use) /\ depth' = depth /\ act' = [act EXCEPT ![depth] = r]
      /\ size' = size + Slots(depth, use) /\ gc' = gc + 1
      /\ ilist' = ilist + Elements(depth, use)
      /\ UNCHANGED <<mSize, mData, mode, exc, caught>>
  BY DEF Leaf
<1>2. depth > 0 /\ Frames(Top) = 0
  <2>1. [use |-> use, kind |-> "call"].use = use /\ [use |-> use, kind |-> "call"].kind = "call"
    OBVIOUS
  <2> QED
    BY <1>1, <2>1, NodeFits
<1>3. Top \in Activation /\ Top = act[depth] /\ depth \in 1 .. MaxDepth /\ Shape(Top)
      /\ Top.gcs <= gc /\ Top.ils <= ilist
  BY <1>2, TopFacts
<1>4. use \in Uses
  BY DEF NodeUses, Uses
<1>5. r \in Activation /\ Same(r, Top) /\ Frames(r) = Frames(Top)
      /\ r.running = Top.running /\ r.locals = Top.locals
      /\ Used(r) = Used(Top) + Slots(depth, use)
  BY <1>3, <1>4, GivenFacts
<1>6. Shape(r)
  BY <1>2, <1>3, <1>5 DEF Shape, Same
<1>7. Elements(depth, use) \in Nat /\ Slots(depth, use) \in Nat
  BY DEF Elements, Slots
<1> HIDE DEF r
<1>8. gc' \in Nat /\ ilist' \in Nat /\ Top.gcs <= gc' /\ Top.ils <= ilist'
  <2>1. gc \in Nat /\ ilist \in Nat
    BY DEF IInv, TypeOK
  <2>2. Top.gcs \in Nat /\ Top.ils \in Nat
    BY <1>3, OwnedTypes
  <2> QED
    BY <1>1, <1>3, <1>7, <2>1, <2>2
<1>9. size' = size + Used(r) - Used(Top)
  BY <1>1, <1>3, <1>5, <1>7, OwnedTypes DEF IInv, TypeOK
<1> QED
  BY <1>1, <1>2, <1>5, <1>6, <1>8, <1>9, QuietUpdateInv

LEMMA EnterBodyInv ==
  ASSUME IInv, EnterBody
  PROVE  IInv'
<1>1. CASE mSize = CallstackCapacity /\ Raise
  BY <1>1, RaiseInv DEF EnterBody
<1>2. CASE /\ mSize < CallstackCapacity
           /\ PushFrame(Top.fn, Top.sp)
           /\ act' = [act EXCEPT ![depth].running = TRUE]
           /\ UNCHANGED <<size, gc, ilist, depth, mode, exc, caught>>
  <2> DEFINE r == [Top EXCEPT !.running = TRUE]
  <2>1. depth > 0 /\ Top.kind = "call" /\ ~Top.running /\ Top.pushed = Argc[Top.fn]
    BY DEF EnterBody, Preparing
  <2>2. /\ Top \in Activation /\ Top = act[depth] /\ depth \in 1 .. MaxDepth
        /\ size = Top.sp + Used(Top) /\ mSize = Top.base + Frames(Top)
        /\ Top.gcs <= gc /\ Top.ils <= ilist
    BY <2>1, TopFacts
  <2>3. r \in Activation /\ Same(r, Top) /\ r.kind = "call" /\ r.running = TRUE
        /\ r.pushed = Top.pushed /\ r.locals = Top.locals
    BY <2>1, <2>2 DEF Activation, Same
  <2>4. act' = [act EXCEPT ![depth] = r]
    BY <1>2, <2>2
  <2> HIDE DEF r
  <2>5. Frames(r) = 1 /\ Frames(Top) = 0 /\ Used(r) = Used(Top)
    BY <2>1, <2>3 DEF Frames, Used
  <2>6. Shape(r)
    BY <2>1, <2>3 DEF Shape, Same
  <2>7. Top.base \in Nat /\ Top.base = mSize /\ r.base = mSize /\ r.sp = Top.sp
    BY <2>2, <2>3, <2>5, OwnedTypes DEF Same
  <2>8. size' = r.sp + Used(r) /\ mSize' = r.base + Frames(r)
    BY <1>2, <2>2, <2>5, <2>7 DEF PushFrame
  <2>9. mSize' <= CallstackCapacity
    BY <1>2, <2>7, BoundsAssumption DEF PushFrame
  <2>10. FrameOf(r) = [mStackIndex |-> Top.sp, mCallee |-> Top.fn, flags |-> NoFlags]
    BY <2>3 DEF FrameOf, Same
  <2>11. mData' = [mData EXCEPT ![r.base] = FrameOf(r)]
    BY <1>2, <2>7, <2>10 DEF PushFrame
  <2>12. gc' \in Nat /\ ilist' \in Nat /\ Top.gcs <= gc' /\ Top.ils <= ilist'
    BY <1>2, <2>2 DEF IInv, TypeOK
  <2>13. depth' = depth /\ UNCHANGED <<mode, exc, caught>>
    BY <1>2
  <2> QED
    BY <2>1, <2>3, <2>4, <2>5, <2>6, <2>8, <2>9, <2>11, <2>12, <2>13, UpdateInv
<1> QED
  BY <1>1, <1>2 DEF EnterBody

LEMMA FinishEvalInv ==
  ASSUME IInv, FinishEval
  PROVE  IInv'
<1> DEFINE r == [Top EXCEPT !.done = TRUE]
<1>1. depth > 0 /\ Top.kind = "eval"
  BY DEF FinishEval, Evaluating
<1>2. /\ Top \in Activation /\ Top = act[depth] /\ depth \in 1 .. MaxDepth
      /\ Top.gcs <= gc /\ Top.ils <= ilist
  BY <1>1, TopFacts
<1>3. r \in Activation /\ Same(r, Top) /\ r.kind = "eval"
  BY <1>1, <1>2 DEF Activation, Same
<1>4. act' = [act EXCEPT ![depth] = r]
  BY <1>2 DEF FinishEval
<1> HIDE DEF r
<1>5. Frames(r) = 0 /\ Frames(Top) = 0 /\ Used(r) = 0 /\ Used(Top) = 0 /\ Shape(r)
  BY <1>1, <1>3, TopFacts DEF Frames, Used, Shape, Same
<1>6. size' = size + Used(r) - Used(Top)
  BY <1>5 DEF FinishEval, IInv, TypeOK
<1>7. depth' = depth /\ UNCHANGED <<mSize, mData, gc, ilist, mode, exc, caught>>
  BY DEF FinishEval
<1>8. gc' \in Nat /\ ilist' \in Nat /\ Top.gcs <= gc' /\ Top.ils <= ilist'
  BY <1>2, <1>7 DEF IInv, TypeOK
<1> QED
  BY <1>1, <1>3, <1>4, <1>5, <1>6, <1>7, <1>8, QuietUpdateInv

LEMMA DropInv ==
  ASSUME IInv, Drop
  PROVE  IInv'
<1>1. depth > 0 /\ Top.kind = "eval"
  BY DEF Drop, Dropping
<1>2. /\ Top \in Activation /\ Top = act[depth] /\ depth \in 1 .. MaxDepth
      /\ Top.gcs <= gc /\ Top.ils <= ilist /\ Shape(Top)
      /\ Top.gcs \in Nat /\ Top.ils \in Nat /\ Used(Top) \in Nat
  BY <1>1, TopFacts, OwnedTypes
<1>3. act' = [act EXCEPT ![depth] = Top] /\ Same(Top, Top)
  BY <1>2 DEF Drop, Same, IInv, TypeOK
<1>4. size' = size + Used(Top) - Used(Top)
  BY <1>2 DEF Drop, IInv, TypeOK
<1>5. depth' = depth /\ UNCHANGED <<mSize, mData, mode, exc, caught>>
  BY DEF Drop
<1>6. gc' \in Nat /\ ilist' \in Nat /\ Top.gcs <= gc' /\ Top.ils <= ilist'
  <2>1. gc \in Nat /\ ilist \in Nat
    BY DEF IInv, TypeOK
  <2>2. CASE gc > Top.gcs /\ gc' = gc - 1 /\ UNCHANGED ilist
    BY <2>1, <2>2, <1>2
  <2>3. CASE gc = Top.gcs /\ ilist > Top.ils /\ ilist' = ilist - 1 /\ UNCHANGED gc
    BY <2>1, <2>3, <1>2
  <2> QED
    BY <2>2, <2>3 DEF Drop
<1> QED
  BY <1>1, <1>2, <1>3, <1>4, <1>5, <1>6, QuietUpdateInv

\* A statement that pushes or pops one local.
LEMMA LocalInv ==
  ASSUME IInv, InScript, NEW n \in Nat,
         act' = [act EXCEPT ![depth].locals = n],
         size' = size + n - Top.locals,
         UNCHANGED <<mSize, mData, gc, ilist, depth, mode, exc, caught>>
  PROVE  IInv'
<1> DEFINE r == [Top EXCEPT !.locals = n]
<1>1. depth > 0 /\ Top.kind = "call" /\ Top.running
  BY DEF InScript
<1>2. /\ Top \in Activation /\ Top = act[depth] /\ depth \in 1 .. MaxDepth
      /\ Top.gcs <= gc /\ Top.ils <= ilist /\ Shape(Top)
      /\ Top.pushed \in Nat /\ Top.locals \in Nat
  BY <1>1, TopFacts, OwnedTypes
<1>3. r \in Activation /\ Same(r, Top) /\ r.running = Top.running /\ r.kind = "call"
      /\ r.pushed = Top.pushed /\ r.locals = n /\ r.fn = Top.fn
  BY <1>1, <1>2 DEF Activation, Same
<1>4. act' = [act EXCEPT ![depth] = r]
  BY <1>2
<1> HIDE DEF r
<1>5. Frames(r) = Frames(Top) /\ Used(r) = 1 + Top.pushed + n
      /\ Used(Top) = 1 + Top.pushed + Top.locals
  BY <1>1, <1>3 DEF Frames, Used
<1>6. Shape(r)
  BY <1>1, <1>2, <1>3, <1>5 DEF Shape
<1>7. size' = size + Used(r) - Used(Top)
  BY <1>2, <1>5 DEF IInv, TypeOK
<1>8. gc' \in Nat /\ ilist' \in Nat /\ Top.gcs <= gc' /\ Top.ils <= ilist'
  BY <1>2 DEF IInv, TypeOK
<1> QED
  BY <1>1, <1>3, <1>4, <1>5, <1>6, <1>7, <1>8, QuietUpdateInv

LEMMA PushStaticInv ==
  ASSUME IInv, PushStatic
  PROVE  IInv'
<1>1. Top \in Activation /\ Top = act[depth] /\ depth \in 1 .. MaxDepth
      /\ Top.locals \in Nat
  BY TopFacts, OwnedTypes DEF PushStatic, InScript
<1>2. act' = [act EXCEPT ![depth].locals = Top.locals + 1] /\ Top.locals + 1 \in Nat
      /\ size' = size + (Top.locals + 1) - Top.locals
  BY <1>1 DEF PushStatic, IInv, TypeOK
<1> QED
  BY <1>2, LocalInv DEF PushStatic

LEMMA PopLocalInv ==
  ASSUME IInv, PopLocal
  PROVE  IInv'
<1>1. Top \in Activation /\ Top = act[depth] /\ depth \in 1 .. MaxDepth
      /\ Top.locals \in Nat /\ Top.locals > 0
  BY TopFacts, OwnedTypes DEF PopLocal, InScript
<1>2. act' = [act EXCEPT ![depth].locals = Top.locals - 1] /\ Top.locals - 1 \in Nat
      /\ size' = size + (Top.locals - 1) - Top.locals
  BY <1>1 DEF PopLocal, IInv, TypeOK
<1> QED
  BY <1>2, LocalInv DEF PopLocal

\* The topmost activation is left, its caller becoming r.
LEMMA LeaveInv ==
  ASSUME IInv, depth > 0, NEW r, Leave(r),
         depth > 1 => /\ r \in Activation
                      /\ Same(r, Caller) /\ Shape(r) /\ Frames(r) = Frames(Caller)
                      /\ size' = Top.sp + Used(r) - Used(Caller)
                      /\ Caller.gcs <= gc' /\ Caller.ils <= ilist',
         depth = 1 => size' = Top.sp,
         mSize' = Top.base,
         mData' \in [0 .. CallstackCapacity - 1 ->
                 [mStackIndex : Nat, mCallee : Functions,
                  flags : {NoFlags, ReturnFlag}]],
         \A k \in 0 .. Top.base - 1 : mData'[k] = mData[k],
         gc' \in Nat, ilist' \in Nat,
         UNCHANGED <<mode, exc, caught>>
  PROVE  IInv'
<1>1. /\ depth \in 1 .. MaxDepth /\ depth \in Nat /\ depth - 1 \in 0 .. depth
      /\ act \in [1 .. MaxDepth -> Activation] /\ Blank \in Activation
      /\ Top = act[depth] /\ Top.base \in Nat /\ mSize \in Nat
      /\ mSize = Top.base + Frames(Top) /\ Frames(Top) \in Nat
      /\ mSize <= CallstackCapacity /\ CallstackCapacity \in Nat
      /\ depth = 1 \/ depth > 1
  <2>1. /\ depth \in 1 .. MaxDepth /\ Top \in Activation /\ Top = act[depth]
        /\ mSize = Top.base + Frames(Top)
    BY TopFacts
  <2>2. Top.base \in Nat /\ Frames(Top) \in Nat
    BY <2>1, OwnedTypes
  <2>3. depth \in Nat /\ depth - 1 \in 0 .. depth /\ (depth = 1 \/ depth > 1)
    BY <2>1, BoundsAssumption
  <2>4. /\ act \in [1 .. MaxDepth -> Activation] /\ mSize \in Nat
        /\ mSize <= CallstackCapacity /\ CallstackCapacity \in Nat
    BY BoundsAssumption DEF IInv, TypeOK
  <2> QED
    BY <2>1, <2>2, <2>3, <2>4, BlankType
<1>2. /\ depth' = depth - 1 /\ mSize' <= CallstackCapacity
      /\ exc' = (IF mode' = "unwind" THEN 1 ELSE 0) /\ mode' \in {"run", "unwind"}
      /\ caught' \in Catchers
  BY <1>1 DEF Leave, IInv, TypeOK, InFlight
<1>3. CASE depth = 1
  <2>1. Top.sp = 0 /\ Top.base = 0
    BY <1>1, <1>3 DEF IInv, Contiguous, StackTop, FrameTop
  <2>2. act' \in [1 .. MaxDepth -> Activation]
    BY <1>1, <1>3 DEF Leave
  <2>3. size' = StackTop(act', 0) /\ mSize' = FrameTop(act', 0)
    BY <2>1, <1>3 DEF StackTop, FrameTop
  <2>4. 0 \in 0 .. depth /\ depth' = 0
    BY <1>1, <1>2, <1>3
  <2> QED
    BY SMTT(30), <1>1, <1>2, <2>2, <2>3, <2>4, Settling
<1>4. CASE depth > 1
  <2> DEFINE d == depth - 1
  <2>1. /\ d \in 1 .. MaxDepth /\ Caller = act[d] /\ Caller \in Activation
        /\ Top.sp = Caller.sp + Used(Caller)
        /\ Top.base = Caller.base + Frames(Caller)
        /\ Frames(Caller) = 1 => mData[Caller.base] = FrameOf(Caller)
    BY <1>4, CallerFacts
  <2>2. /\ act' \in [1 .. MaxDepth -> Activation] /\ act'[d] = r
        /\ \A i \in 1 .. d - 1 : act'[i] = act[i]
    <3>1. depth # 1 /\ d \in 1 .. MaxDepth /\ d # depth
          /\ \A i \in 1 .. d - 1 : i \in 1 .. MaxDepth /\ i # d /\ i # depth
      BY <1>1, <1>4, <2>1, BoundsAssumption
    <3>2. act' = [act EXCEPT ![depth] = Blank, ![d] = r]
      BY <3>1 DEF Leave
    <3> HIDE DEF d
    <3> QED
      BY <1>1, <1>4, <3>1, <3>2
  <2>3. /\ r.sp = Caller.sp /\ r.base = Caller.base /\ FrameOf(r) = FrameOf(Caller)
        /\ Used(r) \in Nat /\ Used(Caller) \in Nat /\ Caller.sp \in Nat
        /\ Caller.base \in Nat /\ Frames(Caller) \in {0, 1} /\ Frames(r) = Frames(Caller)
    BY <1>4, <2>1, OwnedTypes DEF Same, FrameOf
  <2>4. size' = r.sp + Used(r) /\ mSize' = r.base + Frames(r)
    BY <1>4, <2>1, <2>3
  <2>5. size' = StackTop(act', d) /\ mSize' = FrameTop(act', d)
    BY <2>1, <2>2, <2>4 DEF StackTop, FrameTop
  <2>6. \A k \in 0 .. act[d].base - 1 : mData'[k] = mData[k]
    BY <2>1, <2>3
  <2>7. Frames(r) = 1 => mData'[r.base] = FrameOf(r)
    <3>1. Frames(r) = 1 => r.base \in 0 .. Top.base - 1
      BY <2>1, <2>3
    <3> QED
      BY <3>1, <2>1, <2>3
  <2>8. d > 0 /\ d \in 0 .. depth /\ depth' = d
    BY <1>1, <1>2, <1>4
  <2> HIDE DEF d
  <2> QED
    BY <1>1, <1>2, <1>4, <2>1, <2>2, <2>5, <2>6, <2>7, <2>8, Settling
<1> QED
  BY <1>1, <1>3, <1>4

\* What ends a node is given to the caller.
LEMMA GiveInv ==
  ASSUME IInv, depth > 0, Top.use \in NodeUses,
         Leave(Given(depth - 1, Top.use)),
         size' = Top.sp + Slots(depth - 1, Top.use),
         ilist' = ilist + Elements(depth - 1, Top.use), gc' = gc + 1,
         mSize' = Top.base,
         mData' \in [0 .. CallstackCapacity - 1 ->
                 [mStackIndex : Nat, mCallee : Functions,
                  flags : {NoFlags, ReturnFlag}]],
         \A k \in 0 .. Top.base - 1 : mData'[k] = mData[k],
         UNCHANGED <<mode, exc, caught>>
  PROVE  IInv'
<1> DEFINE r == Given(depth - 1, Top.use)
<1>1. depth > 1
  <2>1. depth = 1 => Top.use = "nothing"
    BY TopFacts DEF IInv, Nested
  <2> QED
    BY <2>1, TopFacts DEF NodeUses
<1>2. /\ depth - 1 \in 1 .. MaxDepth /\ Caller = act[depth - 1] /\ Caller \in Activation
      /\ Shape(Caller) /\ Below(Caller, Top) /\ Fits(Top, Caller)
      /\ Top.gcs <= gc /\ Top.ils <= ilist /\ Top \in Activation
  BY <1>1, CallerFacts, TopFacts
<1>3. Top.use \in Uses
  BY DEF NodeUses, Uses
<1>4. /\ r \in Activation /\ Same(r, Caller)
      /\ r.running = Caller.running /\ r.locals = Caller.locals
      /\ Used(r) = Used(Caller) + Slots(depth - 1, Top.use)
      /\ Frames(r) = Frames(Caller)
  BY <1>2, <1>3, GivenFacts
<1>5. Shape(r)
  <2>1. CASE Top.use = "operand"
    <3>1. r = Caller
      BY <2>1, <1>2 DEF Given, Activation
    <3> QED
      BY <3>1, <1>2
  <2>2. CASE Top.use = "argument"
    <3>1. Frames(Caller) = 0
      BY <2>2, <1>2 DEF Fits, Frames
    <3> QED
      BY <3>1, <1>2, <1>4 DEF Shape, Same
  <2> QED
    BY <2>1, <2>2 DEF NodeUses
<1> HIDE DEF r
<1>6. /\ Slots(depth - 1, Top.use) \in Nat /\ Elements(depth - 1, Top.use) \in Nat
  BY DEF Slots, Elements
<1>7. /\ Caller.gcs \in Nat /\ Top.gcs \in Nat /\ Caller.ils \in Nat /\ Top.ils \in Nat
      /\ gc \in Nat /\ ilist \in Nat /\ Used(Caller) \in Nat /\ Top.sp \in Nat
  BY <1>2, OwnedTypes DEF IInv, TypeOK
<1>8. gc' \in Nat /\ ilist' \in Nat /\ Caller.gcs <= gc' /\ Caller.ils <= ilist'
  <2>1. Caller.gcs <= Top.gcs /\ Caller.ils <= Top.ils
    BY <1>2 DEF Below
  <2>2. Caller.gcs <= gc /\ Caller.ils <= ilist
    BY SMTT(30), <2>1, <1>2, <1>7
  <2>3. gc' = gc + 1 /\ ilist' = ilist + Elements(depth - 1, Top.use)
    OBVIOUS
  <2>4. gc' \in Nat /\ Caller.gcs <= gc'
    BY <2>2, <2>3, <1>7, SMTT(30)
  <2>5. ilist' \in Nat /\ Caller.ils <= ilist'
    BY <2>2, <2>3, <1>6, <1>7, SMTT(30)
  <2> QED
    BY <2>4, <2>5
<1>9. size' = Top.sp + Used(r) - Used(Caller)
  BY <1>4, <1>6, <1>7
<1>10. Leave(r) /\ (depth = 1 => size' = Top.sp)
  BY <1>1 DEF r
<1> QED
  BY <1>4, <1>5, <1>8, <1>9, <1>10, LeaveInv

LEMMA EndListInv ==
  ASSUME IInv, EndList
  PROVE  IInv'
<1>1. depth > 0 /\ Top.kind = "list"
  BY DEF EndList, InList
<1>2. Top \in Activation /\ size = Top.sp + Used(Top) /\ mSize = Top.base + Frames(Top)
  BY <1>1, TopFacts
<1>3. size = Top.sp /\ mSize = Top.base
  BY <1>1, <1>2, OwnedTypes DEF Used, Frames
<1>4. Top.use \in NodeUses
  BY <1>1, TopFacts DEF Shape
<1>5. /\ gc' = gc + 1 /\ size' = Top.sp + Slots(depth - 1, Top.use)
      /\ ilist' = ilist + Elements(depth - 1, Top.use) /\ mSize' = Top.base
      /\ Leave(Given(depth - 1, Top.use)) /\ UNCHANGED <<mData, mode, exc, caught>>
  BY <1>3 DEF EndList
<1> QED
  BY <1>1, <1>4, <1>5, GiveInv DEF IInv, TypeOK

LEMMA EndEvalInv ==
  ASSUME IInv, EndEval
  PROVE  IInv'
<1>1. /\ depth > 0 /\ Top.kind = "eval" /\ UNCHANGED <<mSize, mData, gc, ilist, mode, exc, caught>>
      /\ size' = IF Top.use = "nothing" THEN size ELSE size + 1
  BY DEF EndEval, Dropped, Dropping
<1>2. /\ Top \in Activation /\ size = Top.sp + Used(Top) /\ mSize = Top.base + Frames(Top)
      /\ Shape(Top) /\ Top.gcs <= gc /\ Top.ils <= ilist
  BY <1>1, TopFacts
<1>3. size = Top.sp /\ mSize = Top.base /\ Top.use \in {"nothing", "push", "delegate"}
  BY <1>1, <1>2, OwnedTypes DEF Used, Frames, Shape
<1>4. /\ gc \in Nat /\ ilist \in Nat /\ gc' \in Nat /\ ilist' \in Nat
      /\ mData' \in [0 .. CallstackCapacity - 1 ->
                 [mStackIndex : Nat, mCallee : Functions,
                  flags : {NoFlags, ReturnFlag}]]
      /\ \A k \in 0 .. Top.base - 1 : mData'[k] = mData[k]
      /\ depth = 1 => Top.use = "nothing"
  BY <1>1, TopFacts DEF IInv, TypeOK, Nested
<1>5. depth > 1 =>
        /\ Caller \in Activation /\ Shape(Caller) /\ Fits(Top, Caller)
        /\ Caller.gcs <= gc' /\ Caller.ils <= ilist'
  <2> SUFFICES ASSUME depth > 1
               PROVE  /\ Caller \in Activation /\ Shape(Caller) /\ Fits(Top, Caller)
                      /\ Caller.gcs <= gc' /\ Caller.ils <= ilist'
    OBVIOUS
  <2>1. Caller \in Activation /\ Below(Caller, Top) /\ Shape(Caller) /\ Fits(Top, Caller)
    BY CallerFacts
  <2>2. Caller.gcs \in Nat /\ Caller.ils \in Nat /\ Top.gcs \in Nat /\ Top.ils \in Nat
    BY <2>1, <1>2, OwnedTypes
  <2>3. Caller.gcs <= Top.gcs /\ Caller.ils <= Top.ils
    BY <2>1 DEF Below
  <2> QED
    BY <2>1, <2>2, <2>3, <1>1, <1>2, <1>4
<1>6. CASE Top.use = "nothing"
  <2>1. Leave(Caller) /\ size' = Top.sp
    BY <1>1, <1>3, <1>6 DEF EndEval, Dropped
  <2>2. depth > 1 => Same(Caller, Caller) /\ size' = Top.sp + Used(Caller) - Used(Caller)
    BY <2>1, <1>2, <1>5, OwnedTypes DEF Same
  <2> QED
    BY <2>1, <2>2, <1>1, <1>3, <1>4, <1>5, LeaveInv
<1>7. CASE Top.use = "push"
  <2> DEFINE r == [Caller EXCEPT !.locals = @ + 1]
  <2>1. Leave(r) /\ size' = Top.sp + 1 /\ (depth = 1 => FALSE)
    BY <1>1, <1>3, <1>4, <1>7 DEF EndEval, Dropped
  <2>2. depth > 1
    BY <2>1, <1>1, TopFacts
  <2>3. Caller.kind = "call" /\ Caller.running /\ Caller \in Activation
    BY <1>5, <1>7, <2>2 DEF Fits
  <2>4. /\ r \in Activation /\ Same(r, Caller) /\ r.locals = Caller.locals + 1
        /\ r.running = Caller.running /\ r.pushed = Caller.pushed
    <3>1. Caller.locals + 1 \in Nat
      BY <2>3, OwnedTypes
    <3> QED
      BY <2>3, <3>1 DEF Activation, Same
  <2> HIDE DEF r
  <2>5. Frames(r) = Frames(Caller) /\ Shape(r)
    BY <1>5, <2>2, <2>3, <2>4 DEF Frames, Shape, Same
  <2>6. Used(r) = Used(Caller) + 1
    BY <2>3, <2>4, OwnedTypes DEF Used, Same
  <2>7. size' = Top.sp + Used(r) - Used(Caller)
    BY <2>1, <2>3, <2>6, <1>2, OwnedTypes
  <2> QED
    BY <2>1, <2>2, <2>4, <2>5, <2>7, <1>1, <1>3, <1>4, <1>5, LeaveInv
<1>8. CASE Top.use = "delegate"
  <2> DEFINE r == [Caller EXCEPT !.pushed = @ + 1]
  <2>1. Leave(r) /\ size' = Top.sp + 1 /\ (depth = 1 => FALSE)
    BY <1>1, <1>3, <1>4, <1>8 DEF EndEval, Dropped
  <2>2. depth > 1
    BY <2>1, <1>1, TopFacts
  <2>3. Caller.kind = "call" /\ ~Caller.running /\ Caller \in Activation
    BY <1>5, <1>8, <2>2 DEF Fits
  <2>4. /\ r \in Activation /\ Same(r, Caller) /\ r.pushed = Caller.pushed + 1
        /\ r.running = Caller.running /\ r.locals = Caller.locals
    <3>1. Caller.pushed + 1 \in Nat
      BY <2>3, OwnedTypes
    <3> QED
      BY <2>3, <3>1 DEF Activation, Same
  <2> HIDE DEF r
  <2>5. Frames(r) = Frames(Caller) /\ Shape(r)
    BY <1>5, <2>2, <2>3, <2>4 DEF Frames, Shape, Same
  <2>6. Used(r) = Used(Caller) + 1
    BY <2>3, <2>4, OwnedTypes DEF Used, Same
  <2>7. size' = Top.sp + Used(r) - Used(Caller)
    BY <2>1, <2>3, <2>6, <1>2, OwnedTypes
  <2> QED
    BY <2>1, <2>2, <2>4, <2>5, <2>7, <1>1, <1>3, <1>4, <1>5, LeaveInv
<1> QED
  BY <1>3, <1>6, <1>7, <1>8

\* What an exception leaves of both stacks is what was there when the activation
\* it leaves began.
LEMMA UnwindFacts ==
  ASSUME IInv, Unwind
  PROVE  depth > 0 /\ size' = Top.sp /\ mSize' = Top.base
<1>1. /\ depth > 0 /\ mode = "unwind" /\ Leave(Caller)
      /\ UNCHANGED <<mData, gc, ilist, mode, exc, caught>>
  BY DEF Unwind
<1>2. /\ Top \in Activation /\ size = Top.sp + Used(Top) /\ mSize = Top.base + Frames(Top)
      /\ Top.gcs <= gc /\ Top.ils <= ilist
  BY <1>1, TopFacts
<1>3. exc = 1
  BY <1>1 DEF IInv, InFlight
<1>4. size' = Top.sp /\ mSize' = Top.base
  <2>1. CASE Top.kind = "call"
    <3>1. Used(Top) \in Nat /\ Used(Top) >= 1 /\ Top.sp \in Nat /\ Top.base \in Nat
      BY <1>2, <2>1, OwnedTypes DEF Used
    <3>2. Frames(Top) = IF Top.running THEN 1 ELSE 0
      BY <2>1 DEF Frames
    <3>3. size' = Top.sp
      BY <1>2, <1>3, <2>1, <3>1 DEF Unwind, StackAfterInvoker
    <3>4. mSize' = Top.base
      BY <1>2, <1>3, <2>1, <3>1, <3>2 DEF Unwind, CallstackAfterInvoker
    <3> QED
      BY <3>3, <3>4
  <2>2. CASE Top.kind # "call"
    BY <1>2, <2>2, OwnedTypes DEF Unwind, Used, Frames
  <2> QED
    BY <2>1, <2>2
<1> QED
  BY <1>1, <1>4

LEMMA UnwindInv ==
  ASSUME IInv, Unwind
  PROVE  IInv'
<1>1. /\ depth > 0 /\ mode = "unwind" /\ Leave(Caller)
      /\ UNCHANGED <<mData, gc, ilist, mode, exc, caught>>
  BY DEF Unwind
<1>2. /\ Top \in Activation /\ Top.gcs <= gc /\ Top.ils <= ilist
  BY <1>1, TopFacts
<1>4. size' = Top.sp /\ mSize' = Top.base
  BY UnwindFacts
<1>5. /\ gc \in Nat /\ ilist \in Nat /\ gc' \in Nat /\ ilist' \in Nat
      /\ mData' \in [0 .. CallstackCapacity - 1 ->
                 [mStackIndex : Nat, mCallee : Functions,
                  flags : {NoFlags, ReturnFlag}]]
      /\ \A k \in 0 .. Top.base - 1 : mData'[k] = mData[k]
  BY <1>1 DEF IInv, TypeOK
<1>6. depth > 1 =>
        /\ Caller \in Activation /\ Same(Caller, Caller) /\ Shape(Caller)
        /\ size' = Top.sp + Used(Caller) - Used(Caller)
        /\ Caller.gcs <= gc' /\ Caller.ils <= ilist'
  <2> SUFFICES ASSUME depth > 1
               PROVE  /\ Caller \in Activation /\ Same(Caller, Caller) /\ Shape(Caller)
                      /\ size' = Top.sp + Used(Caller) - Used(Caller)
                      /\ Caller.gcs <= gc' /\ Caller.ils <= ilist'
    OBVIOUS
  <2>1. Caller \in Activation /\ Below(Caller, Top) /\ Shape(Caller)
    BY CallerFacts
  <2>2. /\ Caller.gcs \in Nat /\ Caller.ils \in Nat /\ Top.gcs \in Nat /\ Top.ils \in Nat
        /\ Used(Caller) \in Nat /\ Top.sp \in Nat
    BY <2>1, <1>2, OwnedTypes
  <2>3. Caller.gcs <= Top.gcs /\ Caller.ils <= Top.ils
    BY <2>1 DEF Below
  <2>4. Same(Caller, Caller)
    BY DEF Same
  <2> QED
    BY <2>1, <2>2, <2>3, <2>4, <1>1, <1>2, <1>4, <1>5
<1> QED
  BY <1>1, <1>4, <1>5, <1>6, LeaveInv

LEMMA ThrowCatchInv ==
  ASSUME IInv, Throw \/ Catch
  PROVE  IInv'
<1>1. CASE Throw
  BY <1>1, RaiseInv DEF Throw
<1>2. CASE Catch
  <2>1. mode' = "run" /\ exc' = 0 /\ caught' \in Catchers
    BY <1>2 DEF Catch, IInv, InFlight, Catchers
  <2> QED
    BY <1>2, <2>1, StillInv DEF Catch
<1> QED
  BY <1>1, <1>2

\* The end of a call restores both stacks, ahead of what its caller does.
LEMMA EndCallFacts ==
  ASSUME IInv, NEW flags \in {NoFlags, ReturnFlag}, EndCall(flags)
  PROVE  /\ depth > 0 /\ Top \in Activation
         /\ Top.kind = "call" /\ Top.running
         /\ mSize = Top.base + 1
         /\ mData[mSize - 1] = FrameOf(Top)
         /\ StackAfterInvoker(size - Argc[mData[mSize - 1].mCallee] - 1) = Top.sp
         /\ mSize' = Top.base
         /\ mData' \in [0 .. CallstackCapacity - 1 ->
                 [mStackIndex : Nat, mCallee : Functions,
                  flags : {NoFlags, ReturnFlag}]]
         /\ \A k \in 0 .. Top.base - 1 : mData'[k] = mData[k]
         /\ UNCHANGED <<mode, exc, caught>>
<1>1. /\ depth > 0 /\ Top.kind = "call" /\ Top.running /\ Top.locals = 0
      /\ mode = "run" /\ UNCHANGED <<mode, exc, caught>>
      /\ mData' = [mData EXCEPT ![mSize - 1].flags = flags]
      /\ mSize' = CallstackAfterInvoker(mSize - 1)
  BY DEF EndCall, InNative, InScript, Running
<1>2. /\ Top \in Activation /\ size = Top.sp + Used(Top) /\ mSize = Top.base + Frames(Top)
      /\ Shape(Top) /\ (Frames(Top) = 1 => mData[Top.base] = FrameOf(Top))
  BY <1>1, TopFacts
<1>3. Frames(Top) = 1 /\ Used(Top) = 1 + Top.pushed /\ Top.pushed = Argc[Top.fn]
  BY <1>1, <1>2, OwnedTypes DEF Frames, Used, Shape
<1>4. /\ Top.base \in Nat /\ Top.sp \in Nat /\ Argc[Top.fn] \in Nat
      /\ mSize \in 0 .. CallstackCapacity /\ CallstackCapacity \in Nat
  BY <1>2, OwnedTypes, FunctionsAssumption, BoundsAssumption DEF IInv, TypeOK
<1>5. mSize = Top.base + 1 /\ mSize - 1 = Top.base
      /\ mSize - 1 \in 0 .. CallstackCapacity - 1
  BY <1>2, <1>3, <1>4
<1>6. mData[mSize - 1] = FrameOf(Top) /\ mData[mSize - 1].mCallee = Top.fn
  BY <1>2, <1>3, <1>5 DEF FrameOf
<1>7. exc = 0
  BY <1>1 DEF IInv, InFlight
<1>8. StackAfterInvoker(size - Argc[mData[mSize - 1].mCallee] - 1) = Top.sp
  BY <1>2, <1>3, <1>4, <1>6, <1>7 DEF StackAfterInvoker
<1>9. mSize' = Top.base
  BY <1>1, <1>5, <1>7 DEF CallstackAfterInvoker
<1>10. mData' \in [0 .. CallstackCapacity - 1 ->
                 [mStackIndex : Nat, mCallee : Functions,
                  flags : {NoFlags, ReturnFlag}]]
  <2> DEFINE I == 0 .. CallstackCapacity - 1
             F == {NoFlags, ReturnFlag}
             R == [mStackIndex : Nat, mCallee : Functions, flags : F]
             k == mSize - 1
  <2>1. mData \in [I -> R] /\ k \in I /\ flags \in F
    BY <1>5 DEF IInv, TypeOK
  <2>2. mData' = [mData EXCEPT ![k] = [mData[k] EXCEPT !.flags = flags]]
    BY <1>1
  <2> HIDE DEF I, F, k
  <2>3. [mData[k] EXCEPT !.flags = flags] \in R
    BY <2>1
  <2> HIDE DEF R
  <2>4. mData' \in [I -> R]
    BY <2>1, <2>2, <2>3
  <2> QED BY <2>4 DEF I, R, F
<1>11. \A k \in 0 .. Top.base - 1 : mData'[k] = mData[k]
  BY <1>1, <1>4, <1>5 DEF IInv, TypeOK
<1> QED
  BY <1>1, <1>2, <1>5, <1>6, <1>8, <1>9, <1>10, <1>11

LEMMA EndCallInv ==
  ASSUME IInv, NEW flags \in {NoFlags, ReturnFlag}, EndCall(flags)
  PROVE  IInv'
<1>1. /\ depth > 0 /\ Top \in Activation /\ Top.kind = "call"
      /\ mSize' = Top.base
      /\ mData' \in [0 .. CallstackCapacity - 1 ->
                 [mStackIndex : Nat, mCallee : Functions,
                  flags : {NoFlags, ReturnFlag}]]
      /\ \A k \in 0 .. Top.base - 1 : mData'[k] = mData[k]
      /\ UNCHANGED <<mode, exc, caught>>
      /\ StackAfterInvoker(size - Argc[mData[mSize - 1].mCallee] - 1) = Top.sp
  BY EndCallFacts
<1>2. /\ Top.gcs <= gc /\ Top.ils <= ilist /\ gc \in Nat /\ ilist \in Nat
      /\ Top.gcs \in Nat /\ Top.ils \in Nat /\ Top.sp \in Nat
  BY <1>1, TopFacts, OwnedTypes DEF IInv, TypeOK
<1>3. depth = 1 => Top.use = "nothing"
  BY <1>1, TopFacts DEF IInv, Nested
<1>4. depth > 1 =>
        /\ Caller \in Activation /\ Same(Caller, Caller) /\ Shape(Caller)
        /\ Fits(Top, Caller) /\ Below(Caller, Top)
        /\ Caller.gcs \in Nat /\ Caller.ils \in Nat
        /\ Caller.gcs <= Top.gcs /\ Caller.ils <= Top.ils
        /\ Caller.gcs <= gc /\ Caller.ils <= ilist
        /\ Top.sp = Top.sp + Used(Caller) - Used(Caller)
  <2> SUFFICES ASSUME depth > 1
               PROVE  /\ Caller \in Activation /\ Same(Caller, Caller) /\ Shape(Caller)
                      /\ Fits(Top, Caller) /\ Below(Caller, Top)
                      /\ Caller.gcs \in Nat /\ Caller.ils \in Nat
                      /\ Caller.gcs <= Top.gcs /\ Caller.ils <= Top.ils
                      /\ Caller.gcs <= gc /\ Caller.ils <= ilist
                      /\ Top.sp = Top.sp + Used(Caller) - Used(Caller)
    OBVIOUS
  <2>1. Caller \in Activation /\ Below(Caller, Top) /\ Shape(Caller) /\ Fits(Top, Caller)
    BY CallerFacts
  <2>2. Caller.gcs \in Nat /\ Caller.ils \in Nat /\ Used(Caller) \in Nat
    BY <2>1, OwnedTypes
  <2>3. Caller.gcs <= Top.gcs /\ Caller.ils <= Top.ils
    BY <2>1 DEF Below
  <2>4. Same(Caller, Caller)
    BY DEF Same
  <2>5. Caller.gcs <= gc /\ Caller.ils <= ilist
    BY <2>2, <2>3, <1>2
  <2>6. Top.sp = Top.sp + Used(Caller) - Used(Caller)
    BY <2>2, <1>2
  <2> QED
    BY <2>1, <2>2, <2>3, <2>4, <2>5, <2>6
<1>5. CASE Top.use \in NodeUses
  <2>1. /\ gc' = gc + 1
        /\ size' = Top.sp + Slots(depth - 1, Top.use)
        /\ ilist' = ilist + Elements(depth - 1, Top.use)
        /\ Leave(Given(depth - 1, Top.use))
    BY <1>1, <1>5 DEF EndCall, NodeUses
  <2> QED
    BY <2>1, <1>1, <1>5, GiveInv
<1>6. CASE Top.use = "pop"
  <2> DEFINE r == [Caller EXCEPT !.locals = @ - 1]
  <2>1. size' = Top.sp - 1 /\ Leave(r) /\ UNCHANGED <<gc, ilist>>
    BY <1>1, <1>6 DEF EndCall, NodeUses
  <2>2. depth > 1 /\ (depth = 1 => FALSE)
    BY <1>1, <1>3, <1>6, TopFacts
  <2>3. Caller.kind = "call" /\ Caller.running /\ Caller \in Activation
        /\ Caller.locals > 0 /\ Shape(Caller)
    BY <1>4, <1>6, <2>2 DEF Fits
  <2>4. /\ r \in Activation /\ Same(r, Caller) /\ r.locals = Caller.locals - 1
        /\ r.running = Caller.running /\ r.pushed = Caller.pushed
    <3>1. Caller.locals - 1 \in Nat
      BY <2>3, OwnedTypes
    <3> QED
      BY <2>3, <3>1 DEF Activation, Same
  <2> HIDE DEF r
  <2>5. Frames(r) = Frames(Caller) /\ Shape(r)
    BY <2>3, <2>4 DEF Frames, Shape, Same
  <2>6. Used(r) = Used(Caller) - 1
    BY <2>3, <2>4, OwnedTypes DEF Used, Same
  <2>7. size' = Top.sp + Used(r) - Used(Caller)
    BY <2>1, <2>3, <2>6, <1>2, OwnedTypes
  <2>8. gc' \in Nat /\ ilist' \in Nat /\ Caller.gcs <= gc' /\ Caller.ils <= ilist'
    BY <2>1, <2>2, <1>2, <1>4
  <2> QED
    BY <2>1, <2>2, <2>4, <2>5, <2>7, <2>8, <1>1, LeaveInv
<1>7. CASE Top.use = "dropTemp"
  <2>1. size' = Top.sp /\ Leave(Caller) /\ gc' = gc - 1 /\ UNCHANGED ilist
    BY <1>1, <1>7 DEF EndCall, NodeUses
  <2>2. depth > 1
    BY <1>1, <1>3, <1>7, TopFacts
  <2>3. Caller.gcs < Top.gcs
    BY <1>4, <1>7, <2>2 DEF Below
  <2>4. gc' \in Nat /\ ilist' \in Nat /\ Caller.gcs <= gc' /\ Caller.ils <= ilist'
    BY <2>1, <2>2, <2>3, <1>2, <1>4
  <2> QED
    BY <2>1, <2>2, <2>4, <1>1, <1>4, LeaveInv
<1>8. CASE Top.use = "dropElement"
  <2>1. size' = Top.sp /\ Leave(Caller) /\ ilist' = ilist - 1 /\ UNCHANGED gc
    BY <1>1, <1>8 DEF EndCall, NodeUses
  <2>2. depth > 1
    BY <1>1, <1>3, <1>8, TopFacts
  <2>3. Caller.ils < Top.ils
    BY <1>4, <1>8, <2>2 DEF Below
  <2>4. gc' \in Nat /\ ilist' \in Nat /\ Caller.gcs <= gc' /\ Caller.ils <= ilist'
    BY <2>1, <2>2, <2>3, <1>2, <1>4
  <2> QED
    BY <2>1, <2>2, <2>4, <1>1, <1>4, LeaveInv
<1>9. CASE Top.use \notin NodeUses \cup {"pop", "dropTemp", "dropElement"}
  <2>1. size' = Top.sp /\ Leave(Caller) /\ UNCHANGED <<gc, ilist>>
    BY <1>1, <1>9 DEF EndCall
  <2>2. gc' \in Nat /\ ilist' \in Nat
        /\ (depth > 1 => Caller.gcs <= gc' /\ Caller.ils <= ilist')
    BY <2>1, <1>2, <1>4
  <2> QED
    BY <2>1, <2>2, <1>1, <1>4, LeaveInv
<1> QED
  BY <1>5, <1>6, <1>7, <1>8, <1>9

-----------------------------------------------------------------------------
(* The theorems *)

LEMMA InitInv == Init => IInv
<1> SUFFICES ASSUME Init PROVE IInv
  OBVIOUS
<1>1. TypeOK
  <2>1. AnyFunction \in Functions
    BY FunctionsAssumption DEF AnyFunction
  <2>2. act \in [1 .. MaxDepth -> Activation]
    BY BlankType DEF Init
  <2>3. mData \in [0 .. CallstackCapacity - 1 ->
                 [mStackIndex : Nat, mCallee : Functions,
                  flags : {NoFlags, ReturnFlag}]]
    BY <2>1 DEF Init
  <2> QED
    BY <2>2, <2>3, BoundsAssumption DEF Init, TypeOK, Catchers
<1>2. Contiguous /\ Ordered /\ Marks /\ Shapes /\ Owned /\ Nested /\ InFlight
  BY DEF Init, Contiguous, StackTop, FrameTop, Ordered, Marks, Shapes, Owned,
         Nested, InFlight
<1> QED
  BY <1>1, <1>2 DEF IInv

LEMMA NextInv == IInv /\ [Next]_vars => IInv'
<1> SUFFICES ASSUME IInv, [Next]_vars PROVE IInv'
  OBVIOUS
<1>1. CASE UNCHANGED vars
  <2>1. exc' = (IF mode' = "unwind" THEN 1 ELSE 0) /\ mode' \in {"run", "unwind"}
        /\ caught' \in Catchers
    BY <1>1 DEF vars, IInv, TypeOK, InFlight
  <2> QED
    BY <1>1, <2>1, StillInv DEF vars
<1>2. ASSUME NEW f \in Functions,
             \/ Invoke(f)
             \/ DestroyTemporary(f)
             \/ BeginDelegate(f)
             \/ \E use \in NodeUses, n \in {0, 1} : BeginCall(f, use, n)
             \/ (\E use \in {"nothing", "pop"} : DestroyValue(f, use))
             \/ (\E use \in NodeUses : Copy(f, use))
      PROVE  IInv'
  BY <1>2, InvokeInv, DestroyTemporaryInv, BeginDelegateInv, BeginCallInv,
     DestroyValueInv, CopyInv
<1>3. ASSUME NEW use \in {"nothing", "push", "delegate"}, BeginEval(use) PROVE IInv'
  BY <1>3, BeginEvalInv
<1>4. ASSUME NEW flags \in {NoFlags, ReturnFlag}, EndCall(flags) PROVE IInv'
  BY <1>4, EndCallInv
<1>5. ASSUME NEW use \in NodeUses, Leaf(use) \/ BeginList(use) PROVE IInv'
  BY <1>5, LeafInv, BeginListInv
<1>6. CASE EnterBody \/ EndList \/ FinishEval \/ Drop \/ EndEval \/ PushStatic \/ PopLocal
  BY <1>6, EnterBodyInv, EndListInv, FinishEvalInv, DropInv, EndEvalInv,
     PushStaticInv, PopLocalInv
<1>7. CASE Throw \/ Unwind \/ Catch
  BY <1>7, ThrowCatchInv, UnwindInv
<1> QED
  BY <1>1, <1>2, <1>3, <1>4, <1>5, <1>6, <1>7 DEF Next

\* How the activations tile the two stacks, in every reachable state.
THEOREM Invariance == Spec => []IInv
BY InitInv, NextInv, PTL DEF Spec

\* The state keeps its types: in particular no size wraps below zero and the
\* callstack stays within its capacity (Callstack::push, pop; Stack::pop).
THEOREM TypeCorrect == Spec => []TypeOK
<1>1. IInv => TypeOK
  BY DEF IInv
<1> QED
  BY <1>1, Invariance, PTL

\* Both stacks are empty again whenever the interpreter is idle, however the
\* calls ended (Invoker, ExecutionContext::pop).
THEOREM StacksAreBalanced == Spec => []StacksBalanced
<1>1. IInv => StacksBalanced
  BY DEF IInv, Contiguous, StackTop, FrameTop, StacksBalanced
<1> QED
  BY <1>1, Invariance, PTL

\* The activation that owns a frame, and where its slots lie.
LEMMA OwnerOf ==
  ASSUME IInv, NEW k \in 0 .. mSize - 1
  PROVE  \E i \in 1 .. depth :
           /\ act[i] \in Activation /\ act[i].kind = "call" /\ act[i].running
           /\ act[i].base = k /\ mData[k] = FrameOf(act[i])
           /\ Used(act[i]) >= 1 + Argc[act[i].fn]
<1>1. PICK i \in 1 .. depth : Frames(act[i]) = 1 /\ act[i].base = k
  BY DEF IInv, Owned
<1>2. act[i] \in Activation
  BY BoundsAssumption DEF IInv, TypeOK
<1>3. act[i].kind = "call" /\ act[i].running
  BY <1>1, <1>2 DEF Frames
<1>4. Shape(act[i]) /\ mData[k] = FrameOf(act[i])
  BY <1>1 DEF IInv, Shapes
<1>5. act[i].pushed = Argc[act[i].fn] /\ act[i].locals \in Nat /\ act[i].pushed \in Nat
  BY <1>1, <1>2, <1>4, OwnedTypes DEF Shape
<1>6. Used(act[i]) >= 1 + Argc[act[i].fn]
  BY <1>3, <1>5 DEF Used
<1> QED
  BY <1>1, <1>2, <1>3, <1>4, <1>6

\* Frames are stacked in the order of their activations.
LEMMA OwnersOrdered ==
  ASSUME IInv, NEW i \in 1 .. depth, NEW j \in 1 .. depth,
         Frames(act[j]) = 1, act[i].base < act[j].base
  PROVE  i < j
<1>1. act[i] \in Activation /\ act[j] \in Activation /\ depth \in Nat
  BY BoundsAssumption DEF IInv, TypeOK
<1>2. act[i].base \in Nat /\ act[j].base \in Nat
  BY <1>1, OwnedTypes
<1>3. SUFFICES ASSUME j < i \/ j = i PROVE FALSE
  BY <1>1
<1>4. CASE j = i
  BY <1>2, <1>4
<1>5. CASE j < i
  <2>1. act[j].base + Frames(act[j]) <= act[i].base
    BY <1>5 DEF IInv, Ordered, Below
  <2> QED
    BY <2>1, <1>2
<1> QED
  BY <1>3, <1>4, <1>5

LEMMA DisjointFrames == IInv => FramesDisjoint
<1> SUFFICES ASSUME IInv PROVE FramesDisjoint
  OBVIOUS
<1>0. /\ mSize \in Nat /\ size \in Nat
      /\ \A a \in Activation : Argc[a.fn] \in Nat
  BY FunctionsAssumption, OwnedTypes DEF IInv, TypeOK
<1>1. ASSUME NEW k \in 1 .. mSize - 1
      PROVE  mData[k - 1].mStackIndex + Argc[mData[k - 1].mCallee] < mData[k].mStackIndex
  <2>1. k - 1 \in 0 .. mSize - 1 /\ k \in 0 .. mSize - 1 /\ k - 1 < k
    BY <1>0
  <2>2. PICK i \in 1 .. depth :
           /\ act[i] \in Activation /\ act[i].kind = "call" /\ act[i].running
           /\ act[i].base = k - 1 /\ mData[k - 1] = FrameOf(act[i])
           /\ Used(act[i]) >= 1 + Argc[act[i].fn]
    BY <2>1, OwnerOf
  <2>3. PICK j \in 1 .. depth :
           /\ act[j] \in Activation /\ act[j].kind = "call" /\ act[j].running
           /\ act[j].base = k /\ mData[k] = FrameOf(act[j])
           /\ Used(act[j]) >= 1 + Argc[act[j].fn]
    BY <2>1, OwnerOf
  <2>4. i < j
    BY <2>1, <2>2, <2>3, OwnersOrdered DEF Frames
  <2>5. act[i].sp + Used(act[i]) <= act[j].sp
    BY <2>4 DEF IInv, Ordered, Below
  <2>6. act[i].sp \in Nat /\ act[j].sp \in Nat /\ Used(act[i]) \in Nat
        /\ Argc[act[i].fn] \in Nat
    BY <1>0, <2>2, <2>3, OwnedTypes
  <2>7. act[i].sp + Argc[act[i].fn] < act[j].sp
    BY <2>2, <2>5, <2>6
  <2> QED
    BY <2>2, <2>3, <2>7 DEF FrameOf
<1>2. ASSUME mSize > 0
      PROVE  mData[mSize - 1].mStackIndex + Argc[mData[mSize - 1].mCallee] < size
  <2>1. mSize - 1 \in 0 .. mSize - 1
    BY <1>0, <1>2
  <2>2. PICK i \in 1 .. depth :
           /\ act[i] \in Activation /\ act[i].kind = "call" /\ act[i].running
           /\ act[i].base = mSize - 1 /\ mData[mSize - 1] = FrameOf(act[i])
           /\ Used(act[i]) >= 1 + Argc[act[i].fn]
    BY <2>1, OwnerOf
  <2>3. act[i].sp + Used(act[i]) <= size
    BY WithinStacks
  <2>4. act[i].sp \in Nat /\ Used(act[i]) \in Nat /\ Argc[act[i].fn] \in Nat
    BY <1>0, <2>2, OwnedTypes
  <2>5. act[i].sp + Argc[act[i].fn] < size
    BY <1>0, <2>2, <2>3, <2>4
  <2> QED
    BY <2>2, <2>5 DEF FrameOf
<1> QED
  BY <1>1, <1>2 DEF FramesDisjoint

\* The frames own disjoint regions of the data stack (FunctionCall::arg,
\* visit(StackValue)).
THEOREM FramesAreDisjoint == Spec => []FramesDisjoint
BY DisjointFrames, Invariance, PTL

LEMMA InnermostOnTop == IInv => TopIsInnermostBody
<1> SUFFICES ASSUME IInv, NEW i \in 1 .. depth,
                    act[i].kind = "call", act[i].running,
                    \A j \in i + 1 .. depth : ~act[j].running
             PROVE  /\ mData[mSize - 1].mStackIndex = act[i].sp
                    /\ mData[mSize - 1].mCallee = act[i].fn
  BY DEF TopIsInnermostBody
<1>0. /\ mSize \in Nat /\ depth \in Nat /\ act[i] \in Activation
      /\ act[i].base \in Nat /\ Frames(act[i]) = 1
  BY OwnedTypes, BoundsAssumption DEF IInv, TypeOK, Frames
<1>1. act[i].base + 1 <= mSize
  BY <1>0, WithinStacks
<1>2. mSize - 1 \in 0 .. mSize - 1
  BY <1>0, <1>1
<1>3. PICK j \in 1 .. depth :
         /\ act[j] \in Activation /\ act[j].kind = "call" /\ act[j].running
         /\ act[j].base = mSize - 1 /\ mData[mSize - 1] = FrameOf(act[j])
         /\ Used(act[j]) >= 1 + Argc[act[j].fn]
  BY <1>2, OwnerOf
<1>4. i = j
  <2>1. ~(i < j)
    BY <1>0, <1>3
  <2>2. ~(j < i)
    <3> SUFFICES ASSUME j < i PROVE FALSE
      OBVIOUS
    <3>1. act[j].base + Frames(act[j]) <= act[i].base
      BY DEF IInv, Ordered, Below
    <3>2. Frames(act[j]) = 1
      BY <1>3 DEF Frames
    <3> QED
      BY <3>1, <3>2, <1>0, <1>1, <1>3
  <2> QED
    BY <2>1, <2>2, <1>0
<1> QED
  BY <1>3, <1>4 DEF FrameOf

\* callstack.top() is the frame of the innermost body (StackValue), also while
\* the arguments of further calls are evaluated (Invoker::preparing).
THEOREM InnermostBodyOnTop == Spec => []TopIsInnermostBody
BY InnermostOnTop, Invariance, PTL

\* No body starts with the flags of an earlier call (Callstack::push).
THEOREM FlagsAreFresh == Spec => []NoStaleFlags
<1>1. ASSUME IInv, NEW i \in 1 .. depth, act[i].kind = "call", act[i].running
      PROVE  mData[act[i].base].flags = NoFlags
  <2>1. Frames(act[i]) = 1
    BY <1>1 DEF Frames
  <2>2. mData[act[i].base] = FrameOf(act[i])
    BY <1>1, <2>1 DEF IInv, Shapes
  <2> QED
    BY <2>2 DEF FrameOf
<1>2. IInv => NoStaleFlags
  BY <1>1 DEF NoStaleFlags
<1> QED
  BY <1>2, Invariance, PTL

\* The frames are what every body relies on (StackValue, FunctionCall::arg).
THEOREM FramesAreRight == Spec => []FramesAreSound
BY FramesAreDisjoint, InnermostBodyOnTop, FlagsAreFresh, PTL DEF FramesAreSound

\* An eval never drops the temporaries of the evals around it
\* (Interpreter::eval).
THEOREM OuterBuffersKept == Spec => []BuffersOfOuterEvals
<1>1. IInv => BuffersOfOuterEvals
  BY DEF IInv, Marks, BuffersOfOuterEvals
<1> QED
  BY <1>1, Invariance, PTL

LEMMA StepIsTransparent ==
  ASSUME IInv, [Next]_vars, depth' < depth
  PROVE  mSize' = Top.base /\ (mode = "unwind" => size' = Top.sp)
<1>0. depth \in Nat
  BY DEF IInv, TypeOK
<1>1. CASE UNCHANGED vars
  BY <1>0, <1>1 DEF vars
<1>2. ASSUME NEW f \in Functions, Invoke(f) \/ DestroyTemporary(f)
             \/ (\E use \in {"nothing", "pop"} : DestroyValue(f, use))
             \/ (\E use \in NodeUses : Copy(f, use))
      PROVE  FALSE
  <2>1. PICK use \in Uses : InvokeWith(f, use)
    BY <1>2 DEF Invoke, DestroyTemporary, DestroyValue, Copy, Uses
  <2>2. depth' = depth \/ depth' = depth + 1
    BY <2>1 DEF InvokeWith, Raise, Enter
  <2> QED
    BY <1>0, <2>2
<1>3. ASSUME NEW f \in Functions, BeginDelegate(f)
             \/ \E use \in NodeUses, n \in {0, 1} : BeginCall(f, use, n)
      PROVE  FALSE
  <2>1. CASE BeginDelegate(f)
    BY <2>1, <1>0 DEF BeginDelegate, Enter
  <2>2. ASSUME NEW use \in NodeUses, NEW n \in {0, 1}, BeginCall(f, use, n) PROVE FALSE
    <3>1. depth' = depth + 1
      BY <2>2 DEF BeginCall, Enter
    <3> QED
      BY <3>1, <1>0
  <2> QED
    BY <1>3, <2>1, <2>2
<1>4. ASSUME NEW use, BeginEval(use) \/ Leaf(use) \/ BeginList(use) PROVE FALSE
  <2>1. CASE BeginEval(use)
    BY <2>1, <1>0 DEF BeginEval, Enter
  <2>2. CASE Leaf(use)
    BY <2>2, <1>0 DEF Leaf
  <2>3. CASE BeginList(use)
    BY <2>3, <1>0 DEF BeginList, Enter
  <2> QED
    BY <1>4, <2>1, <2>2, <2>3
<1>5. CASE EnterBody \/ FinishEval \/ Drop \/ PushStatic \/ PopLocal \/ Throw \/ Catch
  BY <1>0, <1>5 DEF EnterBody, FinishEval, Drop, PushStatic, PopLocal, Throw, Catch, Raise
<1>6. CASE EndList \/ EndEval
  <2>1. /\ depth > 0 /\ Top.kind # "call" /\ mSize' = mSize /\ mode # "unwind"
    BY <1>6 DEF EndList, EndEval, InList, Dropping, Running
  <2>2. mSize = Top.base + Frames(Top) /\ Frames(Top) = 0 /\ Top.base \in Nat
    BY <2>1, TopFacts, OwnedTypes DEF Frames
  <2> QED
    BY <2>1, <2>2
<1>7. ASSUME NEW flags \in {NoFlags, ReturnFlag}, EndCall(flags)
      PROVE  mSize' = Top.base /\ mode # "unwind"
  BY <1>7, EndCallFacts DEF EndCall, Running
<1>8. CASE Unwind
  BY <1>8, UnwindFacts
<1> QED
  BY <1>1, <1>2, <1>3, <1>4, <1>5, <1>6, <1>7, <1>8 DEF Next

\* However an activation ends, the callstack is as when it began, and an
\* exception leaves the data stack so too (~Invoker, ExecutionContext::pop).
THEOREM TransparentCalls == Spec => CallsAreTransparent
<1>1. IInv /\ [Next]_vars
      => [depth' < depth => /\ mSize' = Top.base
                            /\ mode = "unwind" => size' = Top.sp]_vars
  BY StepIsTransparent
<1> QED
  BY <1>1, Invariance, PTL DEF Spec, CallsAreTransparent

-----------------------------------------------------------------------------
(* Refinement: the two stacks implement CallDiscipline *)

Bar == [i \in 1 .. mSize |-> [callee |-> mData[i - 1].mCallee,
                              start |-> mData[i - 1].mStackIndex]]

\* The floor of the calls in progress, in terms of the topmost frame.
LEMMA BarFacts ==
  ASSUME IInv
  PROVE  /\ Bar \in Seq([callee : Functions, start : Nat])
         /\ Len(Bar) = mSize /\ mSize \in Nat /\ size \in Nat
         /\ Bar = <<>> <=> mSize = 0
         /\ Discipline!Floor(Bar) \in Nat
         /\ Discipline!Floor(Bar) =
              IF mSize = 0 THEN 0
              ELSE mData[mSize - 1].mStackIndex + 1 + Argc[mData[mSize - 1].mCallee]
         /\ Discipline!Floor(Bar) <= size
<1>1. mSize \in Nat /\ size \in Nat
  BY DEF IInv, TypeOK
<1>2. Bar \in Seq([callee : Functions, start : Nat]) /\ Len(Bar) = mSize
  <2>1. \A i \in 1 .. mSize : i - 1 \in 0 .. CallstackCapacity - 1
    BY BoundsAssumption DEF IInv, TypeOK
  <2>2. \A i \in 1 .. mSize : mData[i - 1].mCallee \in Functions
                               /\ mData[i - 1].mStackIndex \in Nat
    BY <2>1 DEF IInv, TypeOK
  <2>3. Bar \in [1 .. mSize -> [callee : Functions, start : Nat]]
    BY <2>2 DEF Bar
  <2>4. Bar \in Seq([callee : Functions, start : Nat])
    <3> DEFINE Slot == [callee : Functions, start : Nat]
               bar == Bar
    <3>1. bar \in [1 .. mSize -> Slot]
      BY <2>3
    <3> HIDE DEF Slot, bar
    <3>2. bar \in Seq(Slot)
      BY <1>1, <3>1
    <3> QED BY <3>2 DEF Slot, bar
  <2>a. DOMAIN Bar = 1 .. Len(Bar) /\ Len(Bar) \in Nat
    BY <2>4, LenProperties
  <2>b. DOMAIN Bar = 1 .. mSize
    BY DEF Bar
  <2>5. 1 .. Len(Bar) = 1 .. mSize /\ Len(Bar) \in Nat
    BY <2>a, <2>b
  <2>6. Len(Bar) > 0 => Len(Bar) \in 1 .. mSize
    <3>1. Len(Bar) > 0 => Len(Bar) \in 1 .. Len(Bar)
      BY <2>a
    <3> QED
      BY <3>1, <2>5
  <2>7. mSize > 0 => mSize \in 1 .. Len(Bar)
    <3>1. mSize > 0 => mSize \in 1 .. mSize
      BY <1>1
    <3> QED
      BY <3>1, <2>5
  <2>8. Len(Bar) = mSize
    BY <1>1, <2>5, <2>6, <2>7
  <2> QED
    BY <2>4, <2>8
<1>3. Bar = <<>> <=> mSize = 0
  BY <1>1, <1>2
<1>4. CASE mSize = 0
  <2>1. Discipline!Floor(Bar) = 0
    BY <1>3, <1>4 DEF Discipline!Floor
  <2> QED
    BY <1>1, <1>2, <1>3, <1>4, <2>1
<1>5. CASE mSize > 0
  <2>1. mSize \in 1 .. mSize /\ mSize - 1 \in 0 .. CallstackCapacity - 1
    BY <1>1, <1>5, BoundsAssumption DEF IInv, TypeOK
  <2>2. Bar[Len(Bar)].callee = mData[mSize - 1].mCallee
        /\ Bar[Len(Bar)].start = mData[mSize - 1].mStackIndex
    BY <1>2, <2>1 DEF Bar
  <2>3. Discipline!Floor(Bar)
          = mData[mSize - 1].mStackIndex + 1 + Argc[mData[mSize - 1].mCallee]
    BY <1>3, <1>5, <2>2 DEF Discipline!Floor, Discipline!End
  <2>4. mData[mSize - 1].mStackIndex \in Nat /\ Argc[mData[mSize - 1].mCallee] \in Nat
    BY <2>1, FunctionsAssumption DEF IInv, TypeOK
  <2>5. mData[mSize - 1].mStackIndex + Argc[mData[mSize - 1].mCallee] < size
    BY <1>5, DisjointFrames DEF FramesDisjoint
  <2> QED
    BY SMTT(30), <1>1, <1>2, <1>3, <1>5, <2>3, <2>4, <2>5
<1> QED
  BY <1>1, <1>4, <1>5

LEMMA WorkStep ==
  ASSUME IInv, IInv', mSize' = mSize, mData' = mData
  PROVE  Discipline!Work
<1>1. Bar' = Bar
  BY DEF Bar
<1>2. (IInv => Discipline!Floor(Bar) <= size)'
  BY BarFacts, PTL
<1> QED
  BY <1>1, <1>2 DEF Discipline!Work, Bar

LEMMA CallStep ==
  ASSUME IInv, NEW f \in Functions, NEW s \in Nat,
         PushFrame(f, s), mSize < CallstackCapacity,
         Discipline!Floor(Bar) <= s, s <= size, size' = s + 1 + Argc[f], IInv'
  PROVE  Discipline!Call
<1> DEFINE c == [callee |-> f, start |-> s]
<1>1. /\ Bar \in Seq([callee : Functions, start : Nat]) /\ Len(Bar) = mSize
      /\ mSize \in Nat /\ size \in Nat /\ Discipline!Floor(Bar) \in Nat
  BY BarFacts
<1>2. c \in [callee : Functions, start : Nat]
  OBVIOUS
<1>3. /\ Bar' \in Seq([callee : Functions, start : Nat]) /\ Len(Bar') = mSize + 1
  <2>1. (IInv => Bar \in Seq([callee : Functions, start : Nat]) /\ Len(Bar) = mSize)'
    BY BarFacts, PTL
  <2> QED
    BY <2>1 DEF PushFrame
<1>4. /\ Append(Bar, c) \in Seq([callee : Functions, start : Nat])
      /\ Len(Append(Bar, c)) = mSize + 1
      /\ \A i \in 1 .. mSize : Append(Bar, c)[i] = Bar[i]
      /\ Append(Bar, c)[mSize + 1] = c
  BY <1>1, <1>2, AppendProperties
<1>5. ASSUME NEW i \in 1 .. mSize + 1 PROVE Bar'[i] = Append(Bar, c)[i]
  <2>1. Bar'[i] = [callee |-> mData'[i - 1].mCallee, start |-> mData'[i - 1].mStackIndex]
    BY <1>1 DEF Bar, PushFrame
  <2>2. CASE i = mSize + 1
    <3>1. mData'[i - 1].mCallee = f /\ mData'[i - 1].mStackIndex = s
      BY <2>2, <1>1, BoundsAssumption DEF PushFrame, IInv, TypeOK
    <3> QED
      BY <2>1, <2>2, <3>1, <1>4
  <2>3. CASE i \in 1 .. mSize
    <3>1. mData'[i - 1] = mData[i - 1]
      BY <2>3, <1>1, BoundsAssumption DEF PushFrame, IInv, TypeOK
    <3>2. Bar[i] = [callee |-> mData[i - 1].mCallee, start |-> mData[i - 1].mStackIndex]
      BY <2>3 DEF Bar
    <3> QED
      BY <2>1, <2>3, <3>1, <3>2, <1>4
  <2> QED
    BY <2>2, <2>3, <1>1
<1>6. Bar' = Append(Bar, c)
  BY <1>3, <1>4, <1>5, SeqEqual
<1>7. s \in Discipline!Floor(Bar) .. size
  BY <1>1
<1> QED
  BY <1>6, <1>7 DEF Discipline!Call, Bar

LEMMA ReturnStep ==
  ASSUME IInv, IInv', mSize > 0, mSize' = mSize - 1,
         \A k \in 0 .. mSize - 2 : mData'[k] = mData[k],
         size' - mData[mSize - 1].mStackIndex \in {-1, 0, 1}
  PROVE  Discipline!Return
<1>1. /\ Bar \in Seq([callee : Functions, start : Nat]) /\ Len(Bar) = mSize
      /\ mSize \in Nat /\ Bar # <<>>
  BY BarFacts
<1>2. (IInv => /\ Bar \in Seq([callee : Functions, start : Nat]) /\ Len(Bar) = mSize
               /\ Discipline!Floor(Bar) <= size)'
  BY BarFacts, PTL
<1>3. ASSUME NEW i \in 1 .. mSize - 1
      PROVE  Bar[i] \in [callee : Functions, start : Nat]
  <2>1. i \in 1 .. Len(Bar)
    BY <1>1
  <2> QED
    BY <1>1, <2>1, ElementOfSeq
<1>4. /\ SubSeq(Bar, 1, mSize - 1) \in Seq([callee : Functions, start : Nat])
      /\ Len(SubSeq(Bar, 1, mSize - 1)) = mSize - 1
      /\ \A i \in 1 .. mSize - 1 : SubSeq(Bar, 1, mSize - 1)[i] = Bar[i]
  <2>1. /\ SubSeq(Bar, 1, mSize - 1) \in Seq([callee : Functions, start : Nat])
        /\ Len(SubSeq(Bar, 1, mSize - 1)) = IF 1 <= mSize - 1 THEN mSize - 1 - 1 + 1 ELSE 0
        /\ \A i \in 1 .. mSize - 1 - 1 + 1 : SubSeq(Bar, 1, mSize - 1)[i] = Bar[1 + i - 1]
    BY <1>1, <1>3, SubSeqProperties
  <2> QED
    BY <2>1, <1>1
<1>5. ASSUME NEW i \in 1 .. mSize - 1 PROVE Bar'[i] = SubSeq(Bar, 1, mSize - 1)[i]
  <2>1. i - 1 \in 0 .. mSize - 2
    BY <1>1
  <2>2. mData'[i - 1] = mData[i - 1]
    BY <2>1
  <2>3. Bar'[i] = Bar[i]
    BY <2>2, <1>1 DEF Bar
  <2> QED
    BY <2>3, <1>4
<1>6. Bar' = SubSeq(Bar, 1, mSize - 1)
  BY <1>1, <1>2, <1>4, <1>5, SeqEqual
<1>7. Bar[Len(Bar)].start = mData[mSize - 1].mStackIndex
  BY <1>1 DEF Bar
<1> QED
  BY <1>1, <1>2, <1>6, <1>7 DEF Discipline!Return, Bar

\* The slots of a body that begins lie above those of the calls in progress.
LEMMA AboveFloor ==
  ASSUME IInv, depth > 0, ~Top.running
  PROVE  Discipline!Floor(Bar) <= Top.sp
<1>1. /\ depth \in Nat /\ depth \in 1 .. depth /\ Top = act[depth] /\ Top \in Activation
      /\ mSize \in Nat /\ Top.sp \in Nat
  BY TopFacts, OwnedTypes DEF IInv, TypeOK
<1>2. CASE mSize = 0
  BY <1>1, <1>2, BarFacts
<1>3. CASE mSize > 0
  <2>1. mSize - 1 \in 0 .. mSize - 1 /\ mSize # 0
    BY <1>1, <1>3
  <2>2. PICK i \in 1 .. depth :
           /\ act[i] \in Activation /\ act[i].kind = "call" /\ act[i].running
           /\ act[i].base = mSize - 1 /\ mData[mSize - 1] = FrameOf(act[i])
           /\ Used(act[i]) >= 1 + Argc[act[i].fn]
    BY <2>1, OwnerOf
  <2>3. i # depth
    BY <1>1, <2>2
  <2>4. i < depth
    BY <1>1, <2>3
  <2>5. act[i].sp + Used(act[i]) <= Top.sp
    BY <1>1, <2>4 DEF IInv, Ordered, Below
  <2>6. act[i].sp \in Nat /\ Used(act[i]) \in Nat /\ Argc[act[i].fn] \in Nat
    BY <2>2, OwnedTypes, FunctionsAssumption
  <2>7. mData[mSize - 1].mStackIndex = act[i].sp /\ mData[mSize - 1].mCallee = act[i].fn
    BY <2>2 DEF FrameOf
  <2>8. Discipline!Floor(Bar) = act[i].sp + 1 + Argc[act[i].fn]
    BY <2>1, <2>7, BarFacts
  <2> QED
    BY <1>1, <2>2, <2>5, <2>6, <2>8
<1> QED
  BY <1>1, <1>2, <1>3

LEMMA InvokeWithStep ==
  ASSUME IInv, IInv', NEW f \in Functions, NEW use, InvokeWith(f, use)
  PROVE  Discipline!Next
<1>1. CASE Raise
  BY <1>1, WorkStep DEF Raise, Discipline!Next
<1>2. CASE /\ mSize < CallstackCapacity
           /\ PushFrame(f, size)
           /\ size' = size + 1 + Argc[f]
  <2>1. size \in Nat /\ size <= size /\ Discipline!Floor(Bar) <= size
    BY BarFacts
  <2> QED
    BY <1>2, <2>1, CallStep DEF Discipline!Next
<1> QED
  BY <1>1, <1>2 DEF InvokeWith

LEMMA EnterBodyStep ==
  ASSUME IInv, IInv', EnterBody
  PROVE  Discipline!Next
<1>1. CASE Raise
  BY <1>1, WorkStep DEF Raise, Discipline!Next
<1>2. CASE /\ mSize < CallstackCapacity
           /\ PushFrame(Top.fn, Top.sp)
           /\ size' = size
  <2>1. /\ depth > 0 /\ Top.kind = "call" /\ ~Top.running /\ Top.pushed = Argc[Top.fn]
    BY DEF EnterBody, Preparing
  <2>2. /\ Top \in Activation /\ size = Top.sp + Used(Top) /\ Shape(Top)
    BY <2>1, TopFacts
  <2>3. /\ Top.sp \in Nat /\ Top.fn \in Functions /\ Argc[Top.fn] \in Nat
    BY <2>2, OwnedTypes, FunctionsAssumption
  <2>4. size = Top.sp + 1 + Argc[Top.fn]
    BY <2>1, <2>2, <2>3 DEF Used, Shape
  <2>5. Discipline!Floor(Bar) <= Top.sp /\ Top.sp <= size /\ size' = Top.sp + 1 + Argc[Top.fn]
    BY <2>1, <2>3, <2>4, <1>2, AboveFloor
  <2> QED
    BY <1>2, <2>3, <2>5, CallStep DEF Discipline!Next
<1> QED
  BY <1>1, <1>2 DEF EnterBody

LEMMA EndCallStep ==
  ASSUME IInv, IInv', NEW flags \in {NoFlags, ReturnFlag}, EndCall(flags)
  PROVE  Discipline!Next
<1> DEFINE sz == StackAfterInvoker(size - Argc[mData[mSize - 1].mCallee] - 1)
<1>1. /\ mSize = Top.base + 1 /\ mData[mSize - 1] = FrameOf(Top)
      /\ sz = Top.sp /\ mSize' = Top.base /\ Top \in Activation
      /\ \A k \in 0 .. Top.base - 1 : mData'[k] = mData[k]
  BY EndCallFacts
<1>2. Top.base \in Nat /\ Top.sp \in Nat
  BY <1>1, OwnedTypes
<1>3. mData[mSize - 1].mStackIndex = Top.sp
  BY <1>1 DEF FrameOf
<1>4. size' - Top.sp \in {-1, 0, 1}
  <2>1. size' = sz + Slots(depth - 1, Top.use) \/ size' = sz - 1 \/ size' = sz
    BY DEF EndCall
  <2>2. Slots(depth - 1, Top.use) \in {0, 1}
    BY DEF Slots
  <2> QED
    BY <1>1, <1>2, <2>1, <2>2
<1>5. /\ mSize > 0 /\ mSize' = mSize - 1 /\ Top.base - 1 = mSize - 2
  BY <1>1, <1>2
<1> QED
  BY <1>1, <1>3, <1>4, <1>5, ReturnStep DEF Discipline!Next

LEMMA UnwindStep ==
  ASSUME IInv, IInv', Unwind
  PROVE  Discipline!Next
<1>1. depth > 0 /\ size' = Top.sp /\ mSize' = Top.base /\ mData' = mData
  BY UnwindFacts DEF Unwind
<1>2. /\ Top \in Activation /\ Top = act[depth] /\ depth \in 1 .. depth
      /\ mSize = Top.base + Frames(Top)
  BY <1>1, TopFacts DEF IInv, TypeOK
<1>3. Top.sp \in Nat /\ Top.base \in Nat /\ Frames(Top) \in {0, 1}
  BY <1>2, OwnedTypes
<1>4. CASE Frames(Top) = 0
  <2>1. mSize' = mSize
    BY <1>1, <1>2, <1>3, <1>4
  <2> QED
    BY <1>1, <2>1, WorkStep DEF Discipline!Next
<1>5. CASE Frames(Top) = 1
  <2>1. mSize > 0 /\ mSize' = mSize - 1 /\ mSize - 1 = Top.base
    BY <1>1, <1>2, <1>3, <1>5
  <2>2. mData[Top.base] = FrameOf(Top)
    BY <1>2, <1>5 DEF IInv, Shapes
  <2>3. mData[mSize - 1].mStackIndex = Top.sp
    BY <2>1, <2>2 DEF FrameOf
  <2>4. size' - mData[mSize - 1].mStackIndex \in {-1, 0, 1}
    BY <1>1, <1>3, <2>3
  <2> QED
    BY <1>1, <2>1, <2>4, ReturnStep DEF Discipline!Next
<1> QED
  BY <1>3, <1>4, <1>5

LEMMA StepRefines ==
  ASSUME IInv, IInv', [Next]_vars
  PROVE  Discipline!Next
<1>1. ASSUME mSize' = mSize, mData' = mData PROVE Discipline!Next
  BY <1>1, WorkStep DEF Discipline!Next
<1>2. CASE UNCHANGED vars
  BY <1>1, <1>2 DEF vars
<1>3. ASSUME NEW f \in Functions, Invoke(f) \/ DestroyTemporary(f)
             \/ (\E use \in {"nothing", "pop"} : DestroyValue(f, use))
             \/ (\E use \in NodeUses : Copy(f, use))
      PROVE  Discipline!Next
  <2>1. PICK use \in Uses : InvokeWith(f, use)
    BY <1>3 DEF Invoke, DestroyTemporary, DestroyValue, Copy, Uses
  <2> QED
    BY <2>1, InvokeWithStep
<1>4. ASSUME NEW f \in Functions, BeginDelegate(f)
             \/ \E use \in NodeUses, n \in {0, 1} : BeginCall(f, use, n)
      PROVE  Discipline!Next
  BY <1>1, <1>4 DEF BeginDelegate, BeginCall
<1>5. ASSUME NEW use, BeginEval(use) \/ Leaf(use) \/ BeginList(use)
      PROVE  Discipline!Next
  BY <1>1, <1>5 DEF BeginEval, Leaf, BeginList
<1>6. CASE FinishEval \/ Drop \/ PushStatic \/ PopLocal \/ Throw \/ Catch
  BY <1>1, <1>6 DEF FinishEval, Drop, PushStatic, PopLocal, Throw, Catch, Raise
<1>7. CASE EndList \/ EndEval
  BY <1>1, <1>7 DEF EndList, EndEval
<1>8. CASE EnterBody
  BY <1>8, EnterBodyStep
<1>9. ASSUME NEW flags \in {NoFlags, ReturnFlag}, EndCall(flags)
      PROVE  Discipline!Next
  BY <1>9, EndCallStep
<1>10. CASE Unwind
  BY <1>10, UnwindStep
<1> QED
  BY <1>2, <1>3, <1>4, <1>5, <1>6, <1>7, <1>8, <1>9, <1>10 DEF Next

\* The data stack and the callstack implement the discipline callers rely on:
\* calls nest, and what happens above a call keeps clear of its slots
\* (ExecutionContext, Invoker).
THEOREM Refinement == Spec => ImplementsCallDiscipline
<1>1. Init => Discipline!Init
  <2> SUFFICES ASSUME Init PROVE Discipline!Init
    OBVIOUS
  <2>1. IInv /\ mSize = 0 /\ size = 0
    BY InitInv DEF Init
  <2>2. Bar = <<>>
    BY <2>1, BarFacts
  <2> QED
    BY <2>1, <2>2 DEF Discipline!Init, Bar
<1>2. IInv /\ IInv' /\ [Next]_vars => Discipline!Next
  BY StepRefines
<1> QED
  BY <1>1, <1>2, Invariance, PTL DEF Spec, ImplementsCallDiscipline, Discipline!Spec

-----------------------------------------------------------------------------
(* What is in the two buffers that evaluations share, garbage_collector    *)
(* and initializer_list_buffer.  The temporaries are those of evaluations  *)
(* in progress, unless an exception was caught outside of any; the         *)
(* elements at the end of the other are those of the list under            *)
(* construction, if no element of a list has a list of its own.            *)

\* An eval is in progress below the i-th activation.
UnderEval(i) == \E j \in 1 .. i - 1 : act[j].kind = "eval"

\* A node of an expression is visited in an eval.
NodesInEvals == \A i \in 1 .. depth : act[i].use \in NodeUses => UnderEval(i)

\* The buffers were empty when the outermost eval began.
OutermostEvals ==
  \A i \in 1 .. depth :
    act[i].kind = "eval" => UnderEval(i) \/ (act[i].gcs = 0 /\ act[i].ils = 0)

Reclaimed ==
  caught # "outside" =>
    OutermostEvals /\ (Running => InsideEval \/ (gc = 0 /\ ilist = 0))

TemporariesInv == NodesInEvals /\ Reclaimed

\* Which activations ask for nodes, and get their values.
MayAsk(a) == a.kind \in {"eval", "list"} \/ (a.kind = "call" /\ ~a.running /\ a.use \in NodeUses)

Asked ==
  \A k \in 2 .. depth :
    /\ act[k].use \in NodeUses => MayAsk(act[k - 1])
    /\ act[k - 1].kind = "list" => act[k].use \in NodeUses

\* The k-th activation is part of an element of a list of the same expression.
Prepares(a) == a.kind = "list" \/ (a.kind = "call" /\ ~a.running)
PartOfElement(k) ==
  \E i \in 1 .. k - 1 : act[i].kind = "list" /\ \A j \in i + 1 .. k - 1 : Prepares(act[j])

ListsAreFlat == \A k \in 1 .. depth : act[k].kind = "list" => ~PartOfElement(k)

\* The end of the buffer as the k-th activation has left it, and the elements that are
\* its own.
BufferEnd(k) == IF k = depth THEN ilist ELSE act[k + 1].ils
Own(a) == IF a.kind = "list" THEN a.pushed ELSE 0

\* A list, a call in an element of a list, and a call that is no node leave nothing
\* but the elements of the list in the buffer.
Leaves(k) ==
  \/ act[k].kind = "list"
  \/ act[k].kind = "call" /\ (act[k].use \notin NodeUses \/ PartOfElement(k))

Spans ==
  caught = "never" /\ Running =>
    \A k \in 1 .. depth : Leaves(k) => BufferEnd(k) = act[k].ils + Own(act[k])

ListsInv == Asked /\ ListsAreFlat /\ Spans

-----------------------------------------------------------------------------
(* Two kinds of steps *)

\* An activation begins.
Begins(r) ==
  /\ Enter(r) /\ r \in Activation /\ depth < MaxDepth
  /\ r.gcs = gc /\ r.ils = ilist
  /\ UNCHANGED <<gc, ilist, mode, caught>>
  /\ r.kind = "list" => r.pushed = 0 /\ r.use \in NodeUses /\ (NestedLists \/ ~InElement)
  /\ r.use \in NodeUses => NodeExpected(r.use)
  /\ InList => r.use \in NodeUses

\* None begins, and one may have ended.
Continues ==
  /\ depth' \in 0 .. depth
  /\ \A i \in 1 .. depth' - 1 : act'[i] = act[i]
  /\ depth' > 0 => Same(act'[depth'], act[depth'])
  /\ caught' = caught

LEMMA InvokeBegins ==
  ASSUME IInv, CanEnter, NEW f \in Functions, NEW use \in Uses, InvokeWith(f, use),
         use \in NodeUses => NodeExpected(use), InList => use \in NodeUses
  PROVE  Raise \/ \E r : Begins(r)
<1>1. CASE Raise
  BY <1>1
<1>2. CASE /\ Enter([Fresh("call", use) EXCEPT !.fn = f, !.running = TRUE,
                                               !.pushed = Argc[f]])
           /\ UNCHANGED <<gc, ilist, mode, exc, caught>>
  <2> DEFINE r == [Fresh("call", use) EXCEPT !.fn = f, !.running = TRUE, !.pushed = Argc[f]]
  <2>1. Fresh("call", use) \in Activation /\ Argc[f] \in Nat
    BY FreshType, FunctionsAssumption DEF IInv, Kinds
  <2>2. r \in Activation
    BY <2>1 DEF Activation
  <2>3. r.kind = "call" /\ r.use = use /\ r.gcs = gc /\ r.ils = ilist
    BY DEF Fresh
  <2>4. Enter(r) /\ depth < MaxDepth
    BY <1>2 DEF CanEnter
  <2> HIDE DEF r
  <2>5. Begins(r)
    BY <1>2, <2>2, <2>3, <2>4 DEF Begins
  <2> QED BY <2>5
<1> QED BY <1>1, <1>2 DEF InvokeWith

LEMMA InvokeActionsBegin ==
  ASSUME IInv, NEW f \in Functions,
         \/ Invoke(f) \/ DestroyTemporary(f)
         \/ \E use \in {"nothing", "pop"} : DestroyValue(f, use)
         \/ \E use \in NodeUses : Copy(f, use)
  PROVE  Running /\ (Raise \/ \E r : Begins(r))
<1>1. CASE Invoke(f)
  <2>1. CanEnter /\ InvokeWith(f, "nothing") /\ "nothing" \in Uses \ NodeUses /\ ~InList
    BY <1>1 DEF Invoke, Uses, NodeUses, InList, InNative, IInv, TypeOK
  <2> QED BY <2>1, InvokeBegins DEF CanEnter
<1>2. CASE DestroyTemporary(f)
  <2>1. PICK use \in {"dropTemp", "dropElement"} : InvokeWith(f, use)
    BY <1>2 DEF DestroyTemporary
  <2>2. CanEnter /\ use \in Uses \ NodeUses /\ ~InList
    BY <1>2, <2>1 DEF DestroyTemporary, Uses, NodeUses, InList, Dropping
  <2> QED BY <2>1, <2>2, InvokeBegins DEF CanEnter
<1>3. ASSUME NEW use \in {"nothing", "pop"}, DestroyValue(f, use)
      PROVE  Running /\ (Raise \/ \E r : Begins(r))
  <2>1. CanEnter /\ InvokeWith(f, use) /\ use \in Uses \ NodeUses /\ ~InList
    BY <1>3 DEF DestroyValue, Uses, NodeUses, InList, InScript
  <2> QED BY <2>1, InvokeBegins DEF CanEnter
<1>4. ASSUME NEW use \in NodeUses, Copy(f, use)
      PROVE  Running /\ (Raise \/ \E r : Begins(r))
  <2>1. CanEnter /\ InvokeWith(f, use) /\ use \in Uses /\ NodeExpected(use)
    BY <1>4 DEF Copy, Uses
  <2> QED BY <2>1, InvokeBegins DEF CanEnter
<1> QED BY <1>1, <1>2, <1>3, <1>4

LEMMA OthersBegin ==
  ASSUME IInv,
         \/ \E f \in Functions : BeginDelegate(f)
         \/ \E f \in Functions, use \in NodeUses, n \in {0, 1} : BeginCall(f, use, n)
         \/ \E use \in {"nothing", "push", "delegate"} : BeginEval(use)
         \/ \E use \in NodeUses : BeginList(use)
  PROVE  Running /\ \E r : Begins(r)
<1>1. ASSUME NEW f \in Functions, BeginDelegate(f) PROVE Running /\ \E r : Begins(r)
  <2> DEFINE r == [Fresh("call", "this") EXCEPT !.fn = f, !.pushed = 1]
  <2>1. Fresh("call", "this") \in Activation
    BY FreshType DEF IInv, Kinds, Uses
  <2>2. r \in Activation /\ r.kind = "call" /\ r.use = "this" /\ r.gcs = gc /\ r.ils = ilist
    BY <2>1 DEF Activation, Fresh
  <2>3. Enter(r) /\ CanEnter /\ ~InList /\ UNCHANGED <<gc, ilist, mode, caught>>
    BY <1>1 DEF BeginDelegate, InList, InScript
  <2> HIDE DEF r
  <2>4. Begins(r)
    BY <2>2, <2>3 DEF Begins, CanEnter, NodeUses
  <2> QED BY <2>3, <2>4 DEF CanEnter
<1>2. ASSUME NEW f \in Functions, NEW use \in NodeUses, NEW n \in {0, 1}, BeginCall(f, use, n)
      PROVE  Running /\ \E r : Begins(r)
  <2> DEFINE r == [Fresh("call", use) EXCEPT !.fn = f, !.pushed = n]
  <2>1. Fresh("call", use) \in Activation /\ n \in Nat
    BY FreshType DEF IInv, Kinds, Uses
  <2>2. r \in Activation /\ r.kind = "call" /\ r.use = use /\ r.gcs = gc /\ r.ils = ilist
    BY <2>1 DEF Activation, Fresh
  <2>3. Enter(r) /\ CanEnter /\ NodeExpected(use) /\ UNCHANGED <<gc, ilist, mode, caught>>
    BY <1>2 DEF BeginCall
  <2> HIDE DEF r
  <2>4. Begins(r)
    BY <2>2, <2>3 DEF Begins, CanEnter
  <2> QED BY <2>3, <2>4 DEF CanEnter
<1>3. ASSUME NEW use \in {"nothing", "push", "delegate"}, BeginEval(use)
      PROVE  Running /\ \E r : Begins(r)
  <2> DEFINE r == Fresh("eval", use)
  <2>1. r \in Activation
    BY FreshType DEF IInv, Kinds, Uses
  <2>2. r.kind = "eval" /\ r.use = use /\ r.gcs = gc /\ r.ils = ilist
    BY DEF Fresh
  <2>3. Enter(r) /\ CanEnter /\ UNCHANGED <<gc, ilist, mode, caught>>
    BY <1>3 DEF BeginEval
  <2>4. ~InList
    <3>1. InScript \/ InNative \/ Preparing \/ depth = 0
      BY <1>3 DEF BeginEval
    <3> QED BY <3>1 DEF InList, InScript, InNative, Preparing, IInv, TypeOK
  <2> HIDE DEF r
  <2>5. Begins(r)
    BY <2>1, <2>2, <2>3, <2>4 DEF Begins, CanEnter, NodeUses
  <2> QED BY <2>3, <2>5 DEF CanEnter
<1>4. ASSUME NEW use \in NodeUses, BeginList(use) PROVE Running /\ \E r : Begins(r)
  <2> DEFINE r == Fresh("list", use)
  <2>1. r \in Activation
    BY FreshType DEF IInv, Kinds, Uses
  <2>2. r.kind = "list" /\ r.use = use /\ r.pushed = 0 /\ r.gcs = gc /\ r.ils = ilist
    BY DEF Fresh
  <2>3. /\ Enter(r) /\ CanEnter /\ NodeExpected(use) /\ (NestedLists \/ ~InElement)
        /\ UNCHANGED <<gc, ilist, mode, caught>>
    BY <1>4 DEF BeginList
  <2> HIDE DEF r
  <2>4. Begins(r)
    BY <2>1, <2>2, <2>3 DEF Begins, CanEnter
  <2> QED BY <2>3, <2>4 DEF CanEnter
<1> QED BY <1>1, <1>2, <1>3, <1>4

\* The step that leaves the topmost activation.
LEMMA LeaveContinues ==
  ASSUME IInv, depth > 0, NEW p, Leave(p), caught' = caught, depth > 1 => Same(p, Caller)
  PROVE  /\ Continues /\ depth' = depth - 1 /\ depth' \in Nat
         /\ depth > 1 => act'[depth - 1] = p /\ depth - 1 \in 1 .. depth
<1>1. /\ depth \in 1 .. MaxDepth /\ act \in [1 .. MaxDepth -> Activation]
      /\ depth \in Nat /\ depth' = depth - 1 /\ Caller = IF depth = 1 THEN Blank ELSE act[depth - 1]
  BY TopFacts DEF IInv, TypeOK, Leave, Caller
<1>2. PICK d \in Nat : d = depth
  BY <1>1
<1>3. /\ \A i \in 1 .. d - 2 : act'[i] = act[i]
      /\ d > 1 => act'[d - 1] = p
  <2>1. act' = IF d = 1 THEN [act EXCEPT ![d] = Blank]
               ELSE [act EXCEPT ![d] = Blank, ![d - 1] = p]
    BY <1>2 DEF Leave
  <2>2. CASE d = 1
    BY <2>2
  <2>3. CASE d > 1
    BY <2>1, <2>3, <1>1, <1>2, BoundsAssumption
  <2> QED BY <2>2, <2>3, <1>1, <1>2
<1>4. /\ d >= 1 /\ depth' = d - 1 /\ depth' \in 0 .. depth
      /\ d = 1 => depth' = 0
  BY <1>1, <1>2
<1>5. d > 1 => Same(act'[d - 1], act[d - 1])
  BY <1>1, <1>2, <1>3
<1>6. \A i \in 1 .. depth' - 1 : act'[i] = act[i]
  BY <1>3, <1>4
<1>7. depth' > 0 => Same(act'[depth'], act[depth'])
  BY <1>2, <1>4, <1>5
<1>8. Continues
  BY <1>4, <1>6, <1>7 DEF Continues
<1> QED BY <1>1, <1>2, <1>3, <1>4, <1>8

\* The step that changes the topmost activation, or none.
LEMMA UpdateContinues ==
  ASSUME IInv, depth' = depth, caught' = caught,
         \/ act' = act
         \/ depth > 0 /\ \E p : act' = [act EXCEPT ![depth] = p] /\ Same(p, Top)
  PROVE  Continues
<1>1. act \in [1 .. MaxDepth -> Activation] /\ depth \in 0 .. MaxDepth /\ MaxDepth \in Nat
  BY BoundsAssumption DEF IInv, TypeOK
<1>2. CASE act' = act
  BY <1>1, <1>2 DEF Continues, Same
<1>3. ASSUME NEW p, depth > 0, act' = [act EXCEPT ![depth] = p], Same(p, Top) PROVE Continues
  <2>1. act'[depth] = p /\ \A i \in 1 .. depth - 1 : act'[i] = act[i]
    BY <1>1, <1>3
  <2> QED BY <1>1, <1>3, <2>1 DEF Continues, Top
<1> QED BY <1>2, <1>3

\* What such steps leave as it is.
LEMMA KeptParts ==
  ASSUME IInv, Continues, NEW k, k \in 1 .. depth'
  PROVE  /\ k \in 1 .. depth /\ Same(act'[k], act[k])
         /\ UnderEval(k)' = UnderEval(k)
         /\ PartOfElement(k)' = PartOfElement(k)
         /\ Leaves(k)' = Leaves(k)
<1>1. depth \in Nat /\ depth' \in Nat /\ depth' <= depth
  BY BoundsAssumption DEF IInv, TypeOK, Continues
<1>2. \A i \in 1 .. k - 1 : act'[i] = act[i]
  BY <1>1 DEF Continues
<1>3. k \in 1 .. depth /\ Same(act'[k], act[k])
  <2>1. PICK n \in Nat : n = depth'
    BY <1>1
  <2>2. k \in 1 .. n
    BY <2>1
  <2>3. k = n \/ k \in 1 .. n - 1
    BY ONLY <2>2, n \in Nat
  <2>4. CASE k = n
    BY <2>1, <2>4, <1>1 DEF Continues
  <2>5. CASE k \in 1 .. n - 1
    <3>1. act'[k] = act[k]
      BY <2>1, <2>5 DEF Continues
    <3> QED BY <2>1, <2>2, <3>1, <1>1 DEF Same
  <2> QED BY <2>3, <2>4, <2>5
<1>4. UnderEval(k)' = UnderEval(k)
  BY <1>2 DEF UnderEval
<1>5. PartOfElement(k)' = PartOfElement(k)
  BY <1>2 DEF PartOfElement
<1> QED BY <1>3, <1>4, <1>5 DEF Leaves, Same

-----------------------------------------------------------------------------
(* Temporaries *)

LEMMA InsideIsBelow == IInv => \A k \in 1 .. depth : UnderEval(k) => InsideEval
BY BoundsAssumption DEF IInv, TypeOK, UnderEval, InsideEval

LEMMA NodesAreInside ==
  ASSUME IInv, NodesInEvals, NEW use \in NodeUses, NodeExpected(use)
  PROVE  InsideEval
<1>1. depth \in Nat /\ depth > 0 /\ (Top.kind = "eval" \/ Top.kind = "list" \/ Top.use \in NodeUses)
  BY BoundsAssumption DEF IInv, TypeOK, NodeExpected, Evaluating, InList, Preparing
<1>2. CASE Top.kind = "eval"
  BY <1>1, <1>2 DEF InsideEval, Top
<1>3. CASE Top.kind # "eval"
  <2>1. Top.use \in NodeUses /\ depth \in 1 .. depth
    BY <1>1, <1>3, TopFacts DEF Shape
  <2> QED BY <2>1, InsideIsBelow DEF NodesInEvals, Top
<1> QED BY <1>2, <1>3

LEMMA TemporariesBegin ==
  ASSUME IInv, TemporariesInv, Running, NEW r, Begins(r)
  PROVE  TemporariesInv'
<1>1. PICK d \in Nat : d = depth /\ d < MaxDepth
  BY BoundsAssumption DEF IInv, TypeOK, Begins
<1>2. /\ depth' = d + 1 /\ act'[d + 1] = r /\ \A i \in 1 .. d : act'[i] = act[i]
  BY <1>1, BoundsAssumption DEF Begins, Enter, IInv, TypeOK
<1>3. \A k \in 1 .. d : UnderEval(k)' = UnderEval(k)
  BY <1>2 DEF UnderEval
<1>4. InsideEval => UnderEval(d + 1)' /\ InsideEval'
  BY <1>1, <1>2 DEF InsideEval, UnderEval
<1>5. NodesInEvals'
  <2>1. r.use \in NodeUses => UnderEval(d + 1)'
    BY <1>4, NodesAreInside DEF Begins, TemporariesInv
  <2> QED BY <1>1, <1>2, <1>3, <2>1 DEF NodesInEvals, TemporariesInv
<1>6. ASSUME caught' # "outside"
      PROVE  OutermostEvals' /\ (Running' => InsideEval' \/ (gc' = 0 /\ ilist' = 0))
  <2>1. OutermostEvals /\ (InsideEval \/ (gc = 0 /\ ilist = 0))
    BY <1>6 DEF TemporariesInv, Reclaimed, Begins
  <2>2. UnderEval(d + 1)' \/ (r.gcs = 0 /\ r.ils = 0)
    BY <2>1, <1>4 DEF Begins
  <2>3. OutermostEvals'
    BY <2>1, <2>2, <1>1, <1>2, <1>3 DEF OutermostEvals
  <2> QED BY <2>1, <2>3, <1>4 DEF Begins
<1> QED BY <1>5, <1>6 DEF TemporariesInv, Reclaimed

LEMMA TemporariesContinue ==
  ASSUME IInv, TemporariesInv, Continues,
         caught # "outside" /\ Running' => InsideEval' \/ (gc' = 0 /\ ilist' = 0)
  PROVE  TemporariesInv'
<1>1. NodesInEvals'
  BY KeptParts DEF TemporariesInv, NodesInEvals, Same
<1>2. caught # "outside" => OutermostEvals'
  BY KeptParts DEF TemporariesInv, Reclaimed, OutermostEvals, Same
<1> QED BY <1>1, <1>2 DEF TemporariesInv, Reclaimed, Continues

\* An eval that is not left goes on.
LEMMA StillInside ==
  ASSUME IInv, Continues, NEW j, j \in 1 .. depth', act[j].kind = "eval"
  PROVE  InsideEval'
BY KeptParts DEF InsideEval, Same

\* A step that keeps every activation.
LEMMA TemporariesStay ==
  ASSUME IInv, TemporariesInv, Continues, depth' = depth,
         InsideEval \/ (gc' = gc /\ ilist' = ilist), Running' => Running
  PROVE  TemporariesInv'
<1>1. InsideEval => InsideEval'
  BY KeptParts DEF InsideEval, Same
<1>2. caught # "outside" /\ Running => InsideEval \/ (gc = 0 /\ ilist = 0)
  BY DEF TemporariesInv, Reclaimed
<1> QED BY <1>1, <1>2, TemporariesContinue

\* A node gives its value to the one that asked for it.
LEMMA TemporariesGiven ==
  ASSUME IInv, TemporariesInv, depth > 0, Top.use \in NodeUses,
         Leave(Given(depth - 1, Top.use)), caught' = caught
  PROVE  TemporariesInv'
<1>1. UnderEval(depth) /\ depth > 1
  <2>1. UnderEval(depth)
    BY TopFacts DEF TemporariesInv, NodesInEvals
  <2>2. depth \in Nat /\ ~(1 .. depth - 1 = {})
    BY <2>1, TopFacts DEF UnderEval
  <2> QED BY <2>1, <2>2
<1>2. Same(Given(depth - 1, Top.use), Caller)
  BY <1>1, CallerFacts, GivenFacts DEF NodeUses, Uses
<1>3. Continues /\ depth' = depth - 1
  BY <1>1, <1>2, LeaveContinues
<1>4. PICK j \in 1 .. depth - 1 : act[j].kind = "eval"
  BY <1>1 DEF UnderEval
<1>5. InsideEval'
  BY <1>3, <1>4, StillInside
<1> QED BY <1>3, <1>5, TemporariesContinue

\* An activation that is no node is left.
LEMMA TemporariesLeft ==
  ASSUME IInv, TemporariesInv, Running, depth > 0, NEW p, Leave(p), caught' = caught,
         depth > 1 => Same(p, Caller),
         \/ UnderEval(depth)
         \/ Top.kind # "eval" /\ gc' = gc /\ ilist' = ilist
         \/ caught # "outside" => gc' = 0 /\ ilist' = 0
  PROVE  TemporariesInv'
<1>1. Continues /\ depth' = depth - 1 /\ depth \in Nat
  BY LeaveContinues, TopFacts
<1>2. CASE UnderEval(depth)
  <2>1. PICK j \in 1 .. depth - 1 : act[j].kind = "eval"
    BY <1>2 DEF UnderEval
  <2> QED BY <1>1, <2>1, StillInside, TemporariesContinue
<1>3. CASE Top.kind # "eval" /\ gc' = gc /\ ilist' = ilist
  <2>1. CASE InsideEval
    <3>1. PICK j \in 1 .. depth : act[j].kind = "eval"
      BY <2>1 DEF InsideEval
    <3>2. j \in 1 .. depth - 1
      BY <3>1, <1>3, <1>1 DEF Top
    <3> QED BY <3>1, <3>2, <1>1, StillInside, TemporariesContinue
  <2>2. CASE ~InsideEval
    <3>1. caught # "outside" => gc = 0 /\ ilist = 0
      BY <2>2 DEF TemporariesInv, Reclaimed
    <3> QED BY <3>1, <1>1, <1>3, TemporariesContinue
  <2> QED BY <2>1, <2>2
<1>4. CASE caught # "outside" => gc' = 0 /\ ilist' = 0
  BY <1>1, <1>4, TemporariesContinue
<1> QED BY <1>2, <1>3, <1>4

\* An exception is thrown, or passes an activation.
LEMMA TemporariesUnwound ==
  ASSUME IInv, TemporariesInv,
         \/ Raise
         \/ Unwind
  PROVE  TemporariesInv'
<1>1. CASE Raise
  <2>1. Continues /\ ~Running'
    BY <1>1, UpdateContinues DEF Raise, Running
  <2> QED BY <2>1, TemporariesContinue
<1>2. CASE Unwind
  <2>1. depth > 0 /\ Leave(Caller) /\ caught' = caught /\ Same(Caller, Caller) /\ ~Running'
    BY <1>2 DEF Unwind, Same, Running
  <2>2. Continues
    BY <2>1, LeaveContinues
  <2> QED BY <2>1, <2>2, TemporariesContinue
<1> QED BY <1>1, <1>2

\* An exception that is caught outside of every eval is the one case in which the
\* buffers may keep what is in them.
LEMMA TemporariesCaught ==
  ASSUME IInv, TemporariesInv, Catch
  PROVE  TemporariesInv'
<1>1. UNCHANGED <<gc, ilist, depth, act>>
  BY DEF Catch
<1>2. /\ NodesInEvals' = NodesInEvals /\ OutermostEvals' = OutermostEvals
      /\ InsideEval' = InsideEval
  BY <1>1 DEF NodesInEvals, OutermostEvals, UnderEval, InsideEval
<1>3. caught' # "outside" => caught # "outside" /\ InsideEval
  BY DEF Catch
<1> QED BY <1>2, <1>3 DEF TemporariesInv, Reclaimed

LEMMA TemporariesInPlace ==
  ASSUME IInv, TemporariesInv,
         \/ EnterBody \/ FinishEval \/ PushStatic \/ PopLocal \/ Drop
         \/ \E use \in NodeUses : Leaf(use)
  PROVE  TemporariesInv'
<1>1. CASE EnterBody
  <2>1. CASE Raise
    BY <2>1, TemporariesUnwound
  <2>2. CASE /\ act' = [act EXCEPT ![depth].running = TRUE]
             /\ UNCHANGED <<size, gc, ilist, depth, mode, exc, caught>>
    <3>1. /\ depth > 0 /\ depth' = depth /\ gc' = gc /\ ilist' = ilist
          /\ caught' = caught /\ mode' = mode
      BY <1>1, <2>2 DEF EnterBody, Preparing
    <3>2. act' = [act EXCEPT ![depth] = [Top EXCEPT !.running = TRUE]]
      BY <2>2 DEF Top
    <3>3. Same([Top EXCEPT !.running = TRUE], Top)
      BY <3>1, TopFacts DEF Same, Activation
    <3> QED BY <3>1, <3>2, <3>3, UpdateContinues, TemporariesStay DEF Running
  <2> QED BY <1>1, <2>1, <2>2 DEF EnterBody
<1>2. CASE FinishEval
  <2>1. /\ depth > 0 /\ UNCHANGED <<gc, ilist, depth, caught, mode>>
        /\ act' = [act EXCEPT ![depth] = [Top EXCEPT !.done = TRUE]]
    BY <1>2 DEF FinishEval, Evaluating, Top
  <2>2. Same([Top EXCEPT !.done = TRUE], Top)
    BY <2>1, TopFacts DEF Same, Activation
  <2> QED BY <2>1, <2>2, UpdateContinues, TemporariesStay DEF Running
<1>3. CASE PushStatic
  <2>1. /\ depth > 0 /\ UNCHANGED <<gc, ilist, depth, caught, mode>>
        /\ act' = [act EXCEPT ![depth] = [Top EXCEPT !.locals = @ + 1]]
    BY <1>3 DEF PushStatic, InScript, Top
  <2>2. Same([Top EXCEPT !.locals = @ + 1], Top)
    BY <2>1, TopFacts DEF Same, Activation
  <2> QED BY <2>1, <2>2, UpdateContinues, TemporariesStay DEF Running
<1>4. CASE PopLocal
  <2>1. /\ depth > 0 /\ UNCHANGED <<gc, ilist, depth, caught, mode>>
        /\ act' = [act EXCEPT ![depth] = [Top EXCEPT !.locals = @ - 1]]
    BY <1>4 DEF PopLocal, InScript, Top
  <2>2. Same([Top EXCEPT !.locals = @ - 1], Top)
    BY <2>1, TopFacts DEF Same, Activation
  <2> QED BY <2>1, <2>2, UpdateContinues, TemporariesStay DEF Running
<1>5. CASE Drop
  <2>1. /\ depth > 0 /\ Top.kind = "eval" /\ UNCHANGED <<depth, act, caught, mode>>
    BY <1>5 DEF Drop, Dropping
  <2>2. InsideEval
    BY <2>1, TopFacts DEF InsideEval
  <2> QED BY <2>1, <2>2, UpdateContinues, TemporariesStay DEF Running
<1>6. ASSUME NEW use \in NodeUses, Leaf(use) PROVE TemporariesInv'
  <2>1. /\ NodeExpected(use) /\ UNCHANGED <<depth, caught, mode>>
        /\ act' = [act EXCEPT ![depth] = Given(depth, use)]
    BY <1>6 DEF Leaf
  <2>2. depth > 0 /\ InsideEval
    BY <2>1, NodesAreInside DEF NodeExpected, Evaluating, InList, Preparing, TemporariesInv
  <2>3. Same(Given(depth, use), Top)
    BY <2>2, TopFacts, GivenFacts DEF NodeUses, Uses
  <2> QED BY <2>1, <2>2, <2>3, UpdateContinues, TemporariesStay DEF Running
<1> QED BY <1>1, <1>2, <1>3, <1>4, <1>5, <1>6

LEMMA TemporariesEnd ==
  ASSUME IInv, TemporariesInv,
         EndList \/ EndEval \/ \E flags \in {NoFlags, ReturnFlag} : EndCall(flags)
  PROVE  TemporariesInv'
<1>1. CASE EndList
  <2>1. depth > 0 /\ Top.use \in NodeUses
    BY <1>1, TopFacts DEF EndList, InList, Shape
  <2> QED BY <1>1, <2>1, TemporariesGiven DEF EndList
<1>2. CASE EndEval
  <2>1. /\ Running /\ depth > 0 /\ Top.kind = "eval" /\ gc <= Top.gcs /\ ilist <= Top.ils
        /\ UNCHANGED <<gc, ilist, caught>>
    BY <1>2 DEF EndEval, Dropping, Dropped
  <2>2. Top.use \in {"nothing", "push", "delegate"}
    BY <2>1, TopFacts DEF Shape
  <2>3. PICK p : Leave(p) /\ (depth > 1 => Same(p, Caller))
    <3>1. depth > 1 => Caller \in Activation
      BY CallerFacts
    <3>2. \/ Leave([Caller EXCEPT !.locals = @ + 1])
          \/ Leave([Caller EXCEPT !.pushed = @ + 1])
          \/ Leave(Caller)
      BY <1>2, <2>2 DEF EndEval
    <3> QED BY <3>1, <3>2 DEF Same, Activation
  <2>4. UnderEval(depth) \/ (caught # "outside" => gc' = 0 /\ ilist' = 0)
    <3>1. caught # "outside" => UnderEval(depth) \/ (Top.gcs = 0 /\ Top.ils = 0)
      BY <2>1, TopFacts DEF TemporariesInv, Reclaimed, OutermostEvals
    <3> QED BY <2>1, <3>1 DEF IInv, TypeOK
  <2> QED BY <2>1, <2>3, <2>4, TemporariesLeft
<1>3. ASSUME NEW flags \in {NoFlags, ReturnFlag}, EndCall(flags) PROVE TemporariesInv'
  <2>1. depth > 0 /\ Top.kind = "call" /\ Running /\ caught' = caught
    BY <1>3, EndCallFacts DEF EndCall
  <2>2. CASE Top.use \in NodeUses
    <3>1. Leave(Given(depth - 1, Top.use))
      BY <1>3, <2>2 DEF EndCall, NodeUses
    <3> QED BY <2>1, <2>2, <3>1, TemporariesGiven
  <2>3. CASE Top.use = "pop"
    <3>1. /\ gc' = gc /\ ilist' = ilist /\ Leave([Caller EXCEPT !.locals = @ - 1])
      BY <1>3, <2>3 DEF EndCall, NodeUses
    <3>2. depth > 1 => Same([Caller EXCEPT !.locals = @ - 1], Caller)
      BY CallerFacts DEF Same, Activation
    <3> QED BY <2>1, <3>1, <3>2, TemporariesLeft
  <2>4. CASE Top.use \in {"dropTemp", "dropElement"}
    <3>1. Leave(Caller) /\ Same(Caller, Caller)
      BY <1>3, <2>4 DEF EndCall, NodeUses, Same
    <3>2. UnderEval(depth)
      <4>1. depth > 1
        BY <2>1, <2>4, TopFacts DEF IInv, Nested
      <4>2. act[depth - 1].kind = "eval" /\ depth - 1 \in 1 .. depth
        BY <2>4, <4>1, CallerFacts DEF Fits
      <4>3. depth - 1 \in 1 .. depth - 1
        BY <4>2
      <4> QED BY <4>2, <4>3 DEF UnderEval
    <3> QED BY <2>1, <3>1, <3>2, TemporariesLeft
  <2>5. CASE Top.use \notin NodeUses \cup {"pop", "dropTemp", "dropElement"}
    <3>1. Leave(Caller) /\ Same(Caller, Caller) /\ gc' = gc /\ ilist' = ilist
      BY <1>3, <2>5 DEF EndCall, Same
    <3> QED BY <2>1, <3>1, TemporariesLeft
  <2> QED BY <2>2, <2>3, <2>4, <2>5
<1> QED BY <1>1, <1>2, <1>3

LEMMA TemporariesNext == IInv /\ TemporariesInv /\ [Next]_vars => TemporariesInv'
<1> SUFFICES ASSUME IInv, TemporariesInv, [Next]_vars PROVE TemporariesInv'
  OBVIOUS
<1>1. CASE UNCHANGED vars
  <2>1. /\ NodesInEvals' = NodesInEvals /\ OutermostEvals' = OutermostEvals
        /\ InsideEval' = InsideEval /\ Running' = Running
    BY <1>1 DEF vars, NodesInEvals, OutermostEvals, UnderEval, InsideEval, Running
  <2> QED BY <1>1, <2>1 DEF vars, TemporariesInv, Reclaimed
<1>2. ASSUME Running, Raise \/ \E r : Begins(r) PROVE TemporariesInv'
  BY <1>2, TemporariesBegin, TemporariesUnwound
<1>3. ASSUME NEW f \in Functions,
             \/ Invoke(f)
             \/ DestroyTemporary(f)
             \/ BeginDelegate(f)
             \/ \E use \in NodeUses, n \in {0, 1} : BeginCall(f, use, n)
             \/ (\E use \in {"nothing", "pop"} : DestroyValue(f, use))
             \/ (\E use \in NodeUses : Copy(f, use))
      PROVE  TemporariesInv'
  BY <1>3, <1>2, InvokeActionsBegin, OthersBegin
<1>4. ASSUME NEW use \in {"nothing", "push", "delegate"}, BeginEval(use) PROVE TemporariesInv'
  BY <1>4, <1>2, OthersBegin
<1>5. ASSUME NEW use \in NodeUses, Leaf(use) \/ BeginList(use) PROVE TemporariesInv'
  BY <1>5, <1>2, OthersBegin, TemporariesInPlace
<1>6. CASE EnterBody \/ FinishEval \/ Drop \/ PushStatic \/ PopLocal
  BY <1>6, TemporariesInPlace
<1>7. CASE EndList \/ EndEval \/ \E flags \in {NoFlags, ReturnFlag} : EndCall(flags)
  BY <1>7, TemporariesEnd
<1>8. CASE Throw \/ Unwind \/ Catch
  BY <1>8, TemporariesUnwound, TemporariesCaught DEF Throw
<1> QED BY <1>1, <1>3, <1>4, <1>5, <1>6, <1>7, <1>8 DEF Next

\* The temporaries and list elements are those of evaluations in progress, as long as
\* exceptions are caught within one or not at all (Interpreter::eval).
THEOREM EvalsOwnTheTemporaries == Spec => []TemporariesInv
<1>1. Init => TemporariesInv
  BY DEF Init, TemporariesInv, NodesInEvals, Reclaimed, OutermostEvals, Running
<1> QED BY <1>1, TemporariesNext, Invariance, PTL DEF Spec

\* Whatever a callback catches within an expression, every temporary and every
\* list element is gone when the interpreter is idle (Interpreter::eval).
THEOREM ReclaimsTemporaries == Spec => []TemporariesReclaimed
<1>1. IInv /\ TemporariesInv => TemporariesReclaimed
  BY DEF TemporariesInv, Reclaimed, TemporariesReclaimed, Running, InsideEval
<1> QED BY <1>1, EvalsOwnTheTemporaries, Invariance, PTL

-----------------------------------------------------------------------------
(* Elements of lists *)

LEMMA NodesAreAskedFor ==
  ASSUME IInv, NEW use \in NodeUses, NodeExpected(use)
  PROVE  depth > 0 /\ MayAsk(Top)
BY DEF NodeExpected, Evaluating, InList, Preparing, MayAsk

LEMMA ListsBegin ==
  ASSUME IInv, ListsInv, ~NestedLists, NEW r, Begins(r)
  PROVE  ListsInv'
<1>1. PICK d \in Nat : d = depth /\ d < MaxDepth
  BY BoundsAssumption DEF IInv, TypeOK, Begins
<1>2. /\ depth' = d + 1 /\ act'[d + 1] = r /\ \A i \in 1 .. d : act'[i] = act[i]
  BY <1>1, BoundsAssumption DEF Begins, Enter, IInv, TypeOK
<1>3. \A k \in 1 .. d : /\ PartOfElement(k)' = PartOfElement(k)
                        /\ Leaves(k)' = Leaves(k)
  BY <1>2 DEF PartOfElement, Leaves
<1>4. PartOfElement(d + 1)' => InElement
  <2> SUFFICES ASSUME PartOfElement(d + 1)' PROVE InElement
    OBVIOUS
  <2>1. PICK i \in 1 .. d : act'[i].kind = "list" /\ \A j \in i + 1 .. d : Prepares(act'[j])
    BY <1>1 DEF PartOfElement
  <2>2. act[i].kind = "list" /\ \A j \in i + 1 .. d : Prepares(act[j])
    BY <1>1, <1>2, <2>1
  <2> QED BY <1>1, <2>2 DEF InElement, Prepares
<1>5. Asked'
  <2>1. r.use \in NodeUses => d > 0 /\ MayAsk(act[d])
    BY <1>1, NodesAreAskedFor DEF Begins, Top
  <2>2. d > 0 /\ act[d].kind = "list" => r.use \in NodeUses
    BY <1>1 DEF Begins, InList, Top
  <2> SUFFICES ASSUME NEW k \in 2 .. d + 1
               PROVE  /\ act'[k].use \in NodeUses => MayAsk(act'[k - 1])
                      /\ act'[k - 1].kind = "list" => act'[k].use \in NodeUses
    BY <1>2 DEF Asked
  <2>3. CASE k \in 2 .. d
    <3>1. act'[k] = act[k] /\ act'[k - 1] = act[k - 1]
      BY <1>1, <1>2, <2>3
    <3> QED BY <1>1, <2>3, <3>1 DEF ListsInv, Asked
  <2>4. CASE k = d + 1
    <3>1. k - 1 = d /\ d \in 1 .. d /\ act'[k] = r /\ act'[k - 1] = act[d]
      BY <1>1, <1>2, <2>4
    <3> QED BY <2>1, <2>2, <3>1
  <2> QED BY <2>3, <2>4, <1>1
<1>6. ListsAreFlat'
  <2>1. r.kind = "list" => ~PartOfElement(d + 1)'
    BY <1>4 DEF Begins
  <2> SUFFICES ASSUME NEW k \in 1 .. d + 1, act'[k].kind = "list"
               PROVE  ~PartOfElement(k)'
    BY <1>2 DEF ListsAreFlat
  <2>2. CASE k \in 1 .. d
    BY <1>1, <1>2, <1>3, <2>2 DEF ListsInv, ListsAreFlat
  <2>3. CASE k = d + 1
    BY <1>2, <2>1, <2>3
  <2> QED BY <2>2, <2>3, <1>1
<1>7. Spans'
  <2> SUFFICES ASSUME caught' = "never", Running', NEW k \in 1 .. d + 1, Leaves(k)'
               PROVE  BufferEnd(k)' = act'[k].ils + Own(act'[k])
    BY <1>2 DEF Spans
  <2>1. caught = "never" /\ Running /\ r.ils = ilist /\ ilist' = ilist
    BY DEF Begins, Running
  <2>2. CASE k \in 1 .. d
    <3>1. BufferEnd(k) = act[k].ils + Own(act[k])
      BY <2>1, <2>2, <1>1, <1>3 DEF ListsInv, Spans
    <3>2. BufferEnd(k)' = BufferEnd(k)
      <4>1. CASE k = d
        BY <1>1, <1>2, <2>1, <4>1 DEF BufferEnd
      <4>2. CASE k \in 1 .. d - 1
        BY <1>1, <1>2, <4>2 DEF BufferEnd
      <4> QED BY <4>1, <4>2, <2>2, <1>1
    <3> QED BY <1>2, <2>2, <3>1, <3>2
  <2>3. CASE k = d + 1
    <3>1. BufferEnd(k)' = ilist' /\ act'[k] = r
      BY <1>2, <2>3 DEF BufferEnd
    <3>2. Own(r) = 0
      BY DEF Own, Begins
    <3> QED BY <2>1, <3>1, <3>2 DEF IInv, TypeOK
  <2> QED BY <2>2, <2>3, <1>1
<1> QED BY <1>5, <1>6, <1>7 DEF ListsInv

LEMMA ListsContinue ==
  ASSUME IInv, ListsInv, Continues, Running' => Running,
         depth' > 0 /\ caught = "never" /\ Running /\ Leaves(depth')
           => ilist' = act'[depth'].ils + Own(act'[depth'])
  PROVE  ListsInv'
<1>0. depth \in Nat /\ depth' \in 0 .. depth
  BY BoundsAssumption DEF IInv, TypeOK, Continues
<1>1. PICK n \in Nat : n = depth' /\ n <= depth
  BY <1>0
<1>2. depth \in Nat /\ \A k \in 1 .. n - 1 : act'[k] = act[k]
  <2> SUFFICES ASSUME NEW k \in 1 .. n - 1 PROVE act'[k] = act[k]
    BY <1>0
  <2>1. k \in 1 .. depth' - 1
    BY <1>1
  <2> QED BY <2>1 DEF Continues
<1>3. \A k \in 1 .. n : /\ k \in 1 .. depth /\ Same(act'[k], act[k])
                        /\ PartOfElement(k)' = PartOfElement(k)
                        /\ Leaves(k)' = Leaves(k)
  BY <1>1, KeptParts
<1>4. Asked'
  <2> SUFFICES ASSUME NEW k \in 2 .. n
               PROVE  /\ act'[k].use \in NodeUses => MayAsk(act'[k - 1])
                      /\ act'[k - 1].kind = "list" => act'[k].use \in NodeUses
    BY <1>1 DEF Asked
  <2>1. n <= depth /\ depth \in Nat
    BY <1>0, <1>1
  <2>2. k - 1 \in 1 .. n - 1 /\ k \in 1 .. n /\ k \in 2 .. depth
    BY ONLY <2>1, n \in Nat, k \in 2 .. n
  <2> QED BY <2>2, <1>2, <1>3 DEF ListsInv, Asked, Same
<1>5. ListsAreFlat'
  BY <1>1, <1>3 DEF ListsInv, ListsAreFlat, Same
<1>6. Spans'
  <2> SUFFICES ASSUME caught' = "never", Running', NEW k \in 1 .. n, Leaves(k)'
               PROVE  BufferEnd(k)' = act'[k].ils + Own(act'[k])
    BY <1>1 DEF Spans
  <2>1. caught = "never" /\ Running /\ Leaves(k)
    BY <1>3 DEF Continues
  <2>2. CASE k = n
    BY <1>1, <2>1, <2>2 DEF BufferEnd
  <2>3. CASE k \in 1 .. n - 1
    <3>0. n <= depth /\ depth \in Nat
      BY <1>0, <1>1
    <3>1. act'[k] = act[k] /\ k + 1 \in 1 .. n /\ k # depth /\ k # n /\ k \in 1 .. depth
      BY ONLY <3>0, <1>2, n \in Nat, k \in 1 .. n - 1
    <3>2. BufferEnd(k) = act[k + 1].ils
      BY <3>1 DEF BufferEnd
    <3>3. BufferEnd(k)' = act'[k + 1].ils
      BY <1>1, <3>1 DEF BufferEnd
    <3>4. act'[k + 1].ils = act[k + 1].ils
      BY <1>3, <3>1 DEF Same
    <3>5. BufferEnd(k) = act[k].ils + Own(act[k])
      BY <2>1, <3>1 DEF ListsInv, Spans
    <3> QED BY <3>1, <3>2, <3>3, <3>4, <3>5
  <2> QED BY <2>2, <2>3, <1>1
<1> QED BY <1>4, <1>5, <1>6 DEF ListsInv

\* What the topmost activation has left in the buffer.
LEMMA TopSpan ==
  ASSUME IInv, ListsInv, Running, caught = "never", depth > 0, Leaves(depth)
  PROVE  ilist = Top.ils + Own(Top)
BY TopFacts DEF ListsInv, Spans, BufferEnd, Top

\* The same for the one below it.
LEMMA CallerSpan ==
  ASSUME IInv, ListsInv, Running, caught = "never", depth > 1, Leaves(depth - 1)
  PROVE  Top.ils = Caller.ils + Own(Caller)
<1>1. depth - 1 \in 1 .. depth /\ Caller = act[depth - 1] /\ depth \in Nat
  BY CallerFacts, BoundsAssumption DEF IInv, TypeOK
<1>2. BufferEnd(depth - 1) = Top.ils
  <2>1. depth - 1 # depth /\ depth - 1 + 1 = depth
    BY <1>1
  <2> QED BY <2>1 DEF BufferEnd, Top
<1> QED BY <1>1, <1>2 DEF ListsInv, Spans

\* A step that changes nothing of the buffer, and nothing but the arguments, the locals
\* and the progress of the topmost activation, which is no list.
LEMMA ListsStay ==
  ASSUME IInv, ListsInv, Continues, depth' = depth, Running' => Running,
         depth > 0 => Top.kind = "eval" \/ (Top.kind = "call" /\ ilist' = ilist)
  PROVE  ListsInv'
<1> SUFFICES ASSUME depth' > 0, caught = "never", Running, Leaves(depth')
             PROVE  ilist' = act'[depth'].ils + Own(act'[depth'])
  BY ListsContinue
<1>1. depth > 0 /\ Leaves(depth)
  OBVIOUS
<1>2. Top.kind = "call" /\ ilist' = ilist
  BY <1>1 DEF Leaves, Top
<1>3. Same(act'[depth], Top)
  BY <1>1 DEF Continues, Top
<1> QED BY <1>1, <1>2, <1>3, TopSpan DEF Own, Same

LEMMA ListsGiven ==
  ASSUME IInv, ListsInv, Running, depth > 0, Top.use \in NodeUses,
         Leave(Given(depth - 1, Top.use)), caught' = caught,
         ilist' = ilist + Elements(depth - 1, Top.use), Top.kind \in {"call", "list"}
  PROVE  ListsInv'
<1> DEFINE p == Given(depth - 1, Top.use)
<1>1. depth > 1 /\ depth \in Nat
  BY TopFacts DEF IInv, Nested, NodeUses
<1>2. /\ depth - 1 \in 1 .. MaxDepth /\ Caller = act[depth - 1] /\ Caller \in Activation
      /\ Same(p, Caller)
  BY <1>1, CallerFacts, GivenFacts DEF NodeUses, Uses
<1>3. Continues /\ depth' = depth - 1 /\ act'[depth - 1] = p
  BY <1>1, <1>2, LeaveContinues
<1>4. MayAsk(Caller)
  <2>1. depth \in 2 .. depth
    BY <1>1
  <2> QED BY <2>1, <1>2 DEF ListsInv, Asked, Top
<1> SUFFICES ASSUME caught = "never", Leaves(depth - 1)
             PROVE  ilist' = p.ils + Own(p)
  BY <1>3, ListsContinue
<1>5. PartOfElement(depth)
  <2>1. CASE Caller.kind = "list"
    <3>1. depth - 1 \in 1 .. depth - 1 /\ ((depth - 1) + 1) .. (depth - 1) = {}
      BY <1>1
    <3> QED BY <2>1, <3>1, <1>2 DEF PartOfElement
  <2>2. CASE Caller.kind # "list"
    <3>1. Caller.kind = "call" /\ PartOfElement(depth - 1) /\ Prepares(Caller)
      BY <2>2, <1>2, <1>4 DEF Leaves, MayAsk, Prepares
    <3>2. PICK i \in 1 .. depth - 2 : /\ act[i].kind = "list"
                                     /\ \A j \in i + 1 .. depth - 2 : Prepares(act[j])
      BY <3>1, <1>1 DEF PartOfElement
    <3>3. \A j \in i + 1 .. depth - 1 : j \in i + 1 .. depth - 2 \/ j = depth - 1
      BY <1>1
    <3>4. i \in 1 .. depth - 1 /\ \A j \in i + 1 .. depth - 1 : Prepares(act[j])
      BY <1>1, <1>2, <3>1, <3>2, <3>3
    <3> QED BY <3>2, <3>4 DEF PartOfElement
  <2> QED BY <2>1, <2>2
<1>6. Top.kind = "call" /\ Leaves(depth)
  BY <1>5, TopFacts DEF ListsInv, ListsAreFlat, Leaves, Top
<1>7. ilist = Top.ils
  BY <1>6, TopSpan, TopFacts, OwnedTypes DEF Own
<1>8. Top.ils = Caller.ils + Own(Caller) /\ Caller.ils \in Nat /\ Caller.pushed \in Nat
  BY <1>1, <1>2, CallerSpan, OwnedTypes
<1>9. p.ils = Caller.ils /\ Own(p) = Own(Caller) + Elements(depth - 1, Top.use)
  <2>1. p.ils = Caller.ils /\ p.kind = Caller.kind
    BY <1>2 DEF Same
  <2>2. p.pushed = Caller.pushed + IF Top.use = "argument" THEN 1 ELSE 0
    BY <1>2, <1>8 DEF Given, Activation
  <2> HIDE DEF p
  <2> QED BY <2>1, <2>2, <1>2, <1>8 DEF Own, Elements
<1> HIDE DEF p
<1>10. Own(Caller) \in Nat /\ Elements(depth - 1, Top.use) \in Nat
  BY <1>8 DEF Own, Elements
<1> QED BY <1>7, <1>8, <1>9, <1>10

LEMMA ListsLeft ==
  ASSUME IInv, ListsInv, Running, depth > 0, NEW p, Leave(p), caught' = caught,
         depth > 1 => Same(p, Caller), Top.use \notin NodeUses,
         caught = "never" /\ depth > 1 /\ Caller.kind = "call"
           => ilist = Top.ils /\ ilist' = ilist
  PROVE  ListsInv'
<1>1. Continues /\ depth' = depth - 1 /\ depth \in Nat
      /\ (depth > 1 => act'[depth - 1] = p)
  BY LeaveContinues, TopFacts
<1> SUFFICES ASSUME depth - 1 > 0, caught = "never", Leaves(depth - 1)
             PROVE  ilist' = p.ils + Own(p)
  BY <1>1, ListsContinue
<1>2. depth > 1 /\ Caller = act[depth - 1] /\ Caller \in Activation
  BY <1>1, CallerFacts
<1>3. Caller.kind # "list"
  <2>1. depth \in 2 .. depth
    BY <1>1, <1>2
  <2> QED BY <2>1, <1>2 DEF ListsInv, Asked, Top
<1>4. Caller.kind = "call" /\ Own(Caller) = 0
  BY <1>2, <1>3 DEF Leaves, Own
<1>5. p.ils = Caller.ils /\ Own(p) = 0
  BY <1>2, <1>4 DEF Same, Own
<1>6. ilist' = Caller.ils + 0
  BY <1>2, <1>4, CallerSpan
<1> QED BY <1>5, <1>6

LEMMA ListsUnwound ==
  ASSUME IInv, ListsInv, Raise \/ Unwind
  PROVE  ListsInv'
<1>1. CASE Raise
  <2>1. Continues /\ ~Running' /\ depth' = depth /\ act' = act /\ ilist' = ilist
    BY <1>1, UpdateContinues DEF Raise, Running
  <2>2. caught = "never" /\ Running /\ depth' > 0 /\ Leaves(depth')
          => ilist' = act'[depth'].ils + Own(act'[depth'])
    BY <2>1, TopSpan DEF Top
  <2> QED BY <2>1, <2>2, ListsContinue
<1>2. CASE Unwind
  <2>1. /\ depth > 0 /\ Leave(Caller) /\ caught' = caught /\ Same(Caller, Caller)
        /\ ~Running /\ ~Running'
    BY <1>2 DEF Unwind, Same, Running
  <2>2. Continues
    BY <2>1, LeaveContinues
  <2> QED BY <2>1, <2>2, ListsContinue
<1> QED BY <1>1, <1>2

\* After an exception has been caught, nothing is said of the buffer.
LEMMA ListsCaught ==
  ASSUME IInv, ListsInv, Catch
  PROVE  ListsInv'
<1>1. UNCHANGED <<ilist, depth, act>> /\ caught' # "never"
  BY DEF Catch
<1>2. Asked' = Asked /\ ListsAreFlat' = ListsAreFlat
  BY <1>1 DEF Asked, ListsAreFlat, PartOfElement
<1> QED BY <1>1, <1>2 DEF ListsInv, Spans

LEMMA ListsInPlace ==
  ASSUME IInv, ListsInv,
         \/ EnterBody \/ FinishEval \/ PushStatic \/ PopLocal \/ Drop
         \/ \E use \in NodeUses : Leaf(use)
  PROVE  ListsInv'
<1>1. CASE EnterBody
  <2>1. CASE Raise
    BY <2>1, ListsUnwound
  <2>2. CASE /\ act' = [act EXCEPT ![depth].running = TRUE]
             /\ UNCHANGED <<size, gc, ilist, depth, mode, exc, caught>>
    <3>1. /\ depth > 0 /\ depth' = depth /\ ilist' = ilist /\ Top.kind = "call"
          /\ caught' = caught /\ mode' = mode
      BY <1>1, <2>2 DEF EnterBody, Preparing
    <3>2. act' = [act EXCEPT ![depth] = [Top EXCEPT !.running = TRUE]]
      BY <2>2 DEF Top
    <3>3. Same([Top EXCEPT !.running = TRUE], Top)
      BY <3>1, TopFacts DEF Same, Activation
    <3> QED BY <3>1, <3>2, <3>3, UpdateContinues, ListsStay DEF Running
  <2> QED BY <1>1, <2>1, <2>2 DEF EnterBody
<1>2. CASE FinishEval
  <2>1. /\ depth > 0 /\ Top.kind = "eval" /\ UNCHANGED <<depth, caught, mode>>
        /\ act' = [act EXCEPT ![depth] = [Top EXCEPT !.done = TRUE]]
    BY <1>2 DEF FinishEval, Evaluating, Top
  <2>2. Same([Top EXCEPT !.done = TRUE], Top)
    BY <2>1, TopFacts DEF Same, Activation
  <2> QED BY <2>1, <2>2, UpdateContinues, ListsStay DEF Running
<1>3. CASE PushStatic
  <2>1. /\ depth > 0 /\ Top.kind = "call" /\ UNCHANGED <<ilist, depth, caught, mode>>
        /\ act' = [act EXCEPT ![depth] = [Top EXCEPT !.locals = @ + 1]]
    BY <1>3 DEF PushStatic, InScript, Top
  <2>2. Same([Top EXCEPT !.locals = @ + 1], Top)
    BY <2>1, TopFacts DEF Same, Activation
  <2> QED BY <2>1, <2>2, UpdateContinues, ListsStay DEF Running
<1>4. CASE PopLocal
  <2>1. /\ depth > 0 /\ Top.kind = "call" /\ UNCHANGED <<ilist, depth, caught, mode>>
        /\ act' = [act EXCEPT ![depth] = [Top EXCEPT !.locals = @ - 1]]
    BY <1>4 DEF PopLocal, InScript, Top
  <2>2. Same([Top EXCEPT !.locals = @ - 1], Top)
    BY <2>1, TopFacts DEF Same, Activation
  <2> QED BY <2>1, <2>2, UpdateContinues, ListsStay DEF Running
<1>5. CASE Drop
  <2>1. /\ depth > 0 /\ Top.kind = "eval" /\ UNCHANGED <<depth, act, caught, mode>>
    BY <1>5 DEF Drop, Dropping
  <2> QED BY <2>1, UpdateContinues, ListsStay DEF Running
<1>6. ASSUME NEW use \in NodeUses, Leaf(use) PROVE ListsInv'
  <2> DEFINE p == Given(depth, use)
  <2>1. /\ Running /\ NodeExpected(use) /\ UNCHANGED <<depth, caught, mode>>
        /\ act' = [act EXCEPT ![depth] = p] /\ ilist' = ilist + Elements(depth, use)
    BY <1>6 DEF Leaf
  <2>2. depth > 0 /\ Top \in Activation /\ Top = act[depth] /\ depth \in 1 .. MaxDepth
    BY <2>1, NodesAreAskedFor, TopFacts
  <2>3. Same(p, Top)
    BY <2>2, GivenFacts DEF NodeUses, Uses
  <2>4. Continues /\ act'[depth'] = p
    BY <2>1, <2>2, <2>3, UpdateContinues DEF IInv, TypeOK
  <2>5. Own(p) = Own(Top) + Elements(depth, use) /\ p.ils = Top.ils
    <3>1. p.pushed = Top.pushed + IF use = "argument" THEN 1 ELSE 0
      BY <2>2 DEF Given, Activation
    <3>2. p.kind = Top.kind /\ p.ils = Top.ils /\ Top.pushed \in Nat
      BY <2>2, <2>3, OwnedTypes DEF Same
    <3> HIDE DEF p
    <3> QED BY <3>1, <3>2, <2>2 DEF Own, Elements
  <2> HIDE DEF p
  <2>6. /\ Own(Top) \in Nat /\ Elements(depth, use) \in Nat /\ Top.ils \in Nat
    BY <2>2, OwnedTypes DEF Own, Elements
  <2>7. caught = "never" /\ Leaves(depth) => ilist' = p.ils + Own(p)
    BY <2>1, <2>2, <2>5, <2>6, TopSpan
  <2> QED BY <2>1, <2>4, <2>7, ListsContinue DEF Running
<1> QED BY <1>1, <1>2, <1>3, <1>4, <1>5, <1>6

LEMMA ListsEnd ==
  ASSUME IInv, ListsInv,
         EndList \/ EndEval \/ \E flags \in {NoFlags, ReturnFlag} : EndCall(flags)
  PROVE  ListsInv'
<1>1. CASE EndList
  <2>1. depth > 0 /\ Top.use \in NodeUses /\ Top.kind = "list"
    BY <1>1, TopFacts DEF EndList, InList, Shape
  <2> QED BY <1>1, <2>1, ListsGiven DEF EndList
<1>2. CASE EndEval
  <2>1. /\ Running /\ depth > 0 /\ Top.kind = "eval" /\ ilist <= Top.ils
        /\ UNCHANGED <<ilist, caught>>
    BY <1>2 DEF EndEval, Dropping, Dropped
  <2>2. Top.use \in {"nothing", "push", "delegate"} /\ Top.ils <= ilist /\ Top \in Activation
    BY <2>1, TopFacts DEF Shape
  <2>3. PICK p : Leave(p) /\ (depth > 1 => Same(p, Caller))
    <3>1. depth > 1 => Caller \in Activation
      BY CallerFacts
    <3>2. \/ Leave([Caller EXCEPT !.locals = @ + 1])
          \/ Leave([Caller EXCEPT !.pushed = @ + 1])
          \/ Leave(Caller)
      BY <1>2, <2>2 DEF EndEval
    <3> QED BY <3>1, <3>2 DEF Same, Activation
  <2>4. ilist = Top.ils
    BY <2>1, <2>2, OwnedTypes DEF IInv, TypeOK
  <2> QED BY <2>1, <2>2, <2>3, <2>4, ListsLeft DEF NodeUses
<1>3. ASSUME NEW flags \in {NoFlags, ReturnFlag}, EndCall(flags) PROVE ListsInv'
  <2>1. depth > 0 /\ Top.kind = "call" /\ Running /\ caught' = caught
        /\ Top \in Activation
    BY <1>3, EndCallFacts DEF EndCall
  <2>2. CASE Top.use \in NodeUses
    <3>1. /\ Leave(Given(depth - 1, Top.use))
          /\ ilist' = ilist + Elements(depth - 1, Top.use)
      BY <1>3, <2>2 DEF EndCall, NodeUses
    <3> QED BY <2>1, <2>2, <3>1, ListsGiven
  <2>3. CASE Top.use \notin NodeUses
    <3>1. PICK p : Leave(p) /\ (depth > 1 => Same(p, Caller))
      <4>1. depth > 1 => Caller \in Activation
        BY CallerFacts
      <4>2. Leave([Caller EXCEPT !.locals = @ - 1]) \/ Leave(Caller)
        BY <1>3, <2>3 DEF EndCall
      <4> QED BY <4>1, <4>2 DEF Same, Activation
    <3>2. caught = "never" => ilist = Top.ils
      <4>1. Leaves(depth)
        BY <2>1, <2>3 DEF Leaves, Top
      <4> QED BY <2>1, <4>1, TopSpan, OwnedTypes DEF Own
    <3>3. depth > 1 /\ Caller.kind = "call" => ilist' = ilist
      <4>1. depth > 1 /\ Caller.kind = "call" => Top.use # "dropElement"
        BY CallerFacts DEF Fits
      <4> QED BY <1>3, <2>3, <4>1 DEF EndCall
    <3> QED BY <2>1, <2>3, <3>1, <3>2, <3>3, ListsLeft
  <2> QED BY <2>2, <2>3
<1> QED BY <1>1, <1>2, <1>3

LEMMA ListsNext == IInv /\ ListsInv /\ ~NestedLists /\ [Next]_vars => ListsInv'
<1> SUFFICES ASSUME IInv, ListsInv, ~NestedLists, [Next]_vars PROVE ListsInv'
  OBVIOUS
<1>1. CASE UNCHANGED vars
  <2>1. Asked' = Asked /\ ListsAreFlat' = ListsAreFlat /\ Running' = Running
    BY <1>1 DEF vars, Asked, ListsAreFlat, PartOfElement, Running
  <2>2. Spans' = Spans
    BY <1>1, <2>1 DEF vars, Spans, Leaves, PartOfElement, BufferEnd
  <2> QED BY <2>1, <2>2 DEF ListsInv
<1>2. ASSUME Running, Raise \/ \E r : Begins(r) PROVE ListsInv'
  BY <1>2, ListsBegin, ListsUnwound
<1>3. ASSUME NEW f \in Functions,
             \/ Invoke(f)
             \/ DestroyTemporary(f)
             \/ BeginDelegate(f)
             \/ \E use \in NodeUses, n \in {0, 1} : BeginCall(f, use, n)
             \/ (\E use \in {"nothing", "pop"} : DestroyValue(f, use))
             \/ (\E use \in NodeUses : Copy(f, use))
      PROVE  ListsInv'
  BY <1>3, <1>2, InvokeActionsBegin, OthersBegin
<1>4. ASSUME NEW use \in {"nothing", "push", "delegate"}, BeginEval(use) PROVE ListsInv'
  BY <1>4, <1>2, OthersBegin
<1>5. ASSUME NEW use \in NodeUses, Leaf(use) \/ BeginList(use) PROVE ListsInv'
  BY <1>5, <1>2, OthersBegin, ListsInPlace
<1>6. CASE EnterBody \/ FinishEval \/ Drop \/ PushStatic \/ PopLocal
  BY <1>6, ListsInPlace
<1>7. CASE EndList \/ EndEval \/ \E flags \in {NoFlags, ReturnFlag} : EndCall(flags)
  BY <1>7, ListsEnd
<1>8. CASE Throw \/ Unwind \/ Catch
  BY <1>8, ListsUnwound, ListsCaught DEF Throw
<1> QED BY <1>1, <1>3, <1>4, <1>5, <1>6, <1>7, <1>8 DEF Next

\* An initializer list under construction spans exactly the elements evaluated for it,
\* whatever those evaluations called, as long as no element has a list of its own and
\* no callback has caught an exception (visit(InitializerList)).
THEOREM FlatListsHoldTheirElements == ~NestedLists => (Spec => []ListHoldsItsElements)
<1> SUFFICES ASSUME ~NestedLists PROVE Spec => []ListHoldsItsElements
  OBVIOUS
<1>1. Init => ListsInv
  BY DEF Init, ListsInv, Asked, ListsAreFlat, Spans
<1>2. IInv /\ ListsInv /\ [Next]_vars => ListsInv'
  BY ListsNext
<1>3. IInv /\ ListsInv => ListHoldsItsElements
  <2> SUFFICES ASSUME IInv, ListsInv, Running, InList, caught = "never"
               PROVE  ListSpan = Top.pushed
    BY DEF ListHoldsItsElements
  <2>1. depth > 0 /\ Top.kind = "list" /\ Leaves(depth)
    BY DEF InList, Leaves, Top
  <2>2. ilist = Top.ils + Top.pushed
    BY <2>1, TopSpan DEF Own
  <2> QED BY <2>1, <2>2, TopFacts, OwnedTypes DEF ListSpan
<1> QED BY <1>1, <1>2, <1>3, Invariance, PTL DEF Spec
=============================================================================
