---------------------------- MODULE SelectionProofs ----------------------------
(***************************************************************************)
(* Proofs about Selection, for any candidates, and about the comparison of *)
(* ConversionRanks that it stands on: of two candidates at most one is     *)
(* better, and where the conversions of an argument are alike, better is   *)
(* an order.                                                               *)
(***************************************************************************)
EXTENDS Selection, ConversionRanks, TLAPS

-----------------------------------------------------------------------------
(* The selection.                                                          *)

\* The candidates processed are those of one call.
OneCall == considered = {} \/ \E S \in CandidateSets : considered \subseteq S

IInv == SelectionTypeOK /\ OneCall /\ NeverBeaten /\ BestIsResolved

LEMMA InitInv == SelectionInit => IInv
  BY DEF SelectionInit, IInv, SelectionTypeOK, OneCall, NeverBeaten, Ordered, Unbeaten,
         BestIsResolved

\* What is an order of more candidates is one of fewer.
LEMMA OrderedBefore ==
  ASSUME considered \subseteq considered', Ordered'
  PROVE  Ordered
  BY DEF Ordered

\* The best of more candidates, when it was among fewer, was the best of them
\* and is selected without ambiguity.
LEMMA BestBefore ==
  ASSUME IInv, NoCandidate \notin considered, considered \subseteq considered',
         NEW c \in considered, Best(c)'
  PROVE  selected = c /\ ambiguous = NoCandidate
<1>1. Best(c)
  BY DEF Best
<1>2. Resolved = c
  BY <1>1 DEF IInv, BestIsResolved
<1> QED
  BY <1>2 DEF Resolved

LEMMA NextInv ==
  ASSUME IInv, [SelectionNext]_selectionVars
  PROVE  IInv'
<1>1. CASE UNCHANGED selectionVars
  BY <1>1 DEF IInv, SelectionTypeOK, OneCall, NeverBeaten, Ordered, Unbeaten, BestIsResolved,
              Best, Resolved, selectionVars
<1>2. CASE SelectionNext
  <2>1. PICK S \in CandidateSets : considered \subseteq S /\ \E c \in S : Process(c)
    BY <1>2 DEF SelectionNext
  <2>2. PICK c \in S : Process(c)
    BY <2>1
  <2>3. /\ considered' = considered \cup {c}
        /\ considered' \subseteq S
        /\ NoCandidate \notin considered'
        /\ c # NoCandidate
        /\ considered # {} => selected \in considered
        /\ considered = {} => selected = NoCandidate /\ ambiguous = NoCandidate
        /\ ambiguous \in considered \cup {NoCandidate}
    BY <2>1, <2>2, NoCandidateIsNone
    DEF Process, IInv, SelectionTypeOK, NeverBeaten, Candidates
  <2>4. \A a, b \in considered' : Better(a, b) => ~Better(b, a)
    BY <2>1, <2>3, BetterIsStrict
  <2>5. OneCall'
    BY <2>1, <2>3 DEF OneCall
  <2>6. \A d \in considered : Best(d)' => selected = d /\ ambiguous = NoCandidate
    BY <2>3, BestBefore
  <2>7. CASE c \in {selected, ambiguous}
    <3>1. c \in considered
      BY <2>3, <2>7
    <3>2. considered' = considered /\ selected' = selected /\ ambiguous' = ambiguous
      BY <2>2, <2>7, <3>1 DEF Process
    <3> QED
      BY <3>2, <2>5 DEF IInv, SelectionTypeOK, NeverBeaten, Ordered, Unbeaten, BestIsResolved,
                        Best, Resolved
  <2>8. CASE c \notin {selected, ambiguous} /\ BetterThan(c, selected)
    <3>1. /\ selected' = c
          /\ ambiguous' = IF ambiguous # NoCandidate /\ Better(c, ambiguous)
                          THEN NoCandidate ELSE ambiguous
      BY <2>2, <2>8 DEF Process
    <3>2. SelectionTypeOK'
      BY <2>3, <3>1 DEF SelectionTypeOK
    <3>3. NeverBeaten'
      <4>1. SUFFICES ASSUME Ordered', NEW d \in considered', Better(d, c)
                     PROVE  FALSE
        BY <2>3, <3>1 DEF NeverBeaten, Unbeaten
      <4>2. d \in considered
        BY <2>3, <2>4, <4>1
      <4>3. selected \in considered /\ Better(c, selected)
        BY <2>3, <2>8, <4>2 DEF BetterThan
      <4>4. Better(d, selected)
        BY <2>3, <4>1, <4>3 DEF Ordered
      <4>5. Unbeaten
        BY <2>3, <4>1, OrderedBefore DEF IInv, NeverBeaten
      <4> QED
        BY <4>2, <4>4, <4>5 DEF Unbeaten
    \* A candidate that is the best was selected before, and the one that takes
    \* its place is better than it, or is the one that takes the place.
    <3>4. BestIsResolved'
      <4>1. SUFFICES ASSUME NEW d \in considered', Best(d)'
                     PROVE  Resolved' = d
        BY DEF BestIsResolved
      <4>2. CASE d = c
        <5>1. ambiguous # NoCandidate => Better(c, ambiguous)
          BY <2>3, <2>8, <4>1, <4>2 DEF Best
        <5> QED
          BY <3>1, <4>2, <5>1 DEF Resolved
      <4>3. CASE d # c
        <5>1. selected = d /\ d \in considered
          BY <2>3, <2>6, <4>1, <4>3
        <5>2. Better(d, c) /\ Better(c, d)
          BY <2>3, <2>8, <4>1, <4>3, <5>1 DEF Best, BetterThan
        <5> QED
          BY <2>3, <2>4, <5>1, <5>2
      <4> QED
        BY <4>2, <4>3
    <3> QED
      BY <2>5, <3>2, <3>3, <3>4 DEF IInv
  <2>9. CASE c \notin {selected, ambiguous} /\ ~BetterThan(c, selected)
    <3>1. /\ selected' = selected
          /\ selected # NoCandidate
          /\ ~Better(c, selected)
          /\ ambiguous' = IF Better(selected, c)
                          THEN IF ambiguous # NoCandidate /\ Better(c, ambiguous)
                               THEN c ELSE ambiguous
                          ELSE c
      BY <2>2, <2>3, <2>9 DEF Process, BetterThan, WorseThan
    <3>2. SelectionTypeOK'
      BY <2>3, <3>1 DEF SelectionTypeOK
    <3>3. NeverBeaten'
      BY <2>3, <3>1, OrderedBefore DEF IInv, NeverBeaten, Unbeaten
    <3>4. BestIsResolved'
      <4>1. SUFFICES ASSUME NEW d \in considered', Best(d)'
                     PROVE  Resolved' = d
        BY DEF BestIsResolved
      <4>2. d # c
        BY <2>3, <2>9, <3>1, <4>1 DEF Best
      <4>3. selected = d /\ ambiguous = NoCandidate /\ Better(d, c)
        BY <2>3, <2>6, <4>1, <4>2 DEF Best
      <4> QED
        BY <3>1, <4>3 DEF Resolved
    <3> QED
      BY <2>5, <3>2, <3>3, <3>4 DEF IInv
  <2> QED
    BY <2>7, <2>8, <2>9
<1> QED
  BY <1>1, <1>2

LEMMA InvAlways == SelectionSpec => []IInv
<1>1. IInv /\ [SelectionNext]_selectionVars => IInv'
  BY NextInv
<1> QED
  BY InitInv, <1>1, PTL DEF SelectionSpec

\* One candidate is selected as soon as there is one, and where better is an
\* order of those that were processed, none of them is better than it.
THEOREM NeverBeatenAlways == SelectionSpec => []NeverBeaten
<1>1. IInv => NeverBeaten
  BY DEF IInv
<1> QED
  BY InvAlways, <1>1, PTL

\* A candidate better than all the others is what the call gets, also when the
\* others are not ordered.
THEOREM BestIsResolvedAlways == SelectionSpec => []BestIsResolved
<1>1. IInv => BestIsResolved
  BY DEF IInv
<1> QED
  BY InvAlways, <1>1, PTL

-----------------------------------------------------------------------------
(* The comparison.                                                         *)

\* What compute and select_cast make of types: the numbers in a conversion.
IsStd(c) == c.depth \in Nat /\ c.ref \in BOOLEAN /\ c.adjust \in BOOLEAN

IsConversion(c) == IsStd(c.first) /\ IsStd(c.second)

\* Only the initializations by a list hold initializations.
IsInitialization(i) == IsConversion(i.conv) /\ (HasInitializations(i) <=> i.kind = "list")

LEMMA StdRanks == ASSUME NEW c PROVE StdRank(c) \in 1..5
<1>1. NotConvertible.kind = "none"
  BY DEF NotConvertible, StdConv
<1> QED
  BY <1>1 DEF StdRank, ExactMatch, Promotion, NumericConversion, NotConvertibleRank,
              IsDerivedToBase, IsNumericConversion, IsNumericPromotion

\* StandardConversion::operator< never holds both ways.
LEMMA StdLessIsStrict ==
  ASSUME NEW a, NEW b, IsStd(a), IsStd(b), StdLess(a, b)
  PROVE  ~StdLess(b, a)
BY StdRanks DEF StdLess, IsStd

\* Of two conversions or initializations, the one that is better is so whichever of
\* them comes first.
LEMMA ConversionsAreStrict ==
  ASSUME NEW a, NEW b, IsConversion(a), IsConversion(b)
  PROVE  /\ CompareConversions(a, b) \in {-1, 0, 1}
         /\ CompareConversions(a, b) = -1 => CompareConversions(b, a) = 1
<1>1. /\ ~(StdLess(a.first, b.first) /\ StdLess(b.first, a.first))
      /\ ~(StdLess(a.second, b.second) /\ StdLess(b.second, a.second))
  BY StdLessIsStrict DEF IsConversion
<1> QED
  BY <1>1 DEF CompareConversions, Sign, IsUserDefined

LEMMA InitializationsAreStrict ==
  ASSUME NEW a, NEW b, IsInitialization(a), IsInitialization(b)
  PROVE  /\ CompareInitializations(a, b) \in {-1, 0, 1}
         /\ CompareInitializations(a, b) = -1 => CompareInitializations(b, a) > 0
<1>1. CASE ~HasInitializations(a) /\ ~HasInitializations(b)
  BY <1>1, ConversionsAreStrict DEF CompareInitializations, IsInitialization
<1>2. CASE ~HasInitializations(a) /\ HasInitializations(b)
  BY <1>2, ConversionsAreStrict DEF CompareInitializations, IsInitialization, Sign
<1>3. CASE HasInitializations(a)
  BY <1>3 DEF CompareInitializations, IsInitialization, Sign
<1> QED
  BY <1>1, <1>2, <1>3

\* Of two candidates of a call, whatever their conversions and lists, at most one is
\* better: what Selection assumes of compare.
THEOREM ComparisonIsStrict ==
  ASSUME NEW rankA \in Nat, NEW rankB \in Nat, NEW initsA, NEW initsB,
         DOMAIN initsA = DOMAIN initsB,
         \A i \in DOMAIN initsA : IsInitialization(initsA[i]) /\ IsInitialization(initsB[i]),
         BetterRanked(rankA, rankB, initsA, initsB)
  PROVE  ~BetterRanked(rankB, rankA, initsB, initsA)
<1>1. CASE rankA < rankB
  BY <1>1 DEF BetterRanked
<1>2. CASE ~(rankA < rankB)
  <2>1. rankA = rankB
    BY <1>2 DEF BetterRanked
  <2>2. PICK i \in DOMAIN initsA : CompareInitializations(initsA[i], initsB[i]) < 0
    BY <1>2 DEF BetterRanked
  <2>3. CompareInitializations(initsB[i], initsA[i]) > 0
    BY <2>2, InitializationsAreStrict
  <2>4. CompareInitializations(initsB[i], initsA[i]) \in {-1, 0, 1}
    BY InitializationsAreStrict
  <2> QED
    BY <2>1, <2>3, <2>4 DEF BetterRanked
<1> QED
  BY <1>1, <1>2

\* Of one rank, both or neither lead to a base class: not one of them to a base and
\* the other to a number, which compares the one by what the other does not have.
Alike(c, d) == StdRank(c) = StdRank(d) => (IsDerivedToBase(c) <=> IsDerivedToBase(d))

\* What is compared of a conversion, when the other one is through a function too, or
\* neither is.
Compared(c) == IF IsUserDefined(c) THEN c.second ELSE c.first

AlikeConversions(c, d) ==
  (IsUserDefined(c) <=> IsUserDefined(d)) => Alike(Compared(c), Compared(d))

LEMMA StdLessIsOrder ==
  ASSUME NEW a, NEW b, NEW c, IsStd(a), IsStd(b), IsStd(c),
         Alike(a, b), Alike(b, c), Alike(a, c),
         ~StdLess(b, a), ~StdLess(c, b)
  PROVE  /\ ~StdLess(c, a)
         /\ StdLess(a, b) \/ StdLess(b, c) => StdLess(a, c)
<1>1. StdRank(a) \in Nat /\ StdRank(b) \in Nat /\ StdRank(c) \in Nat
  BY StdRanks
<1>2. StdRank(a) <= StdRank(b) /\ StdRank(b) <= StdRank(c)
  BY <1>1 DEF StdLess
<1>3. CASE StdRank(a) < StdRank(c)
  BY <1>1, <1>2, <1>3 DEF StdLess
<1>4. CASE StdRank(a) = StdRank(b) /\ StdRank(b) = StdRank(c)
  <2>1. CASE IsDerivedToBase(a) /\ IsDerivedToBase(b) /\ IsDerivedToBase(c)
    BY <1>1, <1>4, <2>1 DEF StdLess, IsStd
  <2>2. CASE ~IsDerivedToBase(a) /\ ~IsDerivedToBase(b) /\ ~IsDerivedToBase(c)
    BY <1>1, <1>4, <2>2 DEF StdLess, IsStd
  <2> QED
    BY <1>4, <2>1, <2>2 DEF Alike
<1> QED
  BY <1>1, <1>2, <1>3, <1>4

LEMMA ConversionsAreOrdered ==
  ASSUME NEW a, NEW b, NEW c, IsConversion(a), IsConversion(b), IsConversion(c),
         AlikeConversions(a, b), AlikeConversions(b, c), AlikeConversions(a, c),
         CompareConversions(a, b) <= 0, CompareConversions(b, c) <= 0
  PROVE  /\ CompareConversions(a, c) <= 0
         /\ CompareConversions(a, b) < 0 \/ CompareConversions(b, c) < 0
              => CompareConversions(a, c) < 0
<1>1. ASSUME NEW x, NEW y, IsConversion(x), IsConversion(y),
             IsUserDefined(x), IsUserDefined(y)
      PROVE  /\ CompareConversions(x, y) <= 0 <=> ~StdLess(y.second, x.second)
             /\ CompareConversions(x, y) < 0 <=> StdLess(x.second, y.second)
  <2>1. ~(StdLess(x.second, y.second) /\ StdLess(y.second, x.second))
    BY <1>1, StdLessIsStrict DEF IsConversion
  <2>2. CompareConversions(x, y) = Sign(StdLess(x.second, y.second), StdLess(y.second, x.second))
    BY <1>1 DEF CompareConversions, IsUserDefined
  <2> QED
    BY <2>1, <2>2 DEF Sign
<1>2. ASSUME NEW x, NEW y, IsConversion(x), IsConversion(y),
             ~IsUserDefined(x), ~IsUserDefined(y)
      PROVE  /\ CompareConversions(x, y) <= 0 <=> ~StdLess(y.first, x.first)
             /\ CompareConversions(x, y) < 0 <=> StdLess(x.first, y.first)
  <2>1. ~(StdLess(x.first, y.first) /\ StdLess(y.first, x.first))
    BY <1>2, StdLessIsStrict DEF IsConversion
  <2>2. CompareConversions(x, y) = Sign(StdLess(x.first, y.first), StdLess(y.first, x.first))
    BY <1>2 DEF CompareConversions, IsUserDefined
  <2> QED
    BY <2>1, <2>2 DEF Sign
<1>3. ASSUME NEW x, NEW y, IsUserDefined(x) # IsUserDefined(y)
      PROVE  /\ CompareConversions(x, y) <= 0 <=> IsUserDefined(y)
             /\ CompareConversions(x, y) < 0 <=> IsUserDefined(y)
  BY <1>3 DEF CompareConversions, Sign, IsUserDefined
<1>4. CASE IsUserDefined(a) /\ IsUserDefined(b) /\ IsUserDefined(c)
  BY <1>1, <1>4, StdLessIsOrder DEF AlikeConversions, Compared, IsConversion, IsUserDefined
<1>5. CASE ~IsUserDefined(a) /\ ~IsUserDefined(b) /\ ~IsUserDefined(c)
  BY <1>2, <1>5, StdLessIsOrder DEF AlikeConversions, Compared, IsConversion, IsUserDefined
<1>6. CASE IsUserDefined(a) # IsUserDefined(c)
  BY <1>3, <1>6 DEF IsUserDefined
<1> QED
  BY <1>3, <1>4, <1>5, <1>6 DEF IsUserDefined

\* For a call without lists, where the conversions of each argument are alike, better
\* is transitive: the candidates are Ordered, and NeverBeaten says of them that the one
\* that is selected is not beaten.
THEOREM ComparisonIsTransitive ==
  ASSUME NEW rankA \in Nat, NEW rankB \in Nat, NEW rankC \in Nat,
         NEW initsA, NEW initsB, NEW initsC,
         DOMAIN initsA = DOMAIN initsB, DOMAIN initsB = DOMAIN initsC,
         \A i \in DOMAIN initsA : \A init \in {initsA[i], initsB[i], initsC[i]} :
           /\ IsInitialization(init) /\ ~HasInitializations(init)
           /\ \A other \in {initsA[i], initsB[i], initsC[i]} :
                AlikeConversions(init.conv, other.conv),
         BetterRanked(rankA, rankB, initsA, initsB),
         BetterRanked(rankB, rankC, initsB, initsC)
  PROVE  BetterRanked(rankA, rankC, initsA, initsC)
<1>1. rankA <= rankB /\ rankB <= rankC
  BY DEF BetterRanked
<1>2. CASE rankA < rankC
  BY <1>2 DEF BetterRanked
<1>3. CASE rankA = rankB /\ rankB = rankC
  <2>1. \A i \in DOMAIN initsA :
          /\ CompareInitializations(initsA[i], initsB[i]) <= 0
          /\ CompareInitializations(initsB[i], initsC[i]) <= 0
    BY <1>3 DEF BetterRanked
  <2>2. ASSUME NEW i \in DOMAIN initsA
        PROVE  /\ CompareInitializations(initsA[i], initsC[i]) <= 0
               /\ \/ CompareInitializations(initsA[i], initsB[i]) < 0
                  \/ CompareInitializations(initsB[i], initsC[i]) < 0
                  => CompareInitializations(initsA[i], initsC[i]) < 0
    <3>1. \A x, y \in {initsA[i], initsB[i], initsC[i]} :
            /\ CompareInitializations(x, y) = CompareConversions(x.conv, y.conv)
            /\ IsConversion(x.conv) /\ AlikeConversions(x.conv, y.conv)
      BY DEF CompareInitializations, IsInitialization
    <3> QED
      BY <2>1, <3>1, ConversionsAreOrdered
  <2>3. PICK i \in DOMAIN initsA : CompareInitializations(initsA[i], initsB[i]) < 0
    BY <1>3 DEF BetterRanked
  <2> QED
    BY <1>3, <2>2, <2>3 DEF BetterRanked
<1> QED
  BY <1>1, <1>2, <1>3

=============================================================================
