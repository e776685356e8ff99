--------------------------- MODULE ConversionRanks ---------------------------
(***************************************************************************)
(* Conversions and initializations as what overload resolution compares    *)
(* (conversions.cpp, initialization.cpp, overloadresolution.cpp): which of *)
(* two is better, and which of two candidates.                             *)
(*                                                                         *)
(* A conversion is a standard one, or one through a constructor or a cast, *)
(* by, between two standard ones.  An initialization is of a variable or a *)
(* parameter, by an expression, for which it has the conversion, or by a   *)
(* braced list, for which it has those of the elements.                    *)
(***************************************************************************)
EXTENDS Integers, Sequences

CONSTANT None  \* no class, no function

-----------------------------------------------------------------------------
(* Standard conversions.                                                   *)

ExactMatch == 1
Promotion == 2
NumericConversion == 3
UserDefinedConversion == 4
NotConvertibleRank == 5

\* kind: "same" (a copy, or nothing when ref), "promotion", "conversion"
\* (of numbers), "enum" (to int), "derived" (to a base), "none".
StdConv(kind, to, depth, ref, adjust) ==
  [kind |-> kind, to |-> to, depth |-> depth, ref |-> ref, adjust |-> adjust]

NoConversion == StdConv("same", None, 0, TRUE, FALSE)
Copy == StdConv("same", None, 0, FALSE, FALSE)
NotConvertible == StdConv("none", None, 0, FALSE, FALSE)

IsCopy(c) == c.kind = "same" /\ ~c.ref
IsNumericPromotion(c) == c.kind = "promotion"
\* An enumerator turned into an int counts as narrowed.
IsNumericConversion(c) == c.kind \in {"conversion", "enum"}
IsDerivedToBase(c) == c.kind = "derived"
StdNarrowing(c) == IsNumericConversion(c)

StdRank(c) ==
  CASE IsDerivedToBase(c) \/ IsNumericConversion(c) -> NumericConversion
    [] IsNumericPromotion(c) -> Promotion
    [] c = NotConvertible -> NotConvertibleRank
    [] OTHER -> ExactMatch

With(c, adjust) == [c EXCEPT !.adjust = @ \/ adjust]
EnumToInt == StdConv("enum", "int", 0, FALSE, FALSE)
DerivedToBase(depth, ref, adjust) == StdConv("derived", None, depth, ref, adjust)

\* operator<: by rank, then by the depth of two derived-to-base conversions,
\* then a reference before a copy, then without const before with it.
StdLess(a, b) ==
  \/ StdRank(a) < StdRank(b)
  \/ /\ StdRank(a) = StdRank(b)
     /\ LET bothDerived == IsDerivedToBase(a) /\ IsDerivedToBase(b)
        IN \/ bothDerived /\ a.depth < b.depth
           \/ /\ bothDerived => a.depth = b.depth
              /\ \/ a.ref /\ ~b.ref
                 \/ a.ref = b.ref /\ b.adjust /\ ~a.adjust

-----------------------------------------------------------------------------
(* Conversions.                                                            *)

Conversion(first, by, second) == [first |-> first, by |-> by, second |-> second]
Standard(c) == Conversion(c, None, NoConversion)
Impossible == Standard(NotConvertible)

IsInvalid(c) == c.first = NotConvertible
IsUserDefined(c) == c.by # None

Rank(c) ==
  IF IsInvalid(c) THEN NotConvertibleRank
  ELSE IF IsUserDefined(c) THEN UserDefinedConversion
  ELSE StdRank(c.first)

Narrowing(c) == StdNarrowing(c.first) \/ StdNarrowing(c.second)

Sign(less, greater) == IF less THEN -1 ELSE IF greater THEN 1 ELSE 0

\* Two conversions through a function are compared by what follows it.
CompareConversions(a, b) ==
  IF IsUserDefined(a) # IsUserDefined(b) THEN Sign(IsUserDefined(b), TRUE)
  ELSE IF ~IsUserDefined(a) THEN Sign(StdLess(a.first, b.first), StdLess(b.first, a.first))
  ELSE Sign(StdLess(a.second, b.second), StdLess(b.second, a.second))

-----------------------------------------------------------------------------
(* Initializations.                                                        *)

Init_(kind, conv, class, ctor, inits) ==
  [kind |-> kind, conv |-> conv, class |-> class, ctor |-> ctor, inits |-> inits]

DefaultInit == Init_("default", Standard(NoConversion), None, None, <<>>)
\* The category alone: the conversion it holds is a valid one.
InvalidInit == Init_("invalid", Standard(NoConversion), None, None, <<>>)
ConversionInit(kind, c) ==
  Init_(IF IsInvalid(c) THEN "invalid" ELSE kind, c, None, None, <<>>)
ListInit(class, ctor, inits) == Init_("list", Standard(NoConversion), class, ctor, inits)

HasInitializations(i) == i.class # None
IsValid(i) == HasInitializations(i) \/ i.conv # Impossible

\* Initialization::comp, of two initializations by the same expression.
CompareInitializations(a, b) ==
  IF ~HasInitializations(a) THEN CompareConversions(a.conv, b.conv)
  ELSE IF (a.kind = "list") # (b.kind = "list") THEN Sign(b.kind = "list", TRUE)
  ELSE Sign(a.ctor = None /\ b.ctor # None, a.ctor # None /\ b.ctor = None)

-----------------------------------------------------------------------------
(* Candidates: the rank of the worst of their initializations, and the     *)
(* initializations of the object and of the arguments.                     *)

\* OverloadResolution::compare(a, b) = FirstIsBetter.
BetterRanked(rankA, rankB, initsA, initsB) ==
  LET diff == [i \in DOMAIN initsA |-> CompareInitializations(initsA[i], initsB[i])]
  IN \/ rankA < rankB
     \/ rankA = rankB /\ (\E i \in DOMAIN diff : diff[i] < 0) /\ (\A i \in DOMAIN diff : diff[i] <= 0)

=============================================================================
