----------------------------- MODULE Conversions -----------------------------
(***************************************************************************)
(* How a value of one type becomes a value of another (conversions.cpp,    *)
(* initialization.cpp, conversionprocessor.cpp, valueconstructor.cpp): the *)
(* standard conversions, those that a class defines, the initialization of *)
(* a parameter from an expression or from a braced list, and the           *)
(* expression compiled for it.  ConversionRanks has their order.           *)
(*                                                                         *)
(* The module has no state.  The classes, with their bases, constructors   *)
(* and casts, are constants; every definition holds for any of them.       *)
(***************************************************************************)
EXTENDS ConversionRanks, FiniteSets, FiniteSetsExt

CONSTANTS
  Classes,       \* the classes, the instances of InitializerList included
  Enums,         \* the enumerations
  Opaque,        \* closure types and function types
  Parent,        \* Parent[c] is the base class of c, or None
  Copyable,      \* the classes whose copy constructor is not deleted
  Constructors,  \* Constructors[c] is the sequence of the constructors of c
  Casts,         \* Casts[c] is the sequence of its conversion functions
  ElementOf      \* a function: an InitializerList<T> is mapped to T

-----------------------------------------------------------------------------
(* Types and functions.                                                    *)

Fundamentals == <<"bool", "char", "int", "float", "double">>

Width(base) == CHOOSE i \in DOMAIN Fundamentals : Fundamentals[i] = base

IsFundamental(t) == t.base \in {"void", "bool", "char", "int", "float", "double"}
IsClass(t) == t.base \in Classes

Value(base) == [base |-> base, const |-> FALSE, ref |-> FALSE]
Ref(base)   == [base |-> base, const |-> FALSE, ref |-> TRUE]
CRef(base)  == [base |-> base, const |-> TRUE, ref |-> TRUE]
WithoutRef(t) == [t EXCEPT !.ref = FALSE]

\* A function: its parameters include the implicit object of a member.
FunctionOf(name, of, params, result) ==
  [name |-> name, of |-> of, params |-> params, result |-> result, member |-> of # None,
   explicit |-> FALSE, deleted |-> FALSE, access |-> "public", defaults |-> 0]

\* The base class n levels above c (Class::indirectBase).
IndirectBase[n \in Nat, c \in Classes \cup {None}] ==
  IF n = 0 \/ c = None THEN c ELSE IndirectBase[n - 1, Parent[c]]

\* How many times c is derived from d; -1 when it is not.
InheritanceLevel(c, d) ==
  LET levels == {n \in 0..Cardinality(Classes) : IndirectBase[n, c] = d}
  IN IF levels = {} THEN -1 ELSE Min(levels)

-----------------------------------------------------------------------------
(* Standard conversions.                                                   *)

Adjusts(src, dest) == dest.const /\ ~src.const

FundamentalConversion(src, dest) ==
  IF src.base = "void" \/ dest.base = "void" \/ (dest.ref /\ src.base # dest.base)
  THEN NotConvertible
  ELSE IF src.base = dest.base
       THEN StdConv("same", None, 0, dest.ref, Adjusts(src, dest))
       ELSE StdConv(IF Width(src.base) < Width(dest.base) THEN "promotion" ELSE "conversion",
                    dest.base, 0, FALSE, Adjusts(src, dest))

ClassConversion(src, dest) ==
  LET level == InheritanceLevel(src.base, dest.base)
  IN IF level < 0 \/ (~dest.ref /\ dest.base \notin Copyable) THEN NotConvertible
     ELSE IF level > 0 THEN DerivedToBase(level, dest.ref, Adjusts(src, dest))
     ELSE With(IF dest.ref THEN NoConversion ELSE Copy, Adjusts(src, dest))

StandardConversion(src, dest) ==
  IF dest.ref /\ src.const /\ ~dest.const THEN NotConvertible
  ELSE IF IsFundamental(src) /\ IsFundamental(dest) THEN FundamentalConversion(src, dest)
  ELSE IF IsClass(src) /\ IsClass(dest) THEN ClassConversion(src, dest)
  ELSE IF src.base = dest.base
  THEN IF dest.ref THEN NoConversion ELSE With(Copy, Adjusts(src, dest))
  ELSE IF src.base \in Enums /\ dest.base = "int" /\ ~dest.ref
  THEN With(EnumToInt, Adjusts(src, dest))
  ELSE NotConvertible

-----------------------------------------------------------------------------
(* Conversions: a standard one, or one through a constructor or a cast.    *)

Usable(f, policy) == f.explicit => policy = "explicit"

\* The constructors of a class that convert an argument to it.
Converting(class, policy) ==
  {f \in {Constructors[class][i] : i \in DOMAIN Constructors[class]} :
     Len(f.params) = 2 /\ Usable(f, policy)}

\* The conversion that is better than every other, if there is one.
BestOf(convs) ==
  LET possible == {c \in convs : ~IsInvalid(c)}
      best == {c \in possible : \A d \in possible \ {c} : StdLess(c.first, d.first)}
  IN IF best = {} THEN Impossible ELSE CHOOSE c \in best : TRUE

ByConstructor(src, dest, policy) ==
  IF dest.ref /\ ~dest.const /\ src.const THEN Impossible
  ELSE BestOf({Conversion(StandardConversion(src, f.params[2]), f, NoConversion) :
                 f \in Converting(dest.base, policy)})

\* select_cast takes the first cast that leads to the type, and drops a copy
\* of what it returns.
WithoutCopy(c) == IF c = Copy THEN NoConversion ELSE c

FirstPossible(convs) ==
  LET possible == {i \in DOMAIN convs : /\ convs[i].first # NotConvertible
                                        /\ convs[i].second # NotConvertible}
  IN IF possible = {} THEN Impossible ELSE convs[Min(possible)]

ByCast(src, dest, policy) ==
  LET usable == SelectSeq(Casts[src.base], LAMBDA f : Usable(f, policy))
  IN FirstPossible([i \in DOMAIN usable |->
                      Conversion(StandardConversion(src, usable[i].params[1]), usable[i],
                                 WithoutCopy(StandardConversion(usable[i].result, dest)))])

Convert(src, dest, policy) ==
  FirstPossible(<<Standard(StandardConversion(src, dest)),
                  IF IsClass(dest) THEN ByConstructor(src, dest, policy) ELSE Impossible,
                  IF IsClass(src) THEN ByCast(src, dest, policy) ELSE Impossible>>)

-----------------------------------------------------------------------------
(* Initializations: of a variable or a parameter of type t, by an          *)
(* expression, which has a type, or by a braced list of expressions.       *)

IsList(e) == e.node = "list"

DefaultConstructors(class) ==
  {f \in {Constructors[class][i] : i \in DOMAIN Constructors[class]} : Len(f.params) = 1}

DefaultInitialization(t) ==
  IF IsFundamental(t) \/ (IsClass(t) /\ \E f \in DefaultConstructors(t.base) : ~f.deleted)
  THEN DefaultInit ELSE InvalidInit

InitializationFrom(t, src, kind) ==
  LET policy == IF kind = "direct" THEN "explicit" ELSE "implicit"
      conv == Convert(src, t, policy)
  IN IF ~IsInvalid(conv) \/ ~(t.const /\ t.ref)
     THEN ConversionInit(kind, conv)
     ELSE ConversionInit("reference", Convert(src, WithoutRef(t), policy))

IsListConstructor(f) == Len(f.params) = 2 /\ f.params[2].base \in DOMAIN ElementOf

RECURSIVE Initialization(_, _)

FirstInvalidOr(inits, init(_)) ==
  LET bad == {i \in DOMAIN inits : ~IsValid(inits[i])}
  IN IF bad # {} THEN inits[Min(bad)] ELSE init(inits)

ListElements(elementType, list, class, ctor) ==
  FirstInvalidOr([i \in DOMAIN list.elements |-> Initialization(elementType, list.elements[i])],
                 LAMBDA inits : ListInit(class, ctor, inits))

\* A list goes to the first constructor that takes a list, or that takes as
\* many parameters as it has elements and can be given each of them.
ListToClass(class, list) ==
  LET ctors == Constructors[class]
      inits(i) == [k \in DOMAIN list.elements |->
                     Initialization(ctors[i].params[k + 1], list.elements[k])]
      takes(i) == \/ IsListConstructor(ctors[i])
                  \/ /\ Len(ctors[i].params) = Len(list.elements) + 1
                     /\ \A k \in DOMAIN list.elements : IsValid(inits(i)[k])
      takers == {i \in DOMAIN ctors : takes(i)}
  IN IF takers = {} THEN InvalidInit
     ELSE LET i == Min(takers)
          IN IF IsListConstructor(ctors[i])
             THEN ListElements(ElementOf[ctors[i].params[2].base], list, class, ctors[i])
             ELSE ListInit(class, ctors[i], inits(i))

Initialization(t, e) ==
  IF ~IsList(e) THEN InitializationFrom(t, e.type, "copy")
  ELSE IF t.base \in DOMAIN ElementOf THEN ListElements(ElementOf[t.base], e, t.base, None)
  ELSE IF t.ref /\ ~t.const THEN InvalidInit
  ELSE IF e.elements = <<>> THEN DefaultInitialization(t)
  ELSE IF IsClass(t) THEN ListToClass(t.base, e)
  ELSE InvalidInit

RECURSIVE InitRank(_), InitNarrowing(_)

InitRank(i) ==
  IF HasInitializations(i) THEN Max({InitRank(i.inits[k]) : k \in DOMAIN i.inits})
  ELSE Rank(i.conv)

InitNarrowing(i) ==
  IF HasInitializations(i) THEN \E k \in DOMAIN i.inits : InitNarrowing(i.inits[k])
  ELSE Narrowing(i.conv)

-----------------------------------------------------------------------------
(* The expressions compiled for a conversion and for an initialization.    *)
(* node says what produces the value: "value" is an expression of the      *)
(* script that is left as it is.                                           *)

Expression(node, type, function, elements) ==
  [node |-> node, type |-> type, function |-> function, elements |-> elements]

ValueExpression(type) == Expression("value", type, None, <<>>)
Braces(elements) == Expression("list", Value("list"), None, elements)

Construct(ctor, args) == Expression("construct", Value(ctor.of), ctor, args)

CopyConstructor(class) ==
  FunctionOf("copy", class, <<Ref(class), CRef(class)>>, Value("void"))

StdConvert(e, c) ==
  CASE c.ref -> e
    [] IsCopy(c) -> Expression("copy", e.type, None, <<e>>)
    [] ~c.ref /\ IsDerivedToBase(c) ->
         Construct(CopyConstructor(IndirectBase[c.depth, e.type.base]), <<e>>)
    [] OTHER -> Expression("number", Value(c.to), None, <<e>>)

ConvertExpression(e, c) ==
  LET first == StdConvert(e, c.first)
  IN IF ~IsUserDefined(c) THEN first
     ELSE StdConvert(IF c.by.name = "cast"
                     THEN Expression("cast", c.by.result, c.by, <<first>>)
                     ELSE Construct(c.by, <<first>>), c.second)

\* A node that stands for the error that ends the compilation.
Failure(what) == Expression("failure", Value(what), None, <<>>)

DefaultExpression(t) ==
  IF t.ref THEN Failure("reference must be initialized")
  ELSE IF IsFundamental(t) THEN Expression("copy", t, None, <<>>)
  ELSE IF ~IsClass(t) \/ DefaultConstructors(t.base) = {} THEN Failure("no default constructor")
  ELSE LET f == CHOOSE f \in DefaultConstructors(t.base) : TRUE
       IN IF f.deleted THEN Failure("deleted") ELSE Construct(f, <<>>)

RECURSIVE InitializedBy(_, _, _)

\* ValueConstructor::construct: the expression that initializes a t by e.
InitializedBy(t, e, i) ==
  LET elements(type(_)) == [k \in DOMAIN e.elements |->
                              InitializedBy(type(k), e.elements[k], i.inits[k])]
      listOf(class) == [e EXCEPT !.type = Value(class),
                                 !.elements = elements(LAMBDA k : ElementOf[class])]
  IN CASE i.kind = "default" -> DefaultExpression(t)
       [] i.kind \in {"copy", "reference", "direct"} -> ConvertExpression(e, i.conv)
       [] i.kind = "list" /\ i.class \in DOMAIN ElementOf -> listOf(i.class)
       [] i.kind = "list" /\ i.class \notin DOMAIN ElementOf ->
            IF i.ctor.params[2].base \in DOMAIN ElementOf
            THEN Construct(i.ctor, <<listOf(i.ctor.params[2].base)>>)
            ELSE Construct(i.ctor, elements(LAMBDA k : i.ctor.params[k + 1]))
       [] OTHER -> e

-----------------------------------------------------------------------------
\* ConversionProcessor::common_type, of the two sides of a conditional.
TypeFor(src, dest) ==
  IF ~IsInvalid(Convert(src, dest, "implicit")) THEN dest ELSE WithoutRef(dest)

TypeOfBetter(toB, ab, toA, ba) ==
  IF IsInvalid(toB) \/ IsInvalid(toA) THEN None
  ELSE IF CompareConversions(toB, toA) < 0 THEN ab ELSE ba

CommonType(a, b) ==
  LET between(ab, ba) == TypeOfBetter(Convert(a, ab, "implicit"), ab, Convert(b, ba, "implicit"), ba)
  IN between(TypeFor(a, b), TypeFor(b, a))

=============================================================================
