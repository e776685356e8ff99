------------------------------- MODULE MCCalls -------------------------------
(***************************************************************************)
(* A script world for Calls: a chain of three classes, one that cannot be  *)
(* copied, ones with converting constructors, casts, list constructors,    *)
(* and the calls made in it.                                               *)
(***************************************************************************)
EXTENDS Calls

MCClasses == {"A", "B", "C", "N", "S", "P", "T", "W", "V", "X", "ints"}
MCEnums == {"E"}
MCOpaque == {"fun"}
MCParent == [c \in MCClasses |-> CASE c = "B" -> "A" [] c = "C" -> "B" [] OTHER -> None]
MCCopyable == MCClasses \ {"N"}
MCElementOf == [c \in {"ints"} |-> Value("int")]

Void == Value("void")
Ctor(class, params) == FunctionOf("constructor", class, <<Ref(class)>> \o params, Void)
Explicit(f) == [f EXCEPT !.explicit = TRUE]
Deleted(f) == [f EXCEPT !.deleted = TRUE]
Private(f) == [f EXCEPT !.access = "private"]
WithDefaults(f, n) == [f EXCEPT !.defaults = n]
CopyCtor(class) == Ctor(class, <<CRef(class)>>)
Cast(class, self, result) == FunctionOf("cast", class, <<self>>, result)
Free(name, params) == FunctionOf(name, None, params, Value("int"))
Member(class, name, self, params) == FunctionOf(name, class, <<self>> \o params, Value("int"))
Static(class, name, params) == [FunctionOf(name, class, params, Value("int")) EXCEPT !.member = FALSE]

MCConstructors ==
  [c \in MCClasses |->
     CASE c \in {"A", "B", "C", "W", "V", "X"} -> <<Ctor(c, <<>>), CopyCtor(c)>>
       [] c = "N" -> <<Ctor(c, <<>>), Deleted(CopyCtor(c))>>
       [] c = "S" -> <<CopyCtor(c), Ctor(c, <<Value("int")>>), Explicit(Ctor(c, <<Value("bool")>>)),
                       Ctor(c, <<CRef("A")>>)>>
       [] c = "P" -> <<Ctor(c, <<>>), CopyCtor(c), Ctor(c, <<Value("int"), Value("S")>>),
                       Ctor(c, <<CRef("double")>>), Private(Ctor(c, <<Value("bool")>>)),
                       Ctor(c, <<Value("B")>>), Ctor(c, <<Ref("A")>>)>>
       [] c = "T" -> <<CopyCtor(c), Ctor(c, <<Value("ints")>>), Ctor(c, <<Value("int")>>)>>
       [] c = "ints" -> <<CopyCtor(c)>>]

MCCasts ==
  [c \in MCClasses |->
     CASE c = "W" -> <<Explicit(Cast(c, CRef(c), Value("bool"))), Cast(c, CRef(c), Value("double")),
                       Cast(c, Ref(c), Value("B"))>>
       [] c = "V" -> <<Cast(c, Ref(c), Ref("int"))>>
       [] c = "X" -> <<Cast(c, Ref(c), Ref("C")), Cast(c, Ref(c), Value("double"))>>
       [] OTHER -> <<>>]

MCMemberFunctions ==
  [c \in MCClasses |->
     CASE c = "A" -> <<Member(c, "m", Ref(c), <<Value("int")>>),
                       Member(c, "m", CRef(c), <<Value("int")>>),
                       Static(c, "s", <<Value("double")>>),
                       WithDefaults(Member(c, "d", Ref(c), <<Value("A"), CRef("int"), Value("S")>>), 2),
                       Private(Member(c, "p", Ref(c), <<>>))>>
       [] c = "B" -> <<Deleted(Member(c, "m", Ref(c), <<Value("bool"), Value("bool")>>)),
                       Member(c, "m", CRef(c), <<Value("char")>>)>>
       [] OTHER -> <<>>]

MCOperators ==
  [c \in MCClasses |->
     CASE c = "A" -> <<Member(c, "+", CRef(c), <<CRef("A")>>),
                       Member(c, "()", Ref(c), <<Value("int")>>),
                       Member(c, "()", CRef(c), <<Value("double"), Value("double")>>),
                       Deleted(Member(c, "!", CRef(c), <<>>))>>
       [] c = "B" -> <<Member(c, "+", CRef(c), <<Value("int")>>),
                       Member(c, "[]", Ref(c), <<Value("double")>>)>>
       [] OTHER -> <<>>]

MCNamespaceOperators == <<FunctionOf("+", None, <<Value("S"), CRef("B")>>, Value("S"))>>

MCPrototypeOf == [t \in {"fun"} |-> [params |-> <<Value("int"), CRef("double")>>, result |-> Value("int")]]

-----------------------------------------------------------------------------
Hierarchy == {Free("h", p) : p \in {<<Value("B"), Value("B")>>, <<Value("A"), Value("C")>>,
                                    <<Value("C"), CRef("A")>>, <<Value("C"), Value("B")>>,
                                    <<Ref("B"), CRef("B")>>, <<CRef("A"), Ref("C")>>}}

Single == {Free("f", <<t>>) : t \in {Value("int"), CRef("int"), Ref("int"), Value("double"), Value("char"),
                                     Value("S"), CRef("B"), Value("N")}}
          \cup {WithDefaults(Free("f", <<Value("int"), CRef("S")>>), 1)}

Listed == {Free("g", <<t>>) : t \in {Value("ints"), CRef("P"), Value("T"), Ref("P"), Value("int"), Value("S")}}

Nested == {Free("k", <<t>>) : t \in {CRef("P"), Value("P"), Ref("P"), Value("S")}}

\* For the classes whose casts return references.  For an X each of the three
\* is better than another: a reference before a number, a number before what
\* becomes a constant, one level up before two.
Referred == {Free("v", <<t>>) : t \in {Ref("int"), CRef("int"), Value("double"), CRef("V")}}
Cyclic == {Free("x", <<t>>) : t \in {Ref("A"), Value("int"), [Value("B") EXCEPT !.const = TRUE]}}

Arrangements(S, sizes) ==
  UNION {SetToSeqs(T) : T \in {U \in SUBSET S : Cardinality(U) \in sizes}}

HierarchySequences == Arrangements(Hierarchy, {3, 4})
SingleSequences == Arrangements(Single, {1, 2})
ListedSequences == Arrangements(Listed, {1, 2})
NestedSequences == Arrangements(Nested, {2, 3})
ReferredSequences == Arrangements(Referred, {2, 3})
CyclicSequences == Arrangements(Cyclic, {2, 3})

MCDeclarations(r) ==
  CASE r.target = "h" -> HierarchySequences
    [] r.target = "f" -> SingleSequences
    [] r.target = "g" -> ListedSequences
    [] r.target = "k" -> NestedSequences
    [] r.target = "v" -> ReferredSequences
    [] r.target = "x" -> CyclicSequences
    [] OTHER -> {<<>>}

-----------------------------------------------------------------------------
Request(kind, target, object, args) ==
  [kind |-> kind, target |-> target, object |-> object, args |-> args, caller |-> None]

\* Variables, constants and literals (which are constant references), without
\* those whose casts return references.
Variables == {ValueExpression(Value(b)) : b \in {"int", "double", "bool", "char", "A", "B", "C",
                                                 "N", "S", "W", "E"}}
Literals == {ValueExpression(CRef(b)) : b \in {"int", "double", "B", "W", "E"}}
Objects == {ValueExpression(t) : t \in {Value("A"), Value("B"), Value("C"), CRef("A")}}
Count == ValueExpression(Value("int"))
One == ValueExpression(CRef("int"))
Real == ValueExpression(CRef("double"))
Of(class) == ValueExpression(Value(class))

Lists == {Braces(<<One>>), Braces(<<One, Count>>), Braces(<<One, Of("S")>>), Braces(<<Real>>),
          Braces(<<Of("N")>>)}
NestedLists == {Braces(<<One, Braces(<<e>>)>>) : e \in {Count, Of("B"), Of("W")}}

FreeCalls ==
  {Request("call", "h", None, <<a, b>>) : a, b \in Objects}
  \cup {Request("call", "f", None, <<a>>) : a \in Variables \cup Literals \cup Lists}
  \cup {Request("call", "g", None, <<a>>) : a \in Lists \cup {Count, Of("ints")}}
  \cup {Request("call", "k", None, <<a>>) : a \in Lists \cup NestedLists \cup {Braces(<<>>)}}
  \cup {Request("call", "v", None, <<Of("V")>>), Request("call", "x", None, <<Of("X")>>)}

MemberCalls ==
  {Request("member", name, o, args) :
     name \in {"m", "d", "p", "s"}, o \in Objects, args \in {<<>>, <<Count>>, <<Real>>, <<One, Real>>, <<Of("C")>>,
                                                  <<Of("C"), Count>>}}
  \cup {[Request("member", "p", Of("B"), <<>>) EXCEPT !.caller = c] : c \in {"A", "B"}}
  \cup {Request("functor", "()", o, args) :
          o \in Objects, args \in {<<Count>>, <<One, Real>>, <<Of("W")>>}}
  \cup {Request("functor", "()", Of("fun"), args) :
          args \in {<<Count, Count>>, <<Of("W"), One>>, <<Of("A"), One>>, <<One, One, One>>}}

OperatorCalls ==
  {Request("operator", op, None, <<a, b>>) :
     op \in {"+", "+=", "=", "&&", "[]", "%", "<"}, a \in {Count, Of("B"), Of("C"), Of("E")},
     b \in {One, Real, Of("C"), Of("S"), Of("W"), Of("E")}}
  \cup {Request("operator", op, None, <<a>>) :
          op \in {"++", "!", "_--", "-_"}, a \in {Count, One, Of("A"), Of("B"), Of("E")}}

Constructions ==
  {Request(kind, c, None, args) :
     kind \in {"construct", "brace"}, c \in {"A", "S", "P", "T", "N"},
     args \in {<<>>, <<Count>>, <<Real>>, <<Of("B")>>, <<Of("C")>>, <<Of("N")>>, <<One, Count>>, <<Real, Count>>,
               <<Count, Braces(<<Count>>)>>, <<Of("W")>>, <<ValueExpression(Value("bool"))>>}}
  \cup {Request(kind, b, None, <<a>>) :
          kind \in {"construct", "brace"}, b \in {"int", "E"}, a \in Variables}

OtherExpressions ==
  {Request("conditional", "?", None, <<a, b>>) : a, b \in Variables \cup Literals}
  \cup {Request("array", "[]", None, <<a, b>>) : a, b \in Variables \cup Literals}

MCRequests == FreeCalls \cup MemberCalls \cup OperatorCalls \cup Constructions \cup OtherExpressions

\* A list in a list, where the element wanted is of no class.
NestedRequests == {Request("call", "g", None, <<a>>) : a \in NestedLists}

\* A cast that returns a reference, for a parameter by value.
AliasingRequests == {Request("call", "f", None, <<Of("V")>>)}

-----------------------------------------------------------------------------
\* The functions that one sequence of declarations and look-ups may offer.
Library(r) ==
  CASE r.target = "h" -> Hierarchy
    [] r.target = "f" -> Single
    [] r.target = "g" -> Listed
    [] r.target = "k" -> Nested
    [] r.target = "v" -> Referred
    [] r.target = "x" -> Cyclic
    [] OTHER -> IF IsDirect(r) THEN {} ELSE Range(Lookup(r, <<>>))

MCCandidateSets ==
  {{c \in {Candidate(f, r) : f \in {f \in Library(r) : TakesAsMany(f, r)}} : Viable(c, r)} :
     r \in MCRequests \cup NestedRequests \cup AliasingRequests}

=============================================================================
