----------------------------- MODULE MCTemplates -----------------------------
(***************************************************************************)
(* Instances of Templates for TLC: a class template foo<T, U> with         *)
(* specializations of it, among them those of test_templates.cpp, and      *)
(* overloads of one function template.                                     *)
(***************************************************************************)
EXTENDS Templates

Basic(name) == Plain(Base("basic", name, <<>>))
IntT == Basic("int")
BoolT == Basic("bool")
Instance(name, args) == Plain(Base("class", name, args))
Function(args) == Plain(Base("function", "", args))
Const(t) == [t EXCEPT !.const = TRUE]
Ref(t) == [t EXCEPT !.ref = TRUE]
Value(n) == Plain(Base("integer", n, <<>>))
Name(n) == Plain(Base("name", n, <<>>))
T == Name("T")
U == Name("U")
V == Name("V")
ArrayOf(t) == Instance("Array", <<t>>)
FooOf(args) == Instance("foo", args)

Params == <<"T", "U">>
Partial(params, args, members) == [params |-> params, args |-> args, base |-> <<>>, members |-> members]
Of(args, base, members) == [args |-> args, base |-> base, members |-> members]

\* U is bool unless it is given; the content of the primary has nothing in it.
MCPrimary == [params |-> Params, defaults |-> <<{}, {BoolT}>>, base |-> <<>>, members |-> <<>>]

\* The last three use the template in their content: another instance, themselves, and
\* a name that is unknown.
MCSpecializations ==
  { Partial(<<"T">>, <<T, T>>, <<>>),
    Partial(<<"T", "U">>, <<T, Function(<<U, T>>)>>, <<>>),
    Partial(<<"T", "U">>, <<ArrayOf(T), U>>, <<Use(<<T, U>>)>>),
    Partial(<<"T", "U">>, <<ArrayOf(T), ArrayOf(U)>>, <<>>),
    Partial(<<"T", "U">>, <<Const(T), U>>, <<Use(<<Const(T), U>>), Use(<<T, T>>)>>),
    Partial(<<"T", "U">>, <<Ref(T), ArrayOf(U)>>, <<Use(<<Ref(T), U>>), Unknown>>) }

MCFullClasses ==
  { Of(<<IntT, IntT>>, <<Use(<<IntT, BoolT>>)>>, <<Use(<<Const(IntT), Value("1")>>)>>) }

MCUses ==
  {Use(args) : args \in
     { <<ArrayOf(IntT), BoolT>>, <<ArrayOf(IntT), ArrayOf(IntT)>>,
       <<ArrayOf(IntT), Function(<<IntT, ArrayOf(IntT)>>)>>,
       <<Const(IntT), Value("1")>>, <<Ref(IntT), ArrayOf(IntT)>>, <<IntT>> }}

-----------------------------------------------------------------------------
(* Function templates *)

FT(params, defaults, types, result, body) ==
  [params |-> params, defaults |-> defaults, types |-> types, result |-> result, body |-> body]

MCFunctionTemplates ==
  { FT(<<"T">>, <<{}>>, <<T, T>>, T, <<>>),
    FT(<<"T", "U">>, <<{}, {BoolT}>>, <<Const(Ref(T)), ArrayOf(T)>>, U, <<Use(<<T, U>>)>>),
    FT(<<"T">>, <<{}>>, <<Function(<<T, IntT>>), T>>, T, <<Call(<<>>, <<ArrayOf(Const(T))>>)>>),
    FT(<<"T">>, <<{}>>, <<ArrayOf(Const(T))>>, IntT, <<Use(<<Ref(T), ArrayOf(T)>>)>>) }

Full(args, types, result) == [args |-> args, types |-> types, result |-> result]
MCFullFunctions ==
  { Full(<<>>, <<IntT, IntT>>, IntT), Full(<<IntT>>, <<IntT, IntT>>, BoolT),
    Full(<<>>, <<Const(Ref(IntT)), ArrayOf(IntT)>>, BoolT),
    Full(<<>>, <<Function(<<BoolT, IntT>>), BoolT>>, BoolT), Full(<<>>, <<BoolT>>, BoolT) }

MCCalls ==
  { Call(<<>>, <<IntT, IntT>>), Call(<<>>, <<IntT, BoolT>>), Call(<<IntT>>, <<IntT, BoolT>>),
    Call(<<>>, <<IntT, ArrayOf(IntT)>>), Call(<<>>, <<Function(<<BoolT, IntT>>), BoolT>>),
    Call(<<>>, <<ArrayOf(IntT), ArrayOf(ArrayOf(IntT))>>), Call(<<>>, <<ArrayOf(Const(IntT))>>) }

MCSources ==
  { [specializations |-> MCSpecializations, classes |-> MCFullClasses,
     templates |-> {}, functions |-> {}, uses |-> MCUses],
    [specializations |-> {}, classes |-> {},
     templates |-> MCFunctionTemplates, functions |-> MCFullFunctions, uses |-> MCCalls] }

-----------------------------------------------------------------------------
(* The specializations of test_templates.cpp:943 *)

TestSpecializations ==
  { Partial(<<"T">>, <<T, T>>, <<>>),
    Partial(<<"T", "U">>, <<ArrayOf(T), U>>, <<>>),
    Partial(<<"T", "U">>, <<T, Function(<<U, T>>)>>, <<>>),
    Partial(<<"T", "U", "V">>, <<ArrayOf(T), Function(<<U, V>>)>>, <<>>) }

TestUses == { Use(<<ArrayOf(IntT), BoolT>>), Use(<<ArrayOf(IntT), Function(<<BoolT, IntT>>)>>) }
TestSources ==
  { [specializations |-> TestSpecializations, classes |-> {}, templates |-> {}, functions |-> {},
     uses |-> TestUses] }

=============================================================================
