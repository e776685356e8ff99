---------------------------- MODULE TokenReader ----------------------------
(* Reading tokens (src/parser/token-reader.cpp, include/script/parser/         *)
(* token-reader.h, fragment.h, delimiters-counter.h, token.h).  A token is     *)
(* named by its index.  A reader is a record: `at' is m_iterator, `end' the    *)
(* end of m_fragment, `rr' says that the fragment ends in the middle of a `>>' *)
(* (m_right_right_angle_flag).  What a parser returns is a result: a value and *)
(* the place where its reader stopped, or an exception.                        *)
EXTENDS Lexer

CONSTANT Beyond          \* the ids the memory after the last token may show

VARIABLE beyond          \* *tokens().end(), which peek() reads without a check

Ok(v, at) == [ok |-> TRUE, v |-> v, at |-> at]
Fail(what) == [ok |-> FALSE, what |-> what]
SyntaxError == Fail("SyntaxError")
Then(result, Rest(_, _)) == IF result.ok THEN Rest(result.v, result.at) ELSE result

Reader(at, end, rr) == [at |-> at, end |-> end, rr |-> rr]
From(r, at) == [r EXCEPT !.at = at]              \* seek
Finished(r) == r.at = r.end                      \* atEnd

Id(i) == IF i \in 1..Len(tokens) THEN tokens[i].id ELSE beyond
Peek(r) == Id(r.at)

\* read(), read(id), and a read of some tokens in this order
ReadAny(r) == IF Finished(r) THEN SyntaxError ELSE Ok(r.at, r.at + 1)
ReadId(r, id) == IF ~Finished(r) /\ Peek(r) = id THEN Ok(r.at, r.at + 1) ELSE SyntaxError

\* Token::flags
LiteralIds == {"IntegerLiteral", "DecimalLiteral", "BinaryLiteral", "OctalLiteral",
               "HexadecimalLiteral", "StringLiteral", "UserDefinedLiteral", "true", "false"}
OperatorIds == OneCharOps \cup {op[Len(op)] : op \in TwoCharOps \cup ThreeCharOps}
                          \cup {"?", ":", "::", ",", "."}
IsLiteral(id) == id \in LiteralIds
IsOperator(id) == id \in OperatorIds
IsIdentifier(id) == id \in Keywords \cup {"UserDefinedName"}

-----------------------------------------------------------------------------
(* DelimitersCounter, fed with the tokens from .. to                           *)
Depth(from, to, open, close) ==
  Cardinality({i \in from .. to : Id(i) \in open}) - Cardinality({i \in from .. to : Id(i) \in close})
\* Counting all the kinds of delimiters together
DepthsTogether(from, to) == {Depth(from, to, {"(", "{", "["}, {")", "}", "]"})}
Depths(from, to) ==
  {Depth(from, to, {pair[1]}, {pair[2]}) : pair \in {<<"(", ")">>, <<"{", "}">>, <<"[", "]">>}}
Balanced(from, to) == Depths(from, to) = {0}
Invalid(from, to) == \E d \in Depths(from, to) : d < 0

\* The first token of from .. to - 1 where Stop holds of the tokens from the
\* reader's place; the fragment is malformed when a delimiter is closed before.
FirstStop(begin, from, to, Stop(_)) ==
  LET At(i) == IF Invalid(begin, i) THEN SyntaxError ELSE Ok("found", i)
      AtFirst(halts) == IF halts = {} THEN Ok("none", to)
                        ELSE At(CHOOSE i \in halts : \A j \in halts : i <= j)
  IN  AtFirst({i \in from .. to - 1 : Invalid(begin, i) \/ Stop(i)})

\* subfragment<Fragment::DelimiterPair>: what is between the delimiters
DelimiterPair(r) ==
  LET Closed(i) == Balanced(r.at, i)
      Content(found, at) == IF found = "found" THEN Ok(Reader(r.at + 1, at, FALSE), at)
                            ELSE SyntaxError
  IN  IF Peek(r) \notin {"(", "{", "["} THEN Fail("runtime_error")
      ELSE Then(FirstStop(r.at, r.at + 1, r.end, Closed), Content)

\* subfragment<Fragment::Statement>: up to the semicolon
Statement(r) ==
  LET Semicolon(i) == Id(i) = ";" /\ Balanced(r.at, i)
      Content(found, at) == IF found = "found" THEN Ok(Reader(r.at, at, FALSE), at)
                            ELSE SyntaxError
  IN  Then(FirstStop(r.at, r.at, r.end, Semicolon), Content)

\* subfragment<Fragment::ListElement>: up to the comma or the end
ListElement(r) ==
  LET Comma(i) == Id(i) = "," /\ Balanced(r.at, i)
      Content(found, at) ==
        IF found = "found" THEN Ok(Reader(r.at, at, FALSE), at)
        ELSE IF Balanced(r.at, r.end - 1) THEN Ok(Reader(r.at, r.end, r.rr), r.end)
        ELSE SyntaxError
  IN  Then(FirstStop(r.at, r.at, r.end, Comma), Content)

\* try_build_template_fragment: the angles that are open after the tokens up to i
AngleDepth(begin, i) ==
  LET At(id) == Cardinality({j \in begin .. i : Id(j) = id /\ Balanced(begin, j)})
  IN  At("<") - At(">") - 2 * At(">>")

\* subfragment<Fragment::Template>: between `<' and the matching `>', which may
\* be one half of a `>>'
TemplateFragment(r) ==
  LET end == IF r.rr /\ Id(r.end) = ">>" THEN r.end + 1 ELSE r.end
      Closes(i) == /\ Balanced(r.at, i)
                   /\ \/ Id(i) = ">" /\ AngleDepth(r.at, i) = 0
                      \/ Id(i) = ">>" /\ AngleDepth(r.at, i - 1) \in {1, 2}
      Content(found, at) ==
        IF found = "found" THEN Ok(Reader(r.at + 1, at, Id(at) = ">>" /\ ~r.rr), at) ELSE SyntaxError
  IN  IF Peek(r) # "<" THEN SyntaxError
      ELSE Then(FirstStop(r.at, r.at, end, Closes), Content)

\* The loop `while (!reader.atEnd()) { next<ListElement>(); ... read(Comma); }':
\* the readers of the elements.  A comma may follow the last one.
RECURSIVE ListElements(_)
ListElements(r) ==
  LET Rest(element, at) ==
        LET Join(others, stop) == Ok(<<element>> \o others, stop)
        IN  IF at = r.end THEN Ok(<<element>>, at)
            ELSE Then(ListElements(From(r, at + 1)), Join)
  IN  IF Finished(r) THEN Ok(<<>>, r.at) ELSE Then(ListElement(r), Rest)

\* The values of results, or the first exception
Collect(results, at) ==
  LET failed == {i \in DOMAIN results : ~results[i].ok}
  IN  IF failed = {} THEN Ok([i \in DOMAIN results |-> results[i].v], at)
      ELSE results[CHOOSE i \in failed : \A j \in failed : i <= j]
=============================================================================
