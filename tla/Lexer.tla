------------------------------- MODULE Lexer -------------------------------
(* The lexer (src/parser/lexer.cpp).  A text is a sequence of units: a unit is *)
(* a character or, since the lexer compares whole words with its tables, the   *)
(* letters of a keyword.  A token has an id and the range [from, to) of its    *)
(* units.  The ids of keywords, punctuators and operators are their spelling.  *)
EXTENDS Integers, Sequences, FiniteSets

CONSTANT Texts           \* what may be tokenized

VARIABLES source, pos,   \* Lexer::m_source, m_pos
          tokens,        \* the result of tokenize
          status         \* "lexing", "lexed" or "error"

lexerVars == <<source, pos, tokens, status>>

Keywords == {"if", "for", "int", "auto", "bool", "char", "else", "enum", "this",
  "true", "void", "break", "class", "const", "false", "float", "using", "while",
  "delete", "double", "export", "friend", "import", "public", "return", "static",
  "struct", "typeid", "default", "mutable", "private", "typedef", "virtual",
  "continue", "explicit", "operator", "template", "typename", "namespace",
  "protected"}
Letters == {"a", "b", "c", "e", "f", "x", "z", "A", "B", "T"}
Digits == {"0", "1", "8"}
OneCharOps == {"+", "-", "!", "~", "*", "/", "%", "<", ">", "&", "^", "|", "="}
TwoCharOps == {<<"+", "+", "++">>, <<"-", "-", "--">>, <<"<", "<", "<<">>,
  <<">", ">", ">>">>, <<"<", "=", "<=">>, <<">", "=", ">=">>, <<"=", "=", "==">>,
  <<"!", "=", "!=">>, <<"&", "&", "&&">>, <<"|", "|", "||">>, <<"*", "=", "*=">>,
  <<"/", "=", "/=">>, <<"%", "=", "%=">>, <<"+", "=", "+=">>, <<"-", "=", "-=">>,
  <<"&", "=", "&=">>, <<"|", "=", "|=">>, <<"^", "=", "^=">>}
ThreeCharOps == {<<"<", "<", "=", "<<=">>, <<">", ">", "=", ">>=">>}

Ctype(c) ==
  CASE c \in Letters \cup Keywords -> "Letter"
    [] c \in Digits -> "Digit"
    [] c \in {" ", "\n"} -> "Space"
    [] c \in OneCharOps \cup {"#"} -> "Punctuator"
    [] c \in {"(", ")", "[", "]", "{", "}", ";", ":", "?", ",", ".", "_", "'", "\""} -> c
    [] OTHER -> "Invalid"

IsDigit(c) == Ctype(c) = "Digit"
IsBinary(c) == c \in {"0", "1"}
IsOctal(c) == c \in Digits \ {"8"}
IsHexa(c) == IsDigit(c) \/ c \in {"a", "b", "c", "e", "f", "A", "B"}
IsWordChar(c) == Ctype(c) \in {"Letter", "Digit", "_"}
IsDiscardable(c) == Ctype(c) = "Space"

Size == Len(source)
AtEnd(p) == p > Size
\* peekChar, at the end of a std::string
CharAt(p) == IF AtEnd(p) THEN "NUL" ELSE source[p]

\* while (!atEnd() && Is(peekChar())) readChar();
Skip(p, Is(_)) ==
  CHOOSE q \in p .. Size + 1 : /\ AtEnd(q) \/ ~Is(CharAt(q))
                               /\ \A i \in p .. q - 1 : Is(CharAt(i))

Spelling(from, to) == SubSeq(source, from, to - 1)

Lexeme(id, to) == [id |-> id, to |-> to]
Malformed == Lexeme("Invalid", 0)

\* checkAfter: says if the next character is legal
NoLetterAfter(p) == AtEnd(p) \/ Ctype(CharAt(p)) # "Letter"

\* tryReadLiteralSuffix
Suffix(p) == IF ~AtEnd(p) /\ Ctype(CharAt(p)) \in {"Letter", "_"}
             THEN Skip(p, IsWordChar) ELSE p

-----------------------------------------------------------------------------
(* One reader per kind of token; p is the position after its first unit.       *)

ReadPrefixed(p, id, Is(_)) ==     \* 0x..., 0b..., with p after the letter
  LET to == Skip(p, Is)
  IN  IF AtEnd(p) \/ ~NoLetterAfter(to) \/ (id = "HexadecimalLiteral" /\ to = p)
      THEN Malformed ELSE Lexeme(id, to)

ReadOctal(p) ==
  LET to == Skip(p, IsOctal)
  IN  IF NoLetterAfter(to) THEN Lexeme("OctalLiteral", to) ELSE Malformed

ReadExponent(p) ==                \* p is the place of the `e'; 0 if it is malformed
  LET sign == p + 1
      digits == IF CharAt(sign) \in {"+", "-"} THEN sign + 1 ELSE sign
  IN  IF AtEnd(sign) \/ AtEnd(digits) THEN 0 ELSE Skip(digits, IsDigit)

ReadDecimal(p) ==
  LET whole == Skip(p, IsDigit)
      point == CharAt(whole) = "."
      frac == IF point THEN Skip(whole + 1, IsDigit) ELSE whole
      exponent == ~AtEnd(frac) /\ CharAt(frac) = "e"
      number == IF exponent THEN ReadExponent(frac) ELSE frac
      id == IF point \/ exponent THEN "DecimalLiteral" ELSE "IntegerLiteral"
      suffix == Suffix(number)
  IN  CASE number = 0 -> Malformed
        [] number # 0 /\ AtEnd(number) -> Lexeme(id, number)
        [] number # 0 /\ CharAt(number) = "f" ->
             IF NoLetterAfter(number + 1) THEN Lexeme("DecimalLiteral", number + 1)
             ELSE Malformed
        [] number # 0 /\ ~AtEnd(number) /\ CharAt(number) # "f" ->
             IF suffix # number THEN Lexeme("UserDefinedLiteral", suffix)
             ELSE Lexeme(id, number)

ReadNumericLiteral(p) ==
  LET zero == CharAt(p - 1) = "0"
  IN  CASE AtEnd(p) -> Lexeme(IF zero THEN "OctalLiteral" ELSE "IntegerLiteral", p)
        [] ~AtEnd(p) /\ zero /\ CharAt(p) = "x" -> ReadPrefixed(p + 1, "HexadecimalLiteral", IsHexa)
        [] ~AtEnd(p) /\ zero /\ CharAt(p) = "b" -> ReadPrefixed(p + 1, "BinaryLiteral", IsBinary)
        [] ~AtEnd(p) /\ zero /\ IsDigit(CharAt(p)) -> ReadOctal(p)
        [] ~AtEnd(p) /\ zero /\ ~IsDigit(CharAt(p)) /\ CharAt(p) \notin {"x", "b", "."} ->
             IF NoLetterAfter(p) THEN Lexeme("OctalLiteral", p) ELSE Malformed
        [] OTHER -> ReadDecimal(p)

ReadIdentifier(p) ==
  LET to == Skip(p, IsWordChar)
  IN  Lexeme(IF to = p /\ CharAt(p - 1) \in Keywords THEN CharAt(p - 1) ELSE "UserDefinedName", to)

ReadStringLiteral(p) ==
  LET NotQuote(c) == c \notin {"\"", "\n"}
      quote == Skip(p, NotQuote)
      suffix == Suffix(quote + 1)
  IN  CASE AtEnd(quote) \/ CharAt(quote) = "\n" -> Malformed
        [] ~AtEnd(quote) /\ CharAt(quote) = "\"" ->
             IF suffix # quote + 1 THEN Lexeme("UserDefinedLiteral", suffix)
             ELSE IF ~AtEnd(quote + 1) /\ IsDigit(CharAt(quote + 1)) THEN Malformed
             ELSE Lexeme("StringLiteral", quote + 1)

ReadCharLiteral(p) ==
  IF AtEnd(p) \/ AtEnd(p + 1) \/ CharAt(p + 1) # "'" THEN Malformed
  ELSE Lexeme("StringLiteral", p + 2)

GetOperator(from, to) ==
  LET text == Spelling(from, to)
      longer == {op \in TwoCharOps \cup ThreeCharOps : SubSeq(op, 1, Len(op) - 1) = text}
  IN  CASE Len(text) = 1 -> IF text[1] \in OneCharOps THEN text[1] ELSE "Invalid"
        [] Len(text) # 1 -> IF longer = {} THEN "Invalid"
                            ELSE LET op == CHOOSE o \in longer : TRUE IN op[Len(op)]

\* readOperator: as long as one more character makes an operator
ReadOperator(p) ==
  LET Grows(q) == ~AtEnd(q) /\ GetOperator(p - 1, q + 1) # "Invalid"
      to == CHOOSE q \in p .. p + 2 : ~Grows(q) /\ \A i \in p .. q - 1 : Grows(i)
  IN  IF GetOperator(p - 1, p) = "Invalid" THEN Malformed
      ELSE Lexeme(GetOperator(p - 1, to), to)

ReadSingleLineComment(p) ==
  LET SameLine(c) == c # "\n" IN Lexeme("SingleLineComment", Skip(p, SameLine))

ReadMultiLineComment(p) ==
  LET ends == {q \in p .. Size - 1 : CharAt(q) = "*" /\ CharAt(q + 1) = "/"}
  IN  IF ends = {} THEN Malformed
      ELSE Lexeme("MultiLineComment", (CHOOSE q \in ends : \A o \in ends : q <= o) + 2)

ReadFromPunctuator(p) ==
  CASE CharAt(p - 1) = "/" /\ CharAt(p) = "/" -> ReadSingleLineComment(p + 1)
    [] CharAt(p - 1) = "/" /\ CharAt(p) = "*" -> ReadMultiLineComment(p + 1)
    [] OTHER -> ReadOperator(p)

ReadColon(p) == IF CharAt(p) = ":" THEN Lexeme("::", p + 1) ELSE Lexeme(":", p)

ReadToken(p) ==
  LET c == CharAt(p)
  IN  CASE Ctype(c) = "Digit" -> ReadNumericLiteral(p + 1)
        [] Ctype(c) = "\"" -> ReadStringLiteral(p + 1)
        [] Ctype(c) = "'" -> ReadCharLiteral(p + 1)
        [] Ctype(c) \in {"Letter", "_"} -> ReadIdentifier(p + 1)
        [] Ctype(c) = ":" -> ReadColon(p + 1)
        [] Ctype(c) = "Punctuator" -> ReadFromPunctuator(p + 1)
        [] Ctype(c) \in {"(", ")", "[", "]", "{", "}", ";", "?", ",", "."} -> Lexeme(c, p + 1)
        [] Ctype(c) \in {"Space", "Invalid"} -> Malformed

-----------------------------------------------------------------------------
\* The constructor: consumeDiscardable
LexerInit ==
  /\ source \in Texts
  /\ pos = Skip(1, IsDiscardable)
  /\ tokens = <<>>
  /\ status = "lexing"

\* Lexer::read, called by tokenize, which drops the comments
Read ==
  /\ status = "lexing"
  /\ ~AtEnd(pos)
  /\ LET t == ReadToken(pos)
     IN  IF t.id = "Invalid"
         THEN /\ status' = "error"
              /\ UNCHANGED <<pos, tokens>>
         ELSE /\ tokens' = IF t.id \in {"SingleLineComment", "MultiLineComment"} THEN tokens
                           ELSE Append(tokens, [id |-> t.id, from |-> pos, to |-> t.to])
              /\ pos' = Skip(t.to, IsDiscardable)
              /\ UNCHANGED status
  /\ UNCHANGED source

EndOfText ==
  /\ status = "lexing"
  /\ AtEnd(pos)
  /\ status' = "lexed"
  /\ UNCHANGED <<source, pos, tokens>>

LexerNext == Read \/ EndOfText
=============================================================================
