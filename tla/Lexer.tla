------------------------------- MODULE Lexer -------------------------------
(***************************************************************************)
(* LVLexer (lexer.cpp): Lex takes the next token out of a source text and   *)
(* keeps the line it is on.  Characters are strings of one letter; the      *)
(* value of a string is a sequence of bytes, that of an integer has         *)
(* MAX_HEX_DIGITS hexadecimal digits, a float keeps the characters strtod   *)
(* will see.                                                                *)
(***************************************************************************)
EXTENDS Integers, Sequences, SequencesExt, FiniteSetsExt

CONSTANTS
    MAX_HEX_DIGITS,     \* digits of an LVInteger
    Numbers,            \* integers texts are written with
    StringLength,       \* how long the strings in texts are
    AnyChars, AnyLength \* texts of any of these characters, and their length

VARIABLES
    source,         \* the characters of the text
    expected,       \* the tokens it was written from, if it was
    at,             \* the place of CUR_CHAR
    currentline,
    lasttokenline,
    lexed           \* the tokens so far

lexerVars == <<source, expected, at, currentline, lasttokenline, lexed>>

Digits == <<"0", "1", "2", "3", "4", "5", "6", "7", "8", "9">>
HexDigits == Digits \o <<"a", "b", "c", "d", "e", "f">>
Digit == Range(Digits)
OctDigit == Range(SubSeq(Digits, 1, 8))
HexDigit == Range(HexDigits)
Letters == {"a", "b", "c", "d", "e", "f", "i", "n", "t", "u", "x", "U", "_"}
EOB == "end"
Controls == <<"a", "b", "t", "n", "v", "f", "r">>   \* for the characters from 7 on

\* What the value of a character is, of those that strings are made of here.
Code(c) ==
    CASE c = "\n" -> 10 [] c = "\"" -> 34 [] c = "'" -> 39 [] c = "\\" -> 92
      [] c \in Digit -> 47 + IndexFirstSubSeq(<<c>>, Digits)
      [] c \in Letters -> 65 [] OTHER -> 32

Integer(digits, base) ==
    FoldLeft(LAMBDA n, d : (n * base + IndexFirstSubSeq(<<d>>, HexDigits) - 1) % 16 ^ MAX_HEX_DIGITS,
             0, digits)

\* A token has a type, the characters that make it what it is and the bytes or
\* the number that are its value.
Token(type, chars, value) == [type |-> type, chars |-> chars, value |-> value]
ErrorToken == Token("error", <<>>, <<>>)

Operators ==
    {<<"/", "=">>, <<"=", "=">>, <<"<", "=">>, <<"<", "=", ">">>, <<"<", "-">>, <<"<", "<">>,
     <<">", "=">>, <<">", ">">>, <<">", ">", ">">>, <<"!", "=">>, <<".", ".", ".">>,
     <<"&", "&">>, <<"|", "|">>, <<":", ":">>, <<"*", "=">>, <<"%", "=">>, <<"-", "=">>,
     <<"-", "-">>, <<"-", ">">>, <<"+", "=">>, <<"+", "+">>}

Keywords == {<<"i", "f">>, <<"i", "n">>}

-----------------------------------------------------------------------------
(* Scanning *)

Cur(i) == IF i \in DOMAIN source THEN source[i] ELSE EOB

\* The first place from i on that is P, or the end.
First(i, P(_)) == Min({j \in i .. Len(source) + 1 : j > Len(source) \/ P(j)})

FirstNot(i, cs) == First(i, LAMBDA j : source[j] \notin cs)

Chars(i, j) == SubSeq(source, i, j - 1)

\* Where the lexer stands and what it has there.
Scan(i, line, token) == [at |-> i, line |-> line, token |-> token]
Failed(i, line) == Scan(i, line, ErrorToken)

LexLineComment(i) == First(i + 1, LAMBDA j : source[j] = "\n")

\* Seeded bug: the lines of a comment are not counted.
LexBlockComment_NoLines(i, line) ==
    Scan(First(i, LAMBDA j : source[j] = "*" /\ Cur(j + 1) = "/") + 2, line, ErrorToken)

LexBlockComment(i, line) ==
    LET end == First(i, LAMBDA j : source[j] = "*" /\ Cur(j + 1) = "/")
    IN Scan(end + 2, line + Quantify(i .. end - 1, LAMBDA j : source[j] = "\n"), ErrorToken)

\* The lead byte and the six bits each that follow it.
AddUTF8(ch) ==
    LET tail(n) == 128 + ((ch \div 64 ^ n) % 64)
    IN CASE ch < 128 -> <<ch>>
         [] ch \in 128 .. 2047 -> <<192 + (ch \div 64), tail(0)>>
         [] ch \in 2048 .. 65535 -> <<224 + (ch \div 4096), tail(1), tail(0)>>
         [] ch \in 65536 .. 1114111 -> <<240 + (ch \div 262144), tail(2), tail(1), tail(0)>>
         [] OTHER -> <<>>

Hexadecimal(digits) ==
    FoldLeft(LAMBDA n, d : n * 16 + IndexFirstSubSeq(<<d>>, HexDigits) - 1, 0, digits)

\* ProcessStringHexEscape: the end of at most maxdigits digits.
HexEscape(i, maxdigits) ==
    Min({i + maxdigits, FirstNot(i, HexDigit)})

\* The bytes of the escape at i, behind its backslash, and its end, which is i
\* itself when there is none.  However it is written, \u takes up to 8 digits.
Escape(i) ==
    LET hex(n) == HexEscape(i + 1, n)
        Of(end, bytes) == [end |-> end, bytes |-> bytes]
    IN CASE Cur(i) = "x" /\ hex(2) > i + 1 -> Of(hex(2), <<Hexadecimal(Chars(i + 1, hex(2)))>>)
         [] Cur(i) \in {"u", "U"} /\ hex(8) > i + 1 ->
              Of(hex(8), AddUTF8(Hexadecimal(Chars(i + 1, hex(8)))))
         [] Cur(i) \in Range(Controls) -> Of(i + 1, <<6 + IndexFirstSubSeq(<<Cur(i)>>, Controls)>>)
         [] Cur(i) = "0" -> Of(i + 1, <<0>>)
         [] Cur(i) \in {"\\", "\"", "'"} -> Of(i + 1, <<Code(Cur(i))>>)
         [] OTHER -> Of(i, <<>>)

\* ReadString from i on; str are the bytes so far.
RECURSIVE ReadString(_, _, _, _, _)
ReadString(i, line, ndelim, verbatim, str) ==
    LET c == Cur(i)
        byte == IF str[1] > 127 THEN str[1] - 256 ELSE str[1]
        escape == Escape(i + 1)
    IN CASE c = ndelim /\ verbatim /\ Cur(i + 1) = "\"" ->
                ReadString(i + 2, line, ndelim, verbatim, Append(str, Code(c)))
         [] c = ndelim /\ ~(verbatim /\ Cur(i + 1) = "\"") ->
                IF ndelim = "\"" THEN Scan(i + 1, line, Token("string", <<>>, str))
                ELSE IF Len(str) # 1 THEN Failed(i + 1, line)
                ELSE Scan(i + 1, line, Token("integer", <<>>, <<byte>>))
         [] c = EOB \/ (c = "\n" /\ ~verbatim) -> Failed(i, line)
         [] c = "\n" /\ verbatim ->
                ReadString(i + 1, line + 1, ndelim, verbatim, Append(str, Code(c)))
         [] c = "\\" /\ ~verbatim ->
                IF escape.end = i + 1 THEN Failed(i, line)
                ELSE ReadString(escape.end, line, ndelim, verbatim, str \o escape.bytes)
         [] OTHER -> ReadString(i + 1, line, ndelim, verbatim, Append(str, Code(c)))

\* The digits, points and exponents of a number from j on; the end is 0 when an
\* exponent has no digits.
RECURSIVE Numeral(_, _)
Numeral(j, type) ==
    LET past == IF Cur(j + 1) \in {"+", "-"} THEN j + 2 ELSE j + 1
    IN CASE Cur(j) = "." -> Numeral(j + 1, "float")
         [] Cur(j) = "e" -> IF Cur(past) \in Digit THEN Numeral(past + 1, "float")
                            ELSE [end |-> 0, type |-> "float"]
         [] Cur(j) \in Digit -> Numeral(j + 1, type)
         [] OTHER -> [end |-> j, type |-> type]

ReadNumber(i, line) ==
    LET integer(digits, base) == Token("integer", <<>>, <<Integer(digits, base)>>)
        endoct == FirstNot(i + 1, OctDigit)
        endhex == FirstNot(i + 2, HexDigit)
        n == Numeral(i + 1, "integer")
    IN CASE Cur(i) = "0" /\ Cur(i + 1) \in OctDigit ->
                IF Cur(endoct) \in Digit THEN Failed(endoct, line)
                ELSE Scan(endoct, line, integer(Chars(i + 1, endoct), 8))
         [] Cur(i) = "0" /\ Cur(i + 1) = "x" ->
                IF endhex - (i + 2) > MAX_HEX_DIGITS THEN Failed(endhex, line)
                ELSE Scan(endhex, line, integer(Chars(i + 2, endhex), 16))
         [] OTHER ->
                IF n.end = 0 THEN Failed(i, line)
                ELSE Scan(n.end, line, IF n.type = "float" THEN Token("float", Chars(i, n.end), <<>>)
                                       ELSE integer(Chars(i, n.end), 10))

ReadID(i, line) ==
    LET end == FirstNot(i + 1, Letters \cup Digit)
        id == Chars(i, end)
    IN Scan(end, line, Token(IF id \in Keywords THEN "keyword" ELSE "identifier", id, <<>>))

\* The tests of the second and the third character take the longest operator.
Operator(i, line) ==
    LET here == {o \in Operators : IsPrefix(o, SubSeq(source, i, Len(source)))}
        longest == CHOOSE o \in here \cup {<<Cur(i)>>} : \A p \in here : Len(o) >= Len(p)
    IN IF Cur(i) = "." /\ Cur(i + 1) = "." /\ Cur(i + 2) # "." THEN Failed(i, line)
       ELSE Scan(i + Len(longest), line, Token("operator", longest, <<>>))

RECURSIVE Lex(_, _)
Lex(i, line) ==
    LET c == Cur(i)
        d == Cur(i + 1)
        comment == LexBlockComment(i + 2, line)
    IN CASE c = EOB -> Scan(i, line, Token("end", <<>>, <<>>))
         [] c = " " -> Lex(i + 1, line)
         [] c = "\n" -> Lex(i + 1, line + 1)
         [] c = "#" -> Lex(LexLineComment(i), line)
         [] c = "/" /\ d = "/" -> Lex(LexLineComment(i + 1), line)
         [] c = "/" /\ d = "*" -> IF comment.at > Len(source) + 1 THEN Failed(comment.at, comment.line)
                                  ELSE Lex(comment.at, comment.line)
         [] c = "@" /\ d = "\"" -> ReadString(i + 2, line, d, TRUE, <<>>)
         [] c \in {"\"", "'"} -> ReadString(i + 1, line, c, FALSE, <<>>)
         [] c \in Digit -> ReadNumber(i, line)
         [] c \in Letters -> ReadID(i, line)
         [] OTHER -> Operator(i, line)

-----------------------------------------------------------------------------
(* Texts written from tokens: two lexemes with something between them. *)

Lexeme(chars, token) == [chars |-> chars, token |-> token]

Numbered(n, base) ==
    LET digits[m \in 0 .. n] == IF m < base THEN <<HexDigits[m + 1]>>
                                ELSE Append(digits[m \div base], HexDigits[(m % base) + 1])
    IN digits[n]

\* Code points and their bytes.
UTF8 == {<<<<"7", "f">>, <<127>>>>, <<<<"8", "0">>, <<194, 128>>>>, <<<<"7", "f", "f">>, <<223, 191>>>>,
         <<<<"8", "0", "0">>, <<224, 160, 128>>>>, <<<<"f", "f", "f", "f">>, <<239, 191, 191>>>>,
         <<<<"1", "0", "0", "0", "0">>, <<240, 144, 128, 128>>>>,
         <<<<"0", "0", "1", "0", "f", "f", "f", "f">>, <<244, 143, 191, 191>>>>,
         <<<<"1", "1", "0", "0", "0", "0">>, <<>>>>}

StringChars == {"a", "\"", "\\", "\n"}
Strings == UNION {[1 .. n -> StringChars] : n \in 0 .. StringLength}
Bytes(s) == [i \in DOMAIN s |-> Code(s[i])]
Concat(s, Op(_)) == FlattenSeq([i \in DOMAIN s |-> Op(s[i])])
Escaped(c) == CASE c = "\n" -> <<"\\", "n">> [] c = "a" -> <<c>> [] OTHER -> <<"\\", c>>
Doubled(c) == IF c = "\"" THEN <<c, c>> ELSE <<c>>

Lexemes ==
    {Lexeme(o, Token("operator", o, <<>>)) : o \in Operators \cup {<<"=">>, <<"<">>, <<"/">>, <<".">>, <<"(">>, <<"@">>}}
    \cup {Lexeme(k, Token("keyword", k, <<>>)) : k \in Keywords}
    \cup {Lexeme(k, Token("identifier", k, <<>>)) : k \in {<<"i">>, <<"_", "8">>, <<"i", "f", "a">>}}
    \cup {Lexeme(f, Token("float", f, <<>>)) : f \in {<<"8", ".", "0">>, <<"0", "e", "-", "8">>}}
    \cup {Lexeme(prefixed[1] \o Numbered(n, prefixed[2]), Token("integer", <<>>, <<n>>)) :
            n \in Numbers, prefixed \in {<<<<>>, 10>>, <<<<"0", "x">>, 16>>, <<<<"0">>, 8>>}}
    \cup {Lexeme(<<"'">> \o Escaped(c) \o <<"'">>, Token("integer", <<>>, <<Code(c)>>)) : c \in StringChars}
    \cup {Lexeme(<<"\"">> \o Concat(s, Escaped) \o <<"\"">>, Token("string", <<>>, Bytes(s))) : s \in Strings}
    \cup {Lexeme(<<"@", "\"">> \o Concat(s, Doubled) \o <<"\"">>, Token("string", <<>>, Bytes(s))) : s \in Strings}
    \cup {Lexeme(<<"\"", "\\", "t", "\\", "0", "\"">>, Token("string", <<>>, <<9, 0>>))}
    \cup {Lexeme(<<"\"", "\\", "u">> \o u[1] \o <<"\"">>, Token("string", <<>>, u[2])) : u \in UTF8}

Between == {<<"\n">>, <<" ", "#", "\"", "\n">>, <<" ", "/", "/", "*", "\n">>, <<" ", "/", "*", "\n", "*", "*", "/">>}

Lines(chars) == Quantify(DOMAIN chars, LAMBDA j : chars[j] = "\n")

LexerInit ==
    /\ \/ \E l \in Lexemes, b \in Between, m \in {n \in Lexemes : n.token.type # "operator"} :
             /\ source = l.chars \o b \o m.chars
             /\ expected = <<l.token, m.token>>
       \/ /\ source \in UNION {[1 .. n -> AnyChars] : n \in 0 .. AnyLength}
          /\ expected = <<>>
    /\ at = 1
    /\ currentline = 1
    /\ lasttokenline = 1
    /\ lexed = <<>>

Ended == lexed # <<>> /\ Last(lexed).type \in {"end", "error"}

\* One call of Lex.
LexToken ==
    LET s == Lex(at, currentline)
    IN /\ ~Ended
       /\ at' = s.at
       /\ currentline' = s.line
       /\ lasttokenline' = currentline
       /\ lexed' = Append(lexed, s.token)
       /\ UNCHANGED <<source, expected>>

LexerSpec == LexerInit /\ [][LexToken]_lexerVars

-----------------------------------------------------------------------------
\* Lex: a text written from tokens, with blanks or comments between them, gives
\* those tokens and their values back; of any text, whatever strings and comments
\* run over several lines, the line after a token counts the newlines before.
LexesWhatWasWritten ==
    /\ expected # <<>> => IsPrefix(lexed, Append(expected, Token("end", <<>>, <<>>)))
    /\ ~(Ended /\ Last(lexed) = ErrorToken) =>
          /\ at <= Len(source) + 1
          /\ currentline = 1 + Lines(SubSeq(source, 1, at - 1))
=============================================================================
