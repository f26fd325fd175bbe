-------------------------------- MODULE Json --------------------------------
(***************************************************************************)
(* json_decode of the json module (modules/json/module.cpp): jsmn_parse    *)
(* writes tokens into an array that may be too small; json_decode then     *)
(* doubles the array and lets the parser go on where it stood.  parse_level *)
(* makes a value of the tokens.                                            *)
(*                                                                         *)
(* A text is a sequence of items with blanks between them: brackets, commas *)
(* and colons, strings, primitives and strings that do not scan.           *)
(***************************************************************************)
EXTENDS Naturals, Sequences, SequencesExt, FiniteSetsExt

CONSTANTS
    Strings,        \* items that are strings
    Primitives,     \* items that are numbers, booleans or null
    AnyLength,      \* how long texts of any items may be
    Depth,          \* how deep the values of well-formed texts are nested
    TokCount        \* the room for tokens at first

VARIABLES
    text,       \* the items of the text
    meaning,    \* the value it was written from, if it was
    pos,        \* how many of them are parsed
    tokens,     \* the tokens allocated
    toksuper,   \* the token the next one belongs to, 0 for none
    tokcount,   \* the room for tokens
    decoded     \* "parsing", "error" or "value"

jsonVars == <<text, meaning, pos, tokens, toksuper, tokcount, decoded>>

Opens == {"{", "["}
Closes == {"}", "]"}
BadItem == "bad"

Type(c) == CASE c \in {"{", "}"} -> "object"
             [] c \in {"[", "]"} -> "array"
             [] c \in Strings -> "string"
             [] OTHER -> "primitive"

IsContainer(t) == t.type \in {"object", "array"}

-----------------------------------------------------------------------------
(* The texts, and what they mean.  A value is written as a sequence of words: *)
(* the values of an array in order, the values of a table under its keys.     *)

Joined(parts) ==
    FlattenSeq([i \in DOMAIN parts |-> IF i = 1 THEN parts[i] ELSE <<",">> \o parts[i]])

ArrayOf(values) == <<"[">> \o FlattenSeq(values) \o <<"]">>

\* A table is a function from keys to values.
TableOf(table) ==
    <<"{">> \o FlattenSeq([i \in 1 .. Cardinality(Strings) |->
                             LET k == SetToSeq(Strings)[i]
                             IN IF k \in DOMAIN table THEN <<k>> \o table[k] ELSE <<>>])
            \o <<"}">>

Doc(t, v) == [text |-> t, value |-> v]
Scalars == {Doc(<<s>>, <<s>>) : s \in Strings \cup Primitives}

Member(k, d) == [key |-> k, text |-> <<k, ":">> \o d.text, value |-> d.value]

\* A container has up to two parts, one of them of any kind.
Parts(any, scalars) ==
    {<<>>} \cup {<<d>> : d \in any}
           \cup {<<d, e>> : d \in any, e \in scalars} \cup {<<e, d>> : d \in any, e \in scalars}

Array(ds) == Doc(<<"[">> \o Joined([i \in DOMAIN ds |-> ds[i].text]) \o <<"]">>,
                 ArrayOf([i \in DOMAIN ds |-> ds[i].value]))

\* Of two members with one key the later counts.
Object(ms) ==
    LET last(k) == Max({i \in DOMAIN ms : ms[i].key = k})
    IN Doc(<<"{">> \o Joined([i \in DOMAIN ms |-> ms[i].text]) \o <<"}">>,
           TableOf([k \in {ms[i].key : i \in DOMAIN ms} |-> ms[last(k)].value]))

RECURSIVE Docs(_)
Docs(depth) ==
    IF depth = 0 THEN Scalars
    ELSE LET any == Docs(depth - 1)
             members(ds) == {Member(k, d) : k \in Strings, d \in ds}
         IN any \cup {Array(ds) : ds \in Parts(any, Scalars)}
                \cup {Object(ms) : ms \in Parts(members(any), members(Scalars))}

WellFormed == Docs(Depth)

Items == Opens \cup Closes \cup {",", ":", BadItem} \cup Strings \cup Primitives

\* The brackets of a text match and all its strings scan.
Matches(t) ==
    LET closed == FoldLeft(LAMBDA open, c :
            CASE c \in Opens -> Append(open, Type(c))
              [] c \in Closes -> IF open # <<>> /\ Last(open) = Type(c) THEN Front(open)
                                 ELSE <<BadItem>>
              [] OTHER -> open, <<>>, t)
    IN BadItem \notin Range(t) /\ closed = <<>>

-----------------------------------------------------------------------------
(* jsmn_parse *)

Token(type, at, ended) == [type |-> type, start |-> at, ended |-> ended, size |-> 0]

\* The innermost object or array that is not closed, 0 for none.
Innermost_Any(ts) == Max({0} \cup {i \in DOMAIN ts : IsContainer(ts[i])})

Innermost(ts) == Max({0} \cup {i \in DOMAIN ts : IsContainer(ts[i]) /\ ~ts[i].ended})

JsonInit ==
    /\ \/ \E d \in WellFormed : text = d.text /\ meaning = d.value
       \/ text \in UNION {[1 .. n -> Items] : n \in 0 .. AnyLength} /\ meaning = <<>>
    /\ pos = 0
    /\ tokens = <<>>
    /\ toksuper = 0
    /\ tokcount = TokCount
    /\ decoded = "parsing"

Parsing(items) ==
    /\ decoded = "parsing"
    /\ pos < Len(text)
    /\ text[pos + 1] \in items

\* The token's parent counts it.
Counted(ts) == IF toksuper = 0 THEN ts ELSE [ts EXCEPT ![toksuper].size = @ + 1]

HasRoom == Len(tokens) < tokcount

OpenBracket ==
    /\ Parsing(Opens)
    /\ HasRoom
    /\ tokens' = Append(Counted(tokens), Token(Type(text[pos + 1]), pos, FALSE))
    /\ toksuper' = Len(tokens) + 1
    /\ pos' = pos + 1
    /\ UNCHANGED <<text, meaning, tokcount, decoded>>

CloseBracket ==
    LET i == Innermost(tokens)
    IN /\ Parsing(Closes)
       /\ IF i # 0 /\ tokens[i].type = Type(text[pos + 1])
          THEN /\ tokens' = [tokens EXCEPT ![i].ended = TRUE]
               /\ toksuper' = Innermost(tokens')
               /\ pos' = pos + 1
               /\ UNCHANGED decoded
          ELSE /\ decoded' = "error"
               /\ UNCHANGED <<tokens, toksuper, pos>>
       /\ UNCHANGED <<text, meaning, tokcount>>

\* jsmn_parse_string and jsmn_parse_primitive.
Scalar ==
    /\ Parsing(Strings \cup Primitives)
    /\ HasRoom
    /\ tokens' = Append(Counted(tokens), Token(Type(text[pos + 1]), pos, TRUE))
    /\ pos' = pos + 1
    /\ UNCHANGED <<text, meaning, toksuper, tokcount, decoded>>

Bad ==
    /\ Parsing({BadItem})
    /\ decoded' = "error"
    /\ UNCHANGED <<text, meaning, pos, tokens, toksuper, tokcount>>

Colon ==
    /\ Parsing({":"})
    /\ toksuper' = Len(tokens)
    /\ pos' = pos + 1
    /\ UNCHANGED <<text, meaning, tokens, tokcount, decoded>>

Comma ==
    /\ Parsing({","})
    /\ toksuper' = IF toksuper = 0 \/ IsContainer(tokens[toksuper]) \/ Innermost(tokens) = 0
                   THEN toksuper ELSE Innermost(tokens)
    /\ pos' = pos + 1
    /\ UNCHANGED <<text, meaning, tokens, tokcount, decoded>>

\* json_decode: JSMN_ERROR_NOMEM.
MoreTokens ==
    /\ Parsing(Opens \cup Strings \cup Primitives)
    /\ ~HasRoom
    /\ tokcount' = 2 * tokcount
    /\ UNCHANGED <<text, meaning, pos, tokens, toksuper, decoded>>

\* Unmatched opened object or array
EndOfText ==
    /\ decoded = "parsing"
    /\ pos = Len(text)
    /\ decoded' = IF Innermost(tokens) = 0 THEN "value" ELSE "error"
    /\ UNCHANGED <<text, meaning, pos, tokens, toksuper, tokcount>>

JsonNext ==
    \/ OpenBracket \/ CloseBracket \/ Scalar \/ Bad \/ Colon \/ Comma
    \/ MoreTokens \/ EndOfText

JsonSpec == JsonInit /\ [][JsonNext]_jsonVars

-----------------------------------------------------------------------------
\* parse_level: the value of the tokens from at on, and how many those are.
RECURSIVE parse_level(_)
parse_level(at) ==
    LET t == tokens[at]
        Level(j, v) == [count |-> j, value |-> v]
        \* j tokens are done, i values
        elements[i \in 0 .. t.size] ==
            IF i = 0 THEN Level(0, <<>>)
            ELSE LET before == elements[i - 1]
                     one == parse_level(at + 1 + before.count)
                 IN Level(before.count + one.count, Append(before.value, one.value))
        members[i \in 0 .. t.size] ==
            IF i = 0 THEN Level(0, [k \in {} |-> <<>>])
            ELSE LET before == members[i - 1]
                     key == parse_level(at + 1 + before.count)
                     one == parse_level(at + 1 + before.count + key.count)
                     table == before.value
                     k == key.value[1]
                 IN Level(before.count + key.count + one.count,
                          [x \in DOMAIN table \cup {k} |-> IF x = k THEN one.value ELSE table[x]])
    IN CASE t.type = "object" ->
              Level(members[t.size].count + 1, TableOf(members[t.size].value))
         [] t.type = "array" ->
              Level(elements[t.size].count + 1, ArrayOf(elements[t.size].value))
         [] OTHER -> Level(1, <<text[t.start + 1]>>)

\* json_decode: whatever room the tokens had at first, and however often it was
\* doubled on the way, a text is taken exactly when its brackets match and its
\* strings scan, and of a well-formed one comes the value it stands for, with
\* all its tokens used.
DecodesText ==
    /\ decoded = "value" =>
          /\ Matches(text)
          /\ meaning # <<>> => parse_level(1) = [count |-> Len(tokens), value |-> meaning]
    /\ decoded = "error" => ~Matches(text)
=============================================================================
