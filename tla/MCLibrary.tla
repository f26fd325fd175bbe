----------------------------- MODULE MCLibrary -----------------------------
(***************************************************************************)
(* The parts of the runtime that keep no state of each other, checked one   *)
(* beside the other: a behaviour chooses a part and moves only that one.    *)
(* The hash table has integer keys, which hash to themselves, that collide  *)
(* in tables of 4 and of 8 nodes; the table of references and the string    *)
(* table double with objects that collide before and after.                *)
(***************************************************************************)
EXTENDS Blob, Lexer, RefTable, HashTable, StringTable, Values, Arrays, LineInfos,
        Threads

VARIABLES
    part,                                                       \* the part that moves
    asked, file, damaged, told, stack,                          \* Bytecode
    text, meaning, pos, tokens, toksuper, tokcount, decoded     \* Json

MCAnyChars == {"a", "8", ".", "\"", "'", "\\", "\n", "/", "*", "@"}

MCKey == {0, 3, 4, 11}
MCHashKey == [k \in MCKey |-> k]

MCObj == 1 .. 4
MCHash == <<0, 2, 4, 1>>

MCString == 1 .. 6
MCHashStr == <<0, 4, 8, 1, 5, 2>>

MCMaxFrames == [v \in {"main", "t1", "t2"} |-> IF v = "t1" THEN 2 ELSE 1]

MCFloatNumber == -4 .. 4

Bytecode == INSTANCE Bytecode WITH
    Constants <- {<<>>, <<"s", "1", "s">>, <<"null", "2", "1", "2">>},
    Rooms <- {0, 1, 2, 20, 50, 105, 200}, Unflushed <- 2

Json == INSTANCE Json WITH
    Strings <- {"k", "l"}, Primitives <- {"7"}, AnyLength <- 3, Depth <- 2, TokCount <- 1

codeVars == <<asked, file, damaged, told, stack>>
jsonVars == <<text, meaning, pos, tokens, toksuper, tokcount, decoded>>

\* The variables of each part; values are only chosen.
Moves(p) ==
    /\ part = p
    /\ p = "hash" \/ UNCHANGED tableVars
    /\ p = "refs" \/ UNCHANGED refVars
    /\ p = "strings" \/ UNCHANGED stringVars
    /\ p = "arrays" \/ UNCHANGED arrayVars
    /\ p = "blob" \/ UNCHANGED vars
    /\ p = "code" \/ UNCHANGED codeVars
    /\ p = "lines" \/ UNCHANGED lineVars
    /\ p = "lexer" \/ UNCHANGED lexerVars
    /\ p = "json" \/ UNCHANGED jsonVars
    /\ p = "threads" \/ UNCHANGED threadVars
    /\ UNCHANGED <<part, triple>>

MCInit ==
    /\ part \in {"hash", "refs", "strings", "arrays", "blob", "values", "code", "lines", "lexer", "json",
                "threads"}
    /\ TableInit /\ (part = "hash" \/ Size(table) = 4)
    /\ RefInit /\ StringInit /\ Bytecode!BytecodeInit
    /\ LinesInit /\ (part = "lines" \/ debuginfo = FALSE)
    /\ ThreadsInit
    /\ ArraysInit /\ (part = "arrays" \/ arr = <<>>)
    /\ Init /\ (part = "blob" \/ buf = <<>>)
    /\ IF part = "values" THEN ValuesInit ELSE triple = <<Null, Null, Null>>
    /\ IF part = "lexer" THEN LexerInit
       ELSE source = <<>> /\ expected = <<>> /\ at = 1 /\ currentline = 1 /\ lasttokenline = 1 /\ lexed = <<>>
    /\ IF part = "json" THEN Json!JsonInit
       ELSE text = <<>> /\ meaning = <<>> /\ pos = 0 /\ tokens = <<>> /\ toksuper = 0 /\ tokcount = 1 /\ decoded = "parsing"

MCNext ==
    \/ Moves("hash") /\ TableNext
    \/ Moves("refs") /\ RefNext
    \/ Moves("strings") /\ StringNext
    \/ Moves("arrays") /\ ArraysNext
    \/ Moves("blob") /\ Next
    \/ Moves("code") /\ Bytecode!BytecodeNext
    \/ Moves("lines") /\ LinesNext
    \/ Moves("lexer") /\ LexToken
    \/ Moves("json") /\ Json!JsonNext
    \/ Moves("threads") /\ ThreadsNext

ASSUME LibraryAssumption == BlobAssumption

allVars == <<part, vars, tableVars, refVars, stringVars, arrayVars, triple, codeVars, lineVars,
             lexerVars, jsonVars, threadVars>>

MCSpec == MCInit /\ [][MCNext]_allVars /\ WF_allVars(Moves("arrays") /\ ArraysStep)

-----------------------------------------------------------------------------
(* The properties of the parts. *)

\* Bytecode: what loads is what the file describes, and from an unchanged file
\* what was saved (object.cpp, io.cpp).
LoadsWhatWasSaved == part = "code" => Bytecode!LoadsWhatWasSaved

\* Lexer: tokens and lines are those of the text (lexer.cpp).
TokensAreRight == part = "lexer" => LexesWhatWasWritten

\* Json: a text decodes to what it stands for (modules/json/module.cpp).
DecodesText == part = "json" => Json!DecodesText
=============================================================================
