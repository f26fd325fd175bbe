------------------------------ MODULE Bytecode ------------------------------
(***************************************************************************)
(* Function prototypes and the files they are saved in: the constants      *)
(* FunctionState collects and BuildProto (funcstate.cpp), Save and Load of *)
(* closures and prototypes (object.cpp), lv_writeclosure and               *)
(* lv_readclosure (api.cpp), and the file they go to (io.cpp).             *)
(*                                                                         *)
(* A file is a sequence of words, each what one call of the write function *)
(* puts there: a tag, the type of an object, how many things follow, the   *)
(* length of a string, a block of records or other raw data.  The disk     *)
(* takes only so many words; between a save and a load a file may lose its *)
(* end or have a word overwritten by another of its size, but not the      *)
(* length of a string.  Bytes that pass for those of another word are left *)
(* out: a tag or a type among raw data, and an integer 0 whose type is     *)
(* overwritten by that of a string and which reads as an empty one.        *)
(***************************************************************************)
EXTENDS Naturals, FiniteSets, Sequences, SequencesExt

CONSTANTS
    Constants,      \* the sequences of constants functions load
    Rooms,          \* how many words a disk may have room for
    Unflushed       \* the words fwrite may still hold when a file is closed

VARIABLES
    asked,      \* the function last written, if that gave no error
    file,       \* the words of the file
    damaged,    \* something changed it since
    told,       \* how the last load ended, or "nothing"
    stack       \* the functions the loads left on the stack

bytecodeVars == <<asked, file, damaged, told, stack>>

Word(kind, v) == [kind |-> kind, v |-> v]
Raw(v) == <<Word("raw", v)>>
Block(s) == <<Word("block", s)>>
Count(n) == <<Word("count", n)>>
Tag(name) == <<Word("tag", name)>>
Part == Tag("PART")

Concat(s, Op(_)) == FlattenSeq([i \in DOMAIN s |-> Op(s[i])])

-----------------------------------------------------------------------------
(* FunctionState *)

\* GetConstant: the place of a constant among the literals, which a new one
\* takes at the end.
GetConstant(literals, c) ==
    IF c \in DOMAIN literals THEN literals
    ELSE [x \in DOMAIN literals \cup {c} |-> IF x = c THEN Cardinality(DOMAIN literals)
                                                    ELSE literals[x]]

\* BuildProto: literals are laid out by their places.
Laid(literals) ==
    [i \in 1 .. Cardinality(DOMAIN literals) |-> CHOOSE c \in DOMAIN literals : literals[c] = i - 1]

\* The objects among the constants and names, by their types; the parser has
\* other instructions for booleans.
Type(v) == CASE v = "null" -> "null" [] v \in {"1", "2"} -> "int" [] OTHER -> "string"
Typed(v) == [type |-> Type(v), v |-> v]

\* A function is asked for by the constants it loads one after the other, the
\* functions within it and whether it has a free variable.
Function(constants, inner, free) == [constants |-> constants, inner |-> inner, free |-> free]

RECURSIVE BuildProto(_)
BuildProto(q) ==
    LET table == FoldLeft(GetConstant, <<>>, q.constants)
        values(names) == [i \in DOMAIN names |-> Typed(names[i])]
    IN [sourcename |-> Typed("s"), name |-> Typed("name"), literals |-> values(Laid(table)),
        parameters |-> values(<<"this", "s">>),
        outervalues |-> IF q.free
                        THEN <<[type |-> "local", src |-> Typed("1"), name |-> Typed("s")]>>
                        ELSE <<>>,
        locals |-> <<[name |-> Typed("this"), op |-> <<"0", "0", "9">>]>>,
        lineinfos |-> <<1, 0>>, defaultparams |-> <<1>>,
        instructions |-> [i \in DOMAIN q.constants |-> table[q.constants[i]]],
        functions |-> [i \in DOMAIN q.inner |-> BuildProto(q.inner[i])],
        stacksize |-> "2", generator |-> "no", varparams |-> "0"]

\* What a function loads when it runs.
Loads(f) == [i \in DOMAIN f.instructions |-> f.literals[f.instructions[i] + 1]]

-----------------------------------------------------------------------------
(* Save *)

WriteObject(o) ==
    <<Word("type", o.type)>> \o (CASE o.type = "string" -> <<Word("length", "length")>> \o Raw(o.v)
                                   [] o.type \in {"int", "bool"} -> Raw(o.v)
                                   [] o.type = "null" -> <<>>)

RECURSIVE SavePrototype(_)
SavePrototype(f) ==
    Part \o WriteObject(f.sourcename) \o WriteObject(f.name)
    \o Part
    \o Count(Len(f.literals)) \o Count(Len(f.parameters)) \o Count(Len(f.outervalues))
    \o Count(Len(f.locals)) \o Count(Len(f.lineinfos)) \o Count(Len(f.defaultparams))
    \o Count(Len(f.instructions)) \o Count(Len(f.functions))
    \o Part \o Concat(f.literals, WriteObject)
    \o Part \o Concat(f.parameters, WriteObject)
    \o Part \o Concat(f.outervalues, LAMBDA o : Raw(o.type) \o WriteObject(o.src) \o WriteObject(o.name))
    \o Part \o Concat(f.locals, LAMBDA l : WriteObject(l.name) \o Raw(l.op[1]) \o Raw(l.op[2]) \o Raw(l.op[3]))
    \o Part \o Block(f.lineinfos)
    \o Part \o Block(f.defaultparams)
    \o Part \o Block(f.instructions)
    \o Part \o Concat(f.functions, SavePrototype)
    \o Raw(f.stacksize) \o Raw(f.generator) \o Raw(f.varparams)

SaveClosure(f) ==
    Tag("STREAM") \o Tag("HEAD") \o Tag("char") \o Tag("integer") \o Tag("float")
    \o SavePrototype(f) \o Tag("TAIL")

-----------------------------------------------------------------------------
(* Load.  A reader has the words not yet read, whether no read failed, and   *)
(* the value of the last one.                                                *)

Reader(ws) == [ok |-> TRUE, ws |-> ws, v |-> "nothing"]

\* Words are read as they were written, or not at all: what is read behind a
\* wrong word is not where it should be, and the next tag or type is wrong.
Take(r, kind) ==
    IF r.ok /\ r.ws # <<>> /\ Head(r.ws).kind = kind
    THEN [ok |-> TRUE, ws |-> Tail(r.ws), v |-> Head(r.ws).v]
    ELSE [r EXCEPT !.ok = FALSE]

SafeRead(r) == Take(r, "raw")
ReadCount(r) == Take(r, "count")

\* Seeded bug: a tag is read and not compared.
CheckTag_Any(r, name) == Take(r, "tag")

CheckTag(r, name) ==
    LET t == Take(r, "tag") IN [t EXCEPT !.ok = @ /\ t.v = name]

ReadObject(r) ==
    LET t == Take(r, "type")
        of(r1) == [r1 EXCEPT !.v = [type |-> t.v, v |-> @]]
    IN CASE ~t.ok -> t
         [] t.v = "string" -> of(SafeRead(Take(t, "length")))
         [] t.v \in {"int", "bool"} -> of(SafeRead(t))
         [] t.v = "null" -> of(t)
         [] OTHER -> [t EXCEPT !.ok = FALSE]

\* Another value behind those already read.
Also(r, one) ==
    IF r.ok /\ one.ok THEN [one EXCEPT !.v = Append(r.v, one.v)] ELSE [r EXCEPT !.ok = FALSE]
Then(r, Op(_)) == Also(r, Op(r))

\* n values one after the other, as a sequence.
Several(r, n, Op(_)) ==
    LET reads[i \in 0 .. n] ==
            IF i = 0 THEN [r EXCEPT !.v = <<>>] ELSE Then(reads[i - 1], Op)
    IN reads[n]

ReadOuter(r) ==
    LET t == SafeRead(r)
        src == ReadObject(t)
        name == ReadObject(src)
    IN [name EXCEPT !.v = [type |-> t.v, src |-> src.v, name |-> name.v]]

ReadLocal(r) ==
    LET name == ReadObject(r)
        op == Several(name, 3, SafeRead)
    IN [op EXCEPT !.v = [name |-> name.v, op |-> op.v]]

\* A part of a prototype behind its tag, of n values or of the i-th of the numbers
\* that are its third part.
Listed(r, n, Op(_)) == Also(r, Several(CheckTag(r, "PART"), n, Op))
Counted(r, i, Op(_)) == Listed(r, r.v[3][i], Op)

\* A part that is one block, of as many records as the i-th number says.
BlockPart(r, i) ==
    LET b == Take(CheckTag(r, "PART"), "block")
    IN Also(r, [b EXCEPT !.ok = @ /\ Len(b.v) = r.v[3][i]])

Prototype(r) ==
    IF ~r.ok THEN r
    ELSE LET p == r.v
         IN [r EXCEPT !.v =
               [sourcename |-> p[1], name |-> p[2], literals |-> p[4], parameters |-> p[5],
                outervalues |-> p[6], locals |-> p[7], lineinfos |-> p[8], defaultparams |-> p[9],
                instructions |-> p[10], functions |-> p[11], stacksize |-> p[12],
                generator |-> p[13], varparams |-> p[14]]]

RECURSIVE LoadPrototype(_)
LoadPrototype(r) ==
    LET names == Then(Also([r EXCEPT !.v = <<>>], ReadObject(CheckTag(r, "PART"))), ReadObject)
        literals == Counted(Listed(names, 8, ReadCount), 1, ReadObject)
        outervalues == Counted(Counted(literals, 2, ReadObject), 3, ReadOuter)
        locals == Counted(outervalues, 4, ReadLocal)
        instructions == BlockPart(BlockPart(BlockPart(locals, 5), 6), 7)
        functions == Counted(instructions, 8, LoadPrototype)
    IN Prototype(Then(Then(Then(functions, SafeRead), SafeRead), SafeRead))

LoadClosure(ws) ==
    LET head == FoldLeft(CheckTag, Reader(ws), <<"STREAM", "HEAD", "char", "integer", "float">>)
        f == LoadPrototype(head)
        tail == CheckTag(f, "TAIL")
    IN [ok |-> tail.ok, v |-> f.v]

-----------------------------------------------------------------------------
BytecodeInit ==
    /\ asked = <<>>
    /\ file = <<>>
    /\ damaged = FALSE
    /\ told = "nothing"
    /\ stack = <<>>

\* lv_writeclosuretofile: the file is empty before the closure is looked at.  A
\* full disk ends the writing with an error, unless only the words it has no room
\* for are written by fclose, whose result nobody asks for.
WriteClosure(q, room) ==
    LET words == IF q.free THEN <<>> ELSE SaveClosure(BuildProto(q))
    IN /\ file' = SubSeq(words, 1, IF room < Len(words) THEN room ELSE Len(words))
       /\ asked' = IF q.free \/ room + Unflushed < Len(words) THEN <<>> ELSE <<q>>
       /\ damaged' = FALSE
       /\ told' = "nothing"
       /\ stack' = <<>>

Truncate(n) ==
    /\ n < Len(file)
    /\ file' = SubSeq(file, 1, n)
    /\ damaged' = TRUE
    /\ told' = "nothing"
    /\ UNCHANGED <<asked, stack>>

\* What another word of that size may say: any other tag is wrong, a type may
\* become one there is no object of in a file or any that there is, and raw data
\* and records are what they are.
Others(word) ==
    CASE word.kind = "tag" -> {"other"}
      [] word.kind = "type" -> {"other", "null", "bool", "int", "string"} \ {word.v}
      [] word.kind = "count" -> (0 .. 4) \ {word.v}
      [] word.kind = "raw" -> {"other"}
      [] word.kind = "block" -> {[i \in DOMAIN word.v |-> 9]} \ {word.v}
      [] OTHER -> {}

Overwrite(i) ==
    /\ \E v \in Others(file[i]) : file' = [file EXCEPT ![i].v = v]
    /\ damaged' = TRUE
    /\ told' = "nothing"
    /\ UNCHANGED <<asked, stack>>

\* lv_loadfile, of a file that begins like one of bytecode; any other is source.
LoadFile ==
    /\ file # <<>> /\ file[1].v = "STREAM"
    /\ stack = <<>>
    /\ LET r == LoadClosure(file)
       IN /\ told' = IF r.ok THEN "ok" ELSE "error"
          /\ stack' = IF r.ok THEN <<r.v>> ELSE stack
    /\ UNCHANGED <<asked, file, damaged>>

BytecodeNext ==
    \/ \E c, d \in Constants, free \in BOOLEAN, room \in Rooms :
          asked = <<>> /\ WriteClosure(Function(c, <<Function(d, <<>>, TRUE)>>, free), room)
    \/ ~damaged /\ (\E n \in 1 .. Len(file) : Truncate(n) \/ Overwrite(n))
    \/ LoadFile

BytecodeSpec == BytecodeInit /\ [][BytecodeNext]_bytecodeVars

-----------------------------------------------------------------------------
\* lv_writeclosuretofile and lv_loadfile.  What loads is the function that the
\* file describes, to the last word: every tag in place and every part as long as
\* it says.  From a file nobody changed, that is the function it was written from,
\* which loads the constants the compiler met, and a file that was written whole
\* always loads.  No check sum guards the rest: raw data, records, and the type of
\* an object when another type has the same size load as another function without
\* an error.  A load that fails leaves nothing on the stack.
LoadsWhatWasSaved ==
    /\ told = "ok" =>
           /\ stack # <<>> /\ file = SaveClosure(stack[1])
           /\ ~damaged => /\ stack = <<BuildProto(asked[1])>>
                          /\ Loads(stack[1]) = [i \in DOMAIN asked[1].constants |->
                                                 Typed(asked[1].constants[i])]
    /\ told = "error" =>
           /\ stack = <<>>
           /\ asked = <<>> \/ file # SaveClosure(BuildProto(asked[1]))
=============================================================================
