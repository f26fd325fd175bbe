------------------------------ MODULE LineInfos ------------------------------
(***************************************************************************)
(* The lines of instructions: the line infos that AddLineInfos collects    *)
(* while a function is compiled (funcstate.cpp), and GetLine, which finds  *)
(* the line an instruction pointer is on (object.cpp).                     *)
(*                                                                         *)
(* A statement begins on the line of the last one or behind it, adds       *)
(* instructions and ends.  An instruction has, as history, the line of the *)
(* statement that added it.                                                *)
(***************************************************************************)
EXTENDS Integers, Sequences, SequencesExt, FiniteSetsExt

CONSTANTS
    MaxLine,    \* bound on the lines of a function
    MaxCode     \* bound on its instructions

ASSUME LineInfosAssumption == MaxLine \in Nat /\ MaxCode \in Nat

VARIABLES
    debuginfo,  \* _lineinfo of the compiler: lines are instructions, too
    func        \* the FunctionState: code, _lineinfos, _lastline, _optimization

lineVars == <<debuginfo, func>>

Line == [op |-> "LINE", line |-> 0]

\* AddLineInfos; an _OP_LINE replaces one just before it, with its info.
AddLineInfos(f, line, debug, force) ==
    LET info == [line |-> line, op |-> Len(f.code)]
        merge == debug /\ f.opt /\ f.code # <<>> /\ Last(f.code) = Line
        infos == IF merge THEN Front(f.infos) ELSE f.infos
        new == [f EXCEPT !.code = IF debug /\ ~merge THEN Append(@, Line) ELSE @,
                         !.opt = debug \/ @]
    IN IF f.line = line /\ ~force THEN f
       ELSE [new EXCEPT !.infos = IF f.line # line THEN Append(infos, info) ELSE infos,
                        !.line = line]

NoLines == [code |-> <<>>, infos |-> <<>>, line |-> 0, opt |-> TRUE]

\* A statement begins so many lines behind the last one.
BeginStatement(lines) ==
    /\ func.line + lines <= MaxLine
    /\ func' = AddLineInfos(func, func.line + lines, debuginfo, FALSE)
    /\ UNCHANGED debuginfo

AddCode ==
    /\ Len(func.code) < MaxCode
    /\ func' = [func EXCEPT !.code = Append(@, [op |-> "CODE", line |-> func.line]), !.opt = TRUE]
    /\ UNCHANGED debuginfo

\* SnoozeOpt
EndStatement ==
    /\ func' = [func EXCEPT !.opt = FALSE]
    /\ UNCHANGED debuginfo

LinesInit ==
    /\ debuginfo \in BOOLEAN
    /\ func = AddLineInfos(NoLines, 1, debuginfo, FALSE)

LinesNext ==
    \/ \E lines \in 0 .. MaxLine : BeginStatement(lines)
    \/ AddCode
    \/ EndStatement

LinesSpec == LinesInit /\ [][LinesNext]_lineVars

-----------------------------------------------------------------------------
(* GetLine, for an instruction pointer, which is past the instruction.     *)

\* A round of its binary search.
SearchRound(infos, op, r) ==
    LET mid == r.low + ((r.high - r.low) \div 2)
        at == infos[mid].op
        next == IF mid < Len(infos) THEN infos[mid + 1].op ELSE -1
        this == [r EXCEPT !.mid = mid]
    IN CASE r.found \/ r.low > r.high -> r
         [] ~r.found /\ r.low <= r.high /\ at > op -> [this EXCEPT !.high = mid - 1]
         [] ~r.found /\ r.low <= r.high /\ at < op /\ next < op -> [this EXCEPT !.low = mid + 1]
         [] OTHER -> [this EXCEPT !.found = TRUE]

\* The search halves what is left in each round: it needs no more than the infos.
Search(infos, op) ==
    LET round[k \in 0 .. Len(infos)] ==
            IF k = 0 THEN [low |-> 1, high |-> Len(infos), mid |-> 1, found |-> FALSE]
            ELSE SearchRound(infos, op, round[k - 1])
    IN  round[Len(infos)].mid

\* Seeded bug: an info at the pointer counts for the instruction before it.
Down_Past(infos, op, mid) == Max({j \in 1 .. mid : j = 1 \/ infos[j].op <= op})

\* Down to an info before the pointer, or to the first.
Down(infos, op, mid) == Max({j \in 1 .. mid : j = 1 \/ infos[j].op < op})

GetLine(infos, op) == infos[Down(infos, op, Search(infos, op))].line

-----------------------------------------------------------------------------
\* CreateFunction ends with a line of its own, on which the next token may be;
\* SnoozeOpt, or the return of a lambda, keeps it from merging.
EndedFunction(line) == AddLineInfos([func EXCEPT !.opt = FALSE], line, debuginfo, TRUE)

\* FunctionPrototype::GetLine gives, for every instruction of a function
\* compiled with or without debug information, the line of the statement that
\* began last before it (object.cpp:248-275).
LinesAreRight ==
    \A line \in func.line .. MaxLine :
        LET f == EndedFunction(line)
        IN /\ f.infos # <<>>
           /\ \A i \in DOMAIN f.code :
                 f.code[i] # Line => GetLine(f.infos, i) = f.code[i].line
=============================================================================
