------------------------------ MODULE CodeGen ------------------------------
(***************************************************************************)
(* The statements of the compiler (compiler.cpp, funcstate.cpp) and the    *)
(* control flow of the code they generate.  A behaviour first compiles one *)
(* function, a statement at a time and in any order the grammar allows,    *)
(* and then runs it: every condition may go both ways and every expression *)
(* may throw.                                                              *)
(*                                                                         *)
(* The compiler is one pass: a jump is written before its target exists    *)
(* and patched later, the traps a jump leaves are counted beside the       *)
(* nesting, and the optimizer changes the last instruction while addresses *)
(* are already out.                                                        *)
(*                                                                         *)
(* An instruction has, besides its operands, the fields `in', `size',      *)
(* `first', `want' and `leaves': history, which the properties compare     *)
(* with what the code does.                                                *)
(***************************************************************************)
EXTENDS Integers, SequencesExt

CONSTANTS
    Conds,          \* conditions: "local" (no code), "value" (an instruction), "cmp" (a comparison)
    Budgets,        \* bounds: the statements a function may have of each sort, cases
                    \* included, and in total; every function keeps to one of them
    ForAtStart,     \* TRUE: a for whose condition is the function's first instruction
    DefaultReturns, \* TRUE: a default that begins with a return without code of its own
    BareVars,       \* TRUE: a branch of an if, without braces, declares a variable
    JumpCaptured,   \* TRUE: break and continue leave several blocks with captured variables
    ThrowCaptured   \* TRUE: errors leave try blocks with captured variables

Sorts == {"plain", "var", "capture", "jump", "return", "block", "if", "loop",
          "switch", "case", "try", "total"}

ASSUME CodeGenAssumption ==
    /\ Conds \subseteq {"local", "value", "cmp"}
    /\ Budgets \subseteq [Sorts -> Nat]
    /\ {ForAtStart, DefaultReturns, BareVars, JumpCaptured, ThrowCaptured} \subseteq BOOLEAN

VARIABLES
    fs,     \* the FunctionState
    scope,  \* _scope.stacksize: the registers outside the innermost block
    open,   \* the statement methods that have not returned, outermost first
    left,   \* the statements that may still begin
    vm      \* the run: program counter, traps, registers with an open outer

vars == <<fs, scope, open, left, vm>>

----------------------------------------------------------------------------
(* FunctionState.  Positions count from 0 as in the code; Instr(f, p) is   *)
(* the instruction at one.                                                 *)

Pos(f) == Len(f.code) - 1          \* GetCurrentPos
Size(f) == Len(f.locals)           \* GetStackSize
Instr(f, p) == f.code[p + 1]

\* What a jump to the next instruction to be added means: its position, and
\* as history which call of AddInstruction will add it.
Label(f) == [pos |-> Pos(f), call |-> f.calls + 1]
After(l) == [pos |-> l.pos + 1, call |-> l.call + 1]

\* SetIntructionParam of a jump.
Patch(f, p, l) == [f EXCEPT !.code[p + 1].to = l.pos - p,
                            !.code[p + 1].want = l.call]

PatchAll(f, ps, l) == FoldLeft(LAMBDA g, p : Patch(g, p, l), f, ps)

\* AddInstruction: some instructions change the last one instead.
AddInstruction(f, op, a, in) ==
    LET last == Last(f.code)
        optimizes == f.opt /\ f.code # <<>>
        new == [op |-> op, a |-> a, to |-> 0, in |-> in, size |-> Size(f),
                first |-> f.calls + 1, want |-> 0, leaves |-> <<"", 0>>]
        called == [f EXCEPT !.calls = @ + 1]
        end == Len(f.code)
    IN  CASE optimizes /\ op = "JZ" /\ last.op = "CMP" ->
               [called EXCEPT !.code[end].op = "JCMP"]
          [] optimizes /\ op = "RETURN" /\ last.op = "CLOSE" ->
               [called EXCEPT !.code[end] = [new EXCEPT !.first = last.first]]
          [] optimizes /\ op = "RETURN" /\ last.op = "CALL" /\ a = 1 /\ f.returnexp < Pos(f) ->
               [called EXCEPT !.code = Append([@ EXCEPT ![end].op = "TAILCALL"], new),
                              !.opt = TRUE]
          [] OTHER -> [called EXCEPT !.code = Append(@, new), !.opt = TRUE]

AddJump(f, l, in) == Patch(AddInstruction(f, "JMP", 0, in), Pos(f) + 1, l)

\* Seeded bug: the optimizer does not stop at the end of a statement.
SnoozeOpt_Not(f) == f

SnoozeOpt(f) == [f EXCEPT !.opt = FALSE]

\* Seeded bug: the first register of the block is not looked at.
Captured_Short(f, n) == \E r \in n + 2 .. Size(f) : f.locals[r] = "outer"

\* CountOuters, and what END_SCOPE sees of _outers.
Captured(f, n) == \E r \in n + 1 .. Size(f) : f.locals[r] = "outer"

\* RESOLVE_OUTERS
ResolveOuters(f, in) == IF Captured(f, scope) THEN AddInstruction(f, "CLOSE", scope, in) ELSE f

\* END_SCOPE without the scope itself.
EndScope(f, n, in) ==
    LET cut == [f EXCEPT !.locals = SubSeq(@, 1, n)]
    IN  IF Captured(f, n) THEN AddInstruction(cut, "CLOSE", n, in) ELSE cut

PushLocal(f, kind) == [f EXCEPT !.locals = Append(@, kind)]

\* A condition and the jump that leaves when it does not hold; the jump is
\* the last instruction.
Condition(f, c, in) ==
    LET test == CASE c = "local" -> f
                  [] c = "value" -> AddInstruction(f, "EXPR", 0, in)
                  [] c = "cmp"   -> AddInstruction(f, "CMP", 0, in)
    IN  AddInstruction(test, "JZ", 0, in)

\* BEGIN_BREAKBLE_BLOCK
BeginBreakable(f) == [f EXCEPT !.breaktargets = Append(@, 0),
                               !.continuetargets = Append(@, 0)]

\* The entries that were pushed since there were n.
Since(s, n) == SubSeq(s, n + 1, Len(s))

ResolveBreaks(f, n) ==
    [PatchAll(f, Since(f.breaks, n), Label(f)) EXCEPT !.breaks = SubSeq(@, 1, n)]

ResolveContinues(f, n, l) ==
    [PatchAll(f, Since(f.continues, n), l) EXCEPT !.continues = SubSeq(@, 1, n)]

\* END_BREAKBLE_BLOCK
EndBreakable(f, m, l) ==
    [ResolveBreaks(ResolveContinues(f, m.continues, l), m.breaks)
        EXCEPT !.breaktargets = Front(@), !.continuetargets = Front(@)]

\* Seeded bug: the counter of the outermost loop.
Counted_Bottom(s, d) == IF s = <<>> THEN s ELSE [s EXCEPT ![1] = @ + d]

\* The counters of the innermost breakable statement in TryCatchStatement.
Counted(s, d) == IF s = <<>> THEN s ELSE [s EXCEPT ![Len(s)] = @ + d]

----------------------------------------------------------------------------
(* The statement methods.  A record of open has their local variables, and *)
(* part says how far the method is.                                        *)

Method == [kind |-> "function", id |-> 0, part |-> "body",
           many |-> TRUE, done |-> FALSE,       \* Statements(), or one Statement(), and whether it was
           outer |-> 0,                         \* __oldscope__
           base |-> 0,                          \* history: the registers a jump to its end keeps
           head |-> [pos |-> -1, call |-> 0],   \* jmppos, jmptrg
           jump |-> -1, skip |-> -1,            \* jzpos, jnepos, trappos, ...; jmppos of else and catch
           step |-> FALSE,                      \* exp of ForStatement
           breaks |-> 0, continues |-> 0]       \* __nbreaks__, __ncontinues__

Top == Last(open)

PathOf(ms) == [i \in DOMAIN ms |-> <<ms[i].id, ms[i].part>>]
Path == PathOf(open)
In(part) == Append(PathOf(Front(open)), <<Top.id, part>>)        \* in the innermost statement
InNew(part) == Append(Path, <<left["total"], part>>)                  \* in the one that begins

Compiling == vm.mode = "compile"

\* The innermost method calls Statement.
CanBegin ==
    /\ Compiling
    /\ Top.many \/ ~ Top.done

Take(sort) ==
    /\ left[sort] > 0 /\ left["total"] > 0
    /\ left' = [left EXCEPT ![sort] = @ - 1, !["total"] = @ - 1]

Told(ms) == [ms EXCEPT ![Len(ms)].done = TRUE]

\* A statement without statements inside.
Simple(sort, f) ==
    /\ CanBegin
    /\ Take(sort)
    /\ fs' = SnoozeOpt(f)
    /\ open' = Told(open)
    /\ UNCHANGED <<scope, vm>>

\* A statement begins; the block in it starts at n.
Enter(sort, f, m, n) ==
    /\ CanBegin
    /\ Take(sort)
    /\ fs' = f
    /\ open' = Append(open, [m EXCEPT !.id = left["total"], !.outer = scope])
    /\ scope' = n
    /\ UNCHANGED vm

\* The innermost statement goes on with its next part.
Proceed(f, m, n) ==
    /\ fs' = f
    /\ open' = [open EXCEPT ![Len(open)] = m]
    /\ scope' = n
    /\ UNCHANGED vm

At(kind, parts) ==
    /\ Compiling
    /\ Top.kind = kind /\ Top.part \in parts
    /\ Top.many \/ Top.done

\* The innermost statement ends.
Leave(f) ==
    /\ fs' = SnoozeOpt(f)
    /\ open' = Told(Front(open))
    /\ scope' = Top.outer
    /\ UNCHANGED <<left, vm>>

Expr == Simple("plain", AddInstruction(fs, "EXPR", 0, Path))

\* LocalDeclStatement
Declare ==
    /\ BareVars \/ Top.kind # "if" \/ Top.many
    /\ Simple("var", PushLocal(AddInstruction(fs, "LOADNULLS", Size(fs) + 1, Path), "var"))

\* An expression with a function in it that uses the variable in register r:
\* GetOuterVariable marks it.
Capture(r) ==
    /\ fs.locals[r] \in {"var", "outer"}
    /\ Simple("capture", AddInstruction([fs EXCEPT !.locals[r] = "outer"], "CLOSURE", r, Path))

\* The traps of the try blocks that a jump or a return leaves.
PopTraps(f, n) == IF n > 0 THEN AddInstruction(f, "POPTRAP", n, Path) ELSE f

\* return and yield.  What is returned: nothing, a local variable, or the
\* result of a call.
Return(op, e) ==
    LET value == IF e # "call" THEN fs
                 ELSE AddInstruction(AddInstruction(fs, "EXPR", 0, Path), "CALL", 0, Path)
        popped == IF op = "RETURN" THEN PopTraps(value, fs.traps) ELSE value
        start == IF e = "none" THEN -1 ELSE Pos(fs) + 1
        f == AddInstruction([popped EXCEPT !.returnexp = start], op,
                            IF e = "none" THEN 255 ELSE 1, Path)
    IN  /\ CanBegin
        /\ DefaultReturns \/ Len(f.code) > Len(fs.code)
        /\ Simple("return", f)

Loops == {"while", "do", "for", "foreach"}

\* The statement that a break or a continue leaves or goes on with.
Innermost(kinds) == Max({i \in DOMAIN open : open[i].kind \in kinds})

\* break and continue: the jump is patched when the statement ends.
Jump(targets, kinds, list) ==
    LET n == Innermost(kinds)
        f == AddInstruction(ResolveOuters(PopTraps(fs, Last(targets)), Path), "JMP", 0, Path)
        p == Pos(f)
    IN  /\ targets # <<>>
        /\ JumpCaptured \/ ~ \E r \in open[n].base + 1 .. scope : fs.locals[r] = "outer"
        /\ Simple("jump", [f EXCEPT !.code[p + 1].leaves = <<list, open[n].id>>,
                            !.breaks = IF list = "breaks" THEN Append(@, p) ELSE @,
                            !.continues = IF list = "continues" THEN Append(@, p) ELSE @])

Break == Jump(fs.breaktargets, Loops \cup {"switch"}, "breaks")
Continue == Jump(fs.continuetargets, Loops, "continues")

Block == Enter("block", fs, [Method EXCEPT !.kind = "block"], Size(fs))

EndBlock ==
    /\ At("block", {"body"})
    /\ Leave(EndScope(fs, scope, Path))

\* IfStatement.  IfBlock opens a scope for { } only.
If(c, braces) ==
    LET f == Condition(fs, c, InNew("head"))
    IN  Enter("if", f, [Method EXCEPT !.kind = "if", !.part = "then", !.many = braces, !.jump = Pos(f)],
              IF braces THEN Size(fs) ELSE scope)

EndIfBlock == IF Top.many THEN EndScope(fs, scope, Path) ELSE fs

Else(braces) ==
    LET f == EndIfBlock
        end == Label(f)
        g == AddInstruction(f, "JMP", 0, Path)
    IN  /\ At("if", {"then"})
        /\ Proceed(g, [Top EXCEPT !.part = "else", !.many = braces, !.done = FALSE,
                                  !.head = After(end), !.skip = Pos(g)],
                   IF braces THEN Size(g) ELSE Top.outer)
        /\ UNCHANGED left

EndIf ==
    LET f == EndIfBlock
    IN  \/ /\ At("if", {"then"})
           /\ Leave(Patch(f, Top.jump, Label(f)))
        \/ /\ At("if", {"else"})
           /\ Leave(Patch(Patch(f, Top.skip, Label(f)), Top.jump, Top.head))

\* A loop begins: f has its head, and its body starts in register n.
Loop(kind, f, m, n) ==
    Enter("loop", BeginBreakable(f),
          [m EXCEPT !.kind = kind, !.many = FALSE, !.base = Size(f),
                    !.breaks = Len(f.breaks), !.continues = Len(f.continues)], n)

While(c) ==
    LET f == Condition(fs, c, InNew("again"))
    IN  Loop("while", f, [Method EXCEPT !.head = Label(fs), !.jump = Pos(f)], Size(f))

EndWhile ==
    LET f == AddJump(EndScope(fs, scope, Path), Top.head, Path)
    IN  /\ At("while", {"body"})
        /\ Leave(EndBreakable(Patch(f, Top.jump, Label(f)), Top, Top.head))

Do == Loop("do", fs, [Method EXCEPT !.head = Label(fs)], Size(fs))

\* The JZ skips the jump back, whatever the jump's address.
EndDo(c) ==
    LET body == EndScope(fs, scope, Path)
        f == Condition(body, c, In("again"))
        g == Patch(f, Pos(f), After(Label(f)))
    IN  /\ At("do", {"body"})
        /\ Leave(EndBreakable(AddJump(g, Top.head, Path), Top, Label(body)))

\* ForStatement, with or without a variable, a condition and a step.  The
\* code of the step is added again at the end of the body.
For(init, c, step) ==
    LET f == SnoozeOpt(IF init THEN PushLocal(AddInstruction(fs, "LOADNULLS", Size(fs) + 1,
                                                             InNew("head")), "var")
                               ELSE fs)
        g == SnoozeOpt(IF c = "none" THEN f ELSE Condition(f, c, InNew("head")))
    IN  /\ ForAtStart \/ fs.code # <<>>
        /\ Loop("for", g, [Method EXCEPT !.head = Label(f), !.step = step,
                                         !.jump = IF c = "none" THEN -1 ELSE Pos(g)], Size(fs))

EndFor ==
    LET again == Label(fs)
        f == AddJump(IF Top.step THEN AddInstruction(fs, "EXPR", 0, In("again")) ELSE fs,
                     Top.head, In("again"))
        g == IF Top.jump > 0 THEN Patch(f, Top.jump, Label(f)) ELSE f
    IN  /\ At("for", {"body"})
        /\ JumpCaptured \/ ~ Captured(fs, scope) \/ Len(fs.breaks) = Top.breaks
        /\ Leave(EndBreakable(EndScope(g, scope, Path), Top, again))

\* ForEachStatement: the container, the index, the value and the iterator.
\* POSTFOREACH counts its jump from the instruction before it, in the
\* compiler (foreachpos) and in Execute (sarg1 - 1).
ForEach ==
    LET container == PushLocal(AddInstruction(fs, "EXPR", 0, InNew("head")), "temporary")
        index == PushLocal(AddInstruction(container, "LOADNULLS", Size(container) + 1,
                                          InNew("head")), "var")
        f == PushLocal(PushLocal(index, "var"), "temporary")
        g == AddInstruction(AddInstruction(f, "FOREACH", 0, InNew("again")),
                            "POSTFOREACH", 0, InNew("again"))
    IN  Loop("foreach", g, [Method EXCEPT !.head = Label(f), !.jump = Pos(g) - 1], Size(fs))

EndForEach ==
    LET f == AddJump(fs, Top.head, Path)
        g == Patch(Patch(f, Top.jump, Label(f)), Top.jump + 1, Label(f))
        h == EndBreakable(g, Top, Top.head)
    IN  /\ At("foreach", {"body"})
        /\ Leave(EndScope([h EXCEPT !.locals = Front(@)], scope, Path))

\* SwitchStatement: jump is tonextcondjmp, skip is skipcondjmp.
Switch ==
    LET f == PushLocal(AddInstruction(fs, "EXPR", 0, InNew("head")), "temporary")
    IN  Enter("switch", [f EXCEPT !.breaktargets = Append(@, 0)],
              [Method EXCEPT !.kind = "switch", !.part = "cases", !.many = FALSE, !.done = TRUE,
                             !.base = Size(f), !.breaks = Len(f.breaks)], scope)

EndCase == IF Top.many THEN EndScope(fs, scope, Path) ELSE fs

PatchNext(f) == IF Top.jump # -1 THEN Patch(f, Top.jump, Label(f)) ELSE f

Case ==
    LET f == EndCase
        first == Top.jump = -1
        fallthrough == AddInstruction(f, "JMP", 0, Path)
        g == Condition(IF first THEN f ELSE PatchNext(fallthrough), "value", In("head"))
        skip == IF first THEN -1 ELSE Pos(fallthrough)
        h == IF skip # -1 THEN Patch(g, skip, Label(g)) ELSE g
    IN  /\ At("switch", {"cases", "case"})
        /\ Take("case")
        /\ Proceed(h, [Top EXCEPT !.part = "case", !.many = TRUE, !.jump = Pos(h), !.skip = skip],
                   Size(h))

Default ==
    LET f == PatchNext(EndCase)
    IN  /\ At("switch", {"cases", "case"})
        /\ Take("case")
        /\ Proceed(f, [Top EXCEPT !.part = "default", !.many = TRUE], Size(f))

EndSwitch ==
    LET f == IF Top.part = "default" THEN EndCase ELSE PatchNext(EndCase)
        g == [f EXCEPT !.locals = Front(@)]
    IN  /\ At("switch", {"cases", "case", "default"})
        /\ Leave([ResolveBreaks(g, Top.breaks) EXCEPT !.breaktargets = Front(@)])

\* TryCatchStatement: jump is trappos, skip is jmppos.
Try ==
    LET f == AddInstruction(fs, "PUSHTRAP", 0, InNew("head"))
    IN  Enter("try", [f EXCEPT !.traps = @ + 1,
                               !.breaktargets = Counted(@, 1),
                               !.continuetargets = Counted(@, 1)],
              [Method EXCEPT !.kind = "try", !.part = "try", !.many = FALSE, !.jump = Pos(f)], Size(f))

Catch ==
    LET f == AddInstruction([EndScope(fs, scope, Path) EXCEPT !.traps = @ - 1],
                            "POPTRAP", 1, Path)
        g == AddInstruction([f EXCEPT !.breaktargets = Counted(@, -1),
                                      !.continuetargets = Counted(@, -1)],
                            "JMP", 0, Path)
    IN  /\ At("try", {"try"})
        /\ Proceed(PushLocal(Patch(g, Top.jump, Label(g)), "var"),
                   [Top EXCEPT !.part = "catch", !.done = FALSE, !.skip = Pos(g)], Size(g))
        /\ UNCHANGED left

EndTry ==
    /\ At("try", {"catch"})
    /\ Leave(EndScope(Patch(fs, Top.skip, Label(fs)), scope, Path))

\* CreateFunction after the body: no block is closed, LeaveFrame does that.
EndFunction ==
    /\ At("function", {"body"})
    /\ fs' = AddInstruction([SnoozeOpt(fs) EXCEPT !.locals = <<>>], "RETURN", 255, Path)
    /\ vm' = [vm EXCEPT !.mode = "run"]
    /\ UNCHANGED <<scope, open, left>>

----------------------------------------------------------------------------
(* Execute, as far as control goes.  Registers are numbered from 1 and     *)
(* outers are the registers that an open outer points to.                  *)

Now == Instr(fs, vm.pc)
Running == vm.mode = "run"

\* The instruction is done and the next one is at pc.
Goto(pc) == vm' = [vm EXCEPT !.pc = pc]

RunExpr ==
    /\ Now.op \in {"EXPR", "CALL", "LOADNULLS", "YIELD"}
    /\ vm' = [vm EXCEPT !.pc = @ + 1,
                        !.outers = IF Now.op = "YIELD" THEN {} ELSE @]

RunClosure ==
    /\ Now.op = "CLOSURE"
    /\ vm' = [vm EXCEPT !.pc = @ + 1, !.outers = @ \cup {Now.a}]

RunClose ==
    /\ Now.op = "CLOSE"
    /\ vm' = [vm EXCEPT !.pc = @ + 1, !.outers = {r \in @ : r <= Now.a}]

RunCondition ==
    /\ Now.op \in {"JZ", "JCMP"}
    /\ Goto(vm.pc + 1) \/ Goto(vm.pc + 1 + Now.to)

RunJump ==
    /\ Now.op = "JMP"
    /\ Goto(vm.pc + 1 + Now.to)

\* Over a table the body follows POSTFOREACH, over a generator it does not.
RunForEach ==
    \/ /\ Now.op = "FOREACH"
       /\ Goto(vm.pc + 1) \/ Goto(vm.pc + 2) \/ Goto(vm.pc + 1 + Now.to)
    \/ /\ Now.op = "POSTFOREACH"
       /\ Goto(vm.pc + 1) \/ Goto(vm.pc + 1 + Now.to)

RunPushTrap ==
    /\ Now.op = "PUSHTRAP"
    /\ vm' = [vm EXCEPT !.pc = @ + 1,
                        !.traps = Append(@, [id |-> Last(Now.in)[1], base |-> Now.size,
                                             pc |-> vm.pc + 1 + Now.to])]

RunPopTrap ==
    /\ Now.op = "POPTRAP"
    /\ vm' = [vm EXCEPT !.pc = @ + 1, !.traps = SubSeq(@, 1, Len(@) - Now.a)]

\* The function returns, LeaveFrame closes its outers.
RunReturn ==
    /\ Now.op \in {"RETURN", "TAILCALL"}
    /\ vm' = [vm EXCEPT !.mode = "left", !.outers = {}]

\* An error: exception_trap goes on at the innermost trap of the frame.
RunThrow ==
    /\ Now.op \in {"EXPR", "CALL", "JCMP", "FOREACH"}
    /\ \/ /\ vm.traps # <<>>
          /\ LET trap == Last(vm.traps)
             IN  /\ ThrowCaptured \/ \A r \in vm.outers : r <= trap.base
                 /\ vm' = [vm EXCEPT !.pc = trap.pc, !.traps = Front(@)]
       \/ /\ vm.traps = <<>>
          /\ vm' = [vm EXCEPT !.mode = "left", !.outers = {}]

Run ==
    /\ Running
    /\ \/ RunExpr \/ RunClosure \/ RunClose \/ RunCondition \/ RunJump \/ RunForEach
       \/ RunPushTrap \/ RunPopTrap \/ RunReturn \/ RunThrow
    /\ UNCHANGED <<fs, scope, open, left>>

----------------------------------------------------------------------------

Init ==
    /\ fs = [code |-> <<>>, calls |-> 0, opt |-> TRUE, locals |-> <<"var">>, returnexp |-> 0,
             traps |-> 0, breaktargets |-> <<>>, continuetargets |-> <<>>,
             breaks |-> <<>>, continues |-> <<>>]
    /\ scope = 1
    /\ open = <<Method>>
    /\ left \in Budgets
    /\ vm = [mode |-> "compile", pc |-> 0, traps |-> <<>>, outers |-> {}]

Statement ==
    \/ Expr \/ Declare \/ (\E r \in 1 .. Size(fs) : Capture(r))
    \/ \E e \in {"none", "local", "call"} : Return("RETURN", e)
    \/ Return("YIELD", "none")
    \/ Break \/ Continue
    \/ Block \/ Do \/ ForEach \/ Switch \/ Try
    \/ \E c \in Conds : While(c) \/ (\E braces \in BOOLEAN : If(c, braces))
    \/ \E c \in Conds \cup {"none"}, init, step \in BOOLEAN : For(init, c, step)

StatementGoesOn ==
    \/ EndBlock \/ EndIf \/ EndWhile \/ EndFor \/ EndForEach \/ EndSwitch \/ EndTry
    \/ (\E c \in Conds : EndDo(c))
    \/ (\E braces \in BOOLEAN : Else(braces))
    \/ Case \/ Default \/ Catch

Next == Statement \/ StatementGoesOn \/ EndFunction \/ Run

Spec == Init /\ [][Next]_vars

----------------------------------------------------------------------------
(* Properties.                                                             *)

\* While it compiles: the counters beside the recursion say how many try
\* blocks there are, in the function and since each loop or switch began
\* (compiler.cpp:1597-1611).
CountersCountTries ==
    LET Tries(i) == Cardinality({k \in i + 1 .. Len(open) : open[k].part = "try"})
        Within(kinds) == SelectSeq([i \in DOMAIN open |-> i],
                                   LAMBDA i : open[i].kind \in kinds)
        counts(is) == [j \in DOMAIN is |->
                          Tries(is[j]) - (IF j < Len(is) THEN Tries(is[j + 1]) ELSE 0)]
    IN  /\ fs.traps = Tries(0)
        /\ fs.breaktargets = counts(Within(Loops \cup {"switch"}))
        /\ fs.continuetargets = counts(Within(Loops))

\* An error is caught by the innermost try block around the expression: the
\* open traps are those of the try blocks around it, however they were
\* entered, left by break, continue and return, or left by an error.
TrapsAreLexical ==
    Running /\ Now.op \in {"EXPR", "CALL", "JCMP", "CLOSURE", "LOADNULLS", "FOREACH"}
        => [i \in DOMAIN vm.traps |-> vm.traps[i].id]
             = LET tries == SelectSeq(Now.in, LAMBDA s : s[2] = "try")
               IN  [i \in DOMAIN tries |-> tries[i][1]]

\* A frame is left by return or tail call with no trap of its own: the
\* assert(traps == 0) of LVVM::Execute and LeaveFrame rely on it.
LeavesWithoutTraps == Running /\ Now.op \in {"RETURN", "TAILCALL"} => vm.traps = <<>>

\* The traps of a program are those of its text (compiler.cpp:1383-1436).
TrapsFollowText == CountersCountTries /\ TrapsAreLexical /\ LeavesWithoutTraps

\* A finished function has every jump go to the instruction that it was
\* meant for, though the optimizer replaced instructions in between.
JumpsLand ==
    ~ Compiling =>
        \A i \in DOMAIN fs.code :
            fs.code[i].op \in {"JMP", "JZ", "JCMP", "PUSHTRAP", "FOREACH", "POSTFOREACH"} =>
                /\ i + 1 + fs.code[i].to \in DOMAIN fs.code
                /\ fs.code[i + 1 + fs.code[i].to].first = fs.code[i].want

\* break goes behind the loop or switch it is in, or to the code that closes
\* its variables; continue to the code that begins the next round.
LoopJumpsLand ==
    ~ Compiling =>
        \A i \in DOMAIN fs.code :
            LET jump == fs.code[i]
                lands == i + 1 + jump.to
                parts(k) == {fs.code[k].in[s] : s \in DOMAIN fs.code[k].in}
                inside == {k \in DOMAIN fs.code : \E p \in parts(k) : p[1] = jump.leaves[2]}
                again == {k \in DOMAIN fs.code : <<jump.leaves[2], "again">> \in parts(k)}
            IN  /\ jump.leaves[1] = "breaks" =>
                      /\ lands - 1 \in inside
                      /\ \A k \in inside : k >= lands => fs.code[k].op = "CLOSE"
                /\ jump.leaves[1] = "continues" => lands = Min(again)

\* Every jump of a finished function goes where the program says.
JumpsGoRight == JumpsLand /\ LoopJumpsLand

\* The open outers are those of variables that exist: no register is given
\* to another variable or a temporary while a closure shares it.
OutersInScope ==
    Running /\ Now.op \in {"EXPR", "LOADNULLS", "CLOSURE", "CALL"}
        => \A r \in vm.outers : r <= Now.size
=============================================================================
