---------------------------- MODULE Expressions ----------------------------
(***************************************************************************)
(* The compilation of an expression (compiler.cpp), with the registers     *)
(* FunctionState hands out and the instructions AddInstruction fuses       *)
(* (funcstate.cpp), and the execution of the result by LVVM::Execute       *)
(* (vm.cpp), against the meaning of the expression.                        *)
(*                                                                         *)
(* An expression is a node with a kind, a number (of a literal, a local    *)
(* variable or a slot) and parts.  What objects and functions do is left   *)
(* open: every get, set and call is written to a log, whose order is the   *)
(* order of evaluation.                                                    *)
(***************************************************************************)
EXTENDS Integers, Sequences, SequencesExt, FiniteSetsExt

LOCAL Node(kind, n, parts) == [kind |-> kind, n |-> n, parts |-> parts]
Literal(kind, n) == Node(kind, n, <<>>)     \* int, bool, null, string
Local(p) == Node("local", p, <<>>)
OuterVar == Node("outer", 0, <<>>)
Field(k) == Node("field", k, <<>>)          \* a name that is no variable: this.k
Dot(e, k) == Node("get", k, <<e>>)
Binary(kind, l, r) == Node(kind, 0, <<l, r>>)
Unary(kind, e) == Node(kind, 0, <<e>>)
Many(kind, es) == Node(kind, 0, es)

This == 0
Locals == {0, 1, 2}       \* this and two variables, the first of _vlocals
Trash == 255              \* 0xFF as a target
IsLocal(r) == r \in Locals

BinOps == {"ADD", "EQ", "NE", "CMP"}
IsSlot(e) == e.kind \in {"field", "get", "index"}

-----------------------------------------------------------------------------
(* FunctionState *)

NewState == [code |-> <<>>,        \* _instructions
             targets |-> <<>>,     \* _targetstack
             size |-> 3,           \* of _vlocals
             max |-> 3,            \* _stacksize
             opt |-> TRUE,         \* _optimization
             asserted |-> TRUE,    \* the assertion of PopTarget held
             misjudged |-> FALSE]  \* a JZ was fused with a comparison it does not test

Instr(op, a0, a1, a2, a3) == [op |-> op, a0 |-> a0, a1 |-> a1, a2 |-> a2, a3 |-> a3]

Top(fs) == Last(fs.targets)
UpTarget(fs, n) == fs.targets[Len(fs.targets) - n]
Here(fs) == Len(fs.code)                          \* GetCurrentPos
SnoozeOpt(fs) == [fs EXCEPT !.opt = FALSE]
PushAt(fs, r) == [fs EXCEPT !.targets = Append(@, r)]

Push(fs) == [fs EXCEPT !.targets = Append(@, fs.size), !.size = @ + 1,
                       !.max = IF @ > fs.size THEN @ ELSE fs.size + 1]

Pop(fs) == [fs EXCEPT !.targets = Front(@),
                      !.size = IF IsLocal(Top(fs)) THEN @ ELSE @ - 1,
                      !.asserted = @ /\ Top(fs) < fs.size]

Pop2(fs) == Pop(Pop(fs))

\* The instruction that replaces the last one and the new one, if the
\* optimizer fuses the two.
Fused(pi, i) ==
    LET temp(r) == pi.op = "LOAD" /\ pi.a0 = r /\ ~IsLocal(r)
    IN CASE i.op = "JZ" /\ pi.op = "CMP" -> <<Instr("JCMP", pi.a1, i.a1, pi.a2, pi.a3)>>
         [] i.op = "GET" /\ temp(i.a2) -> <<Instr("GETK", i.a0, pi.a1, i.a1, 0)>>
         [] i.op = "PREPCALL" /\ temp(i.a1) -> <<Instr("PREPCALLK", i.a0, pi.a1, i.a2, i.a3)>>
         [] i.op = "APPENDARRAY" /\ pi.op \in {"LOAD", "LOADINT", "LOADBOOL"} /\ pi.a0 = i.a1
              /\ ~IsLocal(pi.a0) -> <<Instr("APPENDARRAY", i.a0, pi.a1, pi.op, Trash)>>
         [] i.op = "MOVE" /\ pi.op \in {"GET", "ADD", "LOADINT", "LOADBOOL", "LOAD"}
              /\ pi.a0 = i.a1 -> <<[pi EXCEPT !.a0 = i.a0]>>
         [] i.op = "MOVE" /\ pi.op = "MOVE" -> <<Instr("DMOVE", pi.a0, pi.a1, i.a0, i.a1)>>
         [] i.op = "LOAD" /\ pi.op = "LOAD" -> <<Instr("DLOAD", pi.a0, pi.a1, i.a0, i.a1)>>
         [] i.op \in {"EQ", "NE"} /\ temp(i.a1) -> <<Instr(i.op, i.a0, pi.a1, i.a2, Trash)>>
         [] i.op = "LOADNULLS" /\ pi.op = "LOADNULLS" /\ pi.a0 + pi.a1 = i.a0 ->
              <<[pi EXCEPT !.a1 = @ + 1]>>
         [] OTHER -> <<>>

\* A set whose result is already where it belongs stores none.
Trimmed(i) ==
    IF \/ i.op \in {"SET", "NEWSLOT"} /\ i.a0 = i.a3
       \/ i.op = "SETOUTER" /\ i.a0 = i.a2
    THEN [i EXCEPT !.a0 = Trash] ELSE i

\* Seeded bug: the optimizer stays on after a moved target, so that a = b = 1
\* moves the target twice.
AddInstruction_StillOn(fs, op, a0, a1, a2, a3) ==
    LET i == Instr(op, a0, a1, a2, a3)
        n == Here(fs)
        f == IF n > 0 /\ fs.opt THEN Fused(fs.code[n], i) ELSE <<>>
    IN IF f # <<>>
       THEN [fs EXCEPT !.code = Front(@) \o f, !.misjudged = @ \/ (op = "JZ" /\ fs.code[n].a0 # a0)]
       ELSE [fs EXCEPT !.code = Append(@, IF n > 0 /\ fs.opt THEN Trimmed(i) ELSE i),
                       !.opt = TRUE]

\* Only moving the target of the previous instruction switches the optimizer
\* off for the next one.
AddInstruction(fs, op, a0, a1, a2, a3) ==
    LET i == Instr(op, a0, a1, a2, a3)
        n == Here(fs)
        f == IF n > 0 /\ fs.opt THEN Fused(fs.code[n], i) ELSE <<>>
    IN IF f # <<>>
       THEN [fs EXCEPT !.code = Front(@) \o f,
                       !.opt = op # "MOVE" \/ f[1].op = "DMOVE",
                       !.misjudged = @ \/ (op = "JZ" /\ fs.code[n].a0 # a0)]
       ELSE [fs EXCEPT !.code = Append(@, IF n > 0 /\ fs.opt THEN Trimmed(i) ELSE i),
                       !.opt = TRUE]

\* The pending target of an expression that is a statement.
DiscardTarget(fs) ==
    LET n == Here(fs)
    IN IF /\ n > 0 /\ fs.opt
          /\ fs.code[n].op \in {"SET", "NEWSLOT", "SETOUTER", "CALL"}
          /\ fs.code[n].a0 = Top(fs)
       THEN [Pop(fs) EXCEPT !.code[n].a0 = Trash] ELSE Pop(fs)

\* SetIntructionParam of a jump: to what follows instruction n.
Patch(fs, at, n) == [fs EXCEPT !.code[at].a1 = n - at]

-----------------------------------------------------------------------------
(* The compiler.  Each takes the state before and gives the state after,    *)
(* with the target of the expression on top of the stack of targets.        *)

\* An instruction whose operands are the last targets, which it replaces.
Emit2ArgsOP(fs, op, p3) ==
    LET q == Push(Pop2(fs)) IN AddInstruction(q, op, Top(q), UpTarget(fs, 1), Top(fs), p3)

EmitDerefOp(fs, op) ==
    LET q == Push(Pop(Pop2(fs)))
    IN AddInstruction(q, op, Top(q), UpTarget(fs, 2), UpTarget(fs, 1), Top(fs))

Load(fs, op, n) == LET q == Push(fs) IN AddInstruction(q, op, Top(q), n, 0, 0)

MoveIfCurrentTargetIsLocal(fs) ==
    IF IsLocal(Top(fs)) THEN Load(Pop(fs), "MOVE", Top(fs)) ELSE fs

Move(fs, r, src) == IF src = r THEN fs ELSE AddInstruction(fs, "MOVE", r, src, 0, 0)

\* Brings the pending target to register r.
MoveTo(fs, r) == Move(Pop(fs), r, Top(fs))

EmitCompoundArith(fs, place) ==
    CASE place.kind = "local" ->
            LET q == PushAt(Pop2(fs), UpTarget(fs, 1))
            IN SnoozeOpt(AddInstruction(q, "ADD", Top(q), Top(fs), Top(q), 0))
      [] place.kind = "outer" ->
            LET q == Load(fs, "GETOUTER", 0)
                tmp == Top(q)
                s == Push(Pop2(AddInstruction(q, "ADD", tmp, Top(fs), tmp, 0)))
            IN AddInstruction(s, "SETOUTER", Top(s), 0, tmp, 0)
      [] OTHER ->
            LET q == Push(Pop(Pop2(fs)))
            IN AddInstruction(q, "COMPARITH", Top(q), UpTarget(fs, 2) * 65536 + Top(fs),
                              UpTarget(fs, 1), 0)

PrefixIncDec(fs, place) ==
    CASE place.kind = "local" -> AddInstruction(fs, "INCL", Top(fs), Top(fs), 0, 1)
      [] place.kind = "outer" ->
            LET q == Load(fs, "GETOUTER", 0)
            IN AddInstruction(AddInstruction(q, "INCL", Top(q), Top(q), 0, 1),
                              "SETOUTER", Top(q), 0, Top(q), 0)
      [] OTHER -> Emit2ArgsOP(fs, "INC", 1)

PostfixIncDec(fs, place) ==
    CASE place.kind = "local" ->
            LET q == Push(Pop(fs)) IN AddInstruction(q, "PINCL", Top(q), Top(fs), 0, 1)
      [] place.kind = "outer" ->
            LET q == Load(Push(fs), "GETOUTER", 0)
            IN Pop(AddInstruction(AddInstruction(q, "PINCL", UpTarget(q, 1), Top(q), 0, 1),
                                  "SETOUTER", Top(q), 0, Top(q), 0))
      [] OTHER -> Emit2ArgsOP(fs, "PINC", 1)

Assign(fs, op, place) ==
    CASE op = "newslot" -> EmitDerefOp(fs, "NEWSLOT")
      [] op = "compound" -> EmitCompoundArith(fs, place)
      [] place.kind = "local" ->
            AddInstruction(Pop(fs), "MOVE", UpTarget(fs, 1), Top(fs), 0, 0)
      [] place.kind = "outer" ->
            LET q == Push(Pop(fs)) IN AddInstruction(q, "SETOUTER", Top(q), 0, Top(fs), 0)
      [] OTHER -> EmitDerefOp(fs, "SET")

\* The function to call and its this, on the last two targets.
Callee(fs, f) ==
    CASE IsSlot(f) ->
            LET q == Push(Push(Pop2(fs)))
            IN AddInstruction(q, "PREPCALL", UpTarget(q, 1), Top(fs), UpTarget(fs, 1), Top(q))
      [] f.kind = "outer" -> Load(Load(fs, "GETOUTER", 0), "MOVE", This)
      [] OTHER -> Load(fs, "MOVE", This)

Called(fs, nargs) ==
    LET pops[i \in 0 .. nargs + 1] == IF i = 0 THEN fs ELSE Pop(pops[i - 1])
        s == Push(pops[nargs + 1])
    IN AddInstruction(s, "CALL", Top(s), UpTarget(fs, nargs), UpTarget(fs, nargs - 1), nargs)

Appended(fs) ==
    AddInstruction(Pop(fs), "APPENDARRAY", UpTarget(fs, 1), Top(fs), "STACK", 0)

RECURSIVE Compile(_, _)

\* An expression that is assigned, called or incremented: a slot leaves object
\* and key on the targets (NeedGet is false), an outer nothing.
Place(fs, e) ==
    CASE e.kind = "outer" -> fs
      [] e.kind = "field" -> Load(PushAt(fs, This), "LOAD", e.n)
      [] e.kind = "get" -> Load(Compile(fs, e.parts[1]), "LOAD", e.n)
      [] e.kind = "index" -> Compile(Compile(fs, e.parts[1]), e.parts[2])
      [] OTHER -> Compile(fs, e)

BIN_EXP(fs, op, l, r) ==
    LET q == Compile(Compile(fs, l), r)
        s == Push(Pop2(q))
    IN AddInstruction(s, op, Top(s), Top(q), UpTarget(q, 1), 0)

\* && and ||: the target is set, and the rest skipped, when the left decides.
Logical(fs, op, l, r) ==
    LET q == Compile(fs, l)
        s == Push(Pop(q))
        first == AddInstruction(s, op, Top(s), 0, Top(q), 0)
        second == SnoozeOpt(Compile(Move(first, Top(s), Top(q)), r))
        done == SnoozeOpt(MoveTo(second, Top(s)))
    IN Patch(done, Here(first), Here(done))

Conditional(fs, c, x, y) ==
    LET q == Compile(fs, c)
        jz == AddInstruction(Pop(q), "JZ", Top(q), 0, 0, 0)
        s == Push(jz)
        first == MoveTo(Compile(s, x), Top(s))
        jmp == AddInstruction(first, "JMP", 0, 0, 0, 0)
        second == MoveTo(Compile(jmp, y), Top(s))
    IN SnoozeOpt(Patch(Patch(second, Here(jmp), Here(second)), Here(jz), Here(first) + 1))

Compile(fs, e) ==
    LET p(i) == e.parts[i]
        n == Len(e.parts)
        args[i \in 1 .. n] == \* the function, then FunctionCallArgs
            IF i = 1 THEN Callee(Place(fs, p(1)), p(1))
            ELSE MoveIfCurrentTargetIsLocal(Compile(args[i - 1], p(i)))
        items[i \in 0 .. n] ==
            IF i = 0 THEN Load(fs, "NEWOBJ", n) ELSE Appended(Compile(items[i - 1], p(i)))
    IN CASE e.kind = "int" -> Load(fs, "LOADINT", e.n)
         [] e.kind = "bool" -> Load(fs, "LOADBOOL", e.n)
         [] e.kind = "string" -> Load(fs, "LOAD", e.n)
         [] e.kind = "null" -> Load(fs, "LOADNULLS", 1)
         [] e.kind = "local" -> PushAt(fs, e.n)
         [] e.kind = "outer" -> Load(fs, "GETOUTER", 0)
         [] IsSlot(e) -> Emit2ArgsOP(Place(fs, e), "GET", 0)
         [] e.kind \in BinOps -> BIN_EXP(fs, e.kind, p(1), p(2))
         [] e.kind = "NEG" /\ p(1).kind = "int" -> Load(fs, "LOADINT", -p(1).n)
         [] e.kind \in {"NOT", "NEG"} -> LET q == Compile(fs, p(1)) IN Load(Pop(q), e.kind, Top(q))
         [] e.kind \in {"AND", "OR"} -> Logical(fs, e.kind, p(1), p(2))
         [] e.kind = "cond" -> Conditional(fs, p(1), p(2), p(3))
         [] e.kind = "comma" -> Compile(Pop(Compile(fs, p(1))), p(2))
         [] e.kind \in {"assign", "newslot", "compound"} ->
               Assign(Compile(Place(fs, p(1)), p(2)), e.kind, p(1))
         [] e.kind = "pre" -> PrefixIncDec(Place(fs, p(1)), p(1))
         [] e.kind = "post" -> PostfixIncDec(Place(fs, p(1)), p(1))
         [] e.kind = "call" -> Called(args[n], n)
         [] e.kind = "array" -> items[n]

-----------------------------------------------------------------------------
(* Values and the world they act on.  A value is a type, a number and        *)
(* parts; what a get, an operation on objects or a call yields is named by   *)
(* its operands.                                                             *)

Val(t, n, parts) == [t |-> t, n |-> n, parts |-> parts]
Number(n) == Val("int", n, <<>>)
Key(k) == Val("string", k, <<>>)
Truth(b) == Val("bool", IF b THEN 1 ELSE 0, <<>>)
Undefined == Val("undefined", 0, <<>>)

IsFalse(v) == v.t = "null" \/ (v.t \in {"int", "bool"} /\ v.n = 0)

Plus(x, y) == IF x.t = "int" /\ y.t = "int" THEN Number(x.n + y.n) ELSE Val("sum", 0, <<x, y>>)
Apply(op, x, y) == CASE op = "ADD" -> Plus(x, y)
                     [] op = "EQ" -> Truth(x = y)
                     [] op = "NE" -> Truth(x # y)
                     [] op = "CMP" -> Truth(x.n < y.n)
Apply1(op, x) == CASE op = "NOT" -> Truth(IsFalse(x))
                   [] x.t = "int" -> Number(-x.n)
                   [] OTHER -> Val("neg", 0, <<x>>)

\* The world: the free variable and the log of what was done to objects.
Event(w, what, parts) == [w EXCEPT !.log = Append(@, Val(what, 0, parts))]

\* A slot has what was last set there.
Slot(w, o, k) ==
    LET sets == {i \in 1 .. Len(w.log) : /\ w.log[i].t = "set"
                                         /\ SubSeq(w.log[i].parts, 1, 2) = <<o, k>>}
    IN IF sets = {} THEN Val("slot", 0, <<o, k>>) ELSE w.log[Max(sets)].parts[3]

GetSlot(w, o, k) == Event(w, "get", <<o, k>>)
SetSlot(w, o, k, v) == Event(w, "set", <<o, k, v>>)
CallOf(f, args) == Val("call", 0, <<f>> \o args)

-----------------------------------------------------------------------------
(* LVVM::Execute.  A machine has the registers of a frame, the world and the *)
(* place of the next instruction.                                           *)

Step(m) == [m EXCEPT !.ip = @ + 1]
Put(m, r, v) == IF r = Trash THEN m ELSE [m EXCEPT !.reg[r] = v]
Jump(m, b, n) == IF b THEN [m EXCEPT !.ip = @ + n] ELSE m

\* Get into a register, DerefInc, and a function called with the registers
\* from base on, which its frame overwrites.
GetInto(m, r, o, k) == [Put(m, r, Slot(m.w, o, k)) EXCEPT !.w = GetSlot(@, o, k)]

DerefInc(m, r, o, k, by, postfix) ==
    LET old == Slot(m.w, o, k)
        new == Plus(old, by)
    IN [Put(m, r, IF postfix THEN old ELSE new) EXCEPT !.w = SetSlot(GetSlot(@, o, k), o, k, new)]

CallFrom(m, r, f, base, nargs) ==
    LET args == [i \in 1 .. nargs |-> m.reg[base + i - 1]]
        over == [x \in DOMAIN m.reg |-> IF x >= base THEN Undefined ELSE m.reg[x]]
    IN [Put([m EXCEPT !.reg = over], r, CallOf(f, args)) EXCEPT
          !.w = Event(@, "call", <<f>> \o args)]

Elements(op, x, m) == CASE op = "STACK" -> m.reg[x]
                        [] op = "LOAD" -> Key(x)
                        [] op = "LOADINT" -> Number(x)
                        [] op = "LOADBOOL" -> Truth(x = 1)

Execute(mach, i) ==
    LET m == Step(mach)
        r(n) == m.reg[n]
        lit(n) == IF i.a3 = Trash THEN Key(n) ELSE m.reg[n]    \* COND_LITERAL
    IN CASE i.op = "LOAD" -> Put(m, i.a0, Key(i.a1))
         [] i.op = "DLOAD" -> Put(Put(m, i.a0, Key(i.a1)), i.a2, Key(i.a3))
         [] i.op = "LOADINT" -> Put(m, i.a0, Number(i.a1))
         [] i.op = "LOADBOOL" -> Put(m, i.a0, Truth(i.a1 = 1))
         [] i.op = "LOADNULLS" ->
               [m EXCEPT !.reg = [x \in DOMAIN @ |->
                   IF x \in i.a0 .. i.a0 + i.a1 - 1 THEN Val("null", 0, <<>>) ELSE @[x]]]
         [] i.op = "MOVE" -> Put(m, i.a0, r(i.a1))
         [] i.op = "DMOVE" -> LET q == Put(m, i.a0, r(i.a1)) IN Put(q, i.a2, q.reg[i.a3])
         [] i.op = "GET" -> GetInto(m, i.a0, r(i.a1), r(i.a2))
         [] i.op = "GETK" -> GetInto(m, i.a0, r(i.a2), Key(i.a1))
         [] i.op \in {"PREPCALL", "PREPCALLK"} ->
               LET k == IF i.op = "PREPCALLK" THEN Key(i.a1) ELSE r(i.a1)
               IN GetInto(Put(m, i.a3, r(i.a2)), i.a0, r(i.a2), k)
         [] i.op = "CALL" -> CallFrom(m, i.a0, r(i.a1), i.a2, i.a3)
         [] i.op \in {"SET", "NEWSLOT"} ->
               [Put(m, i.a0, r(i.a3)) EXCEPT !.w = SetSlot(@, r(i.a1), r(i.a2), r(i.a3))]
         [] i.op = "GETOUTER" -> Put(m, i.a0, m.w.outer)
         [] i.op = "SETOUTER" -> [Put(m, i.a0, r(i.a2)) EXCEPT !.w.outer = r(i.a2)]
         [] i.op \in {"EQ", "NE"} -> Put(m, i.a0, Apply(i.op, r(i.a2), lit(i.a1)))
         [] i.op \in {"ADD", "CMP"} -> Put(m, i.a0, Apply(i.op, r(i.a2), r(i.a1)))
         [] i.op \in {"NOT", "NEG"} -> Put(m, i.a0, Apply1(i.op, r(i.a1)))
         [] i.op = "JCMP" -> Jump(m, IsFalse(Apply("CMP", r(i.a2), r(i.a0))), i.a1)
         [] i.op = "JZ" -> Jump(m, IsFalse(r(i.a0)), i.a1)
         [] i.op = "JMP" -> Jump(m, TRUE, i.a1)
         [] i.op \in {"AND", "OR"} ->
               IF IsFalse(r(i.a2)) <=> i.op = "AND"
               THEN Jump(Put(m, i.a0, r(i.a2)), TRUE, i.a1) ELSE m
         [] i.op = "NEWOBJ" -> Put(m, i.a0, Val("array", 0, <<>>))
         [] i.op = "APPENDARRAY" ->
               [m EXCEPT !.reg[i.a0].parts = Append(@, Elements(i.a2, i.a1, m))]
         [] i.op = "COMPARITH" ->
               DerefInc(m, i.a0, r(i.a1 \div 65536), r(i.a2), r(i.a1 % 65536), FALSE)
         [] i.op \in {"INC", "PINC"} ->
               DerefInc(m, i.a0, r(i.a1), r(i.a2), Number(i.a3), i.op = "PINC")
         [] i.op = "INCL" -> Put(m, i.a1, Plus(r(i.a1), Number(i.a3)))
         [] i.op = "PINCL" -> Put(Put(m, i.a0, r(i.a1)), i.a1, Plus(r(i.a1), Number(i.a3)))

RECURSIVE Run(_, _)
Run(m, code) == IF m.ip > Len(code) THEN m ELSE Run(Execute(m, code[m.ip]), code)

-----------------------------------------------------------------------------
(* What an expression means: its parts are evaluated from left to right.     *)
(* An outcome is the value, the local variables and the world.               *)

Outcome(v, env) == [v |-> v, env |-> env]

RECURSIVE Eval(_, _), EvalAll(_, _), Object(_, _)

\* The values of some expressions, one after the other.
EvalAll(es, env) ==
    IF es = <<>> THEN Outcome(<<>>, env)
    ELSE LET first == Eval(Head(es), env)
             rest == EvalAll(Tail(es), first.env)
         IN Outcome(<<first.v>> \o rest.v, rest.env)

\* The object and the key of a slot; of a variable, nothing.
Object(e, env) ==
    CASE e.kind = "field" -> Outcome(<<env.local[This], Key(e.n)>>, env)
      [] e.kind = "get" -> LET o == Eval(e.parts[1], env) IN Outcome(<<o.v, Key(e.n)>>, o.env)
      [] e.kind = "index" -> EvalAll(e.parts, env)
      [] OTHER -> Outcome(<<>>, env)

Read(e, at) ==
    CASE e.kind = "local" -> Outcome(at.env.local[e.n], at.env)
      [] e.kind = "outer" -> Outcome(at.env.w.outer, at.env)
      [] OTHER -> Outcome(Slot(at.env.w, at.v[1], at.v[2]),
                          [at.env EXCEPT !.w = GetSlot(@, at.v[1], at.v[2])])

Write(e, at, env, v) ==
    CASE e.kind = "local" -> [env EXCEPT !.local[e.n] = v]
      [] e.kind = "outer" -> [env EXCEPT !.w.outer = v]
      [] OTHER -> [env EXCEPT !.w = SetSlot(@, at.v[1], at.v[2], v)]

\* The place is worked out, then the new value, then the old one is read.
Updated(e, op, x, by, env) ==
    LET at == Object(x, env)
        rhs == IF op = "step" THEN Outcome(Number(1), at.env) ELSE Eval(by, at.env)
        old == Read(x, [at EXCEPT !.env = rhs.env])
        v == IF op = "set" THEN rhs.v ELSE Plus(old.v, rhs.v)
    IN Outcome(IF e.kind = "post" THEN old.v ELSE v,
               Write(x, at, IF op = "set" THEN rhs.env ELSE old.env, v))

Eval(e, env) ==
    LET p(i) == e.parts[i]
        first == Eval(p(1), env)
    IN CASE e.kind \in {"int", "bool", "string", "null"} -> Outcome(Val(e.kind, e.n, <<>>), env)
         [] e.kind \in {"local", "outer"} \/ IsSlot(e) -> Read(e, Object(e, env))
         [] e.kind \in BinOps ->
               LET vs == EvalAll(e.parts, env) IN Outcome(Apply(e.kind, vs.v[1], vs.v[2]), vs.env)
         [] e.kind \in {"NOT", "NEG"} -> Outcome(Apply1(e.kind, first.v), first.env)
         [] e.kind \in {"AND", "OR"} ->
               IF IsFalse(first.v) <=> e.kind = "AND" THEN first ELSE Eval(p(2), first.env)
         [] e.kind = "cond" -> Eval(IF IsFalse(first.v) THEN p(3) ELSE p(2), first.env)
         [] e.kind = "comma" -> Eval(p(2), first.env)
         [] e.kind \in {"assign", "newslot"} -> Updated(e, "set", p(1), p(2), env)
         [] e.kind = "compound" -> Updated(e, "add", p(1), p(2), env)
         [] e.kind \in {"pre", "post"} -> Updated(e, "step", p(1), p(1), env)
         [] e.kind = "array" ->
               LET vs == EvalAll(e.parts, env) IN Outcome(Val("array", 0, vs.v), vs.env)
         [] e.kind = "call" ->
               LET at == Object(p(1), env)
                   f == Read(p(1), at)
                   self == IF IsSlot(p(1)) THEN at.v[1] ELSE env.local[This]
                   args == EvalAll(Tail(e.parts), f.env)
               IN Outcome(CallOf(f.v, <<self>> \o args.v),
                          [args.env EXCEPT !.w = Event(@, "call", <<f.v, self>> \o args.v)])

-----------------------------------------------------------------------------
(* Of a local variable that is an operand no copy is made: it is read when    *)
(* the operator runs.  An expression is settled when no operand to the right  *)
(* assigns the variable meanwhile.                                            *)

Updates == {"assign", "compound", "pre", "post"}

RECURSIVE Assigned(_), Bare(_), Settled(_)
Assigned(e) ==    \* the local variables an expression assigns
    UNION {Assigned(e.parts[i]) : i \in DOMAIN e.parts} \cup
    (IF e.kind \in Updates /\ e.parts[1].kind = "local" THEN {e.parts[1].n} ELSE {})

Bare(e) ==        \* the variable whose register is the target of an expression
    CASE e.kind = "local" -> {e.n}
      [] e.kind = "comma" -> Bare(e.parts[2])
      [] e.kind \in Updates \ {"post"} /\ e.parts[1].kind = "local" -> {e.parts[1].n}
      [] OTHER -> {}

Pending(e) ==     \* the variables that wait on the targets for the next operand
    IF IsSlot(e) THEN UNION {Bare(e.parts[i]) : i \in DOMAIN e.parts} ELSE Bare(e)

Waits(e) ==       \* what waits while a later part is evaluated
    CASE e.kind \in BinOps \cup {"index"} -> Bare(e.parts[1])
      [] e.kind \in {"assign", "newslot", "compound"} /\ IsSlot(e.parts[1]) -> Pending(e.parts[1])
      [] e.kind = "call" /\ ~IsSlot(e.parts[1]) -> Pending(e.parts[1])
      [] OTHER -> {}

Settled(e) ==
    /\ \A i \in DOMAIN e.parts : Settled(e.parts[i])
    /\ \A i \in DOMAIN e.parts \ {1} : Waits(e) \cap Assigned(e.parts[i]) = {}

-----------------------------------------------------------------------------
World(o) == [outer |-> o, log |-> <<>>]

\* The frame of a function with the expression as its body, run from given
\* local variables, against the meaning.  A value that is not used is a
\* statement.
Kept(fs, used) == IF used THEN fs ELSE DiscardTarget(fs)
Compiled(e, used) == Kept(Compile(NewState, e), used)

Registers(fs, local) ==
    [r \in 0 .. fs.max - 1 |-> IF r \in Locals THEN local[r] ELSE Undefined]

Agree(fs, m, meant, used) ==
    /\ used => m.reg[Top(fs)] = meant.v
    /\ \A r \in Locals : m.reg[r] = meant.env.local[r]
    /\ m.w = meant.env.w

Does(fs, e, used, local, o) ==
    Agree(fs, Run([ip |-> 1, reg |-> Registers(fs, local), w |-> World(o)], fs.code),
          Eval(e, [local |-> local, w |-> World(o)]), used)

Means(e, used, local, o) == Does(Compiled(e, used), e, used, local, o)

TargetsAreRight(fs, used) ==
    /\ fs.asserted
    /\ Len(fs.targets) = IF used THEN 1 ELSE 0
    /\ used => fs.size = IF IsLocal(Top(fs)) THEN 3 ELSE 4
    /\ ~used => fs.size = 3

Right(fs, e, used, local, o) ==
    TargetsAreRight(fs, used) /\ (~fs.misjudged => Does(fs, e, used, local, o))

\* Expressions compile to code that does what they mean, leave one target (or
\* none) and no temporary, and stay within the registers of the frame.
CompilesRight(e, used, local, o) == Right(Compiled(e, used), e, used, local, o)
=============================================================================
