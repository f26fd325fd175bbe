------------------------------ MODULE OuterCells ------------------------------
(***************************************************************************)
(* Variables shared between a function and its closures: LVOuter           *)
(* (closure.h), the list _openouters of a VM (FindOuter, CloseOuters and   *)
(* RelocateOuters in vm.cpp), and the places that keep it in step with the *)
(* stack - frames, blocks, jumps out of blocks, caught errors, generators, *)
(* the growth of the stack.                                                *)
(*                                                                         *)
(* While the frame of a captured variable is there, its outer points into  *)
(* the stack; it is closed, with a copy of the value, when the variable    *)
(* goes.  What values the variables hold does not matter here: the model   *)
(* keeps which variable each register holds, and asks whether an outer is  *)
(* still the variable it was made for.  A variable is one execution of its *)
(* declaration.  Registers are numbered from 1; those that hold no local   *)
(* variable are left out.                                                  *)
(***************************************************************************)
EXTENDS Integers, Sequences, FiniteSets

CONSTANTS
    Var,            \* variables
    NoVar,          \* no variable
    Outer,          \* outers
    MaxBlocks,      \* bound on the frames and blocks
    CatchCaptured,  \* TRUE: errors are caught outside blocks with captured variables
    JumpCaptured,   \* TRUE: break leaves several blocks with captured variables
    YieldCaptured,  \* TRUE: generators yield with captured variables
    ReserveCaptured \* TRUE: lv_reservestack is called with captured variables

ASSUME OuterCellsAssumption ==
    /\ NoVar \notin Var
    /\ MaxBlocks \in Nat
    /\ {CatchCaptured, JumpCaptured, YieldCaptured, ReserveCaptured} \subseteq BOOLEAN

VARIABLES
    locals,   \* the variable in each register, bottom of the stack first
    blocks,   \* frames, try and other blocks that are open, outermost first
    saved,    \* a generator: its state, and its frame while it is suspended
    outers,   \* the LVOuter objects
    open,     \* _openouters, as a sequence
    captured  \* history: the outer by which a closure knows a variable

vars == <<locals, blocks, saved, outers, open, captured>>

\* Where a frame or block starts: the registers below it.
Block == [kind : {"frame", "generator", "try", "block"}, start : Nat]

\* LVOuter: at says whether _valptr points to register idx of the stack, of
\* the memory the stack had before it grew, or to _value, which holds what
\* variable var held last.
LVOuter == [ at : {"none", "stack", "old stack", "value"},
             idx : Nat, var : Var \cup {NoVar} ]

NoOuter == [at |-> "none", idx |-> 0, var |-> NoVar]

Saved == [ state : {"none", "suspended", "running"}, vars : Seq(Var), blocks : Seq(Block) ]

NoGen == [state |-> "none", vars |-> <<>>, blocks |-> <<>>]
Running == [NoGen EXCEPT !.state = "running"]

Elements(s) == {s[i] : i \in 1 .. Len(s)}

Alive == Elements(locals) \cup Elements(saved.vars)

\* Variables that are declared next: not in use, and known to no closure.
Fresh == Var \ (Alive \cup {c[1] : c \in captured})

Frames == {b \in 1 .. Len(blocks) : blocks[b].kind \in {"frame", "generator"}}
LastFrame == CHOOSE b \in Frames : \A f \in Frames : f <= b
stackbase == blocks[LastFrame].start

HeldIn(c, o) == \E p \in c : p[2] = o

\* Outers nobody refers to any more are freed.
Collected(os, list, c) ==
    [o \in Outer |-> IF o \in Elements(list) \/ HeldIn(c, o) THEN os[o] ELSE NoOuter]

----------------------------------------------------------------------------
(* The list of open outers.                                                *)

\* Outers at or above register n, which are at the front of the list.
Above(n) == Cardinality({i \in 1 .. Len(open) : \A j \in 1 .. i : outers[open[j]].idx >= n})

\* CloseOuters from register n, with reg what is in the registers: each outer
\* takes over the value its register holds.
CloseOuters(n, reg) ==
    LET rest == SubSeq(open, Above(n) + 1, Len(open))
        closed == [o \in Outer |->
                     IF o \in Elements(SubSeq(open, 1, Above(n)))
                       THEN [at |-> "value", idx |-> outers[o].idx,
                             var |-> IF outers[o].idx \in DOMAIN reg
                                       THEN reg[outers[o].idx] ELSE NoVar]
                       ELSE outers[o]]
    IN  /\ open' = rest
        /\ outers' = Collected(closed, rest, captured)
        /\ UNCHANGED captured

\* Seeded bug: the list is not searched for the register's outer.
FindOuter_New(v, n) ==
    \E o \in Outer :
        /\ outers[o] = NoOuter
        /\ outers' = [outers EXCEPT ![o] = [NoOuter EXCEPT !.at = "stack", !.idx = n]]
        /\ open' = SubSeq(open, 1, Above(n)) \o <<o>> \o SubSeq(open, Above(n) + 1, Len(open))
        /\ captured' = captured \cup {<<v, o>>}

\* FindOuter for register n: its open outer if there is one, else a new one
\* that is linked in at its place.
FindOuter(v, n) ==
    LET a == Above(n)
        found == a > 0 /\ outers[open[a]].idx = n
    IN  \/ /\ found
           /\ captured' = captured \cup {<<v, open[a]>>}
           /\ UNCHANGED <<open, outers>>
        \/ /\ ~ found
           /\ \E o \in Outer :
                 /\ outers[o] = NoOuter
                 /\ outers' = [outers EXCEPT ![o] = [NoOuter EXCEPT !.at = "stack", !.idx = n]]
                 /\ open' = SubSeq(open, 1, a) \o <<o>> \o SubSeq(open, a + 1, Len(open))
                 /\ captured' = captured \cup {<<v, o>>}

\* The stack gets new memory.
Moved(os) == [o \in Outer |-> IF os[o].at = "stack" THEN [os[o] EXCEPT !.at = "old stack"]
                                                    ELSE os[o]]

\* Seeded bug: RelocateOuters stops after the first outer.
Relocated_First(os) ==
    [o \in Outer |-> IF open # <<>> /\ o = open[1] THEN [os[o] EXCEPT !.at = "stack"] ELSE os[o]]

\* RelocateOuters, by the register number each open outer keeps.
Relocated(os) ==
    [o \in Outer |-> IF o \in Elements(open) THEN [os[o] EXCEPT !.at = "stack"] ELSE os[o]]

\* EnterFrame grows the stack when it has to.
Grow == \/ UNCHANGED outers
        \/ outers' = Relocated(Moved(outers))

----------------------------------------------------------------------------
(* Functions and blocks.                                                   *)

Init ==
    /\ locals = <<>>
    /\ blocks = <<[kind |-> "frame", start |-> 0]>>
    /\ saved = NoGen
    /\ outers = [o \in Outer |-> NoOuter]
    /\ open = <<>>
    /\ captured = {}

Open(kind) ==
    /\ Len(blocks) < MaxBlocks
    /\ blocks' = Append(blocks, [kind |-> kind, start |-> Len(locals)])

\* StartCall: the parameters are the first variables of the frame.
Call ==
    /\ Open("frame")
    /\ \/ UNCHANGED locals
       \/ \E v \in Fresh : locals' = Append(locals, v)
    /\ Grow
    /\ UNCHANGED <<saved, open, captured>>

\* LeaveFrame, for _OP_RETURN.
Return ==
    /\ Cardinality(Frames) > 1
    /\ CloseOuters(stackbase + 1, locals)
    /\ locals' = SubSeq(locals, 1, stackbase)
    /\ blocks' = SubSeq(blocks, 1, LastFrame - 1)
    /\ saved' = IF blocks[LastFrame].kind = "generator" THEN NoGen ELSE saved

\* Seeded bug: the outers of the frame stay open.
TailCall_Open ==
    /\ Cardinality(Frames) > 1
    /\ blocks[LastFrame].kind = "frame"
    /\ \A b \in LastFrame + 1 .. Len(blocks) : blocks[b].kind # "try"
    /\ locals' = SubSeq(locals, 1, stackbase)
    /\ blocks' = SubSeq(blocks, 1, LastFrame)
    /\ UNCHANGED <<saved, outers, open, captured>>

\* _OP_TAILCALL closes the outers of the frame before it takes it again.
\* The call is the last thing its function does, in whatever block.  Tail
\* calls of a generator's function are left out.
TailCall ==
    /\ Cardinality(Frames) > 1
    /\ blocks[LastFrame].kind = "frame"
    /\ \A b \in LastFrame + 1 .. Len(blocks) : blocks[b].kind # "try"
    /\ CloseOuters(stackbase + 1, locals)
    /\ locals' = SubSeq(locals, 1, stackbase)
    /\ blocks' = SubSeq(blocks, 1, LastFrame)
    /\ UNCHANGED saved

\* LocalDeclStatement, or the variable of a catch, for or foreach.
Declare(v) ==
    /\ v \in Fresh
    /\ locals' = Append(locals, v)
    /\ UNCHANGED <<blocks, saved, outers, open, captured>>

\* CLOSURE_OP captures a variable of the function that runs.
Capture(n) ==
    /\ n \in stackbase + 1 .. Len(locals)
    /\ FindOuter(locals[n], n)
    /\ UNCHANGED <<locals, blocks, saved>>

\* A closure that knows v goes.
DropClosure(v, o) ==
    /\ <<v, o>> \in captured
    /\ captured' = captured \ {<<v, o>>}
    /\ outers' = Collected(outers, open, captured')
    /\ UNCHANGED <<locals, blocks, saved, open>>

BeginScope(kind) ==
    /\ Open(kind)
    /\ UNCHANGED <<locals, saved, outers, open, captured>>

InBlock == Len(blocks) > LastFrame

\* END_SCOPE emits _OP_CLOSE for the block's variables that were captured.
EndScope ==
    /\ InBlock
    /\ LET start == blocks[Len(blocks)].start
       IN  /\ CloseOuters(start + 1, locals)
           /\ locals' = SubSeq(locals, 1, start)
    /\ blocks' = SubSeq(blocks, 1, Len(blocks) - 1)
    /\ UNCHANGED saved

\* Nothing is captured in the registers above n.
NoneCaptured(n) == \A i \in 1 .. Len(open) : outers[open[i]].idx <= n

\* break and continue: RESOLVE_OUTERS emits _OP_CLOSE for the innermost block
\* only.  They leave it and those between it and the loop; for a break out
\* of a for statement, the block of its variables is one of them.
Jump(b) ==
    /\ b \in LastFrame + 1 .. Len(blocks)
    /\ CloseOuters(blocks[Len(blocks)].start + 1, locals)
    /\ locals' = SubSeq(locals, 1, blocks[b].start)
    /\ blocks' = SubSeq(blocks, 1, b - 1)
    /\ UNCHANGED saved
    /\ JumpCaptured \/ \A i \in 1 .. Len(open') : outers'[open'[i]].idx <= blocks[b].start

\* An error that try block b catches: the frames above are left, which
\* closes their outers; the stack is cut back to the block.
CatchError(b) ==
    /\ b \in 1 .. Len(blocks) /\ blocks[b].kind = "try"
    /\ \A c \in b + 1 .. Len(blocks) : blocks[c].kind # "try"
    /\ LET left == {f \in Frames : f > b}
       IN  \/ /\ left = {}
              /\ CatchCaptured \/ NoneCaptured(blocks[b].start)
              /\ UNCHANGED <<outers, open, captured, saved>>
           \/ \E f \in left :
                 /\ \A g \in left : f <= g
                 /\ CatchCaptured \/ \A i \in 1 .. Len(open) :
                       outers[open[i]].idx \notin blocks[b].start + 1 .. blocks[f].start
                 /\ CloseOuters(blocks[f].start + 1, locals)
                 /\ saved' = IF \E g \in left : blocks[g].kind = "generator"
                               THEN NoGen ELSE saved
    /\ locals' = SubSeq(locals, 1, blocks[b].start)
    /\ blocks' = SubSeq(blocks, 1, b - 1)

\* An error nobody catches leaves all frames; the host calls a script again.
UncaughtError ==
    /\ \A b \in 1 .. Len(blocks) : blocks[b].kind # "try"
    /\ CloseOuters(1, locals)
    /\ locals' = <<>>
    /\ blocks' = SubSeq(blocks, 1, 1)
    /\ saved' = IF saved.state = "running" THEN NoGen ELSE saved

----------------------------------------------------------------------------
(* Generators and native functions.                                        *)

\* StartCall of a generator function: its parameters are saved at once.
CreateGenerator ==
    /\ saved = NoGen
    /\ \E v \in Fresh : saved' = [state |-> "suspended", vars |-> <<v>>, blocks |-> <<>>]
    /\ UNCHANGED <<locals, blocks, outers, open, captured>>

\* The blocks bs with d added to where they start.
Shift(bs, d) == [b \in DOMAIN bs |-> [bs[b] EXCEPT !.start = @ + d]]

\* LVGenerator::Resume copies the saved values to the top of the stack.
Resume ==
    /\ saved.state = "suspended"
    /\ Len(blocks) + Len(saved.blocks) < MaxBlocks
    /\ blocks' = blocks \o <<[kind |-> "generator", start |-> Len(locals)]>>
                        \o Shift(saved.blocks, Len(locals))
    /\ locals' = locals \o saved.vars
    /\ saved' = Running
    /\ Grow
    /\ UNCHANGED <<open, captured>>

\* LVGenerator::Yield saves the values and clears the registers; LeaveFrame
\* then closes the frame's outers.
Yield ==
    /\ blocks[LastFrame].kind = "generator"
    /\ YieldCaptured \/ NoneCaptured(stackbase)
    /\ saved' = [ state |-> "suspended",
                  vars |-> SubSeq(locals, stackbase + 1, Len(locals)),
                  blocks |-> Shift(SubSeq(blocks, LastFrame + 1, Len(blocks)), - stackbase) ]
    /\ locals' = SubSeq(locals, 1, stackbase)
    /\ blocks' = SubSeq(blocks, 1, LastFrame - 1)
    /\ CloseOuters(stackbase + 1, locals')

\* lv_reservestack by a native function: the stack gets new memory.
ReserveStack ==
    /\ ReserveCaptured \/ open = <<>>
    /\ outers' = Moved(outers)
    /\ UNCHANGED <<locals, blocks, saved, open, captured>>

Next ==
    \/ Call \/ Return \/ TailCall
    \/ \E v \in Var : Declare(v) \/ \E o \in Outer : DropClosure(v, o)
    \/ \E n \in 1 .. Len(locals) : Capture(n)
    \/ \E kind \in {"try", "block"} : BeginScope(kind)
    \/ EndScope
    \/ \E b \in 1 .. Len(blocks) : Jump(b) \/ CatchError(b)
    \/ UncaughtError
    \/ CreateGenerator \/ Resume \/ Yield \/ ReserveStack

Spec == Init /\ [][Next]_vars

----------------------------------------------------------------------------
(* Properties.                                                             *)

TypeOK ==
    /\ locals \in Seq(Var)
    /\ blocks \in Seq(Block)
    /\ saved \in Saved
    /\ outers \in [Outer -> LVOuter]
    /\ open \in Seq(Outer)
    /\ captured \subseteq Var \X Outer

\* The list of open outers goes down the stack, one outer to a register:
\* FindOuter and CloseOuters stop at the first that is below (vm.cpp:1893,
\* 1966).
OpenOutersDescend ==
    \A i, j \in 1 .. Len(open) : i < j => outers[open[i]].idx > outers[open[j]].idx

\* A closure and the function it was made in share the variable: the outer
\* is the register that holds the variable, and its own value only once the
\* variable is gone ("value of outer after stack frame is closed",
\* closure.h:126).
CapturesShareVariable ==
    \A c \in captured :
        LET outer == outers[c[2]]
        IN  \/ /\ outer.at # "value"
               /\ outer.idx \in 1 .. Len(locals)
               /\ locals[outer.idx] = c[1]
            \/ /\ outer.at = "value"
               /\ outer.var = c[1]
               /\ c[1] \notin Alive

\* All closures that know a variable know it by the same outer, which
\* FindOuter finds in its place of the list.
OneOuterPerVariable ==
    /\ OpenOutersDescend
    /\ \A c, d \in captured : (c[1] = d[1]) = (c[2] = d[2])

\* An open outer points into the stack there is, not into memory the stack
\* had before ("idx in stack array, for relocation", closure.h:125).
NoStalePointer == \A i \in 1 .. Len(open) : outers[open[i]].at = "stack"
=============================================================================
