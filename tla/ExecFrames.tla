----------------------------- MODULE ExecFrames -----------------------------
(***************************************************************************)
(* Frames, exception traps, native calls, generators and suspension of one *)
(* LVVM (vm.cpp, the generator of object.cpp, the calls of api.cpp).       *)
(*                                                                         *)
(* The interpreter keeps its control state in two places.  The VM object   *)
(* holds _callsstack (here calls), _etraps, _stackbase and _top.  The C++  *)
(* stack holds what each activation of LVVM::Execute and of a native       *)
(* function has in local variables: here cstk, one record per activation,  *)
(* innermost last.  A script call pushes a frame and stays in the same     *)
(* activation; a native, a metamethod or an error handler is an activation *)
(* of its own.  An error unwinds frames of the innermost activation only.  *)
(*                                                                         *)
(* Register contents, instruction pointers and the debug hook are left     *)
(* out.  Whether EnterFrame finds the stack too small is a free choice     *)
(* while a metamethod runs, which is the only time it cannot grow it.      *)
(***************************************************************************)
EXTENDS Integers, Sequences

CONSTANTS
    Gen,             \* the generators that can be created
    NoGen,           \* no generator (CallInfo::_generator == NULL)
    HostGen,         \* generators the host drives with lv_resume; scripts the others
    FrameSizes,      \* the _stacksize of the functions
    MaxNative,       \* MAX_NATIVE_CALLS, 100 in vm.h
    MaxDepth,        \* bound on the frames
    MaxTraps,        \* bound on the open traps
    MaxLeft,         \* bound on what a native or the host leaves on its stack
    NotifyAll,       \* lv_notifyallexceptions
    TryInForeach,    \* TRUE: foreach also runs generators that yield inside a try
    MixedResume,     \* TRUE: host and scripts resume the same generators
    OverflowInCall   \* TRUE: a call made by a native can hit the stack limit

ASSUME ExecFramesAssumption ==
    /\ NoGen \notin Gen
    /\ HostGen \subseteq Gen
    /\ FrameSizes \subseteq Nat
    /\ MaxNative \in Nat
    /\ MaxDepth \in Nat
    /\ MaxTraps \in Nat
    /\ MaxLeft \in Nat
    /\ NotifyAll \in BOOLEAN
    /\ TryInForeach \in BOOLEAN
    /\ MixedResume \in BOOLEAN
    /\ OverflowInCall \in BOOLEAN

VARIABLES
    calls,      \* _callsstack[0 .. _callsstacksize - 1]
    etraps,     \* _etraps
    stackbase,  \* _stackbase
    top,        \* _top
    cstk,       \* the activations on the C++ stack; its length is _nnativecalls
    mode,       \* what the innermost activation is doing
    gens,       \* the generators
    susp        \* _suspended, _suspended_traps, _suspended_root

stack == <<stackbase, top>>
vars == <<calls, etraps, stackbase, top, cstk, mode, gens, susp>>

----------------------------------------------------------------------------
(* States.                                                                 *)

\* LVVM::CallInfo.  base, top and tlow are history: the frame's own stack
\* base and top, and the number of traps that were open when it was entered.
Frame == [ pbase : Int, ptop : Int, etraps : Nat, gen : Gen \cup {NoGen},
           root : BOOLEAN, base : Int, top : Int, tlow : Nat ]

\* LVExceptionTrap: the stack to restore.
Trap == [base : Int, size : Int]

\* An activation of LVVM::Execute ("exec") or of a native function.  raise
\* and traps are its locals; via says who called it.  low, base and top are
\* history: the number of frames, _stackbase and _top of the caller.
Activation == [ kind : {"exec", "native"},
                via : {"api", "meta", "handler", "op", "resume", "wakeup"},
                raise : BOOLEAN, traps : Int, low : Nat, base : Int, top : Int ]

\* What the innermost activation does: run; stand at exception_trap before
\* the error handler; unwind; return SUSPEND_FLAG; return an error without
\* leaving its frame.
Mode == {"run", "raise", "unwind", "suspend", "abandon"}

\* LVGenerator: its saved _etraps (relative, innermost first), _ci._root and
\* stack size.  "none" is a generator not created yet.
Generator == [ state : {"none", "running", "suspended", "dead"},
               root : BOOLEAN, traps : Seq(Trap), size : Int ]

Suspension == [on : BOOLEAN, traps : Int, root : BOOLEAN]

ci == calls[Len(calls)]
act == cstk[Len(cstk)]

Pop(s) == SubSeq(s, 1, Len(s) - 1)
SetLast(s, e) == [s EXCEPT ![Len(s)] = e]

InHost == cstk = <<>>
InNative == cstk # <<>> /\ mode = "run" /\ act.kind = "native"
InExec == cstk # <<>> /\ mode = "run" /\ act.kind = "exec"

\* The host or a native may call the API: its part of the stack starts at
\* OwnTop.  What the host does to a suspended VM is to wake it up.
OwnTop == IF InHost THEN 0 ELSE ci.top
MayCallApi == (InHost /\ ~ susp.on) \/ InNative
MayPush == MayCallApi /\ top - OwnTop <= MaxLeft

\* _nmetamethodscall # 0
InMetaMethod == \E a \in 1 .. Len(cstk) : cstk[a].via = "meta"

\* Execute and CallNative: the native stack overflow test.
NativeRoom == Len(cstk) + 1 <= MaxNative

\* arg2 of _OP_CALL: the arguments sit one register into the frame.
ArgBase == 1

----------------------------------------------------------------------------
(* LVVM::EnterFrame and LVVM::LeaveFrame.                                  *)

NewFrame(curtop, newbase, newtop) ==
    [ pbase |-> newbase - stackbase, ptop |-> curtop - stackbase,
      etraps |-> 0, gen |-> NoGen, root |-> FALSE,
      base |-> newbase, top |-> newtop, tlow |-> Len(etraps) ]

EnterFrame(frame) ==
    /\ Len(calls) < MaxDepth
    /\ calls' = Append(calls, frame)
    /\ stackbase' = frame.base
    /\ top' = frame.top

LeftBase == stackbase - ci.pbase
LeftTop == LeftBase + ci.ptop

Activate(kind, via, raise, traps, low, curbase, curtop) ==
    cstk' = Append(cstk, [ kind |-> kind, via |-> via, raise |-> raise,
                           traps |-> traps, low |-> low,
                           base |-> curbase, top |-> curtop ])

\* Seeded bug: lv_call pops the closure too, as its comment says it does.
Popped_Closure(a, ok) ==
    CASE a.via \in {"api", "meta", "handler"} -> 2
      [] a.via = "resume" /\ ok              -> 1
      [] OTHER                               -> 0

\* What the caller of an activation pops off the stack when it returns:
\* lv_call its parameter, CallMetaMethod and CallErrorHandler two values,
\* lv_resume the result of a success.
Popped(a, ok) ==
    CASE a.via = "api"                  -> 1
      [] a.via \in {"meta", "handler"}  -> 2
      [] a.via = "resume" /\ ok         -> 1
      [] OTHER                          -> 0

\* What the caller does then: an instruction whose native or metamethod
\* failed throws, the error handler's caller unwinds, others go on.
Continues(a, ok) ==
    IF a.via = "handler" THEN "unwind"
    ELSE IF ~ ok /\ Len(cstk) > 1 /\ cstk[Len(cstk) - 1].kind = "exec"
      THEN "raise"
      ELSE "run"

\* The innermost activation returns with the VM's stack at newbase, newtop.
Finish(ok, newbase, newtop) ==
    /\ cstk' = Pop(cstk)
    /\ stackbase' = newbase
    /\ top' = newtop - Popped(act, ok)
    /\ mode' = Continues(act, ok)


----------------------------------------------------------------------------
(* Calls that open an activation: LVVM::Execute (ET_CALL) and CallNative.  *)

\* EnterFrame may fail in a metamethod, the one about to run included.
MayOverflow(via) ==
    /\ InMetaMethod \/ via = "meta"
    /\ OverflowInCall \/ (cstk # <<>> /\ act.kind = "exec")

\* The frame of a call on nparams of the values just pushed.
CallFrame(pushed, nparams, size) ==
    LET newbase == top + pushed - nparams
    IN  NewFrame(top + pushed, newbase, newbase + size)

\* Seeded bug: the frame of the call is not made a root.
ExecuteCall_NoRoot(via, pushed, nparams, raise) ==
    /\ NativeRoom
    /\ Activate("exec", via, raise, 0, Len(calls), stackbase, top)
    /\ \E size \in FrameSizes : EnterFrame(CallFrame(pushed, nparams, size))
    /\ mode' = "run"
    /\ UNCHANGED <<etraps, gens, susp>>

\* LVVM::Call of a script function.
\* The frame of a call that EnterFrame refuses is not left.
ExecuteCall(via, pushed, nparams, raise) ==
    /\ NativeRoom
    /\ Activate("exec", via, raise, 0, Len(calls), stackbase, top)
    /\ \/ /\ \E size \in FrameSizes :
                EnterFrame([CallFrame(pushed, nparams, size) EXCEPT !.root = TRUE])
          /\ mode' = "run"
       \/ /\ mode' = "raise"          \* StartCall: wrong number of parameters
          /\ top' = top + pushed
          /\ UNCHANGED <<calls, stackbase>>
       \/ /\ MayOverflow(via)
          /\ \E size \in FrameSizes : EnterFrame(CallFrame(pushed, nparams, size))
          /\ mode' = "abandon"
    /\ UNCHANGED <<etraps, gens, susp>>

\* LVVM::CallNative up to the call of the function itself.
CallNative(via, pushed, newbase, nparams) ==
    /\ NativeRoom
    /\ Activate("native", via, FALSE, 0, Len(calls), stackbase, top)
    /\ EnterFrame(NewFrame(top + pushed, newbase, newbase + nparams))
    /\ \/ mode' = "run"
       \/ MayOverflow(via) /\ mode' = "abandon"
    /\ UNCHANGED <<etraps, gens, susp>>

\* lv_call by the host or a native: a closure and one parameter are pushed.
LvCall ==
    /\ MayPush
    /\ \/ \E raise \in BOOLEAN : ExecuteCall("api", 2, 1, raise)
       \/ CallNative("api", 2, top + 1, 1)

\* lv_call that returns before it runs anything: no room on the native
\* stack, or a check of CallNative.
LvCallRefused ==
    /\ MayPush
    /\ top' = top + 1
    /\ UNCHANGED <<calls, etraps, stackbase, cstk, mode, gens, susp>>

\* lv_settop by the host or a native: back to its own part of the stack.
LvSetTop ==
    /\ MayCallApi
    /\ top' = OwnTop
    /\ UNCHANGED <<calls, etraps, stackbase, cstk, mode, gens, susp>>

\* CallMetaMethod, from an instruction or from an API call of a native.
CallMetaMethod ==
    /\ InExec \/ InNative
    /\ \/ ExecuteCall("meta", 2, 2, FALSE)
       \/ CallNative("meta", 2, top, 2)

\* Execute and CallNative return false to LVVM::Call, the frame still there.
AbandonCall ==
    /\ cstk # <<>> /\ mode = "abandon"
    /\ Finish(FALSE, stackbase, top)
    /\ UNCHANGED <<calls, etraps, gens, susp>>

----------------------------------------------------------------------------
(* Instructions of Execute.                                                *)

\* _OP_CALL of a script function: StartCall in the same activation.
OpCall ==
    /\ InExec
    /\ \E size \in FrameSizes :
          EnterFrame(NewFrame(top, stackbase + ArgBase, stackbase + ArgBase + size))
    /\ \/ mode' = "run"
       \/ InMetaMethod /\ mode' = "raise"
    /\ UNCHANGED <<etraps, cstk, gens, susp>>

\* _OP_CALL of a native function.
OpCallNative ==
    /\ InExec
    /\ CallNative("op", 0, stackbase + ArgBase, 1)

\* _OP_TAILCALL: the frame is used again.  The compiler emits _OP_POPTRAP
\* between a call in a try block and its return, which prevents it there.
OpTailCall ==
    /\ InExec
    /\ ci.etraps = 0
    /\ \E size \in FrameSizes :
          /\ top' = stackbase + size
          /\ calls' = SetLast(calls, [ci EXCEPT !.top = stackbase + size])
    /\ \/ mode' = "run"
       \/ InMetaMethod /\ mode' = "raise"
    /\ UNCHANGED <<etraps, stackbase, cstk, gens, susp>>

\* An instruction that fails or throws.
OpThrow ==
    /\ InExec
    /\ mode' = "raise"
    /\ UNCHANGED <<calls, etraps, stackbase, top, cstk, gens, susp>>

OpPushTrap ==
    /\ InExec
    /\ Len(etraps) < MaxTraps
    /\ etraps' = Append(etraps, [base |-> stackbase, size |-> top])
    /\ cstk' = SetLast(cstk, [act EXCEPT !.traps = @ + 1])
    /\ calls' = SetLast(calls, [ci EXCEPT !.etraps = @ + 1])
    /\ UNCHANGED <<stackbase, top, mode, gens, susp>>

\* The compiler emits one _OP_POPTRAP for each trap the code leaves.
OpPopTrap ==
    /\ InExec
    /\ ci.etraps > 0
    /\ etraps' = Pop(etraps)
    /\ cstk' = SetLast(cstk, [act EXCEPT !.traps = @ - 1])
    /\ calls' = SetLast(calls, [ci EXCEPT !.etraps = @ - 1])
    /\ UNCHANGED <<stackbase, top, mode, gens, susp>>

\* LVGenerator::Kill, when the frame is a generator's.
Kill(g) == IF g = NoGen THEN gens ELSE [gens EXCEPT ![g].state = "dead"]

\* LVVM::Return: the frame is left, and the activation when it is its root.
Return ==
    /\ calls' = Pop(calls)
    /\ IF ci.root
         THEN Finish(TRUE, LeftBase, LeftTop)
         ELSE /\ stackbase' = LeftBase
              /\ top' = LeftTop
              /\ UNCHANGED <<cstk, mode>>

OpReturn ==
    /\ InExec
    /\ ci.etraps = 0
    /\ gens' = Kill(ci.gen)
    /\ Return
    /\ UNCHANGED <<etraps, susp>>

----------------------------------------------------------------------------
(* Generators.                                                             *)

\* StartCall of a generator function: the frame it enters is saved at once.
CreateGenerator(g) ==
    /\ InExec
    /\ gens[g].state = "none"
    /\ \E size \in FrameSizes :
          gens' = [gens EXCEPT ![g] = [ state |-> "suspended", root |-> FALSE,
                                        traps |-> <<>>, size |-> size ]]
    /\ UNCHANGED <<calls, etraps, stackbase, top, cstk, mode, susp>>

\* LVGenerator::Yield moves the traps of the frame, innermost first, and
\* makes them relative to its base.
SavedTraps ==
    [i \in 1 .. ci.etraps |->
        LET et == etraps[Len(etraps) + 1 - i]
        IN  [base |-> et.base - stackbase, size |-> et.size - stackbase]]

\* Seeded bug: the local traps of Execute keep those of the generator.
OpYield_TrapsKept ==
    /\ InExec
    /\ ci.gen # NoGen
    /\ gens' = [gens EXCEPT ![ci.gen] =
                    [ state |-> "suspended", root |-> ci.root,
                      traps |-> SavedTraps, size |-> top - stackbase ]]
    /\ etraps' = SubSeq(etraps, 1, Len(etraps) - ci.etraps)
    /\ calls' = Pop(calls)
    /\ IF ci.root
         THEN Finish(TRUE, LeftBase, LeftTop)
         ELSE stackbase' = LeftBase /\ top' = LeftTop /\ UNCHANGED <<cstk, mode>>
    /\ UNCHANGED susp

\* _OP_YIELD
OpYield ==
    /\ InExec
    /\ ci.gen # NoGen
    /\ gens' = [gens EXCEPT ![ci.gen] =
                    [ state |-> "suspended", root |-> ci.root,
                      traps |-> SavedTraps, size |-> top - stackbase ]]
    /\ etraps' = SubSeq(etraps, 1, Len(etraps) - ci.etraps)
    /\ calls' = Pop(calls)
    /\ IF ci.root
         THEN Finish(TRUE, LeftBase, LeftTop)
         ELSE /\ stackbase' = LeftBase
              /\ top' = LeftTop
              /\ cstk' = SetLast(cstk, [act EXCEPT !.traps = @ - ci.etraps])
              /\ UNCHANGED mode
    /\ UNCHANGED susp

\* LVGenerator::Resume: a frame above everything, and the traps back on the
\* stack in their old order and absolute again.
ResumeFrame(g, curtop) ==
    [NewFrame(curtop, curtop, curtop + gens[g].size)
        EXCEPT !.gen = g, !.etraps = Len(gens[g].traps), !.root = gens[g].root]

RestoredTraps(g, newbase) ==
    LET saved == gens[g].traps
    IN  [i \in 1 .. Len(saved) |->
            LET et == saved[Len(saved) + 1 - i]
            IN  [base |-> et.base + newbase, size |-> et.size + newbase]]

Resume(g, curtop) ==
    /\ gens[g].state = "suspended"
    /\ Len(etraps) + Len(gens[g].traps) <= MaxTraps
    /\ etraps' = etraps \o RestoredTraps(g, curtop)
    /\ gens' = [gens EXCEPT ![g].state = "running", ![g].traps = <<>>]

ByScript(g) == g \notin HostGen \/ MixedResume

\* _OP_RESUME
OpResume(g) ==
    /\ InExec /\ ByScript(g)
    /\ Resume(g, top)
    /\ EnterFrame(ResumeFrame(g, top))
    /\ cstk' = SetLast(cstk, [act EXCEPT !.traps = @ + Len(gens[g].traps)])
    /\ UNCHANGED <<mode, susp>>

\* _OP_RESUME when EnterFrame fails.
OpResumeOverflow(g) ==
    /\ InExec /\ ByScript(g) /\ InMetaMethod
    /\ gens[g].state = "suspended"
    /\ EnterFrame(NewFrame(top, top, top + gens[g].size))
    /\ mode' = "raise"
    /\ UNCHANGED <<etraps, cstk, gens, susp>>

\* _OP_FOREACH over a generator: the local traps of Execute stay as they are.
OpForeach(g) ==
    /\ InExec /\ ByScript(g)
    /\ TryInForeach \/ gens[g].traps = <<>>
    /\ Resume(g, top)
    /\ EnterFrame(ResumeFrame(g, top))
    /\ UNCHANGED <<cstk, mode, susp>>

\* lv_resume by the host or a native: Execute with ET_RESUME_GENERATOR, a
\* null pushed for the result.
LvResume(g) ==
    /\ MayPush
    /\ g \in HostGen
    /\ NativeRoom
    /\ Resume(g, top + 1)
    /\ EnterFrame([ResumeFrame(g, top + 1) EXCEPT !.root = TRUE])
    /\ \E raise \in BOOLEAN :
          Activate("exec", "resume", raise, Len(gens[g].traps), Len(calls), stackbase, top)
    /\ UNCHANGED <<mode, susp>>

----------------------------------------------------------------------------
(* The return of a native, suspension and wakeup.                          *)

\* A native returns a result (ok) or LV_ERROR.
NativeReturn ==
    /\ InNative
    /\ calls' = Pop(calls)
    /\ \E ok \in BOOLEAN : Finish(ok, LeftBase, LeftTop)
    /\ UNCHANGED <<etraps, gens, susp>>

\* lv_suspendvm by a native: LVVM::Suspend accepts, and the native returns
\* the SUSPEND_FLAG it got.
LvSuspendVm ==
    /\ InNative
    /\ ~ susp.on
    /\ Len(cstk) = 2
    /\ mode' = "suspend"
    /\ UNCHANGED <<calls, etraps, stackbase, top, cstk, gens, susp>>

\* CallNative after SUSPEND_FLAG.  Only _OP_CALL looks at its suspend: then
\* Execute returns with its frames in place, and the host pops the result
\* that lv_call or lv_wakeupvm pushed.
Suspend ==
    /\ cstk # <<>> /\ mode = "suspend"
    /\ calls' = Pop(calls)
    /\ IF act.via = "op"
         THEN /\ susp' = [ on |-> TRUE, traps |-> cstk[1].traps,
                           root |-> calls[Len(calls) - 1].root ]
              /\ cstk' = <<>>
              /\ stackbase' = LeftBase
              /\ top' = LeftTop
              /\ mode' = "run"
         ELSE /\ Finish(TRUE, LeftBase, LeftTop)
              /\ UNCHANGED susp
    /\ UNCHANGED <<etraps, gens>>

\* lv_wakeupvm: Execute with ET_RESUME_VM or ET_RESUME_THROW_VM.
Wakeup ==
    /\ InHost /\ susp.on
    /\ NativeRoom
    /\ \E raise \in BOOLEAN : Activate("exec", "wakeup", raise, susp.traps, 0, 0, 0)
    /\ calls' = SetLast(calls, [ci EXCEPT !.root = susp.root])
    /\ susp' = [susp EXCEPT !.on = FALSE]
    /\ mode' \in {"run", "raise"}
    /\ UNCHANGED <<etraps, stackbase, top, gens>>

----------------------------------------------------------------------------
(* Errors: exception_trap in Execute.                                      *)

\* The error handler is called for an error that no trap of the activation
\* will catch, and for one that stops a call no frame is under.
Notifies ==
    IF Len(calls) = act.low
      THEN calls = <<>>
      ELSE NotifyAll \/ (act.traps = 0 /\ act.raise)

CallErrorHandler ==
    /\ cstk # <<>> /\ mode = "raise" /\ Notifies
    /\ \/ ExecuteCall("handler", 2, 2, FALSE)
       \/ CallNative("handler", 2, top, 2)

\* No handler is called: none is set, no room for it, or none is due.
SkipErrorHandler ==
    /\ cstk # <<>> /\ mode = "raise"
    /\ mode' = "unwind"
    /\ UNCHANGED <<calls, etraps, stackbase, top, cstk, gens, susp>>

Unwinding == cstk # <<>> /\ mode = "unwind" /\ Len(calls) > act.low

\* Seeded bug: the stack top of the try block is not restored.
CatchError_TopKept ==
    LET et == etraps[Len(etraps)]
    IN  /\ Unwinding
        /\ ci.etraps > 0
        /\ stackbase' = et.base
        /\ etraps' = Pop(etraps)
        /\ cstk' = SetLast(cstk, [act EXCEPT !.traps = @ - 1])
        /\ calls' = SetLast(calls, [ci EXCEPT !.etraps = @ - 1])
        /\ mode' = "run"
        /\ UNCHANGED <<top, gens, susp>>

\* The innermost frame has a trap: it catches, on the stack of its try.
CatchError ==
    LET et == etraps[Len(etraps)]
    IN  /\ Unwinding
        /\ ci.etraps > 0
        /\ top' = et.size
        /\ stackbase' = et.base
        /\ etraps' = Pop(etraps)
        /\ cstk' = SetLast(cstk, [act EXCEPT !.traps = @ - 1])
        /\ calls' = SetLast(calls, [ci EXCEPT !.etraps = @ - 1])
        /\ mode' = "run"
        /\ UNCHANGED <<gens, susp>>

\* Seeded bug: a frame that is not the root is not left.
UnwindFrame_Stays ==
    /\ Unwinding
    /\ ci.etraps = 0
    /\ IF ci.root \/ Len(calls) = 1
         THEN /\ calls' = Pop(calls)
              /\ gens' = Kill(ci.gen)
              /\ Finish(FALSE, LeftBase, LeftTop)
         ELSE UNCHANGED <<calls, gens, stackbase, top, cstk, mode>>
    /\ UNCHANGED <<etraps, susp>>

\* It has none: its generator dies and it is left, the root with Execute.
UnwindFrame ==
    /\ Unwinding
    /\ ci.etraps = 0
    /\ gens' = Kill(ci.gen)
    /\ calls' = Pop(calls)
    /\ IF ci.root \/ Len(calls) = 1
         THEN Finish(FALSE, LeftBase, LeftTop)
         ELSE /\ stackbase' = LeftBase
              /\ top' = LeftTop
              /\ UNCHANGED <<cstk, mode>>
    /\ UNCHANGED <<etraps, susp>>

\* StartCall had failed: there is nothing to unwind.
ReturnError ==
    /\ cstk # <<>> /\ mode = "unwind" /\ Len(calls) = act.low
    /\ Finish(FALSE, stackbase, top)
    /\ UNCHANGED <<calls, etraps, gens, susp>>

----------------------------------------------------------------------------

Init ==
    /\ calls = <<>>
    /\ etraps = <<>>
    /\ stackbase = 0
    /\ top = 0
    /\ cstk = <<>>
    /\ mode = "run"
    /\ gens = [g \in Gen |-> [state |-> "none", root |-> FALSE, traps |-> <<>>, size |-> 0]]
    /\ susp = [on |-> FALSE, traps |-> 0, root |-> FALSE]

Unwind == SkipErrorHandler \/ CatchError \/ UnwindFrame \/ ReturnError

Next ==
    \/ LvCall \/ LvCallRefused \/ LvSetTop \/ CallMetaMethod \/ AbandonCall
    \/ OpCall \/ OpCallNative \/ OpTailCall \/ OpThrow
    \/ OpPushTrap \/ OpPopTrap \/ OpReturn \/ OpYield
    \/ \E g \in Gen :
          \/ CreateGenerator(g) \/ OpResume(g) \/ OpResumeOverflow(g)
          \/ OpForeach(g) \/ LvResume(g)
    \/ NativeReturn \/ LvSuspendVm \/ Suspend \/ Wakeup
    \/ CallErrorHandler \/ Unwind

Spec == Init /\ [][Next]_vars

\* The while loop of exception_trap does not stop half way.
FairSpec == Spec /\ WF_vars(Unwind)

----------------------------------------------------------------------------
(* Properties.                                                             *)

\* The traps that were open below frame n + 1.
TrapsUpTo(n) == IF n = 0 THEN 0 ELSE calls[n].tlow + calls[n].etraps

\* The last frame of activation a.
High(a) == IF a = Len(cstk) THEN Len(calls) ELSE cstk[a + 1].low

TypeOK ==
    /\ calls \in Seq(Frame)
    /\ etraps \in Seq(Trap)
    /\ stackbase \in Int
    /\ top \in Int
    /\ cstk \in Seq(Activation)
    /\ mode \in Mode
    /\ gens \in [Gen -> Generator]
    /\ susp \in Suspension

\* _etraps is the traps of the frames, outermost frame first: each frame
\* counts its own and they hold the frame's own stack.  Generators carry
\* their traps away and bring them back somewhere else on the stack.
TrapsMatchFrames ==
    /\ Len(etraps) = TrapsUpTo(Len(calls))
    /\ \A i \in 1 .. Len(calls) :
          /\ calls[i].tlow = TrapsUpTo(i - 1)
          /\ \A k \in calls[i].tlow + 1 .. calls[i].tlow + calls[i].etraps :
                etraps[k] = [base |-> calls[i].base, size |-> calls[i].top]

\* The local traps of every Execute on the C++ stack is the number of traps
\* its frames have, and _suspended_traps is that of the suspended one: this
\* is what Execute decides by whether an error will be caught.
LocalTrapsAgree ==
    /\ \A a \in 1 .. Len(cstk) :
          cstk[a].kind = "exec" =>
            cstk[a].traps = TrapsUpTo(High(a)) - TrapsUpTo(cstk[a].low)
    /\ susp.on => susp.traps = TrapsUpTo(Len(calls))

\* Traps and their counts: an error finds its handler whatever generators and
\* callbacks did to the stacks (vm.cpp:1325-1350).
TrapsAgree == TrapsMatchFrames /\ LocalTrapsAgree

\* The root frames are the first frames of the activations of Execute: a
\* return and an error leave an activation with its last frame, never with
\* frames of its own left or with a frame of its caller.
RootsDelimitActivations ==
    \A a \in 1 .. Len(cstk) :
        \A i \in cstk[a].low + 1 .. High(a) :
            calls[i].root <=>
                /\ cstk[a].kind = "exec"
                /\ i = cstk[a].low + 1
                /\ ~ (a = Len(cstk) /\ mode = "abandon")

\* A generator is running when exactly one frame is its, and only then.
GeneratorsRunOnce ==
    \A g \in Gen :
        LET frames == {i \in 1 .. Len(calls) : calls[i].gen = g}
        IN  /\ gens[g].state = "running" <=> frames # {}
            /\ \A i, j \in frames : i = j

\* Code runs on the stack of its own frame, and the host on none: also
\* after an error, a generator or a callback has moved the stack.
RunsOnOwnStack ==
    /\ InExec => stackbase = ci.base /\ top = ci.top
    /\ InNative => Len(calls) = act.low + 1 /\ stackbase = ci.base
    /\ InHost /\ ~ susp.on => calls = <<>> /\ stackbase = 0

\* Frames are where their owners are: the running generators have one each, and
\* code runs on its own (object.cpp:140-220, vm.cpp:1845-1885).
FramesInPlace == GeneratorsRunOnce /\ RunsOnOwnStack

\* assert(traps == 0) at _OP_RETURN and _OP_YIELD (vm.cpp:1044, 1241).
NoTrapsAtReturn ==
    InExec /\ ci.root /\ ci.etraps = 0 => act.traps = 0

\* A caller that goes on after a callback finds the frames and the stack it
\* had (assert(_stackbase == prevstackbase), vm.cpp:1867), with the closure
\* that lv_call leaves or the result that a failed lv_resume leaves.
CallersResume ==
    [][ (Len(cstk') < Len(cstk) /\ mode' = "run" /\ ~ susp'.on /\ act.via # "wakeup") =>
          /\ stackbase' = act.base
          /\ Len(calls') = act.low
          /\ top' - act.top \in CASE act.via = "api" -> {1}
                                  [] act.via = "resume" -> {0, 1}
                                  [] OTHER -> {0} ]_vars

\* An error that is being unwound is caught or leaves its activation.
ErrorsSettle == mode = "unwind" ~> mode # "unwind"

----------------------------------------------------------------------------
(* The inductive invariant of ExecFrames_proofs.  It holds when scripts and *)
(* the host keep apart what the code cannot survive: see Disciplined.       *)

Disciplined == ~ TryInForeach /\ ~ MixedResume /\ ~ OverflowInCall

BaseAt(n) == IF n = 0 THEN 0 ELSE calls[n].base

\* _stackbase is that of the innermost frame, and a frame's _prevstkbase
\* leads to the frame below: leaving frames never loses the way.
BasesChain ==
    /\ stackbase = BaseAt(Len(calls))
    /\ \A i \in 1 .. Len(calls) : calls[i].pbase = calls[i].base - BaseAt(i - 1)

\* Activations lie over each other as the C++ calls do: each begins above a
\* frame of its caller (an error handler may be called by an activation
\* whose call failed to start, which has none).
ActivationsNest ==
    /\ \A a \in 1 .. Len(cstk) :
          /\ cstk[a].low <= Len(calls)
          /\ a = 1 => cstk[a].low = 0
          /\ a > 1 /\ cstk[a].via # "handler" => cstk[a - 1].low < cstk[a].low
    /\ \A a, b \in 1 .. Len(cstk) : a <= b => cstk[a].low <= cstk[b].low

\* What each kind of call is made from.
CallersFit ==
    \A a \in 1 .. Len(cstk) :
        /\ cstk[a].via \in {"op", "meta", "handler"} => a > 1
        /\ cstk[a].via \in {"op", "handler"} => cstk[a - 1].kind = "exec"
        /\ cstk[a].via \in {"api", "resume"} /\ a > 1 => cstk[a - 1].kind = "native"
        /\ cstk[a].via = "wakeup" => a = 1

\* What the innermost activation has to be to do what it does.
ModeFits ==
    /\ Len(cstk) = 0 => mode = "run" /\ (susp.on <=> Len(calls) > 0)
    /\ Len(cstk) > 0 =>
          /\ ~ susp.on
          /\ mode \in {"run", "suspend", "abandon"} => Len(calls) > act.low
          /\ mode = "suspend" => act.kind = "native" /\ Len(cstk) = 2
          /\ mode \in {"raise", "unwind"} => act.kind = "exec"
          /\ mode = "abandon" =>
                /\ Len(cstk) > 1
                /\ cstk[Len(cstk) - 1].kind = "exec"
                /\ cstk[Len(cstk) - 1].low < act.low

\* A native has its one frame and never a trap.
NativesHaveOneFrame ==
    \A a \in 1 .. Len(cstk) :
        cstk[a].kind = "native" =>
            /\ High(a) = cstk[a].low + 1
            /\ calls[High(a)].etraps = 0
            /\ calls[High(a)].gen = NoGen

\* An activation that may still return a result to an instruction has its
\* first frame; it is abandoned with that frame alone.
AbandonedHasOneFrame ==
    cstk # <<>> /\ mode = "abandon" =>
        Len(calls) = act.low + 1 /\ ci.etraps = 0 /\ ci.gen = NoGen

\* The root flags of suspended VMs and generators.  Only generators that
\* the host resumes are ever the root.
SavedRoots ==
    /\ \A g \in Gen \ HostGen : ~ gens[g].root
    /\ \A i \in 1 .. Len(calls) : calls[i].root => calls[i].gen \in HostGen \cup {NoGen}
    /\ susp.on => /\ susp.root <=> Len(calls) = 1
                  /\ \A i \in 1 .. Len(calls) : calls[i].root <=> i = 1

\* The traps of a suspended generator are relative to its stack.
SavedTrapsRelative ==
    \A g \in Gen : \A k \in DOMAIN gens[g].traps :
        gens[g].traps[k] = [base |-> 0, size |-> gens[g].size]

\* Activation a will not go on in its innermost frame before a catch.
Unwinds(a) ==
    IF a = Len(cstk) THEN mode \in {"raise", "unwind"} ELSE cstk[a + 1].via = "handler"

\* A frame entered by an instruction gives the frame below its stack top
\* back.  A frame left behind by a failed call gives back something else,
\* but it is unwound before any code runs below it.
TopsRestored(a) ==
    \A i \in cstk[a].low + 2 .. High(a) :
        \/ calls[i - 1].base + calls[i].ptop = calls[i - 1].top
        \/ Unwinds(a) /\ \A j \in i .. High(a) : calls[j].etraps = 0

TopsChain ==
    /\ InExec \/ susp.on => top = ci.top
    /\ \A a \in 1 .. Len(cstk) :
          /\ cstk[a].kind = "exec" => TopsRestored(a)
          /\ cstk[a].via \in {"op", "meta"} /\ cstk[a - 1].kind = "exec" =>
                /\ cstk[a].low > 0
                /\ cstk[a].top = calls[cstk[a].low].top
    /\ susp.on => \A i \in 2 .. Len(calls) :
                    calls[i - 1].base + calls[i].ptop = calls[i - 1].top

\* The values a call has pushed when its frame is entered.
Pushed(via) ==
    CASE via \in {"api", "meta", "handler"} -> 2
      [] via = "resume"                     -> 1
      [] OTHER                              -> 0

\* The first frame of an activation leads back to the stack of its caller and
\* what was pushed for the call; so does _top where the call did not start.
CallersRemembered ==
    \A a \in 1 .. Len(cstk) :
        LET c == cstk[a]
        IN  c.via # "wakeup" =>
              /\ c.base = BaseAt(c.low)
              /\ High(a) > c.low =>
                    BaseAt(c.low) + calls[c.low + 1].ptop = c.top + Pushed(c.via)
              /\ High(a) = c.low /\ a = Len(cstk) => top = c.top + Pushed(c.via)
              /\ High(a) = c.low /\ a # Len(cstk) =>
                    cstk[a + 1].top = c.top + Pushed(c.via)

IInv ==
    /\ TypeOK
    /\ BasesChain
    /\ ActivationsNest
    /\ CallersFit
    /\ ModeFits
    /\ NativesHaveOneFrame
    /\ AbandonedHasOneFrame
    /\ RootsDelimitActivations
    /\ SavedRoots
    /\ SavedTrapsRelative
    /\ TrapsMatchFrames
    /\ TopsChain
    /\ CallersRemembered
    /\ LocalTrapsAgree
    /\ GeneratorsRunOnce
=============================================================================
