------------------------------ MODULE Threads ------------------------------
(***************************************************************************)
(* Coroutines: base_newthread, thread_call, thread_wakeup and              *)
(* thread_wakeupthrow (baselib.cpp) over lv_call, lv_wakeupvm, lv_move and *)
(* LVVM::Suspend.  A thread is an LVVM with stacks of its own; the VM that *)
(* calls it or wakes it up waits in a native function, on one C++ stack.   *)
(*                                                                         *)
(* A script function has three registers: this, a parameter and the result *)
(* of the call it made last, which stands for its _suspended_target too.   *)
(* The arguments of a call go above them.  A handler of errors changes     *)
(* none of this.                                                           *)
(*                                                                         *)
(* Values may be functions.  Left out is a thread.call, with as many        *)
(* arguments as it takes, of a thread that runs or is suspended and has a   *)
(* function on top: thread_call does not ask for the state, and would run   *)
(* that function on the thread's stack, as its state and its frames are.    *)
(***************************************************************************)
EXTENDS Naturals, Sequences, SequencesExt, FiniteSetsExt

CONSTANTS
    Thread,     \* threads
    RootVM,     \* the VM the host made
    Arg,        \* arguments and errors
    Value,      \* what scripts return, suspend with and wake with
    MaxCpp,     \* bound on the activations of Execute
    MaxFrames   \* bound on the script functions of each VM

ASSUME ThreadsAssumption == RootVM \notin Thread

VARIABLES
    vm,         \* the VMs
    cpp,        \* the activations of Execute: whose, what made it and for how many parameters
    mode,       \* "run", or "raise" in exception_trap
    raised      \* history: the value that was thrown

threadVars == <<vm, cpp, mode, raised>>

VM == Thread \cup {RootVM}
OT_NULL == "null"
RootTable == "roottable"
FunctionObject == "function"

\* Any error that the functions below raise themselves.
Refused == "refused"

IdleVM == [ stack |-> <<FunctionObject>>, base |-> 0, calls |-> <<>>, susp |-> FALSE, root |-> FALSE,
          err |-> OT_NULL ]

----------------------------------------------------------------------------
(* One VM.                                                                 *)

Push(m, x) == [m EXCEPT !.stack = Append(@, x)]
Pop(m, n) == [m EXCEPT !.stack = SubSeq(@, 1, Len(@) - n)]
GetUp(m) == Last(m.stack)
stack_get(m, i) == m.stack[m.base + i]

StackResized(s, n) == [i \in 1 .. n |-> IF i <= Len(s) THEN s[i] ELSE OT_NULL]
SetTop(m, n) == [m EXCEPT !.stack = StackResized(@, m.base + n)]

\* arg and result are history: what the registers of a script are to hold.
EnterFrame(m, kind, base, newtop, root) ==
    [m EXCEPT !.stack = StackResized(@, newtop), !.base = base,
              !.calls = Append(@, [ kind |-> kind, base |-> m.base, top |-> Len(m.stack),
                                    root |-> root, arg |-> OT_NULL, result |-> OT_NULL ])]

LeaveFrame(m) ==
    LET f == Last(m.calls)
    IN [m EXCEPT !.calls = Front(@), !.base = f.base, !.stack = StackResized(@, f.top)]

\* StartCall of a function with a parameter, this and the argument on top.
StartCall(m, root) == EnterFrame(m, "script", Len(m.stack) - 2, Len(m.stack) + 1, root)

\* CallNative, the arguments on top, this first.
EnterNative(m, args) ==
    LET p == [m EXCEPT !.stack = @ \o args]
    IN [EnterFrame(p, "native", Len(m.stack), Len(p.stack), FALSE) EXCEPT
          !.calls[Len(m.calls) + 1].top = Len(m.stack)]

StoreResult(m, x) == [m EXCEPT !.stack[m.base + 3] = x]

\* History: what the script that runs in m was given as argument or result.
Given(m, x) == [m EXCEPT !.calls[Len(m.calls)].result = x]
Called(m, x) == [m EXCEPT !.calls[Len(m.calls)].arg = x]

\* CallNative after the native function returned 1 or 0.
NativeReturns(m, x) == StoreResult(LeaveFrame(m), x)

_nnativecalls(t) == Quantify(DOMAIN cpp, LAMBDA i : cpp[i].vm = t)
                    + Quantify(DOMAIN vm[t].calls, LAMBDA i : vm[t].calls[i].kind = "native")

lv_getvmstate(t) ==
    IF vm[t].susp THEN "suspended" ELSE IF vm[t].calls # <<>> THEN "running" ELSE "idle"

----------------------------------------------------------------------------
(* How an activation ends: the rest of lv_call or lv_wakeupvm, and of the   *)
(* native function that called it.                                         *)

Runner == Last(cpp).vm
Waiter == cpp[Len(cpp) - 1].vm

\* Pops of the result, and of the rest when a thread that was woken is done.
Popped_Kept(m, by) == Pop(m, 1)
Popped(m, by) ==
    IF by.via # "call" /\ m.calls = <<>> THEN SetTop(Pop(m, 1), 1) ELSE Pop(m, 1)

\* m, the VM that ran, has returned x or suspended with it; given is history.
Succeeds(m, x) ==
    LET by == Last(cpp)
        t == by.vm
        done == Push(IF by.params > 0 /\ ~m.susp THEN Pop(m, by.params) ELSE m, x)
    IN  /\ mode' = "run"
        /\ cpp' = Front(cpp)
        /\ CASE by.via = "host" -> vm' = [vm EXCEPT ![t] = Popped(done, by)]
             [] by.via = "native" ->
                    vm' = [vm EXCEPT ![t] = Given(NativeReturns(done, GetUp(done)), x)]
             [] OTHER ->
                    LET w == Push(vm[Waiter], GetUp(done))
                    IN vm' = [vm EXCEPT ![t] = Popped(done, by),
                                        ![Waiter] = Given(NativeReturns(w, GetUp(w)), x)]

\* An error has left the frames of the activation.
Fails(m) ==
    LET by == Last(cpp)
        t == by.vm
        failed == IF by.params > 0 THEN Pop(m, by.params) ELSE m
        told == [LeaveFrame(vm[Waiter]) EXCEPT !.err = m.err]
    IN  /\ cpp' = Front(cpp)
        /\ IF by.via \in {"host", "keep"} THEN mode' = "run" /\ raised' = OT_NULL
                                         ELSE UNCHANGED <<mode, raised>>
        /\ CASE by.via = "host" -> vm' = [vm EXCEPT ![t] = SetTop(failed, 1)]
             [] by.via = "native" -> vm' = [vm EXCEPT ![t] = LeaveFrame(failed)]
             [] by.via = "call" -> vm' = [vm EXCEPT ![t] = failed, ![Waiter] = told]
             [] by.via = "wakeup" -> vm' = [vm EXCEPT ![t] = SetTop(failed, 1), ![Waiter] = told]
             [] by.via = "keep" ->
                    vm' = [vm EXCEPT ![t] = SetTop(failed, 1),
                             ![Waiter] = Given(NativeReturns(@, OT_NULL), OT_NULL)]

----------------------------------------------------------------------------
(* Scripts.                                                                *)

ThreadsInit ==
    /\ vm = [t \in VM |-> IdleVM]
    /\ cpp = <<>>
    /\ mode = "run"
    /\ raised = OT_NULL

Runs == cpp # <<>> /\ mode = "run"
Room == Quantify(DOMAIN vm[Runner].calls,
                 LAMBDA i : vm[Runner].calls[i].kind = "script") < MaxFrames[Runner]
Activated(t, via, params) ==
    /\ Len(cpp) < MaxCpp
    /\ cpp' = Append(cpp, [vm |-> t, via |-> via, params |-> params])

Raise(t, m, err) ==
    /\ vm' = [vm EXCEPT ![t] = [m EXCEPT !.err = err]]
    /\ mode' = "raise"
    /\ raised' = err
    /\ UNCHANGED cpp

ScriptCall(x) ==
    /\ Runs /\ Room
    /\ LET m == vm[Runner]
           called == StartCall(Push(Push(m, RootTable), x), FALSE)
       IN vm' = [vm EXCEPT ![Runner] =
                   Called([called EXCEPT !.calls[Len(called.calls)].top = Len(m.stack)], x)]
    /\ UNCHANGED <<cpp, mode, raised>>

\* A native function like array.map calls a function of the script.
NativeCalls(x) ==
    /\ Runs /\ Room
    /\ Activated(Runner, "native", 2)
    /\ LET m == EnterNative(vm[Runner], <<RootTable>>)
       IN vm' = [vm EXCEPT ![Runner] =
                   Called(StartCall(Push(Push(Push(m, FunctionObject), RootTable), x), TRUE), x)]
    /\ UNCHANGED <<mode, raised>>

Return(x) ==
    /\ Runs
    /\ LET m == LeaveFrame(vm[Runner])
       IN IF Last(vm[Runner].calls).root
            THEN Succeeds(m, x)
            ELSE /\ vm' = [vm EXCEPT ![Runner] = Given(StoreResult(m, x), x)]
                 /\ UNCHANGED <<cpp, mode>>
    /\ UNCHANGED raised

Throw(x) == Runs /\ Raise(Runner, vm[Runner], x)

\* exception_trap: the frame has a trap, or is left.
Catch ==
    /\ mode = "raise"
    /\ mode' = "run"
    /\ raised' = OT_NULL
    /\ vm' = [vm EXCEPT ![Runner].err = OT_NULL]
    /\ UNCHANGED cpp

Unwind ==
    /\ mode = "raise"
    /\ LET m == LeaveFrame(vm[Runner])
       IN IF Last(vm[Runner].calls).root
            THEN Fails(m)
            ELSE vm' = [vm EXCEPT ![Runner] = m] /\ UNCHANGED <<cpp, mode, raised>>

----------------------------------------------------------------------------
(* Threads.                                                                *)

\* base_suspend, in _OP_CALL: only from the Execute that runs the thread.
Suspend(x) ==
    /\ Runs
    /\ IF ~vm[Runner].susp /\ _nnativecalls(Runner) + 1 = 2
         THEN /\ Succeeds([vm[Runner] EXCEPT !.susp = TRUE,
                                             !.root = Last(vm[Runner].calls).root], x)
              /\ UNCHANGED raised
         ELSE Raise(Runner, vm[Runner], Refused)

\* thread_call, which does not ask for the state of the thread: lv_call takes
\* what is below the arguments for the function.  The first guard leaves out
\* that this is a function a busy or suspended thread has on top.
ThreadCall(t, args) ==
    /\ Runs
    /\ LET v == Runner
           w == EnterNative(vm[v], <<t>> \o args)
           m == IF t = v THEN w ELSE vm[t]
           p == [m EXCEPT !.stack = @ \o <<RootTable>> \o args]
           params == Len(args) + 1
           back == Pop(p, params)
           calls == GetUp(m) = FunctionObject /\ params = 2
       IN /\ calls => lv_getvmstate(t) = "idle"
          /\ IF calls
             THEN /\ Activated(t, "call", params)
                  /\ vm' = [vm EXCEPT ![v] = w, ![t] = Called(StartCall(p, TRUE), args[1])]
                  /\ UNCHANGED <<mode, raised>>
             ELSE LET err == IF GetUp(m) = FunctionObject THEN Refused ELSE m.err
                      lost == IF t = v THEN back ELSE w
                  IN /\ vm' = [vm EXCEPT ![t] = back, ![v] = [LeaveFrame(lost) EXCEPT !.err = err]]
                     /\ mode' = "raise"
                     /\ raised' = err
                     /\ UNCHANGED cpp

\* lv_wakeupvm of m, which has the value it is woken with on its stack.
lv_wakeupvm(m, wakeupret) ==
    LET woken == IF wakeupret THEN Pop(StoreResult(m, GetUp(m)), 1) ELSE StoreResult(m, OT_NULL)
    IN [woken EXCEPT !.calls[Len(woken.calls)].root = m.root, !.susp = FALSE]

ThreadWakeup(t, args) ==
    /\ Runs
    /\ LET v == Runner
           w == EnterNative(vm[v], <<t>> \o args)
           m == IF args # <<>> THEN Push(vm[t], stack_get(w, 2)) ELSE vm[t]
       IN IF lv_getvmstate(t) # "suspended"
            THEN Raise(v, vm[v], Refused)
            ELSE /\ Activated(t, "wakeup", 0)
                 /\ vm' = [vm EXCEPT ![v] = w,
                             ![t] = Given(lv_wakeupvm(m, args # <<>>),
                                          IF args # <<>> THEN args[1] ELSE OT_NULL)]
                 /\ UNCHANGED <<mode, raised>>

\* thread_wakeupthrow: lv_throwobject, and the thread goes on in exception_trap.
ThreadWakeupThrow(t, x, rethrow) ==
    /\ Runs
    /\ LET v == Runner
           w == EnterNative(vm[v], <<t, x>>)
           m == Push(vm[t], stack_get(w, 2))
           thrown == Pop([m EXCEPT !.err = GetUp(m)], 1)
       IN IF lv_getvmstate(t) # "suspended"
            THEN Raise(v, vm[v], Refused)
            ELSE /\ Activated(t, IF rethrow THEN "wakeup" ELSE "keep", 0)
                 /\ vm' = [vm EXCEPT ![v] = w, ![t] = Given(lv_wakeupvm(thrown, FALSE), OT_NULL)]
                 /\ mode' = "raise"
                 /\ raised' = x

----------------------------------------------------------------------------
(* The host, between its calls: lv_call or lv_wakeupvm of the main VM.      *)

HostCalls(x) ==
    /\ cpp = <<>> /\ lv_getvmstate(RootVM) = "idle"
    /\ Activated(RootVM, "host", 2)
    /\ vm' = [vm EXCEPT ![RootVM] = Called(StartCall(Push(Push(@, RootTable), x), TRUE), x)]
    /\ UNCHANGED <<mode, raised>>

HostWakesUp ==
    /\ cpp = <<>> /\ lv_getvmstate(RootVM) = "suspended"
    /\ Activated(RootVM, "host", 0)
    /\ vm' = [vm EXCEPT ![RootVM] = Given(lv_wakeupvm(@, FALSE), OT_NULL)]
    /\ UNCHANGED <<mode, raised>>

ThreadsNext ==
    \/ \E x \in Arg : ScriptCall(x) \/ NativeCalls(x) \/ Throw(x) \/ HostCalls(x)
    \/ \E x \in Value : Return(x) \/ Suspend(x)
    \/ \E t \in Thread :
          \/ \E x \in Arg : ThreadCall(t, <<x>>)
          \/ \E x \in Value : ThreadWakeup(t, <<x>>)
          \/ \E x \in Arg, rethrow \in BOOLEAN : ThreadWakeupThrow(t, x, rethrow)
          \/ ThreadCall(t, <<>>) \/ ThreadWakeup(t, <<>>)
    \/ Catch \/ Unwind \/ HostWakesUp

ThreadsSpec == ThreadsInit /\ [][ThreadsNext]_threadVars

----------------------------------------------------------------------------
(* Properties.                                                             *)

\* A VM is running when the C++ stack has activations of it, all next to each
\* other; a thread that is suspended left none, and no native frame.
RunningIsOnCppStack ==
    /\ \A t \in VM :
         /\ lv_getvmstate(t) = "running" <=> \E i \in DOMAIN cpp : cpp[i].vm = t
         /\ vm[t].susp => \A i \in DOMAIN vm[t].calls : vm[t].calls[i].kind = "script"
    /\ \A i, j \in DOMAIN cpp : i < j /\ cpp[i].vm = cpp[j].vm => cpp[j].via = "native"

\* A thread that is done can be called again: it has its function on the stack
\* and nothing else.  One that waits has nothing above its frame.
StacksAreClean ==
    \A t \in VM :
        CASE lv_getvmstate(t) = "idle" -> vm[t].stack = <<FunctionObject>> /\ vm[t].base = 0
          [] lv_getvmstate(t) = "suspended" -> Len(vm[t].stack) = vm[t].base + 3
          [] OTHER -> TRUE

\* What a script gets is what the other side handed over: as argument, from
\* wakeup, from suspend, from return and as an error.
HandedOver ==
    /\ \A t \in VM : \A i \in DOMAIN vm[t].calls :
          LET f == vm[t].calls[i]
              base == IF i = Len(vm[t].calls) THEN vm[t].base ELSE vm[t].calls[i + 1].base
          IN f.kind = "script" =>
                SubSeq(vm[t].stack, base + 1, base + 3) = <<RootTable, f.arg, f.result>>
    /\ mode = "raise" => vm[Runner].err = raised

\* One VM runs at a time, and gets what it is handed (baselib.cpp:1174-1265).
ThreadsTakeTurns == RunningIsOnCppStack /\ StacksAreClean /\ HandedOver
=============================================================================
