------------------------------- MODULE GcHeap -------------------------------
(***************************************************************************)
(* The lifetime of objects (object.h, object.cpp, state.cpp): reference    *)
(* counts, weak references, the chain of collectable objects, and the      *)
(* collector that finds what counting cannot free.                         *)
(*                                                                         *)
(* An object is freed when its count drops to 0; its destructor takes it   *)
(* out of the chain and drops what it refers to.  CollectGarbage moves     *)
(* what it can reach to a second chain, finalizes what is left in the      *)
(* first (drops its references, which frees it), and goes on with the      *)
(* second.  The C++ recursion of destructors is the list work of what is   *)
(* still to be done, innermost call first.                                 *)
(*                                                                         *)
(* A table stands for every object that refers to others, a closure for    *)
(* one with a single captured variable.  The registers of one VM are the   *)
(* roots; other roots are objects of the same kind.  The order in which    *)
(* reachable objects are marked is left open.                              *)
(***************************************************************************)
EXTENDS Integers, FiniteSets, SequencesExt

CONSTANTS
    Obj,         \* objects
    Weak,        \* weak references
    Null,        \* no reference
    Reg,         \* registers
    Slot,        \* slots of a table, 1 .. n
    OpenUnmarked \* TRUE: collect also while a captured variable has lost its closures

ASSUME GcHeapAssumption ==
    /\ Obj \cap Weak = {}
    /\ Null \notin Obj \cup Weak
    /\ 1 \in Slot /\ Slot = 1 .. Cardinality(Slot)
    /\ IsFiniteSet(Obj) /\ IsFiniteSet(Weak) /\ IsFiniteSet(Reg) /\ IsFiniteSet(Slot)
    /\ OpenUnmarked \in BOOLEAN

VARIABLES
    heap,    \* the objects
    weak,    \* the weak references
    stack,   \* LVVM::_stack
    open,    \* _openouters: the outer of each register
    chain,   \* _gc_chain, first object first
    lost,    \* lists of objects that _gc_chain does not lead to
    tchain,  \* the chain of the objects marked by a collection
    work,    \* what is left to do of the destructors that run
    cur,     \* the object the sweep is at, or Null
    phase    \* what runs: a script or a step of the collector

vars == <<heap, weak, stack, open, chain, lost, tchain, work, cur, phase>>

Ref == Obj \cup Weak \cup {Null}

NoSlots == [i \in Slot |-> Null]

Unused == [kind |-> "free", refs |-> 0, slots |-> NoSlots, weak |-> Null]
NoWeak == [refs |-> 0, obj |-> Null, live |-> FALSE]

Phase == {"run", "mark", "marked", "sweep", "next", "close", "closeSweep",
          "closeNext", "closed"}

Task == {[op |-> "release", obj |-> o, slot |-> 1] : o \in Obj \cup Weak}
        \cup {[op |-> "drop", obj |-> o, slot |-> i] : o \in Obj, i \in Slot}
        \cup {[op |-> "free", obj |-> o, slot |-> 1] : o \in Obj}

Alive == {o \in Obj : heap[o].kind # "free"}
Marked == ToSet(tchain)

\* The tasks that release a reference, and those that drop all of an object's.
Release(x) == IF x = Null THEN <<>> ELSE <<[op |-> "release", obj |-> x, slot |-> 1]>>
Drops(o) == [i \in 1 .. Cardinality(Slot) |-> [op |-> "drop", obj |-> o, slot |-> i]]
FreeTask(o) == <<[op |-> "free", obj |-> o, slot |-> 1]>>

\* __AddRef on one more reference to x.
Referenced(h, x) == IF x \in Obj THEN [h EXCEPT ![x].refs = @ + 1] ELSE h
WeakReferenced(w, x) == IF x \in Weak THEN [w EXCEPT ![x].refs = @ + 1] ELSE w

----------------------------------------------------------------------------
(* The chain.  lists.main is _gc_chain, lists.lost the lists cut off it.   *)

Lists == [main |-> chain, lost |-> lost]
SetLists(l) == chain' = l.main /\ lost' = l.lost \ {<<>>}

PositionOf(list, o) == CHOOSE k \in DOMAIN list : list[k] = o
Without(list, o) == RemoveAt(list, PositionOf(list, o))

\* RemoveFromChain(&_gc_chain, o).  The first object of a list sets the
\* chain to the rest of its list, whatever the chain was.
Unchained(l, o) ==
    IF o \in ToSet(l.main) THEN [l EXCEPT !.main = Without(@, o)]
    ELSE LET list == CHOOSE s \in l.lost : o \in ToSet(s)
         IN  IF Head(list) = o
             THEN [main |-> Tail(list), lost |-> (l.lost \ {list}) \cup {l.main}]
             ELSE [l EXCEPT !.lost = (@ \ {list}) \cup {Without(list, o)}]

\* _next of an object.
NextOf(o) ==
    LET list == CHOOSE s \in lost \cup {chain} : o \in ToSet(s)
        k    == PositionOf(list, o)
    IN  IF k = Len(list) THEN Null ELSE list[k + 1]

----------------------------------------------------------------------------
(* Scripts.  A script goes on when the destructors it started are done.    *)

Idle == phase = "run" /\ work = <<>>

\* stack[r] = x, in a heap with the objects h and w.
Assign(r, x, h, w) ==
    /\ heap' = Referenced(h, x)
    /\ weak' = WeakReferenced(w, x)
    /\ stack' = [stack EXCEPT ![r] = x]
    /\ work' = Release(stack[r])
    /\ UNCHANGED <<tchain, cur, phase>>

\* The state of an object that was just created.
Created(kind) == [Unused EXCEPT !.kind = kind]

NewTable(r, o) ==
    /\ Idle
    /\ o \notin Alive
    /\ Assign(r, o, [heap EXCEPT ![o] = Created("table")], weak)
    /\ chain' = <<o>> \o chain
    /\ UNCHANGED <<open, lost>>

Move(r, x) ==
    /\ Idle
    /\ Assign(r, x, heap, weak)
    /\ UNCHANGED <<open, chain, lost>>

\* What a value stands for: _realval.
Real(x) == IF x \in Weak THEN weak[x].obj ELSE x

GetSlot(r, s, i) ==
    /\ Idle
    /\ stack[s] \in Obj
    /\ heap[stack[s]].kind = "table"
    /\ Assign(r, Real(heap[stack[s]].slots[i]), heap, weak)
    /\ UNCHANGED <<open, chain, lost>>

SetSlot(s, i, r) ==
    /\ Idle
    /\ stack[s] \in Obj
    /\ heap[stack[s]].kind = "table"
    /\ LET o == stack[s]
       IN  /\ heap' = [Referenced(heap, stack[r]) EXCEPT ![o].slots[i] = stack[r]]
           /\ weak' = WeakReferenced(weak, stack[r])
           /\ work' = Release(heap[o].slots[i])
    /\ UNCHANGED <<stack, open, chain, lost, tchain, cur, phase>>

\* GetWeakRef.
GetWeakRef(r, s, w) ==
    /\ Idle
    /\ stack[s] \in Obj
    /\ IF heap[stack[s]].weak = Null
       THEN /\ ~ weak[w].live
            /\ Assign(r, w, [heap EXCEPT ![stack[s]].weak = w],
                      [weak EXCEPT ![w] = [refs |-> 0, obj |-> stack[s], live |-> TRUE]])
       ELSE w = heap[stack[s]].weak /\ Assign(r, w, heap, weak)
    /\ UNCHANGED <<open, chain, lost>>

\* A closure c over register s, which o is or becomes the outer of.
Capture(r, s, c, o) ==
    /\ Idle
    /\ c \notin Alive
    /\ r # s
    /\ LET h == [heap EXCEPT ![c] = [Created("closure") EXCEPT !.slots[1] = o]]
       IN  IF open[s] = Null
           THEN /\ o \notin Alive \cup {c}
                /\ Assign(r, c, [h EXCEPT ![o] = [Created("outer") EXCEPT !.refs = 2]], weak)
                /\ open' = [open EXCEPT ![s] = o]
                /\ chain' = <<o, c>> \o chain
           ELSE /\ o = open[s]
                /\ Assign(r, c, Referenced(h, o), weak)
                /\ chain' = <<c>> \o chain
                /\ UNCHANGED open
    /\ UNCHANGED lost

\* Seeded bug: the outer takes the value over without a reference.
EndVariable_Moved(s) ==
    /\ Idle
    /\ IF open[s] = Null
       THEN work' = Release(stack[s]) /\ UNCHANGED heap
       ELSE /\ heap' = [heap EXCEPT ![open[s]].slots[1] = stack[s]]
            /\ work' = Release(open[s]) \o Release(stack[s])
    /\ open' = [open EXCEPT ![s] = Null]
    /\ stack' = [stack EXCEPT ![s] = Null]
    /\ UNCHANGED <<weak, chain, lost, tchain, cur, phase>>

\* The variable in register s goes: CloseOuters, then the register is nulled.
EndVariable(s) ==
    /\ Idle
    /\ IF open[s] = Null
       THEN work' = Release(stack[s]) /\ UNCHANGED <<heap, weak>>
       ELSE /\ heap' = [Referenced(heap, stack[s]) EXCEPT ![open[s]].slots[1] = stack[s]]
            /\ weak' = WeakReferenced(weak, stack[s])
            /\ work' = Release(open[s]) \o Release(stack[s])
    /\ open' = [open EXCEPT ![s] = Null]
    /\ stack' = [stack EXCEPT ![s] = Null]
    /\ UNCHANGED <<chain, lost, tchain, cur, phase>>

----------------------------------------------------------------------------
(* Destructors.                                                            *)

\* __Release.  The MARK_FLAG of a marked object is part of its count, which
\* therefore does not reach 0.
ReleaseObject(o) ==
    /\ heap' = [heap EXCEPT ![o].refs = @ - 1]
    /\ IF heap[o].refs = 1 /\ o \notin Marked
       THEN /\ SetLists(Unchained(Lists, o))
            /\ work' = Drops(o) \o FreeTask(o) \o Tail(work)
       ELSE work' = Tail(work) /\ UNCHANGED <<chain, lost>>
    /\ UNCHANGED weak

\* LVWeakRef::Release tells the object.
ReleaseWeak(w) ==
    /\ IF weak[w].refs = 1
       THEN /\ weak' = [weak EXCEPT ![w] = NoWeak]
            /\ heap' = IF weak[w].obj = Null THEN heap
                       ELSE [heap EXCEPT ![weak[w].obj].weak = Null]
       ELSE weak' = [weak EXCEPT ![w].refs = @ - 1] /\ UNCHANGED heap
    /\ work' = Tail(work)
    /\ UNCHANGED <<chain, lost>>

\* A reference an object has is nulled and released: Finalize, destructors.
DropSlot(o, i) ==
    /\ heap' = [heap EXCEPT ![o].slots[i] = Null]
    /\ work' = Release(heap[o].slots[i]) \o Tail(work)
    /\ UNCHANGED <<weak, chain, lost>>

\* ~LVRefCounted, which nulls the weak reference, and the end of the object.
Free(o) ==
    /\ weak' = IF heap[o].weak = Null THEN weak
               ELSE [weak EXCEPT ![heap[o].weak].obj = Null]
    /\ heap' = [heap EXCEPT ![o] = Unused]
    /\ work' = Tail(work)
    /\ UNCHANGED <<chain, lost>>

Destroy ==
    /\ work # <<>>
    /\ LET task == Head(work)
       IN  \/ task.op = "release" /\ task.obj \in Obj /\ ReleaseObject(task.obj)
           \/ task.op = "release" /\ task.obj \in Weak /\ ReleaseWeak(task.obj)
           \/ task.op = "drop" /\ DropSlot(task.obj, task.slot)
           \/ task.op = "free" /\ Free(task.obj)
    /\ UNCHANGED <<stack, open, tchain, cur, phase>>

----------------------------------------------------------------------------
(* The collector.                                                          *)

\* What Mark goes on to from an object: not weak references, and an outer
\* only to a value of its own.
Children(o) == {heap[o].slots[i] : i \in Slot} \cap Obj
Roots == {stack[r] : r \in Reg} \cap Obj

\* What a collection that has marked the objects of tchain marks next.
Found == (Roots \cup UNION {Children(o) : o \in Marked}) \ Marked

\* What scripts can reach: what every set has that has the roots, and with an
\* object what it refers to.
Reach ==
    {o \in Obj : \A S \in SUBSET Obj :
        Roots \subseteq S /\ (\A p \in S : Children(p) \subseteq S) => o \in S}

\* RunMark, from lv_collectgarbage or lv_resurrectunreachable.
StartMark ==
    /\ Idle
    /\ OpenUnmarked \/ \A r \in Reg : open[r] \in Reach \cup {Null}
    /\ phase' = "mark"
    /\ UNCHANGED <<heap, weak, stack, open, chain, lost, tchain, work, cur>>

\* Seeded bug: a marked object goes back to the chain it was in.
Mark_SameChain(o) ==
    /\ phase = "mark"
    /\ o \in Found
    /\ LET l == Unchained(Lists, o) IN SetLists([l EXCEPT !.main = <<o>> \o @])
    /\ UNCHANGED <<heap, weak, stack, open, tchain, work, cur, phase>>

\* START_MARK, END_MARK.
Mark(o) ==
    /\ phase = "mark"
    /\ o \in Found
    /\ SetLists(Unchained(Lists, o))
    /\ tchain' = <<o>> \o tchain
    /\ UNCHANGED <<heap, weak, stack, open, work, cur, phase>>

EndMark ==
    /\ phase = "mark"
    /\ Found = {}
    /\ phase' = "marked"
    /\ UNCHANGED <<heap, weak, stack, open, chain, lost, tchain, work, cur>>

\* The loop over _gc_chain keeps a reference to the object it is at.
StartSweep(at) ==
    /\ cur' = IF chain = <<>> THEN Null ELSE Head(chain)
    /\ heap' = Referenced(heap, cur')
    /\ phase' = at

\* CollectGarbage after RunMark.
Collect ==
    /\ phase = "marked"
    /\ StartSweep("sweep")
    /\ UNCHANGED <<weak, stack, open, chain, lost, tchain, work>>

Sweeping == phase \in {"sweep", "closeSweep"}

\* Seeded bug: outers and closures keep their references.
FinalizeObject_Table ==
    /\ Sweeping
    /\ work = <<>>
    /\ cur # Null
    /\ work' = IF heap[cur].kind # "table" THEN <<>> ELSE Drops(cur)
    /\ phase' = IF phase = "sweep" THEN "next" ELSE "closeNext"
    /\ UNCHANGED <<heap, weak, stack, open, chain, lost, tchain, cur>>

FinalizeObject ==
    /\ Sweeping
    /\ work = <<>>
    /\ cur # Null
    /\ work' = Drops(cur)
    /\ phase' = IF phase = "sweep" THEN "next" ELSE "closeNext"
    /\ UNCHANGED <<heap, weak, stack, open, chain, lost, tchain, cur>>

\* Seeded bug: the next object is not kept while the current one is released.
SweepNext_Unkept ==
    /\ phase \in {"next", "closeNext"}
    /\ work = <<>>
    /\ cur' = NextOf(cur)
    /\ work' = Release(cur)
    /\ phase' = IF phase = "next" THEN "sweep" ELSE "closeSweep"
    /\ UNCHANGED <<heap, weak, stack, open, chain, lost, tchain>>

SweepNext ==
    /\ phase \in {"next", "closeNext"}
    /\ work = <<>>
    /\ heap' = Referenced(heap, NextOf(cur))
    /\ cur' = NextOf(cur)
    /\ work' = Release(cur)
    /\ phase' = IF phase = "next" THEN "sweep" ELSE "closeSweep"
    /\ UNCHANGED <<weak, stack, open, chain, lost, tchain>>

\* _gc_chain = tchain: what is left in _gc_chain is out of every chain.
EndSweep ==
    /\ phase = "sweep"
    /\ work = <<>>
    /\ cur = Null
    /\ SetLists([main |-> tchain, lost |-> lost \cup {chain}])
    /\ tchain' = <<>>
    /\ phase' = "run"
    /\ UNCHANGED <<heap, weak, stack, open, work, cur>>

\* ResurrectUnreachable after RunMark: an array of what is left in
\* _gc_chain, without its outers and in its order, in register r.
Resurrect(r, a) ==
    /\ phase = "marked"
    /\ \/ /\ chain # <<>>
          /\ a \notin Alive
          /\ LET found == {o \in ToSet(chain) : heap[o].kind # "outer"}
             IN  \E slots \in [Slot -> found \cup {Null}] :
                   /\ found \subseteq {slots[i] : i \in Slot}
                   /\ \A i, j \in Slot : i < j /\ slots[j] # Null =>
                         /\ slots[i] # Null
                         /\ PositionOf(chain, slots[i]) < PositionOf(chain, slots[j])
                   /\ heap' = [o \in Obj |->
                         IF o = a THEN [Created("table") EXCEPT !.refs = 1, !.slots = slots]
                         ELSE IF o \in found THEN [heap[o] EXCEPT !.refs = @ + 1] ELSE heap[o]]
          /\ stack' = [stack EXCEPT ![r] = a]
          /\ SetLists([main |-> chain \o <<a>> \o tchain, lost |-> lost])
       \/ /\ chain = <<>>
          /\ stack' = [stack EXCEPT ![r] = Null]
          /\ SetLists([main |-> tchain, lost |-> lost])
          /\ UNCHANGED heap
    /\ work' = Release(stack[r])
    /\ tchain' = <<>>
    /\ phase' = "run"
    /\ UNCHANGED <<weak, open, cur>>

\* lv_close: ~LVSharedState finalizes the root VM, then what is in the chain.
Close ==
    /\ Idle
    /\ phase' = "close"
    /\ UNCHANGED <<heap, weak, stack, open, chain, lost, tchain, work, cur>>

\* Seeded bug: the list of captured variables is emptied without a release.
CloseOuter_Kept(s) ==
    /\ phase = "close"
    /\ work = <<>>
    /\ open[s] # Null
    /\ heap' = [Referenced(heap, stack[s]) EXCEPT ![open[s]].slots[1] = stack[s]]
    /\ weak' = WeakReferenced(weak, stack[s])
    /\ open' = [open EXCEPT ![s] = Null]
    /\ UNCHANGED <<stack, chain, lost, tchain, work, cur, phase>>

\* LVVM::Finalize: CloseOuters over the whole stack, then the registers.
CloseOuter(s) ==
    /\ phase = "close"
    /\ work = <<>>
    /\ open[s] # Null
    /\ heap' = [Referenced(heap, stack[s]) EXCEPT ![open[s]].slots[1] = stack[s]]
    /\ weak' = WeakReferenced(weak, stack[s])
    /\ work' = Release(open[s])
    /\ open' = [open EXCEPT ![s] = Null]
    /\ UNCHANGED <<stack, chain, lost, tchain, cur, phase>>

NullRegister(s) ==
    /\ phase = "close"
    /\ work = <<>>
    /\ \A r \in Reg : open[r] = Null
    /\ stack[s] # Null
    /\ work' = Release(stack[s])
    /\ stack' = [stack EXCEPT ![s] = Null]
    /\ UNCHANGED <<heap, weak, open, chain, lost, tchain, cur, phase>>

CloseSweep ==
    /\ phase = "close"
    /\ work = <<>>
    /\ \A r \in Reg : open[r] = Null /\ stack[r] = Null
    /\ StartSweep("closeSweep")
    /\ UNCHANGED <<weak, stack, open, chain, lost, tchain, work>>

Closed ==
    /\ phase = "closeSweep"
    /\ work = <<>>
    /\ cur = Null
    /\ phase' = "closed"
    /\ UNCHANGED <<heap, weak, stack, open, chain, lost, tchain, work, cur>>

Init ==
    /\ heap = [o \in Obj |-> Unused]
    /\ weak = [w \in Weak |-> NoWeak]
    /\ stack = [r \in Reg |-> Null]
    /\ open = [r \in Reg |-> Null]
    /\ chain = <<>>
    /\ lost = {}
    /\ tchain = <<>>
    /\ work = <<>>
    /\ cur = Null
    /\ phase = "run"

Next ==
    \/ \E r, s \in Reg :
          \/ \E o \in Obj : NewTable(r, o) \/ \E c \in Obj : Capture(r, s, c, o)
          \/ \E x \in {stack[s], Real(stack[s]), Null} : Move(r, x)
          \/ \E i \in Slot : GetSlot(r, s, i) \/ SetSlot(s, i, r)
          \/ \E w \in Weak : GetWeakRef(r, s, w)
    \/ \E s \in Reg : EndVariable(s) \/ CloseOuter(s) \/ NullRegister(s)
    \/ Destroy
    \/ StartMark \/ EndMark \/ Collect \/ FinalizeObject \/ SweepNext \/ EndSweep
    \/ \E o \in Obj : Mark(o) \/ \E r \in Reg : Resurrect(r, o)
    \/ Close \/ CloseSweep \/ Closed

Spec == Init /\ [][Next]_vars

\* Destructors, CollectGarbage and lv_close do not stop half way.
Goes ==
    \/ Destroy \/ EndMark \/ Collect \/ FinalizeObject \/ SweepNext \/ EndSweep
    \/ CloseSweep \/ Closed
    \/ \E o \in Obj : Mark(o)
    \/ \E s \in Reg : CloseOuter(s) \/ NullRegister(s)
FairSpec == Spec /\ WF_vars(Goes)

----------------------------------------------------------------------------
(* Properties.                                                             *)

TypeOK ==
    /\ heap \in [Obj -> [ kind : {"free", "table", "closure", "outer"}, refs : Nat,
                          slots : [Slot -> Ref], weak : Weak \cup {Null} ]]
    /\ weak \in [Weak -> [refs : Nat, obj : Obj \cup {Null}, live : BOOLEAN]]
    /\ stack \in [Reg -> Ref]
    /\ open \in [Reg -> Obj \cup {Null}]
    /\ {chain, tchain} \cup lost \subseteq Seq(Obj)
    /\ work \in Seq(Task)
    /\ cur \in Obj \cup {Null}
    /\ phase \in Phase

\* The places that hold a reference to x.
Holders(x) ==
    {<<"register", r, 0>> : r \in {r \in Reg : stack[r] = x}}
    \cup {<<"open", r, 0>> : r \in {r \in Reg : open[r] = x}}
    \cup {p \in {"slot"} \X Alive \X Slot : heap[p[2]].slots[p[3]] = x}
    \cup {<<"task", k, 0>> : k \in {k \in 1 .. Len(work) : work[k].op = "release" /\ work[k].obj = x}}
    \cup (IF cur = x THEN {<<"sweep", 0, 0>>} ELSE {})

\* Counts are exact at every moment, in the middle of destructors and of a
\* sweep too: an object is never freed under a reference, nor kept for none.
CountsExact ==
    /\ \A o \in Obj : heap[o].refs = Cardinality(Holders(o))
    /\ \A w \in Weak : weak[w].refs = Cardinality(Holders(w))

\* Nothing refers to a freed object: registers, slots, weak references, the
\* chains and the cursor of the sweep lead to living ones only.
NoDangling ==
    LET referred == {stack[r] : r \in Reg} \cup {open[r] : r \in Reg} \cup {cur}
                    \cup (UNION {{heap[o].slots[i] : i \in Slot} : o \in Alive})
                    \cup {weak[w].obj : w \in Weak}
        listed == ToSet(chain) \cup Marked \cup UNION {ToSet(l) : l \in lost}
    IN  /\ referred \cap Obj \subseteq Alive
        /\ listed \subseteq Alive
        /\ \A w \in Weak \cap referred : weak[w].live

\* A weak reference and its object know each other.
WeakPairs ==
    \A o \in Alive, w \in Weak :
        heap[o].weak = w <=> weak[w].live /\ weak[w].obj = o

\* No pointer is left behind, weak ones included (object.cpp:11-32, 449-736).
NoPointerDangles == NoDangling /\ WeakPairs

\* The collector can find every object: it is in the chain once, and in no
\* list that the chain does not lead to.
EveryObjectChained ==
    phase = "run" /\ work = <<>> =>
        /\ ToSet(chain) = Alive
        /\ Len(chain) = Cardinality(Alive)

\* Counting and collecting see the same objects (state.cpp:335-455).
HeapExact == CountsExact /\ EveryObjectChained

\* A collection leaves the objects a script can reach as they were, and frees
\* every other one.
CollectIsExact ==
    [][ /\ phase = "sweep" /\ phase' = "run" => Alive = Reach
        /\ phase \in {"mark", "marked", "sweep", "next"} =>
             \A o \in Reach : heap'[o].slots = heap[o].slots ]_vars

\* state.cpp:234, assert(_gc_chain == NULL): lv_close empties the chain.
CloseFreesAll == phase = "closed" => chain = <<>>

\* lv_close frees every object, in the chain or not.
CloseLeaksNothing == phase = "closed" => Alive = {}

\* A collection ends, and so does lv_close: their loops follow _next in lists
\* that the destructors they start take objects out of.
CollectionEnds == phase # "run" ~> phase \in {"run", "closed"}
=============================================================================
