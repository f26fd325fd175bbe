------------------------------- MODULE Lookup -------------------------------
(***************************************************************************)
(* Get, Set, NewSlot, DeleteSlot and Clone of the interpreter (vm.cpp) on  *)
(* tables and instances: the slots of the object, then those of its chain  *)
(* of delegates, then metamethods, the default delegate and the root       *)
(* table.  Get and Set call themselves for the delegate, and a metamethod  *)
(* is a function of the script that can run every one of these operations, *)
(* change the delegates and fail, while the calls below it wait: "pending" *)
(* is that C++ stack, "top" the height of the value stack.                 *)
(*                                                                         *)
(* Two things are called the root table.  Get falls back to the one that   *)
(* the closure it is called from was made with (vm.cpp:1515), Set to that  *)
(* of the VM (vm.cpp:1638); setroottable and the setroot of a closure make *)
(* them differ.                                                            *)
(*                                                                         *)
(* Only the presence of a slot is kept, not its value; a value read or     *)
(* written is named by the object it is in.  Arrays, strings and user data *)
(* are left out, and so are the keys that are null and a root table that   *)
(* is null.                                                                *)
(***************************************************************************)
EXTENDS Integers, Sequences, FiniteSets

CONSTANTS
    Table,       \* tables
    Root,        \* the root table at first, one of them
    Inst,        \* instances
    Fields,      \* the fields of an instance, fixed by its class
    ClassMeta,   \* the metamethods of the class of the instances
    Key,         \* names of slots, with those of metamethods
    Name,        \* the names the script looks up, some of the keys
    MetaName,    \* for each operation, the name of its metamethod
    Default,     \* the keys of the default delegates
    None,        \* no object
    MaxCalls,    \* bound on the calls of the script
    MaxPending   \* bound on the C++ stack, more than acyclic delegates need

Op == {"get", "set", "newslot", "delete", "clone"}

ASSUME LookupAssumption ==
    /\ Root \in Table /\ None \notin Table \cup Inst /\ Table \cap Inst = {}
    /\ MetaName \in [Op -> Key] /\ ClassMeta \subseteq Op
    /\ Name \subseteq Key /\ Fields \subseteq Key /\ Default \subseteq Key
    /\ MaxCalls \in Nat /\ MaxPending \in Nat

Object == Table \cup Inst

VARIABLES
    exists,    \* the tables there are; Clone makes others
    slots,     \* for each table, the keys of its slots
    delegate,  \* _delegate of each table, or None
    roottable, \* _roottable of the VM
    pending,   \* the calls that have not returned, innermost last
    ret,       \* what the last call returned, until that is used
    top,       \* values on the stack above the caller's
    leaks,     \* history: _set metamethods that failed cleanly
    quiet,     \* history: only Get and Set were called since the script's Set
    wrote,     \* history: the object it wrote, once a Get of the same comes
    calls      \* calls the script has made

vars == <<exists, slots, delegate, roottable, pending, ret, top, leaks, quiet, wrote, calls>>
heap == <<exists, slots, delegate, roottable>>
history == <<leaks, quiet, wrote>>

Has(o, k) == IF o \in Table THEN k \in slots[o] ELSE k \in Fields

\* LVDelegable::GetMetaMethod: in the delegate of a table, in the class of an
\* instance.
HasMeta(o, op) ==
    IF o \in Table THEN delegate[o] # None /\ MetaName[op] \in slots[delegate[o]]
    ELSE op \in ClassMeta

Pushed(op) == IF op \in {"get", "delete", "clone"} THEN 2 ELSE 3

\* t, its delegate, the delegate of that, ...: what every set has that has t
\* and the delegates of its own.
Closed(S) == \A u \in S : delegate[u] \in S \cup {None}
Above(t) == {d \in Table : \A S \in SUBSET Table : t \in S /\ Closed(S) => d \in S}

Innermost == pending[Len(pending)]
Waiting == pending # <<>>
AtPc(op, pc) == Waiting /\ Innermost.op = op /\ Innermost.pc = pc

Goto(pc) == pending' = [pending EXCEPT ![Len(pending)].pc = pc]

\* root is the table that the call falls back to, or None: the nested calls do
\* not (DONT_FALL_BACK), nor those from a closure whose root is gone.
Call(op, o, k, root) ==
    [op |-> op, self |-> o, key |-> k, root |-> root, pc |-> "own"]

\* The innermost call returns: it found the slot in an object ("found"), a
\* metamethod or a default delegate answered, there is no such slot
\* ("missing"), or a metamethod failed.  What the call of the script was for is
\* kept with its answer.
NoAnswer == [op |-> "none"]
Answer(c, how, in, outermost) ==
    [op |-> c.op, key |-> c.key, how |-> how, in |-> in,
     self |-> IF outermost THEN c.self ELSE None,
     root |-> IF outermost THEN c.root ELSE None]

Return(how, in) ==
    /\ pending' = SubSeq(pending, 1, Len(pending) - 1)
    /\ ret' = Answer(Innermost, how, in, Len(pending) = 1)

Succeeded == ret.how \in {"found", "answered"}

Nest(pc, call) ==
    /\ Len(pending) < MaxPending
    /\ pending' = Append([pending EXCEPT ![Len(pending)].pc = pc], call)

-----------------------------------------------------------------------------
\* The script: the code that runs when nothing is pending, and metamethods.

Running == IF Waiting THEN Innermost.pc = "call" ELSE TRUE
Script == Running /\ calls < MaxCalls /\ calls' = calls + 1 /\ ret' = NoAnswer

\* Anything but a Get or a Set ends the quiet after a Set.
Disturb == quiet' = FALSE /\ wrote' = None

LookUp(op, o, k) ==
    LET still == op \in {"get", "set"} /\ (quiet \/ (~Waiting /\ op = "set"))
        same == ret.op = "set" /\ ret.how = "found" /\ ret.self = o /\ ret.key = k
    IN  /\ quiet' = still
        /\ wrote' = IF still /\ Waiting THEN wrote
                    ELSE IF still /\ op = "get" /\ same THEN ret.in ELSE None

Begin(op, o, k, root) ==
    /\ Script /\ Len(pending) < MaxPending
    /\ pending' = Append(pending, Call(op, o, k, root))
    /\ LookUp(op, o, k)
    /\ UNCHANGED <<heap, top, leaks>>

\* Seeded bug: SetDelegate refuses only a table as its own delegate.
Refused_Self(t, d) == d = t

\* LVDelegable::SetDelegate walks up from the new delegate.
Refused(t, d) == d # None /\ t \in Above(d)

\* lv_setdelegate
SetDelegate(t, d) ==
    /\ Script /\ ~Refused(t, d)
    /\ delegate' = [delegate EXCEPT ![t] = d]
    /\ Disturb
    /\ UNCHANGED <<exists, slots, roottable, pending, top, leaks>>

\* lv_rawset and lv_rawdeleteslot
RawSlot(t, k, there) ==
    /\ Script
    /\ slots' = [slots EXCEPT ![t] = IF there THEN @ \cup {k} ELSE @ \ {k}]
    /\ Disturb
    /\ UNCHANGED <<exists, delegate, roottable, pending, top, leaks>>

\* lv_setroottable
SetRootTable(t) ==
    /\ Script
    /\ roottable' = t
    /\ Disturb
    /\ UNCHANGED <<exists, slots, delegate, pending, top, leaks>>

\* The Gets that fall back to the root of their closure.
Rooted == {i \in 1 .. Len(pending) : pending[i].op = "get" /\ pending[i].root # None}

\* lv_setclosureroot, on the closure that the calls in W come from: it matters
\* to a Get that has not looked up the root yet.
SetRoot(W, t) ==
    /\ Script /\ W # {} /\ \A i, j \in W : pending[i].root = pending[j].root
    /\ pending' = [i \in 1 .. Len(pending) |->
                     IF i \in W THEN [pending[i] EXCEPT !.root = t] ELSE pending[i]]
    /\ Disturb
    /\ UNCHANGED <<heap, top, leaks>>

-----------------------------------------------------------------------------
\* Metamethods

\* The arguments are pushed and the closure is called.
CallMeta ==
    /\ Waiting /\ Innermost.pc = "meta"
    /\ HasMeta(Innermost.self, Innermost.op)
    /\ Goto("call")
    /\ top' = top + Pushed(Innermost.op)
    /\ UNCHANGED <<heap, ret, history, calls>>

\* The metamethod returns a value.
MetaReturns ==
    /\ Waiting /\ Innermost.pc = "call"
    /\ Return("answered", IF Innermost.op = "clone" THEN Innermost.self ELSE None)
    /\ top' = top - Pushed(Innermost.op)
    /\ UNCHANGED <<heap, history, calls>>

\* It fails with an error, or in CallMetaMethod with any.
MetaFails ==
    /\ Waiting /\ Innermost.pc = "call"
    /\ Return("failed", None)
    /\ top' = top - Pushed(Innermost.op)
    /\ UNCHANGED <<heap, history, calls>>

\* Seeded bug: FallBackGet leaves its arguments too.
Kept_Both(op) == Pushed(op)

\* What a clean failure leaves: FallBackSet pops its arguments only after an
\* error (vm.cpp:1666).
Kept(op) == IF op = "set" THEN 3 ELSE 0

\* It throws null: FallBackGet and FallBackSet find no match and go on.
MetaMisses ==
    /\ AtPc("get", "call") \/ AtPc("set", "call")
    /\ Goto(IF Innermost.op = "get" THEN "default" ELSE "root")
    /\ top' = top - Pushed(Innermost.op) + Kept(Innermost.op)
    /\ leaks' = IF Innermost.op = "set" THEN leaks + 1 ELSE leaks
    /\ UNCHANGED <<heap, ret, quiet, wrote, calls>>

Meta == CallMeta \/ MetaReturns \/ MetaFails \/ MetaMisses

-----------------------------------------------------------------------------
\* LVVM::Get and LVVM::Set

\* Seeded bug: Set asks the metamethod before the delegates.
AfterOwn_Meta(op, o) ==
    IF o \in Table /\ delegate[o] # None /\ ~(op = "set" /\ HasMeta(o, op)) THEN "down"
    ELSE IF op = "get" /\ o \in Table THEN "default" ELSE "meta"

\* Where the search goes when the object itself has no such slot.  A table
\* without delegate has no metamethods, and FallBackGet returns at once.
AfterOwn(op, o) ==
    IF o \in Table /\ delegate[o] # None THEN "down"
    ELSE IF op = "get" /\ o \in Table THEN "default" ELSE "meta"

Own ==
    /\ AtPc("get", "own") \/ AtPc("set", "own")
    /\ LET f == Innermost
       IN  IF Has(f.self, f.key) THEN Return("found", f.self)
           ELSE IF AfterOwn(f.op, f.self) = "down"
           THEN Nest("down", Call(f.op, delegate[f.self], f.key, None)) /\ UNCHANGED ret
           ELSE Goto(AfterOwn(f.op, f.self)) /\ UNCHANGED ret
    /\ UNCHANGED <<heap, top, history, calls>>

\* The call for the delegate, or Get for the root table, has returned: false
\* both for a slot that is not there and for a metamethod that failed.  After
\* the root table there is nothing else to ask.
Returned ==
    /\ Waiting /\ Innermost.pc \in {"down", "up"}
    /\ IF Succeeded THEN Return(ret.how, ret.in)
       ELSE IF Innermost.pc = "up" THEN Return("missing", None)
       ELSE Goto("meta") /\ ret' = NoAnswer
    /\ UNCHANGED <<heap, top, history, calls>>

\* FallBackGet and FallBackSet find no metamethod; so do the others.
NoMeta ==
    /\ AtPc("get", "meta") \/ AtPc("set", "meta")
    /\ ~HasMeta(Innermost.self, Innermost.op)
    /\ Goto(IF Innermost.op = "get" THEN "default" ELSE "root")
    /\ UNCHANGED <<heap, ret, top, history, calls>>

\* InvokeDefaultDelegate
DefaultDelegate ==
    /\ AtPc("get", "default")
    /\ IF Innermost.key \in Default THEN Return("answered", None)
       ELSE Goto("root") /\ UNCHANGED ret
    /\ UNCHANGED <<heap, top, history, calls>>

\* With the function's own object, the root table is the last resort: Get
\* looks it up in that of its closure, with the delegates of that, Set only in
\* the table of the VM itself.
RootTable ==
    /\ AtPc("get", "root") \/ AtPc("set", "root")
    /\ LET f == Innermost
       IN  IF f.root = None \/ (f.op = "set" /\ f.key \notin slots[roottable])
           THEN Return("missing", None)
           ELSE IF f.op = "set" THEN Return("found", roottable)
           ELSE Nest("up", Call("get", f.root, f.key, None)) /\ UNCHANGED ret
    /\ UNCHANGED <<heap, top, history, calls>>

-----------------------------------------------------------------------------
\* LVVM::NewSlot, LVVM::DeleteSlot and LVVM::Clone

\* A slot that the table has not and its delegate's _newslot makes.
NewSlot ==
    /\ AtPc("newslot", "own")
    /\ LET f == Innermost
       IN  IF HasMeta(f.self, f.op) /\ (f.self \in Inst \/ ~Has(f.self, f.key))
           THEN Goto("meta") /\ UNCHANGED <<slots, ret>>
           ELSE /\ Return(IF f.self \in Table THEN "found" ELSE "failed", f.self)
                /\ slots' = IF f.self \in Table THEN [slots EXCEPT ![f.self] = @ \cup {f.key}]
                            ELSE slots
    /\ UNCHANGED <<exists, delegate, roottable, top, history, calls>>

DeleteSlot ==
    /\ AtPc("delete", "own")
    /\ LET f == Innermost
       IN  IF HasMeta(f.self, f.op) THEN Goto("meta") /\ UNCHANGED <<slots, ret>>
           ELSE /\ Return(IF f.self \in Table /\ Has(f.self, f.key) THEN "found" ELSE "missing",
                          f.self)
                /\ slots' = IF f.self \in Table THEN [slots EXCEPT ![f.self] = @ \ {f.key}]
                            ELSE slots
    /\ UNCHANGED <<exists, delegate, roottable, top, history, calls>>

\* LVTable::Clone copies the slots and the delegate; then _cloned, asked of
\* the copy, may fail.
Clone(u) ==
    /\ AtPc("clone", "own") /\ Innermost.self \in Table /\ u \notin exists
    /\ exists' = exists \cup {u}
    /\ slots' = [slots EXCEPT ![u] = slots[Innermost.self]]
    /\ delegate' = [delegate EXCEPT ![u] = delegate[Innermost.self]]
    /\ IF HasMeta(Innermost.self, "clone")
       THEN /\ pending' = [pending EXCEPT ![Len(pending)] =
                             [Call("clone", u, @.key, None) EXCEPT !.pc = "meta"]]
            /\ UNCHANGED ret
       ELSE Return("found", u)
    /\ UNCHANGED <<roottable, top, history, calls>>

-----------------------------------------------------------------------------
Acyclic == \A t \in Table : delegate[t] # None => t \notin Above(delegate[t])

\* The tables the search begins with: any slots, any delegates SetDelegate
\* lets through.
Init ==
    /\ exists \in {Table, Table \ {CHOOSE t \in Table : t # Root}}
    /\ slots \in [Table -> SUBSET Key]
    /\ delegate \in [Table -> exists \cup {None}]
    /\ \A t \in Table \ exists : slots[t] = {} /\ delegate[t] = None
    /\ Acyclic
    /\ roottable = Root
    /\ pending = <<>> /\ ret = NoAnswer /\ top = 0
    /\ leaks = 0 /\ quiet = FALSE /\ wrote = None /\ calls = 0

Start ==
    \/ \E o \in exists \cup Inst, op \in Op, k \in Name, root \in exists \cup {None} :
           /\ root # None => op = "get" \/ (op = "set" /\ root = roottable)
           /\ op = "clone" => o \in Table /\ exists # Table
           /\ Begin(op, o, k, root)
    \/ \E t \in exists, d \in exists \cup {None} : SetDelegate(t, d)
    \/ \E t \in exists, k \in Key, there \in BOOLEAN : RawSlot(t, k, there)
    \/ \E t \in exists : SetRootTable(t)
    \/ \E W \in SUBSET Rooted, t \in exists : SetRoot(W, t)

Step ==
    \/ Own \/ Returned \/ NoMeta \/ DefaultDelegate \/ RootTable
    \/ NewSlot \/ DeleteSlot \/ \E u \in Table : Clone(u)

Next == Start \/ Step \/ Meta

Spec == Init /\ [][Next]_vars

\* The interpreter goes on, and a metamethod returns or fails.
FairSpec == Spec /\ WF_vars(Step \/ Meta)

-----------------------------------------------------------------------------
\* Properties

\* The types of the variables.
TypeOK ==
    /\ roottable \in exists /\ exists \subseteq Table
    /\ slots \in [Table -> SUBSET Key]
    /\ delegate \in [Table -> exists \cup {None}]
    /\ top \in Nat /\ leaks \in Nat /\ quiet \in BOOLEAN /\ calls \in 0 .. MaxCalls

\* Whatever metamethods do between two steps of a lookup, no chain of
\* delegates closes on itself (object.cpp:126).
DelegatesAcyclic == Acyclic

\* The calls that wait in a metamethod with n arguments, and all the arguments.
InMeta(n) == {i \in 1 .. Len(pending) : pending[i].pc = "call" /\ Pushed(pending[i].op) = n}
Arguments == 2 * Cardinality(InMeta(2)) + 3 * Cardinality(InMeta(3))

\* Every way out of every operation takes its arguments off the stack, but
\* for the three that a cleanly failing _set leaves (vm.cpp:1666).
StackBalanced == top = Arguments + 3 * leaks

\* o, its delegate, and so on up to the first object that has the slot: what
\* every set has that has o and the delegates of its tables without the slot.
Searched(o, k) ==
    {x \in Object : \A S \in SUBSET Object :
        o \in S /\ (\A u \in S \cap Table : k \in slots[u] \/ delegate[u] \in S \cup {None})
            => x \in S}

\* That first object, the only one of them with the slot, if there is one.
Nearest(o, k) == {x \in Searched(o, k) : Has(x, k)}

\* A Get comes after a Set of the same object and name that found its slot, and
\* in between, metamethods included, the script has called nothing else.  When
\* the object or its delegates have the slot, Get reads the one that Set wrote
\* and asks no metamethod.  When Set wrote the root table, Get, with that for
\* its root, reads it there too unless a metamethod on the way answers or fails
\* (vm.cpp:1500) or the default delegates have the name: it never misses it.
GetSeesSet ==
    (~Waiting /\ wrote # None) =>
        LET reads == ret.how = "found" /\ ret.in = wrote
        IN  IF Nearest(ret.self, ret.key) # {} THEN reads
            ELSE ret.root = roottable => reads \/ ret.how \in {"answered", "failed"}

\* Every operation ends: with acyclic delegates no lookup goes round.
LookupsEnd == Waiting ~> ~Waiting
=============================================================================
