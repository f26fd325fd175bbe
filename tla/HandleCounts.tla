---------------------------- MODULE HandleCounts ----------------------------
(***************************************************************************)
(* What lv_addref, lv_release and lv_getrefcount promise to a host program *)
(* (api.cpp): a number of holds per object.  The first hold makes the      *)
(* object a root of the garbage collector, the release of the last one is  *)
(* answered with "last", and counting answers the number of holds.  How    *)
(* the holds are stored is not visible here; RefTable implements this.     *)
(***************************************************************************)
EXTENDS Naturals

CONSTANTS
    Obj,       \* the objects the host can hold
    MaxHolds   \* bound on the holds of one object

VARIABLES
    count,     \* count[o]: the holds on object o
    reply      \* the answer of the latest call: <<"held", 0>>, <<"last", 0 or 1>>, <<"count", n>>,
               \* or <<"none", 0>> before the first

vars == <<count, reply>>

Init ==
    /\ count = [o \in Obj |-> 0]
    /\ reply = <<"none", 0>>

Hold(o) ==
    /\ reply' = <<"held", 0>>
    /\ count[o] < MaxHolds
    /\ count' = [count EXCEPT ![o] = @ + 1]

Drop(o) ==
    /\ count[o] > 0
    /\ reply' = <<"last", IF count[o] = 1 THEN 1 ELSE 0>>
    /\ count' = [count EXCEPT ![o] = @ - 1]

Count(o) ==
    /\ reply' = <<"count", count[o]>>
    /\ UNCHANGED count

Next == \E o \in Obj : Hold(o) \/ Drop(o) \/ Count(o)

Spec == Init /\ [][Next]_vars
=============================================================================
