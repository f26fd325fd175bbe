------------------------------ MODULE RefTable ------------------------------
(***************************************************************************)
(* The table of host handles (state.cpp, RefTable): which objects the host *)
(* program holds through lv_addref, and how often.  It is a hash table of  *)
(* preallocated nodes that doubles when it is full; a node is either in    *)
(* the chain of its bucket or in the free list.  RefTable::Mark makes      *)
(* every object of the table a root of the garbage collector.              *)
(*                                                                         *)
(* The linked lists are sequences of node numbers, first node first.       *)
(* The hash of an object is a constant, and "& (_numofslots - 1)" is "%"   *)
(* because the number of slots is a power of two.                          *)
(***************************************************************************)
EXTENDS Naturals, FiniteSets, SequencesExt

CONSTANTS
    Obj,          \* the refcounted objects of the host
    NullObject,   \* the null object of a free node
    HashObj,      \* HashObj[o]: the hash of object o
    InitSlots,    \* 4 in the constructor
    MaxHolds,     \* bound on the holds of one object
    CountUnheld   \* TRUE: lv_getrefcount is also called on objects not held

ASSUME RefTableAssumption ==
    /\ NullObject \notin Obj
    /\ HashObj \in [Obj -> Nat]
    /\ InitSlots \in Nat \ {0}
    /\ MaxHolds \in Nat
    /\ CountUnheld \in BOOLEAN

VARIABLES
    reftable, \* the RefTable: nodes, buckets, freelist, slotused
    failed,   \* TRUE once an assert of the table has failed (the process aborts)
    holds,    \* history: lv_addref calls on an object minus lv_release calls
    reply     \* the answer of the latest call, as in HandleCounts

refVars == <<reftable, failed, holds, reply>>

----------------------------------------------------------------------------
(* The table and its helpers.  A helper maps a table to a table.           *)

EmptyNode == [obj |-> NullObject, refs |-> 0]

\* RefTable::AllocNodes: empty buckets, every node free, in order.
AllocNodes(size) ==
    [ nodes    |-> [k \in 0 .. size - 1 |-> EmptyNode],
      buckets  |-> [b \in 0 .. size - 1 |-> <<>>],
      freelist |-> [i \in 1 .. size |-> i - 1],
      slotused |-> 0 ]

NumOfSlots(t) == Cardinality(DOMAIN t.nodes)

MainPos(t, o) == HashObj[o] % NumOfSlots(t)

\* The places of o in the chain of its bucket, the loop of RefTable::Get.
Places(t, o) ==
    LET chain == t.buckets[MainPos(t, o)]
    IN  {i \in DOMAIN chain : t.nodes[chain[i]].obj = o}

Place(t, o) == CHOOSE i \in Places(t, o) : \A j \in Places(t, o) : i <= j

NodeOf(t, o) == t.buckets[MainPos(t, o)][Place(t, o)]

\* RefTable::Add: the first free node becomes the head of the bucket.
Add(t, o) ==
    LET n == Head(t.freelist)
    IN  [ nodes    |-> [t.nodes EXCEPT ![n].obj = o],
          buckets  |-> [t.buckets EXCEPT ![MainPos(t, o)] = <<n>> \o @],
          freelist |-> Tail(t.freelist),
          slotused |-> t.slotused + 1 ]

\* The numbers of S, the greatest first.
LastFirst(S) ==
    [i \in 1 .. Cardinality(S) |-> CHOOSE k \in S : Cardinality({j \in S : j >= k}) = i]

\* RefTable::Resize of a full table: the nodes are added again in array
\* order, so node k stays node k and a later node is earlier in its chain.
Rehashed(t, size) ==
    LET old  == NumOfSlots(t)
        used == {k \in 0 .. old - 1 : t.nodes[k].obj # NullObject}
    IN  [ nodes    |-> [k \in 0 .. size - 1 |->
                            IF k < old THEN t.nodes[k] ELSE EmptyNode],
          buckets  |-> [b \in 0 .. size - 1 |->
                            LastFirst({k \in used : HashObj[t.nodes[k].obj] % size = b})],
          freelist |-> [i \in 1 .. size - old |-> old + i - 1],
          slotused |-> old ]

MustResize(t, o) == Places(t, o) = {} /\ NumOfSlots(t) = t.slotused

\* RefTable::Get with add = true.
GetOrAdd(t, o) ==
    IF Places(t, o) # {} THEN t
    ELSE Add(IF MustResize(t, o) THEN Rehashed(t, 2 * NumOfSlots(t)) ELSE t, o)

\* The asserts on the way: Get (_freelist == 0), Resize (t->refs != 0,
\* nfound == oldnumofslots) and Add (newnode->refs == 0).
AssertFails(t, o) ==
    \/ /\ MustResize(t, o)
       /\ \/ t.freelist # <<>>
          \/ \E k \in DOMAIN t.nodes :
                t.nodes[k].obj = NullObject \/ t.nodes[k].refs = 0
    \/ /\ Places(t, o) = {} /\ ~ MustResize(t, o)
       /\ t.nodes[Head(t.freelist)].refs # 0

----------------------------------------------------------------------------
(* The calls of the host.  After an assert that fails nothing runs.         *)

RefInit ==
    /\ reftable = AllocNodes(InitSlots)
    /\ failed = FALSE
    /\ holds = [o \in Obj |-> 0]
    /\ reply = <<"none", 0>>

\* lv_addref
AddRef(o) ==
    LET t == GetOrAdd(reftable, o)
    IN  /\ ~ failed
        /\ holds[o] < MaxHolds
        /\ reftable' = [t EXCEPT !.nodes[NodeOf(t, o)].refs = @ + 1]
        /\ holds' = [holds EXCEPT ![o] = @ + 1]
        /\ reply' = <<"held", 0>>
        /\ failed' = AssertFails(reftable, o)

\* lv_getrefcount: it looks the object up with add = true.
GetRefCount(o) ==
    LET t == GetOrAdd(reftable, o)
    IN  /\ ~ failed
        /\ CountUnheld \/ holds[o] > 0
        /\ reftable' = t
        /\ reply' = <<"count", t.nodes[NodeOf(t, o)].refs>>
        /\ failed' = AssertFails(reftable, o)
        /\ UNCHANGED holds

\* Seeded bug: the bucket is set to the node's next, as if it were first.
FreeNode_Head(t, o) ==
    LET n == NodeOf(t, o)
        after(chain) == SubSeq(chain, Place(t, o) + 1, Len(chain))
    IN  [ nodes    |-> [t.nodes EXCEPT ![n] = EmptyNode],
          buckets  |-> [t.buckets EXCEPT ![MainPos(t, o)] = after(@)],
          freelist |-> <<n>> \o t.freelist,
          slotused |-> t.slotused - 1 ]

\* Seeded bug: the node is freed with its object, which stays a root.
FreeNode_ObjectKept(t, o) ==
    LET n == NodeOf(t, o)
    IN  [ nodes    |-> [t.nodes EXCEPT ![n].refs = 0],
          buckets  |-> [t.buckets EXCEPT ![MainPos(t, o)] = RemoveAt(@, Place(t, o))],
          freelist |-> <<n>> \o t.freelist,
          slotused |-> t.slotused - 1 ]

\* The last release of an object: its node leaves the chain and is free.
FreeNode(t, o) ==
    LET n == NodeOf(t, o)
    IN  [ nodes    |-> [t.nodes EXCEPT ![n] = EmptyNode],
          buckets  |-> [t.buckets EXCEPT ![MainPos(t, o)] = RemoveAt(@, Place(t, o))],
          freelist |-> <<n>> \o t.freelist,
          slotused |-> t.slotused - 1 ]

\* lv_release.  The host releases what it holds: releasing anything else is
\* the assert(0) of RefTable::Release.
Release(o) ==
    LET refs == reftable.nodes[NodeOf(reftable, o)].refs
    IN  /\ ~ failed
        /\ holds[o] > 0
        /\ reftable' = IF refs = 1
                      THEN FreeNode(reftable, o)
                      ELSE [reftable EXCEPT !.nodes[NodeOf(reftable, o)].refs = @ - 1]
        /\ holds' = [holds EXCEPT ![o] = @ - 1]
        /\ reply' = <<"last", IF refs = 1 THEN 1 ELSE 0>>
        /\ UNCHANGED failed

RefNext == \E o \in Obj : AddRef(o) \/ GetRefCount(o) \/ Release(o)

RefSpec == RefInit /\ [][RefNext]_refVars

----------------------------------------------------------------------------
(* Properties.                                                             *)

Nodes(t) == DOMAIN t.nodes

\* The types of the variables.
RefTypeOK ==
    /\ reftable.nodes \in [0 .. NumOfSlots(reftable) - 1 -> [obj : Obj \cup {NullObject}, refs : Nat]]
    /\ reftable.buckets \in [0 .. NumOfSlots(reftable) - 1 -> Seq(Nodes(reftable))]
    /\ reftable.freelist \in Seq(Nodes(reftable))
    /\ reftable.slotused \in 0 .. NumOfSlots(reftable)
    /\ failed \in BOOLEAN
    /\ holds \in [Obj -> 0 .. MaxHolds]

\* Where node k is in the buckets, and in the free list.
Occurrences(t, k) ==
    {p \in Nodes(t) \X (1 .. NumOfSlots(t)) :
        p[2] \in DOMAIN t.buckets[p[1]] /\ t.buckets[p[1]][p[2]] = k}
FreeAt(t, k) == {i \in DOMAIN t.freelist : t.freelist[i] = k}

\* Every node is in exactly one list, once: the chain that the hash of its
\* object selects when it is used, the free list when it is not.  This is
\* what survives unlinking from the middle of a chain and doubling.
NodesPartitioned ==
    \A k \in Nodes(reftable) :
        IF reftable.nodes[k].obj = NullObject
          THEN Occurrences(reftable, k) = {} /\ Cardinality(FreeAt(reftable, k)) = 1
          ELSE /\ FreeAt(reftable, k) = {}
               /\ Cardinality(Occurrences(reftable, k)) = 1
               /\ \A p \in Occurrences(reftable, k) :
                     p[1] = MainPos(reftable, reftable.nodes[k].obj)

\* What RefTable::Mark gives the collector as roots.
Roots == {reftable.nodes[k].obj : k \in Nodes(reftable)} \ {NullObject}

\* The collector's roots are the objects the host holds: none is lost when
\* the table doubles and none stays after its last release.
RootsAreHeld == Roots = {o \in Obj : holds[o] > 0}

\* The lists of the table and its roots (state.cpp:456-594).
RefsAreHeld == NodesPartitioned /\ RootsAreHeld

\* No assert of RefTable::Get, Resize and Add fails (state.cpp:518, 526, 537,
\* 554): it holds for a host that counts only what it holds.
NoAssertFails == ~ failed

\* The holds the table has on record for o.
Recorded(t, o) == IF Places(t, o) = {} THEN 0 ELSE t.nodes[NodeOf(t, o)].refs

Holds == INSTANCE HandleCounts WITH count <- [o \in Obj |-> Recorded(reftable, o)]

\* The table answers as a plain count of holds per object would, also when
\* lv_getrefcount has added nodes of its own.
CountsHolds == Holds!Spec
=============================================================================
