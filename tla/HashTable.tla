------------------------------ MODULE HashTable ------------------------------
(***************************************************************************)
(* LVTable (table.cpp, table.h): the hash table under tables, classes, the *)
(* literals of the compiler and the keywords of the lexer.  A table is an  *)
(* array of nodes; a node chains to the next node with _next; a new key    *)
(* goes to its main position or to the node _firstfree, which only moves   *)
(* down; a table that runs out of free nodes is hashed again.  Removing a  *)
(* key leaves its node in its chain.                                       *)
(*                                                                         *)
(* Nodes are numbered from 0 as in the code.  Keys and values are atoms;   *)
(* the hash of a key is a constant.  Delegates, weak references and the    *)
(* allocation of memory are left out.                                      *)
(***************************************************************************)
EXTENDS Integers, Sequences, SequencesExt, FiniteSetsExt

CONSTANTS
    Key,       \* the keys
    Val,       \* the values
    Nil,       \* OT_NULL: the key of a free node, the value of an unset one
    Hash,      \* HashObj, for each key; null hashes to 0
    MinPower2, \* MINPOWER2, 4 in object.h
    MaxPower2  \* bound on the number of nodes

ASSUME HashTableAssumption ==
    /\ Nil \notin Key /\ Nil \notin Val
    /\ Hash \in [Key -> Nat]
    /\ MinPower2 \in Nat /\ MinPower2 >= 4
    /\ MaxPower2 \in Nat

VARIABLES
    table,   \* the LVTable: _nodes, _firstfree and _usednodes
    cursor,  \* the index the iteration hands to the next call of Next
    todo,    \* history: the keys the iteration has still to return, or NoKeys
    last     \* what the last call of Next returned: <<key, value>> or <<>>

tableVars == <<table, cursor, todo, last>>

NoNode == -1
NoKeys == {Nil}

Free == [key |-> Nil, val |-> Nil, next |-> NoNode]

Size(t) == Cardinality(DOMAIN t.nodes)

\* HashObj(key) & (_numofnodes - 1)
Main(t, k) == (IF k = Nil THEN 0 ELSE Hash[k]) % Size(t)

\* AllocNodes
Alloc(n) == [nodes |-> [i \in 0 .. n - 1 |-> Free], firstfree |-> n - 1, used |-> 0]

\* The nodes that _Get visits from node h on, then NoNode; a chain that does
\* not end is cut at as many nodes as there are.
Path(t, h) ==
    LET visit[i \in 1 .. Size(t)] ==
            IF i = 1 THEN h
            ELSE IF visit[i - 1] = NoNode THEN NoNode
            ELSE t.nodes[visit[i - 1]].next
    IN  visit

\* The first node from h on that has the key, or whose _next is node n.
FirstWith(t, h, k) ==
    LET path == Path(t, h)
        hits == {i \in 1 .. Size(t) : path[i] # NoNode /\ t.nodes[path[i]].key = k}
    IN  IF hits = {} THEN NoNode ELSE path[Min(hits)]

FirstBefore(t, h, n) ==
    LET path == Path(t, h)
    IN  path[Min({i \in 1 .. Size(t) : path[i] # NoNode /\ t.nodes[path[i]].next = n})]

\* _Get
Find(t, k) == FirstWith(t, Main(t, k), k)

\* The node before node n in the chain of its key: othern, in NewSlot.
Before(t, n) == FirstBefore(t, Main(t, t.nodes[n].key), n)

\* Seeded bug: the colliding node moves and its predecessor is not told.
Placed_Unlinked(t, k) ==
    LET h == Main(t, k)
        mp == t.nodes[h]
        f == t.firstfree
    IN  IF mp.key = Nil
          THEN [node |-> h, nodes |-> [t.nodes EXCEPT ![h].key = k]]
        ELSE IF h > f /\ Main(t, mp.key) # h
          THEN [node |-> h, nodes |-> [t.nodes EXCEPT ![f] = mp,
                                                      ![h] = [Free EXCEPT !.key = k]]]
          ELSE [node |-> f,
                nodes |-> [t.nodes EXCEPT ![f] = [@ EXCEPT !.key = k, !.next = mp.next],
                                          ![h].next = f]]

\* NewSlot up to "correct firstfree": the nodes with the new key, the node
\* it is in as the one whose value is still to be set.
Placed(t, k) ==
    LET h == Main(t, k)
        mp == t.nodes[h]
        f == t.firstfree
    IN  IF mp.key = Nil
          THEN [node |-> h, nodes |-> [t.nodes EXCEPT ![h].key = k]]
        ELSE IF h > f /\ Main(t, mp.key) # h
          THEN [node |-> h,
                nodes |-> [t.nodes EXCEPT ![Before(t, h)].next = f,
                                          ![f] = mp,
                                          ![h] = [Free EXCEPT !.key = k]]]
          ELSE [node |-> f,
                nodes |-> [t.nodes EXCEPT ![f] = [@ EXCEPT !.key = k, !.next = mp.next],
                                          ![h].next = f]]

\* The loop that moves _firstfree down to a free node; 0 when there is none.
FreeBelow(nodes, f) ==
    {i \in 0 .. f : nodes[i].key = Nil /\ nodes[i].next = NoNode}

\* NewSlot without the hashing again: full says that it calls for one, with
\* the key in place but neither its value set nor the slot counted.
Insert(t, k, v) ==
    LET n == Find(t, k)
        p == Placed(t, k)
        free == FreeBelow(p.nodes, t.firstfree)
    IN  IF n # NoNode
          THEN [full |-> FALSE, table |-> [t EXCEPT !.nodes[n].val = v]]
        ELSE IF free # {}
          THEN [full |-> FALSE,
                table |-> [nodes |-> [p.nodes EXCEPT ![p.node].val = v],
                           firstfree |-> Max(free), used |-> t.used + 1]]
          ELSE [full |-> TRUE,
                table |-> [nodes |-> p.nodes, firstfree |-> 0, used |-> t.used]]

\* Rehash inserts what is in the old nodes, in their order.
Reinserted(t, size) ==
    LET add(r, n) == IF n.key = Nil \/ r.full THEN r
                     ELSE Insert(r.table, n.key, n.val)
        upto[i \in 0 .. Size(t)] == IF i = 0 THEN [full |-> FALSE, table |-> Alloc(size)]
                                    ELSE add(upto[i - 1], t.nodes[i - 1])
    IN  upto[Size(t)]

\* Rehash without the sizes that keep the number of nodes.
NewSize(t) ==
    LET size == Size(t)
        quarter == size \div 4
    IN  IF t.used >= size - quarter THEN size * 2
        ELSE IF t.used <= quarter /\ size > MinPower2 THEN size \div 2
        ELSE size

Rehash(t, force) ==
    IF NewSize(t) = Size(t) /\ ~ force THEN t
    ELSE Reinserted(t, NewSize(t)).table

\* Seeded bug: NewSlot does not insert again after the Rehash.
Inserted_Once(t, k, v) ==
    LET r == Insert(t, k, v)
    IN  IF r.full THEN Rehash(r.table, TRUE) ELSE r.table

\* NewSlot with its second call, for the key that made the table full.
Inserted(t, k, v) ==
    LET r == Insert(t, k, v)
    IN  IF r.full THEN Insert(Rehash(r.table, TRUE), k, v).table ELSE r.table

\* Remove: the node stays in its chain.
Removed(t, k) ==
    LET n == Find(t, k)
    IN  Rehash([t EXCEPT !.nodes[n].key = Nil, !.nodes[n].val = Nil,
                         !.used = @ - 1], FALSE)

\* Clear: the values and keys of all nodes go, then the nodes themselves.
Cleared(t) ==
    Rehash([t EXCEPT !.used = 0,
                     !.nodes = [i \in DOMAIN @ |-> [@[i] EXCEPT !.key = Nil,
                                                                !.val = Nil]]], TRUE)

\* Clone without _FAST_CLONE: the slots are created again one by one.
Cloned(t) == Reinserted(t, Size(t)).table

----------------------------------------------------------------------------
(* Operations of scripts and of the API on a table.                        *)

Slots(t) == {i \in DOMAIN t.nodes : t.nodes[i].key # Nil}
KeysOf(t) == {t.nodes[i].key : i \in Slots(t)}

\* Create: room for some number of slots, rounded up to a power of two.
TableInit ==
    /\ \E n \in {MinPower2, 2 * MinPower2} : n <= MaxPower2 /\ table = Alloc(n)
    /\ cursor = NoNode
    /\ todo = NoKeys
    /\ last = <<>>

\* VM::NewSlot and lv_rawset, with a key that is not null.
NewSlot(k, v) ==
    /\ table' = Inserted(table, k, v)
    /\ Size(table') <= MaxPower2
    /\ todo' = IF Find(table, k) = NoNode THEN NoKeys ELSE todo
    /\ last' = <<>>
    /\ UNCHANGED cursor

\* Set, and with it VM::Set, which lets null through.
Set(k, v) ==
    /\ Find(table, k) # NoNode
    /\ table' = [table EXCEPT !.nodes[Find(table, k)].val = v]
    /\ last' = <<>>
    /\ UNCHANGED <<cursor, todo>>

\* VM::DeleteSlot and lv_rawdeleteslot look the key up first.
DeleteSlot(k) ==
    /\ Find(table, k) # NoNode
    /\ table' = Removed(table, k)
    /\ Size(table') <= MaxPower2
    /\ todo' = IF Size(table') # Size(table) THEN NoKeys ELSE todo \ {k}
    /\ last' = <<>>
    /\ UNCHANGED cursor

Clear ==
    /\ table' = Cleared(table)
    /\ todo' = NoKeys
    /\ last' = <<>>
    /\ UNCHANGED cursor

\* The script goes on with the copy.
Clone ==
    /\ table' = Cloned(table)
    /\ cursor' = NoNode
    /\ todo' = NoKeys
    /\ last' = <<>>

\* foreach and lv_next with a null position.
Begin ==
    /\ cursor' = 0
    /\ todo' = KeysOf(table)
    /\ last' = <<>>
    /\ UNCHANGED table

\* LVTable::Next: the first used node at or after the position.
Iterate ==
    /\ cursor # NoNode
    /\ LET rest == {i \in Slots(table) : i >= cursor}
           n == table.nodes[Min(rest)]
       IN  \/ /\ rest # {}
              /\ cursor' = Min(rest) + 1
              /\ todo' = todo \ {n.key}
              /\ last' = <<n.key, n.val>>
           \/ /\ rest = {}
              /\ cursor' = NoNode
              /\ todo' = NoKeys
              /\ last' = <<>>
    /\ UNCHANGED table

TableNext ==
    \/ \E k \in Key : \/ DeleteSlot(k)
                      \/ \E v \in Val : NewSlot(k, v) \/ Set(k, v)
    \/ \E v \in Val : Set(Nil, v)
    \/ Clear \/ Clone \/ Begin \/ Iterate

TableSpec == TableInit /\ [][TableNext]_tableVars

----------------------------------------------------------------------------
(* Properties.                                                             *)

TableTypeOK ==
    /\ table.nodes \in [DOMAIN table.nodes ->
                          [key : Key \cup {Nil}, val : Val \cup {Nil},
                           next : DOMAIN table.nodes \cup {NoNode}]]
    /\ table.firstfree \in DOMAIN table.nodes
    /\ table.used \in Nat
    /\ cursor \in Nat \cup {NoNode}
    /\ todo \subseteq Key \cup {Nil}

\* The loops of _Get and of NewSlot along a chain stop: no node comes after
\* itself.
ChainsEnd ==
    \A h \in DOMAIN table.nodes :
        LET end == Path(table, h)[Size(table)]
        IN  end = NoNode \/ table.nodes[end].next = NoNode

\* Every lookup ends, and _Get finds each key in the node it is in: a key is
\* in the table once, and the chain of its main position still leads to it
\* after nodes were moved, removed and used again (NewSlot,
\* table.cpp:110-162).
LookupsFind ==
    /\ ChainsEnd
    /\ \A i \in Slots(table) : Find(table, table.nodes[i].key) = i

\* _firstfree is a node that is in no chain and that no key is in, so a new
\* key that is put there disturbs no other (table.cpp:152-159).
FirstFreeIsFree ==
    /\ table.nodes[table.firstfree].key = Nil
    /\ table.nodes[table.firstfree].next = NoNode
    /\ \A i \in DOMAIN table.nodes : table.nodes[i].next # table.firstfree

\* _usednodes, which decides when a table grows and shrinks, is the number
\* of its keys, however often NewSlot called itself after a Rehash.
UsedCountsKeys == table.used = Cardinality(Slots(table))

\* Rehash and Clone never run out of nodes while they insert: NewSlot then
\* calls neither of them again (table.cpp:55-59, 91-93).
RehashFits ==
    /\ ~ Reinserted(table, Size(table)).full
    /\ \A k \in Key \ KeysOf(table) :
          LET r == Insert(table, k, Nil)
          IN  r.full => ~ Reinserted(r.table, NewSize(r.table)).full

\* The lookups of a table find what is in it, whatever was moved, removed and
\* hashed again before (table.cpp:39-162).
KeysAreFound == LookupsFind /\ FirstFreeIsFree /\ UsedCountsKeys /\ RehashFits

\* The slots as a map.
Contents(t) ==
    [k \in KeysOf(t) |-> t.nodes[CHOOSE i \in Slots(t) : t.nodes[i].key = k].val]

\* A table is a Dictionary: each operation leaves the slots a map would have,
\* and an iteration returns each key once while no slot is created and the
\* table keeps its size.
Dict == INSTANCE Dictionary WITH dict <- Contents(table), Value <- Val

IsDictionary == Dict!Spec
=============================================================================
