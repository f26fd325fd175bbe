---------------------------- MODULE ClassObjects ----------------------------
(***************************************************************************)
(* What the class system promises, with no indices and no vectors: a class *)
(* is a map from member names to fields and methods, an instance is a map  *)
(* from the fields of its class to values, and each operation changes one  *)
(* entry of one map.  ClassMembers implements it.                          *)
(***************************************************************************)
EXTENDS Integers

CONSTANTS
    Class,  \* class objects
    Inst,   \* instances
    Key,    \* names of members
    Value,  \* values of members
    None    \* no class, no instance, no member

VARIABLES
    shape,  \* for a class, for each name, its member: [field, val] or None
    record  \* for an instance, its class and the values of its fields

absVars == <<shape, record>>

Member == [field : BOOLEAN, val : Value]
Shape == [Key -> Member \cup {None}]
Record == [class : Class, vals : UNION {[S -> Value] : S \in SUBSET Key}]

FieldsOf(s) == {k \in Key : s[k] # None /\ s[k].field}
Defaults(s) == [k \in FieldsOf(s) |-> s[k].val]
HasInstance(c) == \E i \in Inst : record[i] # None /\ record[i].class = c

Init ==
    /\ shape = [c \in Class |-> None]
    /\ record = [i \in Inst |-> None]

\* A new class has no member, or those of its base at that moment.
New(c, b) ==
    /\ shape[c] = None
    /\ b # None => shape[b] # None
    /\ shape' = [shape EXCEPT ![c] = IF b = None THEN [k \in Key |-> None] ELSE shape[b]]
    /\ UNCHANGED record

\* A definition changes one name of one class.  A field stays a field, and a
\* class that has instances gets no field it did not have.
Define(c, k, field, v) ==
    /\ shape[c] # None
    /\ k \in FieldsOf(shape[c]) => field
    /\ field /\ HasInstance(c) => k \in FieldsOf(shape[c])
    /\ shape' = [shape EXCEPT ![c][k] = [field |-> field, val |-> v]]
    /\ UNCHANGED record

\* An instance starts with the defaults of its class, or as a copy.
Create(i, c) ==
    /\ record[i] = None /\ shape[c] # None
    /\ record' = [record EXCEPT ![i] = [class |-> c, vals |-> Defaults(shape[c])]]
    /\ UNCHANGED shape

Copy(i, j) ==
    /\ record[i] = None /\ record[j] # None
    /\ record' = [record EXCEPT ![i] = record[j]]
    /\ UNCHANGED shape

Assign(i, k, v) ==
    /\ record[i] # None
    /\ k \in DOMAIN record[i].vals
    /\ record' = [record EXCEPT ![i].vals[k] = v]
    /\ UNCHANGED shape

Next ==
    \/ \E c \in Class, b \in Class \cup {None} : New(c, b)
    \/ \E c \in Class, k \in Key, field \in BOOLEAN, v \in Value : Define(c, k, field, v)
    \/ \E i \in Inst, c \in Class : Create(i, c)
    \/ \E i, j \in Inst : Copy(i, j)
    \/ \E i \in Inst, k \in Key, v \in Value : Assign(i, k, v)

Spec == Init /\ [][Next]_absVars
=============================================================================
