---------------------------- MODULE ClassMembers ----------------------------
(***************************************************************************)
(* LVClass and LVInstance (class.cpp, class.h): a class keeps its members  *)
(* in a table from names to indices, an index says whether it is one of    *)
(* the vector of fields or of the vector of methods, and a derived class   *)
(* starts with copies of the three.  An instance is an array of values as  *)
(* long as the vector of fields of its class, whose length is read again   *)
(* whenever the instance is cloned or finalized; so a class is locked when *)
(* its first instance is made.  The host can keep an index (a member       *)
(* handle) and use it on any instance without a check.                     *)
(*                                                                         *)
(* Indices count from 1 here.  Attributes, type tags, release hooks and    *)
(* the _base of a method's closure are left out.                           *)
(***************************************************************************)
EXTENDS Integers, Sequences

CONSTANTS
    Class,     \* class objects
    Inst,      \* instances
    Key,       \* names of members
    Ctor,      \* "constructor", one of them
    Meta,      \* the names of metamethods
    Fun, Data, \* values: closures, native closures; all the others
    None,      \* no class, no instance, no member
    Sizes,     \* the sizes of user data the host asks for
    MaxSteps   \* bound on the number of definitions and assignments

Value == Fun \cup Data

IndexType == [field : BOOLEAN, at : Nat]

ClassType ==
    [base : Class \cup {None}, locked : BOOLEAN, members : [Key -> IndexType],
     defaults : Seq(Value), methods : Seq(Value), meta : [Meta -> Fun \cup {None}],
     ctor : Nat, ud : Nat, fields : Nat, funs : Nat]

InstType == [class : Class, values : Seq(Value), ud : Nat]

HandleType == [class : Class, key : Key, static : BOOLEAN, at : Nat]

ASSUME ClassAssumption ==
    /\ Ctor \in Key \ Meta /\ Meta \subseteq Key
    /\ Fun \cap Data = {}
    /\ None \notin Class \cup Inst \cup Value \cup ClassType \cup InstType \cup HandleType
    /\ Sizes \subseteq Nat
    /\ MaxSteps \in Nat

VARIABLES
    class,   \* for each class made, its LVClass
    inst,    \* for each instance made, its LVInstance
    handle,  \* the MEMBERHANDLE the host keeps, with the class and the name it is of
    steps    \* definitions and assignments made

vars == <<class, inst, handle, steps>>

Made == {c \in Class : class[c] # None}
Live == {i \in Inst : inst[i] # None}
Bases == Made \cup {None}

Index(field, at) == [field |-> field, at |-> at]
NoMember == Index(FALSE, 0)
Defined(m) == m # NoMember

-----------------------------------------------------------------------------
\* Classes

\* LVClass(ss, base): the copies of a derived class are its own from then on.
\* "fields" and "funs" are history: how many indices come from the base.
Derived(b) ==
    IF b = None
    THEN [base |-> None, locked |-> FALSE, members |-> [k \in Key |-> NoMember],
          defaults |-> <<>>, methods |-> <<>>, meta |-> [k \in Meta |-> None],
          ctor |-> 0, ud |-> 0, fields |-> 0, funs |-> 0]
    ELSE [class[b] EXCEPT !.base = b, !.locked = FALSE,
                          !.fields = Len(class[b].defaults), !.funs = Len(class[b].methods)]

\* A class and the classes it derives from.
Closed(S) == \A e \in S \cap Made : class[e].base \in S \cup {None}
Chain(c) == {d \in Class : \A S \in SUBSET Class : c \in S /\ Closed(S) => d \in S}

IsStatic(v, static) == v \in Fun \/ static

WithMethod(r, k, v) ==
    [r EXCEPT !.members[k] = Index(FALSE, Len(r.methods) + 1),
              !.methods = Append(@, v),
              !.ctor = IF k = Ctor THEN Len(r.methods) + 1 ELSE @]

\* Seeded bug: the index of a field is the number of fields before it.
WithField_Early(r, k, v) ==
    [r EXCEPT !.members[k] = Index(TRUE, IF r.defaults = <<>> THEN 1 ELSE Len(r.defaults)),
              !.defaults = Append(@, v)]

WithField(r, k, v) ==
    [r EXCEPT !.members[k] = Index(TRUE, Len(r.defaults) + 1), !.defaults = Append(@, v)]

\* Seeded bug: a constructor that is defined again is appended.
WithMember_Appended(r, k, v, static) ==
    LET m == r.members[k]
    IN  IF m.field THEN [r EXCEPT !.defaults[m.at] = v]
        ELSE IF v \in Fun /\ k \in Meta THEN [r EXCEPT !.meta[k] = v]
        ELSE IF ~IsStatic(v, static) THEN WithField(r, k, v)
        ELSE [WithMethod(r, k, v) EXCEPT !.ctor = IF Defined(m) THEN r.ctor ELSE @]

\* Seeded bug: overriding an inherited field makes a field of its own.
WithMember_Renewed(r, k, v, static) ==
    LET m == r.members[k]
    IN  IF m.field /\ m.at > r.fields THEN [r EXCEPT !.defaults[m.at] = v]
        ELSE IF v \in Fun /\ k \in Meta THEN [r EXCEPT !.meta[k] = v]
        ELSE IF ~IsStatic(v, static) THEN WithField(r, k, v)
        ELSE IF Defined(m) /\ ~m.field THEN [r EXCEPT !.methods[m.at] = v] ELSE WithMethod(r, k, v)

\* LVClass::NewSlot on a class it does not refuse.  A field is overridden
\* whatever the new value is; a method by a static value; a method that gets
\* a value that is not static becomes a field, and its old entry stays.
WithMember(r, k, v, static) ==
    LET m == r.members[k]
    IN  IF m.field THEN [r EXCEPT !.defaults[m.at] = v]
        ELSE IF v \in Fun /\ k \in Meta THEN [r EXCEPT !.meta[k] = v]
        ELSE IF IsStatic(v, static)
             THEN IF Defined(m) THEN [r EXCEPT !.methods[m.at] = v] ELSE WithMethod(r, k, v)
        ELSE WithField(r, k, v)

\* Seeded bug: only the fields of a locked class that are new are refused, and
\* those of a derived class are not.
Refused_Root(c, v, static) == class[c].locked /\ ~IsStatic(v, static) /\ class[c].base = None

\* LVClass::NewSlot returns false.
Refused(c, v, static) == class[c].locked /\ ~IsStatic(v, static)

\* LVClass::CreateInstance: Lock unless it is locked.
Lock(c) ==
    IF class[c].locked THEN class
    ELSE [d \in Class |-> IF d \in Chain(c) THEN [class[d] EXCEPT !.locked = TRUE] ELSE class[d]]

-----------------------------------------------------------------------------
\* Operations

Count == steps < MaxSteps /\ steps' = steps + 1

Init ==
    /\ class = [c \in Class |-> None]
    /\ inst = [i \in Inst |-> None]
    /\ handle = None
    /\ steps = 0

\* CLASS_OP, lv_newclass
NewClass(c, b) ==
    /\ class[c] = None
    /\ class' = [class EXCEPT ![c] = Derived(b)]
    /\ UNCHANGED <<inst, handle, steps>>

\* NewSlot (the operator <-), NewSlotA (a class body, lv_newmember) and
\* lv_rawset; a _newmember metamethod takes the place of a definition that is
\* not raw, and what it does are steps of its own.
NewMember(c, k, v, static, raw) ==
    /\ raw \/ \A m \in Meta : class[c].meta[m] = None
    /\ ~Refused(c, v, static)
    /\ class' = [class EXCEPT ![c] = WithMember(@, k, v, static)]
    /\ Count
    /\ UNCHANGED <<inst, handle>>

\* lv_setclassudsize
SetUdSize(c, n) ==
    /\ ~class[c].locked
    /\ class' = [class EXCEPT ![c].ud = n]
    /\ Count
    /\ UNCHANGED <<inst, handle>>

\* CreateClassInstance, lv_createinstance
NewInstance(i, c) ==
    /\ inst[i] = None
    /\ class' = Lock(c)
    /\ inst' = [inst EXCEPT ![i] = [class |-> c, values |-> class[c].defaults, ud |-> class[c].ud]]
    /\ UNCHANGED <<handle, steps>>

\* LVInstance::Clone: as many values as the class has fields now.
CloneInstance(i, j) ==
    /\ inst[i] = None
    /\ LET c == inst[j].class
       IN  inst' = [inst EXCEPT ![i] =
                      [class |-> c, ud |-> class[c].ud,
                       values |-> [n \in 1 .. Len(class[c].defaults) |-> inst[j].values[n]]]]
    /\ UNCHANGED <<class, handle, steps>>

\* LVInstance::Set
SetField(i, k, v) ==
    LET m == class[inst[i].class].members[k]
    IN  /\ m.field
        /\ inst' = [inst EXCEPT ![i].values[m.at] = v]
        /\ Count
        /\ UNCHANGED <<class, handle>>

\* lv_getmemberhandle
GetHandle(c, k) ==
    LET m == class[c].members[k]
    IN  /\ Defined(m) /\ handle = None
        /\ handle' = [class |-> c, key |-> k, static |-> ~m.field, at |-> m.at]
        /\ UNCHANGED <<class, inst, steps>>

\* Every class from c up to the class of the handle was derived when its base
\* had that entry.  The code does not check it: the host answers for it.
Usable(c) ==
    /\ handle.class \in Chain(c)
    /\ \A d \in Chain(c) \ Chain(handle.class) :
           handle.at <= IF handle.static THEN class[d].funs ELSE class[d].fields

\* lv_setbyhandle with an instance, and with a class
SetByHandle(i, v) ==
    LET c == inst[i].class
    IN  /\ handle # None /\ Usable(c)
        /\ IF handle.static
           THEN class' = [class EXCEPT ![c].methods[handle.at] = v] /\ UNCHANGED inst
           ELSE inst' = [inst EXCEPT ![i].values[handle.at] = v] /\ UNCHANGED class
        /\ Count
        /\ UNCHANGED handle

SetClassByHandle(c, v) ==
    /\ handle # None /\ Usable(c)
    /\ class' = [class EXCEPT ![c] =
                   IF handle.static THEN [@ EXCEPT !.methods[handle.at] = v]
                   ELSE [@ EXCEPT !.defaults[handle.at] = v]]
    /\ Count
    /\ UNCHANGED <<inst, handle>>

Next ==
    \/ \E c \in Class, b \in Bases : NewClass(c, b)
    \/ \E c \in Made, k \in Key, v \in Value, static, raw \in BOOLEAN : NewMember(c, k, v, static, raw)
    \/ \E c \in Made, n \in Sizes : SetUdSize(c, n)
    \/ \E i \in Inst, c \in Made : NewInstance(i, c)
    \/ \E i \in Inst, j \in Live : CloneInstance(i, j)
    \/ \E i \in Live, k \in Key, v \in Value : SetField(i, k, v)
    \/ \E c \in Made, k \in Key : GetHandle(c, k)
    \/ \E i \in Live, v \in Value : SetByHandle(i, v)
    \/ \E c \in Made, v \in Value : SetClassByHandle(c, v)

Spec == Init /\ [][Next]_vars

-----------------------------------------------------------------------------
\* Properties

\* The types of the variables.
TypeOK ==
    /\ class \in [Class -> ClassType \cup {None}]
    /\ inst \in [Inst -> InstType \cup {None}]
    /\ handle \in HandleType \cup {None}
    /\ steps \in 0 .. MaxSteps

\* Every index that a class hands out is one of its vectors'.
IndicesInRange ==
    \A c \in Made : \A k \in Key :
        LET m == class[c].members[k]
        IN  /\ m.field => m.at \in 1 .. Len(class[c].defaults)
            /\ ~m.field => m.at \in 0 .. Len(class[c].methods)
            /\ class[c].ctor \in 0 .. Len(class[c].methods)

\* However its class, the base of its class and the classes derived from it
\* are changed after, an instance has as many values, and as much user data,
\* as its class says, and its class's indices stay inside them: Get, Set,
\* Clone and Finalize (class.cpp:134, 162) count on it without a check.
InstancesFit ==
    /\ IndicesInRange
    /\ \A i \in Live :
        LET r == class[inst[i].class]
        IN  r.locked /\ Len(inst[i].values) = Len(r.defaults) /\ inst[i].ud = r.ud

\* The constructor that making an instance runs (class.cpp:54) is the method
\* of that name, also in classes derived before and after it was defined;
\* only one that a value replaced lives on.
ConstructorIsMember ==
    \A c \in Made :
        LET m == class[c].members[Ctor]
        IN  IF Defined(m) /\ ~m.field THEN class[c].ctor = m.at
            ELSE ~Defined(m) => class[c].ctor = 0

\* A member handle taken from a class names the same member of every class
\* that inherited it, whatever either class overrides after.
HandlesHold ==
    handle # None =>
        \A c \in Made : Usable(c) =>
            LET m == class[c].members[handle.key]
            IN  m = Index(~handle.static, handle.at) \/ (handle.static /\ m.field)

\* Index by index, the vectors behave as the maps of ClassObjects.
Model == INSTANCE ClassObjects WITH
    shape <- [c \in Class |->
        IF class[c] = None THEN None
        ELSE [k \in Key |->
            LET m == class[c].members[k]
            IN  IF ~Defined(m) THEN None
                ELSE [field |-> m.field,
                      val |-> IF m.field THEN class[c].defaults[m.at] ELSE class[c].methods[m.at]]]],
    record <- [i \in Inst |->
        IF inst[i] = None THEN None
        ELSE LET r == class[inst[i].class]
             IN  [class |-> inst[i].class,
                  vals |-> [k \in {l \in Key : r.members[l].field} |-> inst[i].values[r.members[k].at]]]]

ASSUME ModelAssumption == None \notin Model!Member \cup Model!Shape \cup Model!Record

\* Every operation on classes and instances changes one member of one object
\* and no other: overriding, deriving and locking never alias two members.
IsClassModel == Model!Spec
=============================================================================
