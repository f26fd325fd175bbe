------------------------- MODULE ClassMembers_proofs -------------------------
(***************************************************************************)
(* Proofs about ClassMembers, for every set of classes, instances, names   *)
(* and values: instances stay as long as their classes say, making an      *)
(* instance runs the method named constructor, a member handle keeps       *)
(* naming the member it was taken of, and the classes and instances, with  *)
(* all their indices, behave as the maps of ClassObjects.                  *)
(***************************************************************************)
EXTENDS ClassMembers, SequenceTheorems, TLAPS

----------------------------------------------------------------------------
(* One class.                                                              *)

\* The indices of its members are inside its two vectors.
IndicesFit(r) ==
    /\ \A k \in Key : LET m == r.members[k]
                      IN  /\ m.field => m.at \in 1 .. Len(r.defaults)
                          /\ ~m.field => m.at \in 0 .. Len(r.methods)
    /\ r.ctor \in 0 .. Len(r.methods)

\* Its constructor is the method of that name.
CtorFits(r) ==
    LET m == r.members[Ctor]
    IN  IF Defined(m) /\ ~m.field THEN r.ctor = m.at
        ELSE ~Defined(m) => r.ctor = 0

RecordFits(r) == r \in ClassType /\ IndicesFit(r) /\ CtorFits(r)

\* What an operation makes of a class: once the class is locked it keeps its
\* number of fields and its user data, on which its instances count.
Evolves(r, s) ==
    /\ s.base = r.base
    /\ r.locked => s.locked /\ Len(s.defaults) = Len(r.defaults) /\ s.ud = r.ud

----------------------------------------------------------------------------
(* The invariant: the records are sound, a base is made before the classes *)
(* derived from it, and an instance was made of a class that is locked     *)
(* since; locked, because only that keeps new fields out.                  *)

BasesMade == \A c \in Made : class[c].base \in Bases

InstanceFits(i) ==
    LET c == inst[i].class
    IN  /\ c \in Made /\ class[c].locked
        /\ Len(inst[i].values) = Len(class[c].defaults)
        /\ inst[i].ud = class[c].ud

IInv ==
    /\ TypeOK
    /\ \A c \in Made : RecordFits(class[c])
    /\ BasesMade
    /\ \A i \in Live : InstanceFits(i)

\* A class is made when there is a record of it, an instance likewise.
LEMMA MadeFacts ==
    ASSUME TypeOK
    PROVE  /\ Made \subseteq Class /\ \A c \in Class : c \in Made <=> class[c] \in ClassType
           /\ Live \subseteq Inst /\ \A i \in Inst : i \in Live <=> inst[i] \in InstType
  BY ClassAssumption DEF TypeOK, Made, Live

\* Replacing an element of a vector (LVClass::NewSlot, LVInstance::Set and
\* lv_setbyhandle) leaves its length.
LEMMA ReplaceFacts ==
    ASSUME NEW s \in Seq(Value), NEW n, NEW v \in Value
    PROVE  [s EXCEPT ![n] = v] \in Seq(Value) /\ Len([s EXCEPT ![n] = v]) = Len(s)
<1>1. s \in [1 .. Len(s) -> Value] /\ Len(s) \in Nat
  OBVIOUS
<1>. DEFINE t == [s EXCEPT ![n] = v]
<1>2. t \in [1 .. Len(s) -> Value]
  BY <1>1
<1>. HIDE DEF t
<1>3. t \in Seq(Value) /\ Len(t) = Len(s)
  BY <1>1, <1>2
<1>. QED BY <1>3 DEF t

\* Adding one makes it longer by one.
LEMMA AddFacts ==
    ASSUME NEW S, NEW s \in Seq(S), NEW v \in S
    PROVE  Append(s, v) \in Seq(S) /\ Len(Append(s, v)) = Len(s) + 1
  OBVIOUS

\* The fields of a class.
LEMMA FieldFacts ==
    ASSUME NEW r \in ClassType
    PROVE  /\ r.base \in Class \cup {None} /\ r.locked \in BOOLEAN
           /\ r.members \in [Key -> IndexType]
           /\ r.defaults \in Seq(Value) /\ r.methods \in Seq(Value)
           /\ Len(r.defaults) \in Nat /\ Len(r.methods) \in Nat
           /\ r.meta \in [Meta -> Fun \cup {None}]
           /\ r.ctor \in Nat /\ r.ud \in Nat /\ r.fields \in Nat /\ r.funs \in Nat
           /\ \A k \in Key : /\ r.members[k].field \in BOOLEAN /\ r.members[k].at \in Nat
                             /\ r.members[k] = Index(r.members[k].field, r.members[k].at)
  BY DEF ClassType, IndexType, Index

\* A method that is new is entered behind the others; under the name of the
\* constructor it is that from now on.
LEMMA WithMethodFits ==
    ASSUME NEW r, RecordFits(r), NEW k \in Key, NEW v \in Value
    PROVE  RecordFits(WithMethod(r, k, v)) /\ Evolves(r, WithMethod(r, k, v))
<1>. DEFINE s == WithMethod(r, k, v)
            m == Index(FALSE, Len(r.methods) + 1)
<1>0. r \in ClassType /\ IndicesFit(r) /\ CtorFits(r) /\ Ctor \in Key
  BY ClassAssumption DEF RecordFits
<1>1. /\ s = [r EXCEPT !.members = [r.members EXCEPT ![k] = m],
                       !.methods = Append(r.methods, v),
                       !.ctor = IF k = Ctor THEN Len(r.methods) + 1 ELSE r.ctor]
  BY <1>0 DEF WithMethod, ClassType
<1>2. /\ Append(r.methods, v) \in Seq(Value) /\ Len(Append(r.methods, v)) = Len(r.methods) + 1
      /\ [r.members EXCEPT ![k] = m] \in [Key -> IndexType]
      /\ (IF k = Ctor THEN Len(r.methods) + 1 ELSE r.ctor) \in Nat
  <2>1. m \in IndexType
    BY <1>0, FieldFacts DEF Index, IndexType
  <2>2. [r.members EXCEPT ![k] = m] \in [Key -> IndexType]
    BY <1>0, <2>1, FieldFacts
  <2>3. r.methods \in Seq(Value) /\ r.ctor \in Nat /\ Len(r.methods) + 1 \in Nat
    BY <1>0, FieldFacts
  <2>. QED BY <2>2, <2>3, AddFacts
<1>3. s \in ClassType
  BY <1>0, <1>1, <1>2 DEF ClassType
<1>4. /\ s.members = [r.members EXCEPT ![k] = m] /\ s.methods = Append(r.methods, v)
      /\ s.ctor = IF k = Ctor THEN Len(r.methods) + 1 ELSE r.ctor
      /\ s.defaults = r.defaults /\ s.base = r.base /\ s.locked = r.locked /\ s.ud = r.ud
  BY <1>0, <1>1 DEF ClassType
<1>. HIDE DEF s
<1>5. IndicesFit(s)
  <2>. SUFFICES ASSUME NEW l \in Key
                PROVE  /\ s.members[l].field => s.members[l].at \in 1 .. Len(s.defaults)
                       /\ ~s.members[l].field => s.members[l].at \in 0 .. Len(s.methods)
                       /\ s.ctor \in 0 .. Len(s.methods)
    BY <1>0 DEF IndicesFit
  <2>1. /\ r.members[l].field => r.members[l].at \in 1 .. Len(r.defaults)
        /\ ~r.members[l].field => r.members[l].at \in 0 .. Len(r.methods)
        /\ r.ctor \in 0 .. Len(r.methods)
    BY <1>0 DEF IndicesFit
  <2>2. s.members[l] = IF l = k THEN m ELSE r.members[l]
    BY <1>0, <1>4, FieldFacts
  <2>. QED BY <1>0, <1>2, <1>4, <2>1, <2>2, FieldFacts DEF Index
<1>6. CtorFits(s)
  <2>1. CASE k = Ctor
    <3>1. s.members[Ctor] = m /\ s.ctor = m.at /\ m.at # 0 /\ ~m.field
      BY <1>0, <1>4, <2>1, FieldFacts DEF Index
    <3>. QED BY <3>1 DEF CtorFits, Defined, NoMember, Index
  <2>2. CASE k # Ctor
    <3>1. s.members[Ctor] = r.members[Ctor] /\ s.ctor = r.ctor
      BY <1>0, <1>4, <2>2, FieldFacts
    <3>. QED BY <1>0, <3>1 DEF CtorFits
  <2>. QED BY <2>1, <2>2
<1>. QED BY <1>3, <1>4, <1>5, <1>6 DEF RecordFits, Evolves, s

\* A field that is new makes the vector of fields longer: it must not reach a
\* class that is locked.
LEMMA WithFieldFits ==
    ASSUME NEW r, RecordFits(r), ~r.locked, NEW k \in Key, NEW v \in Value
    PROVE  RecordFits(WithField(r, k, v)) /\ Evolves(r, WithField(r, k, v))
<1>. DEFINE s == WithField(r, k, v)
            m == Index(TRUE, Len(r.defaults) + 1)
<1>0. r \in ClassType /\ IndicesFit(r) /\ CtorFits(r) /\ Ctor \in Key
  BY ClassAssumption DEF RecordFits
<1>1. /\ s = [r EXCEPT !.members = [r.members EXCEPT ![k] = m],
                       !.defaults = Append(r.defaults, v)]
  BY <1>0 DEF WithField, ClassType
<1>2. /\ Append(r.defaults, v) \in Seq(Value) /\ Len(Append(r.defaults, v)) = Len(r.defaults) + 1
      /\ [r.members EXCEPT ![k] = m] \in [Key -> IndexType]
  <2>1. m \in IndexType
    BY <1>0, FieldFacts DEF Index, IndexType
  <2>2. [r.members EXCEPT ![k] = m] \in [Key -> IndexType]
    BY <1>0, <2>1, FieldFacts
  <2>3. r.defaults \in Seq(Value)
    BY <1>0, FieldFacts
  <2>. QED BY <2>2, <2>3, AddFacts
<1>3. s \in ClassType
  BY <1>0, <1>1, <1>2 DEF ClassType
<1>4. /\ s.members = [r.members EXCEPT ![k] = m] /\ s.defaults = Append(r.defaults, v)
      /\ s.methods = r.methods /\ s.ctor = r.ctor
      /\ s.base = r.base /\ s.locked = r.locked /\ s.ud = r.ud
  BY <1>0, <1>1 DEF ClassType
<1>. HIDE DEF s
<1>5. IndicesFit(s)
  <2>. SUFFICES ASSUME NEW l \in Key
                PROVE  /\ s.members[l].field => s.members[l].at \in 1 .. Len(s.defaults)
                       /\ ~s.members[l].field => s.members[l].at \in 0 .. Len(s.methods)
                       /\ s.ctor \in 0 .. Len(s.methods)
    BY <1>0 DEF IndicesFit
  <2>1. /\ r.members[l].field => r.members[l].at \in 1 .. Len(r.defaults)
        /\ ~r.members[l].field => r.members[l].at \in 0 .. Len(r.methods)
        /\ r.ctor \in 0 .. Len(r.methods)
    BY <1>0 DEF IndicesFit
  <2>2. s.members[l] = IF l = k THEN m ELSE r.members[l]
    BY <1>0, <1>4, FieldFacts
  <2>. QED BY <1>0, <1>2, <1>4, <2>1, <2>2, FieldFacts DEF Index
<1>6. CtorFits(s)
  <2>1. CASE k = Ctor
    <3>1. s.members[Ctor] = m /\ m.at # 0 /\ m.field
      BY <1>0, <1>4, <2>1, FieldFacts DEF Index
    <3>. QED BY <3>1 DEF CtorFits, Defined, NoMember, Index
  <2>2. CASE k # Ctor
    <3>1. s.members[Ctor] = r.members[Ctor] /\ s.ctor = r.ctor
      BY <1>0, <1>4, <2>2, FieldFacts
    <3>. QED BY <1>0, <3>1 DEF CtorFits
  <2>. QED BY <2>1, <2>2
<1>. QED BY <1>3, <1>4, <1>5, <1>6 DEF RecordFits, Evolves, s

\* A record with the same indices into vectors of the same lengths.
LEMMA SameIndices ==
    ASSUME NEW r, RecordFits(r), NEW s \in ClassType, s.members = r.members, s.ctor = r.ctor,
           Len(s.defaults) = Len(r.defaults), Len(s.methods) = Len(r.methods)
    PROVE  RecordFits(s)
  BY DEF RecordFits, IndicesFit, CtorFits

\* Overriding a field or a method moves no index.
LEMMA ReplacedFits ==
    ASSUME NEW r, RecordFits(r), NEW n, NEW v \in Value
    PROVE  /\ RecordFits([r EXCEPT !.defaults[n] = v]) /\ Evolves(r, [r EXCEPT !.defaults[n] = v])
           /\ RecordFits([r EXCEPT !.methods[n] = v]) /\ Evolves(r, [r EXCEPT !.methods[n] = v])
<1>0. r \in ClassType
  BY DEF RecordFits
<1>1. /\ [r.defaults EXCEPT ![n] = v] \in Seq(Value)
      /\ Len([r.defaults EXCEPT ![n] = v]) = Len(r.defaults)
      /\ [r.methods EXCEPT ![n] = v] \in Seq(Value)
      /\ Len([r.methods EXCEPT ![n] = v]) = Len(r.methods)
  <2>. DEFINE d == r.defaults
              f == r.methods
  <2>1. d \in Seq(Value) /\ f \in Seq(Value)
    BY <1>0, FieldFacts
  <2>. HIDE DEF d, f
  <2>2. [d EXCEPT ![n] = v] \in Seq(Value) /\ Len([d EXCEPT ![n] = v]) = Len(d)
    BY <2>1, ReplaceFacts
  <2>3. [f EXCEPT ![n] = v] \in Seq(Value) /\ Len([f EXCEPT ![n] = v]) = Len(f)
    BY <2>1, ReplaceFacts
  <2>. QED BY <2>2, <2>3 DEF d, f
<1>2. [r EXCEPT !.defaults[n] = v] \in ClassType /\ [r EXCEPT !.methods[n] = v] \in ClassType
  BY <1>0, <1>1 DEF ClassType
<1>. QED BY <1>0, <1>1, <1>2, SameIndices DEF ClassType, Evolves

\* Neither do a metamethod, the size of the user data and the lock.
LEMMA MetaFits ==
    ASSUME NEW r, RecordFits(r), NEW g \in [Meta -> Fun \cup {None}]
    PROVE  RecordFits([r EXCEPT !.meta = g]) /\ Evolves(r, [r EXCEPT !.meta = g])
<1>1. r \in ClassType /\ [r EXCEPT !.meta = g] \in ClassType
  BY DEF RecordFits, ClassType
<1>. QED BY <1>1, SameIndices DEF ClassType, Evolves

\* lv_setclassudsize
LEMMA UdFits ==
    ASSUME NEW r, RecordFits(r), ~r.locked, NEW u \in Nat
    PROVE  RecordFits([r EXCEPT !.ud = u]) /\ Evolves(r, [r EXCEPT !.ud = u])
<1>1. r \in ClassType /\ [r EXCEPT !.ud = u] \in ClassType
  BY DEF RecordFits, ClassType
<1>. QED BY <1>1, SameIndices DEF ClassType, Evolves

\* LVClass::Lock
LEMMA LockedFits ==
    ASSUME NEW r, RecordFits(r)
    PROVE  RecordFits([r EXCEPT !.locked = TRUE]) /\ Evolves(r, [r EXCEPT !.locked = TRUE])
<1>1. r \in ClassType /\ [r EXCEPT !.locked = TRUE] \in ClassType
  BY DEF RecordFits, ClassType
<1>. QED BY <1>1, SameIndices DEF ClassType, Evolves

\* LVClass::NewSlot on a class it does not refuse: a class that is locked gets
\* no field.
LEMMA WithMemberFits ==
    ASSUME NEW r, RecordFits(r), NEW k \in Key, NEW v \in Value, NEW static \in BOOLEAN,
           ~(r.locked /\ ~IsStatic(v, static))
    PROVE  RecordFits(WithMember(r, k, v, static)) /\ Evolves(r, WithMember(r, k, v, static))
<1>. DEFINE m == r.members[k]
<1>0. r \in ClassType
  BY DEF RecordFits
<1>1. CASE m.field
  BY <1>0, <1>1, ReplacedFits, FieldFacts DEF WithMember
<1>2. CASE ~m.field /\ v \in Fun /\ k \in Meta
  <2>. DEFINE g == [r.meta EXCEPT ![k] = v]
  <2>1. g \in [Meta -> Fun \cup {None}]
    BY <1>0, <1>2, FieldFacts
  <2>2. WithMember(r, k, v, static) = [r EXCEPT !.meta = g]
    BY <1>2 DEF WithMember
  <2>. HIDE DEF g
  <2>. QED BY <2>1, <2>2, MetaFits
<1>3. CASE ~m.field /\ ~(v \in Fun /\ k \in Meta) /\ IsStatic(v, static) /\ Defined(m)
  <2>. DEFINE n == m.at
  <2>1. WithMember(r, k, v, static) = [r EXCEPT !.methods[n] = v]
    BY <1>3 DEF WithMember
  <2>. HIDE DEF n
  <2>2. RecordFits([r EXCEPT !.methods[n] = v]) /\ Evolves(r, [r EXCEPT !.methods[n] = v])
    BY ReplacedFits
  <2>. QED BY <2>1, <2>2
<1>4. CASE ~m.field /\ ~(v \in Fun /\ k \in Meta) /\ IsStatic(v, static) /\ ~Defined(m)
  BY <1>4, WithMethodFits DEF WithMember
<1>5. CASE ~m.field /\ ~(v \in Fun /\ k \in Meta) /\ ~IsStatic(v, static)
  BY <1>5, WithFieldFits DEF WithMember
<1>. QED BY <1>1, <1>2, <1>3, <1>4, <1>5

\* LVClass(ss, base): the copies are sound because the base's are.
LEMMA DerivedFits ==
    ASSUME IInv, NEW b \in Bases
    PROVE  RecordFits(Derived(b)) /\ Derived(b).base = b
<1>1. CASE b = None
  <2>. DEFINE d == Derived(None)
  <2>1. /\ d \in ClassType /\ d.members = [k \in Key |-> NoMember] /\ d.ctor = 0
        /\ d.defaults = <<>> /\ d.methods = <<>> /\ d.base = None
    BY DEF Derived, ClassType, IndexType, NoMember, Index
  <2>. HIDE DEF d
  <2>2. \A k \in Key : d.members[k] = NoMember
    BY <2>1
  <2>3. IndicesFit(d)
    BY <2>1, <2>2 DEF IndicesFit, NoMember, Index
  <2>4. CtorFits(d)
    BY <2>1, <2>2, ClassAssumption DEF CtorFits, NoMember, Index
  <2>. QED BY <1>1, <2>1, <2>3, <2>4 DEF RecordFits, d
<1>2. CASE b # None
  <2>. DEFINE r == class[b]
              d == [r EXCEPT !.base = b, !.locked = FALSE,
                             !.fields = Len(r.defaults), !.funs = Len(r.methods)]
  <2>1. b \in Made /\ b \in Class
    BY <1>2 DEF Bases, Made
  <2>2. r \in ClassType /\ IndicesFit(r) /\ CtorFits(r)
    BY <2>1 DEF IInv, RecordFits
  <2>3. Len(r.defaults) \in Nat /\ Len(r.methods) \in Nat
    BY <2>2, FieldFacts
  <2>. HIDE DEF r
  <2>4. /\ d \in ClassType /\ d.base = b
        /\ d.members = r.members /\ d.ctor = r.ctor
        /\ d.defaults = r.defaults /\ d.methods = r.methods
    BY <2>1, <2>2, <2>3 DEF ClassType
  <2>5. Derived(b) = d
    BY <1>2 DEF Derived, r
  <2>. HIDE DEF d
  <2>6. IndicesFit(d) /\ CtorFits(d)
    BY <2>2, <2>4 DEF IndicesFit, CtorFits
  <2>. QED BY <2>4, <2>5, <2>6 DEF RecordFits
<1>. QED BY <1>1, <1>2

----------------------------------------------------------------------------
(* All classes, and the instances.                                         *)

\* No operation takes a class away, and each leaves every class sound.
LEMMA ClassesEvolve ==
    ASSUME IInv, class' \in [Class -> ClassType \cup {None}],
           \A c \in Made : RecordFits(class'[c]) /\ Evolves(class[c], class'[c]),
           \A c \in Class \ Made : class'[c] = class[c]
    PROVE  /\ Made' = Made
           /\ (\A c \in Made : RecordFits(class[c]))'
           /\ BasesMade'
<1>1. Made' = Made
  <2>1. Made' = {c \in Class : class'[c] # None}
    BY DEF Made
  <2>2. \A c \in Made : class'[c] # None
    BY ClassAssumption DEF RecordFits
  <2>. QED BY <2>1, <2>2 DEF Made
<1>2. (\A c \in Made : RecordFits(class[c]))'
  BY <1>1
<1>3. BasesMade'
  BY <1>1 DEF IInv, BasesMade, Bases, Evolves
<1>. QED BY <1>1, <1>2, <1>3

\* An operation on one class that is made.
LEMMA OneClassEvolves ==
    ASSUME IInv, NEW c \in Made, NEW s, RecordFits(s), Evolves(class[c], s),
           class' = [class EXCEPT ![c] = s]
    PROVE  /\ class' \in [Class -> ClassType \cup {None}]
           /\ \A d \in Made : RecordFits(class'[d]) /\ Evolves(class[d], class'[d])
           /\ Made' = Made
           /\ (\A d \in Made : RecordFits(class[d]))'
           /\ BasesMade'
<1>0. class \in [Class -> ClassType \cup {None}] /\ c \in Class /\ s \in ClassType
  BY DEF IInv, TypeOK, Made, RecordFits
<1>1. class' \in [Class -> ClassType \cup {None}]
  BY <1>0
<1>2. \A d \in Class : class'[d] = IF d = c THEN s ELSE class[d]
  BY <1>0
<1>3. \A d \in Made : d \in Class /\ RecordFits(class[d]) /\ Evolves(class[d], class[d])
  BY DEF IInv, Made, Evolves
<1>4. \A d \in Made : RecordFits(class'[d]) /\ Evolves(class[d], class'[d])
  BY <1>2, <1>3
<1>5. \A d \in Class \ Made : class'[d] = class[d]
  BY <1>2
<1>. QED BY <1>1, <1>4, <1>5, ClassesEvolve

\* An instance that an operation leaves as long as it was still fits.
LEMMA InstanceKept ==
    ASSUME IInv, \A c \in Made : c \in Made' /\ Evolves(class[c], class'[c]),
           NEW i \in Live,
           inst'[i].class = inst[i].class, inst'[i].ud = inst[i].ud,
           Len(inst'[i].values) = Len(inst[i].values)
    PROVE  InstanceFits(i)'
  BY DEF IInv, InstanceFits, Evolves

\* The chain of a class holds the class itself and only classes that are made.
LEMMA ChainFacts ==
    ASSUME IInv, NEW c \in Made
    PROVE  c \in Chain(c) /\ Chain(c) \subseteq Made
<1>1. c \in Class /\ Made \in SUBSET Class
  BY DEF Made
<1>2. Closed(Made)
  BY DEF Closed, IInv, BasesMade, Bases
<1>. QED BY <1>1, <1>2 DEF Chain

----------------------------------------------------------------------------
(* The operations.  Each leaves the classes sound, and the instances as    *)
(* long as their classes say.                                              *)

\* No class, no instance.
LEMMA InitFits ==
    ASSUME Init
    PROVE  IInv
<1>1. Made = {} /\ Live = {}
  BY DEF Init, Made, Live
<1>2. TypeOK
  BY ClassAssumption DEF Init, TypeOK
<1>. QED BY <1>1, <1>2 DEF IInv, BasesMade

\* Operations that change one class and no instance.
LEMMA OneClassFits ==
    ASSUME IInv, NEW c \in Made, NEW s, RecordFits(s), Evolves(class[c], s),
           class' = [class EXCEPT ![c] = s], inst' = inst, handle' = handle,
           steps' \in 0 .. MaxSteps
    PROVE  IInv'
<1>1. /\ class' \in [Class -> ClassType \cup {None}]
      /\ \A d \in Made : RecordFits(class'[d]) /\ Evolves(class[d], class'[d])
      /\ Made' = Made
      /\ (\A d \in Made : RecordFits(class[d]))'
      /\ BasesMade'
  BY OneClassEvolves
<1>2. TypeOK'
  BY <1>1 DEF IInv, TypeOK
<1>3. Live' = Live
  BY DEF Live
<1>4. \A i \in Live : InstanceFits(i)'
  BY <1>1, InstanceKept
<1>5. (\A i \in Live : InstanceFits(i))'
  BY <1>3, <1>4
<1>. QED BY <1>1, <1>2, <1>5 DEF IInv

\* What MaxSteps bounds.
LEMMA CountFacts ==
    ASSUME TypeOK, Count
    PROVE  steps' \in 0 .. MaxSteps
  BY ClassAssumption DEF TypeOK, Count

\* NewSlot, NewSlotA, lv_newmember and lv_rawset.
LEMMA NewMemberFits ==
    ASSUME IInv, NEW c \in Made, NEW k \in Key, NEW v \in Value,
           NEW static \in BOOLEAN, NEW raw \in BOOLEAN, NewMember(c, k, v, static, raw)
    PROVE  IInv'
<1>. DEFINE s == WithMember(class[c], k, v, static)
<1>1. RecordFits(class[c]) /\ ~(class[c].locked /\ ~IsStatic(v, static))
  BY DEF IInv, NewMember, Refused
<1>2. RecordFits(s) /\ Evolves(class[c], s)
  BY <1>1, WithMemberFits
<1>3. class' = [class EXCEPT ![c] = s] /\ inst' = inst /\ handle' = handle
  BY DEF NewMember
<1>4. steps' \in 0 .. MaxSteps
  BY CountFacts DEF NewMember, IInv
<1>. HIDE DEF s
<1>. QED BY <1>2, <1>3, <1>4, OneClassFits

\* lv_setclassudsize, before an instance has user data of the old size.
LEMMA SetUdSizeFits ==
    ASSUME IInv, NEW c \in Made, NEW n \in Sizes, SetUdSize(c, n)
    PROVE  IInv'
<1>. DEFINE s == [class[c] EXCEPT !.ud = n]
<1>1. n \in Nat /\ RecordFits(class[c]) /\ ~class[c].locked
  BY ClassAssumption DEF IInv, SetUdSize
<1>2. RecordFits(s) /\ Evolves(class[c], s)
  BY <1>1, UdFits
<1>3. class' = [class EXCEPT ![c] = s] /\ inst' = inst /\ handle' = handle
  BY DEF SetUdSize
<1>4. steps' \in 0 .. MaxSteps
  BY CountFacts DEF SetUdSize, IInv
<1>. HIDE DEF s
<1>. QED BY <1>2, <1>3, <1>4, OneClassFits

\* lv_setbyhandle with a class.
LEMMA SetClassByHandleFits ==
    ASSUME IInv, NEW c \in Made, NEW v \in Value, SetClassByHandle(c, v)
    PROVE  IInv'
<1>. DEFINE s == IF handle.static THEN [class[c] EXCEPT !.methods[handle.at] = v]
                 ELSE [class[c] EXCEPT !.defaults[handle.at] = v]
<1>1. RecordFits(class[c])
  BY DEF IInv
<1>2. RecordFits(s) /\ Evolves(class[c], s)
  BY <1>1, ReplacedFits
<1>3. class' = [class EXCEPT ![c] = s] /\ inst' = inst /\ handle' = handle
  BY DEF SetClassByHandle
<1>4. steps' \in 0 .. MaxSteps
  BY CountFacts DEF SetClassByHandle, IInv
<1>. HIDE DEF s
<1>. QED BY <1>2, <1>3, <1>4, OneClassFits

\* CLASS_OP and lv_newclass: a new class has no instances, and its base is made.
LEMMA NewClassFits ==
    ASSUME IInv, NEW c \in Class, NEW b \in Bases, NewClass(c, b)
    PROVE  IInv'
<1>. DEFINE s == Derived(b)
<1>1. RecordFits(s) /\ s.base = b
  BY DerivedFits
<1>2. /\ class[c] = None /\ class' = [class EXCEPT ![c] = s]
      /\ inst' = inst /\ handle' = handle /\ steps' = steps
  BY DEF NewClass
<1>. HIDE DEF s
<1>3. /\ class \in [Class -> ClassType \cup {None}] /\ s \in ClassType /\ s # None
      /\ c \notin Made
  BY <1>1, <1>2, ClassAssumption DEF IInv, TypeOK, RecordFits, Made
<1>4. \A d \in Class : class'[d] = IF d = c THEN s ELSE class[d]
  BY <1>2, <1>3
<1>5. Made' = Made \cup {c}
  BY <1>2, <1>3, <1>4 DEF Made
<1>6. TypeOK'
  BY <1>2, <1>3 DEF IInv, TypeOK
<1>7. (\A d \in Made : RecordFits(class[d]))'
  BY <1>1, <1>3, <1>4, <1>5 DEF IInv, Made
<1>8. BasesMade'
  <2>1. \A d \in Made : class'[d].base \in Bases /\ d \in Class
    BY <1>3, <1>4 DEF IInv, BasesMade, Made
  <2>. QED BY <1>1, <1>4, <1>5, <2>1 DEF BasesMade, Bases
<1>9. \A i \in Live : InstanceFits(i)'
  <2>1. \A d \in Made : d \in Made' /\ class'[d] = class[d]
    BY <1>3, <1>4, <1>5 DEF Made
  <2>2. \A d \in Made : d \in Made' /\ Evolves(class[d], class'[d])
    BY <2>1 DEF Evolves
  <2>. QED BY <1>2, <2>2, InstanceKept
<1>10. (\A i \in Live : InstanceFits(i))'
  BY <1>2, <1>9 DEF Live
<1>. QED BY <1>6, <1>7, <1>8, <1>10 DEF IInv

\* CreateClassInstance locks the class and those it derives from, and copies
\* the fields that the class has then.
LEMMA NewInstanceFits ==
    ASSUME IInv, NEW i \in Inst, NEW c \in Made, NewInstance(i, c)
    PROVE  IInv'
<1>. DEFINE t == [class |-> c, values |-> class[c].defaults, ud |-> class[c].ud]
<1>1. /\ inst[i] = None /\ class' = Lock(c) /\ inst' = [inst EXCEPT ![i] = t]
      /\ handle' = handle /\ steps' = steps
  BY DEF NewInstance
<1>2. /\ class \in [Class -> ClassType \cup {None}] /\ inst \in [Inst -> InstType \cup {None}]
      /\ c \in Class /\ class[c] \in ClassType
  BY DEF IInv, TypeOK, Made, RecordFits
<1>3. t \in InstType /\ t # None
  BY <1>2, ClassAssumption, FieldFacts DEF InstType
<1>4. \A d \in Class :
          class'[d] \in {class[d], [class[d] EXCEPT !.locked = TRUE]}
  BY <1>1, <1>2 DEF Lock
<1>5. \A d \in Made : RecordFits(class'[d]) /\ Evolves(class[d], class'[d])
  <2>. SUFFICES ASSUME NEW d \in Made
                PROVE  RecordFits(class'[d]) /\ Evolves(class[d], class'[d])
    OBVIOUS
  <2>1. d \in Class /\ RecordFits(class[d])
    BY DEF IInv, Made
  <2>2. Evolves(class[d], class[d])
    BY DEF Evolves
  <2>3. RecordFits([class[d] EXCEPT !.locked = TRUE]) /\ Evolves(class[d], [class[d] EXCEPT !.locked = TRUE])
    BY <2>1, LockedFits
  <2>. QED BY <1>4, <2>1, <2>2, <2>3
<1>6. \A d \in Class \ Made : class'[d] = class[d]
  BY <1>1, <1>2, ChainFacts DEF Lock
<1>7. class' \in [Class -> ClassType \cup {None}]
  <2>1. class' = [d \in Class |-> class'[d]]
    BY <1>1, <1>2 DEF Lock
  <2>2. \A d \in Class : class'[d] \in ClassType \cup {None}
    BY <1>2, <1>5, <1>6 DEF RecordFits
  <2>. QED BY <2>1, <2>2
<1>8. Made' = Made /\ (\A d \in Made : RecordFits(class[d]))' /\ BasesMade'
  BY <1>5, <1>6, <1>7, ClassesEvolve
<1>9. TypeOK'
  BY <1>1, <1>2, <1>3, <1>7 DEF IInv, TypeOK
<1>. HIDE DEF t
<1>10. class'[c].locked /\ Len(class'[c].defaults) = Len(class[c].defaults) /\ class'[c].ud = class[c].ud
  <2>1. CASE class[c].locked
    BY <1>1, <2>1 DEF Lock
  <2>2. CASE ~class[c].locked
    <3>1. class'[c] = [class[c] EXCEPT !.locked = TRUE]
      BY <1>1, <1>2, <2>2, ChainFacts DEF Lock
    <3>. QED BY <1>2, <3>1 DEF ClassType
  <2>. QED BY <2>1, <2>2
<1>11. Live' = Live \cup {i} /\ i \notin Live /\ inst'[i] = t /\ \A j \in Live : inst'[j] = inst[j]
  BY <1>1, <1>2, <1>3 DEF Live
<1>12. \A j \in Live : InstanceFits(j)'
  BY <1>5, <1>8, <1>11, InstanceKept
<1>13. InstanceFits(i)'
  BY <1>8, <1>10, <1>11 DEF InstanceFits, t
<1>. QED BY <1>8, <1>9, <1>11, <1>12, <1>13 DEF IInv

\* Operations that change one instance and no class.
LEMMA OneInstanceFits ==
    ASSUME IInv, NEW i \in Inst, NEW t \in InstType, inst' = [inst EXCEPT ![i] = t],
           t.class \in Made, class[t.class].locked,
           Len(t.values) = Len(class[t.class].defaults), t.ud = class[t.class].ud,
           class' = class, handle' = handle, steps' \in 0 .. MaxSteps
    PROVE  IInv'
<1>0. inst \in [Inst -> InstType \cup {None}] /\ t # None
  BY ClassAssumption DEF IInv, TypeOK
<1>1. TypeOK'
  BY <1>0 DEF IInv, TypeOK
<1>2. Made' = Made /\ (\A d \in Made : RecordFits(class[d]))' /\ BasesMade'
  BY DEF IInv, Made, BasesMade, Bases
<1>3. Live' = Live \cup {i} /\ inst'[i] = t /\ \A j \in Live \ {i} : inst'[j] = inst[j]
  BY <1>0 DEF Live
<1>4. \A j \in Live \ {i} : InstanceFits(j)'
  BY <1>2, <1>3 DEF IInv, InstanceFits
<1>5. InstanceFits(i)'
  BY <1>2, <1>3 DEF InstanceFits
<1>. QED BY <1>1, <1>2, <1>3, <1>4, <1>5 DEF IInv

\* LVInstance::Clone reads the number of fields of the class again.
LEMMA CloneInstanceFits ==
    ASSUME IInv, NEW i \in Inst, NEW j \in Live, CloneInstance(i, j)
    PROVE  IInv'
<1>. DEFINE c == inst[j].class
            n == Len(class[c].defaults)
            t == [class |-> c, ud |-> class[c].ud, values |-> [k \in 1 .. n |-> inst[j].values[k]]]
<1>1. c \in Made /\ class[c].locked /\ Len(inst[j].values) = n
  BY DEF IInv, InstanceFits
<1>2. c \in Class /\ class[c] \in ClassType /\ inst[j].values \in Seq(Value)
  BY <1>1, MadeFacts DEF IInv, InstType
<1>3. n \in Nat /\ class[c].ud \in Nat
  BY <1>2, FieldFacts
<1>4. /\ [k \in 1 .. n |-> inst[j].values[k]] \in Seq(Value)
      /\ Len([k \in 1 .. n |-> inst[j].values[k]]) = n
  BY <1>1, <1>2, <1>3
<1>5. inst' = [inst EXCEPT ![i] = t] /\ UNCHANGED <<class, handle, steps>>
  BY DEF CloneInstance
<1>6. t \in InstType
  BY <1>2, <1>3, <1>4 DEF InstType
<1>7. /\ t.class \in Made /\ class[t.class].locked
      /\ Len(t.values) = Len(class[t.class].defaults) /\ t.ud = class[t.class].ud
  BY <1>1, <1>4
<1>8. steps' \in 0 .. MaxSteps
  BY <1>5 DEF IInv, TypeOK
<1>. HIDE DEF t
<1>. QED BY <1>5, <1>6, <1>7, <1>8, OneInstanceFits

\* LVInstance::Set, and lv_setbyhandle with an instance, write to one of the
\* values there are.
LEMMA ValueFits ==
    ASSUME IInv, NEW i \in Live, NEW at, NEW v \in Value,
           inst' = [inst EXCEPT ![i].values[at] = v],
           class' = class, handle' = handle, steps' \in 0 .. MaxSteps
    PROVE  IInv'
<1>. DEFINE new == [inst[i].values EXCEPT ![at] = v]
            t == [inst[i] EXCEPT !.values = new]
<1>1. i \in Inst /\ inst[i] \in InstType /\ inst[i].values \in Seq(Value)
  BY MadeFacts DEF IInv, InstType
<1>2. new \in Seq(Value) /\ Len(new) = Len(inst[i].values)
  BY <1>1, ReplaceFacts
<1>3. inst' = [inst EXCEPT ![i] = t]
  OBVIOUS
<1>. HIDE DEF new
<1>4. t \in InstType /\ t.class = inst[i].class /\ t.ud = inst[i].ud /\ t.values = new
  BY <1>1, <1>2 DEF InstType
<1>5. /\ t.class \in Made /\ class[t.class].locked
      /\ Len(t.values) = Len(class[t.class].defaults) /\ t.ud = class[t.class].ud
  BY <1>2, <1>4 DEF IInv, InstanceFits
<1>. HIDE DEF t
<1>. QED BY <1>1, <1>3, <1>4, <1>5, OneInstanceFits

\* LVInstance::Set
LEMMA SetFieldFits ==
    ASSUME IInv, NEW i \in Live, NEW k \in Key, NEW v \in Value, SetField(i, k, v)
    PROVE  IInv'
<1>. DEFINE at == class[inst[i].class].members[k].at
<1>1. inst' = [inst EXCEPT ![i].values[at] = v] /\ class' = class /\ handle' = handle
  BY DEF SetField
<1>2. steps' \in 0 .. MaxSteps
  BY CountFacts DEF SetField, IInv
<1>. HIDE DEF at
<1>. QED BY <1>1, <1>2, ValueFits

\* lv_setbyhandle with an instance: the member is a value of the instance, or
\* a method or static value of its class.
LEMMA SetByHandleFits ==
    ASSUME IInv, NEW i \in Live, NEW v \in Value, SetByHandle(i, v)
    PROVE  IInv'
<1>. DEFINE c == inst[i].class
            at == handle.at
<1>1. handle' = handle /\ steps' \in 0 .. MaxSteps
  BY CountFacts DEF SetByHandle, IInv
<1>2. CASE handle.static
  <2>. DEFINE s == [class[c] EXCEPT !.methods[at] = v]
  <2>1. class' = [class EXCEPT ![c] = s] /\ inst' = inst
    BY <1>2 DEF SetByHandle
  <2>2. c \in Made /\ RecordFits(class[c])
    BY DEF IInv, InstanceFits
  <2>. HIDE DEF c, at
  <2>3. RecordFits(s) /\ Evolves(class[c], s)
    BY <2>2, ReplacedFits
  <2>. HIDE DEF s
  <2>. QED BY <1>1, <2>1, <2>2, <2>3, OneClassFits
<1>3. CASE ~handle.static
  <2>1. inst' = [inst EXCEPT ![i].values[at] = v] /\ class' = class
    BY <1>3 DEF SetByHandle
  <2>. HIDE DEF at
  <2>. QED BY <1>1, <2>1, ValueFits
<1>. QED BY <1>2, <1>3

\* lv_getmemberhandle
LEMMA GetHandleFits ==
    ASSUME IInv, NEW c \in Made, NEW k \in Key, GetHandle(c, k)
    PROVE  IInv'
<1>1. /\ handle' = [class |-> c, key |-> k, static |-> ~class[c].members[k].field,
                    at |-> class[c].members[k].at]
      /\ UNCHANGED <<class, inst, steps>>
  BY DEF GetHandle
<1>2. c \in Class /\ class[c].members[k].field \in BOOLEAN /\ class[c].members[k].at \in Nat
  BY MadeFacts, FieldFacts DEF IInv
<1>3. TypeOK'
  BY <1>1, <1>2 DEF IInv, TypeOK, HandleType
<1>4. Made' = Made /\ Live' = Live /\ (\A d \in Made : RecordFits(class[d]))' /\ BasesMade'
  BY <1>1 DEF IInv, Made, Live, BasesMade, Bases
<1>5. (\A i \in Live : InstanceFits(i))'
  BY <1>1, <1>4 DEF IInv, InstanceFits
<1>. QED BY <1>3, <1>4, <1>5 DEF IInv

----------------------------------------------------------------------------

\* Every step keeps the invariant.
LEMMA StepFits ==
    ASSUME IInv, [Next]_vars
    PROVE  IInv'
<1>0. Made \subseteq Class /\ Live \subseteq Inst
  BY DEF Made, Live
<1>1. CASE \E c \in Class, b \in Bases : NewClass(c, b)
  BY <1>1, NewClassFits
<1>2. CASE \E c \in Made, k \in Key, v \in Value, static, raw \in BOOLEAN :
              NewMember(c, k, v, static, raw)
  BY <1>2, NewMemberFits
<1>3. CASE \E c \in Made, n \in Sizes : SetUdSize(c, n)
  BY <1>3, SetUdSizeFits
<1>4. CASE \E i \in Inst, c \in Made : NewInstance(i, c)
  BY <1>4, NewInstanceFits
<1>5. CASE \E i \in Inst, j \in Live : CloneInstance(i, j)
  BY <1>5, CloneInstanceFits
<1>6. CASE \E i \in Live, k \in Key, v \in Value : SetField(i, k, v)
  BY <1>6, SetFieldFits
<1>7. CASE \E c \in Made, k \in Key : GetHandle(c, k)
  BY <1>7, GetHandleFits
<1>8. CASE \E i \in Live, v \in Value : SetByHandle(i, v)
  BY <1>8, SetByHandleFits
<1>9. CASE \E c \in Made, v \in Value : SetClassByHandle(c, v)
  BY <1>9, SetClassByHandleFits
<1>10. CASE UNCHANGED vars
  <2>1. UNCHANGED <<class, inst, handle, steps>>
    BY <1>10 DEF vars
  <2>2. TypeOK'
    BY <2>1 DEF IInv, TypeOK
  <2>3. Made' = Made /\ Live' = Live /\ (\A d \in Made : RecordFits(class[d]))' /\ BasesMade'
    BY <2>1 DEF IInv, Made, Live, BasesMade, Bases
  <2>4. (\A i \in Live : InstanceFits(i))'
    BY <2>1, <2>3 DEF IInv, InstanceFits
  <2>. QED BY <2>2, <2>3, <2>4 DEF IInv
<1>. QED
  BY <1>1, <1>2, <1>3, <1>4, <1>5, <1>6, <1>7, <1>8, <1>9, <1>10 DEF Next

\* The invariant holds in every state.
LEMMA Invariance == Spec => []IInv
<1>1. Init => IInv
  BY InitFits
<1>2. IInv /\ [Next]_vars => IInv'
  BY StepFits
<1>. QED BY <1>1, <1>2, PTL DEF Spec

\* However classes are derived, changed and locked, no operation on an
\* instance reads or writes past its values: LVInstance's Get, Set, Clone and
\* Finalize count on its class for its length.
THEOREM InstancesAlwaysFit == Spec => []InstancesFit
<1>1. IInv => InstancesFit
  <2>. SUFFICES ASSUME IInv PROVE InstancesFit
    OBVIOUS
  <2>1. IndicesInRange
    BY DEF IInv, RecordFits, IndicesFit, IndicesInRange
  <2>. QED BY <2>1 DEF IInv, InstanceFits, InstancesFit
<1>. QED BY <1>1, Invariance, PTL

\* Making an instance runs the method named constructor, and none when there
\* is none, whether it was inherited, defined or overridden.
THEOREM ConstructorAlwaysMember == Spec => []ConstructorIsMember
<1>1. IInv => ConstructorIsMember
  BY DEF IInv, RecordFits, CtorFits, ConstructorIsMember
<1>. QED BY <1>1, Invariance, PTL

----------------------------------------------------------------------------
(* Chains.  Acyclic: no class derives from itself, however many classes    *)
(* are between; a derived class got its members when its base was at most  *)
(* as large as it is now.                                                  *)

Acyclic == \A c \in Made, b \in Made : class[c].base = b => c \notin Chain(b)

GrownSince(r, base) == r.funs <= Len(base.methods) /\ r.fields <= Len(base.defaults)

BasesGrow == \A c \in Made : class[c].base # None => GrownSince(class[c], class[class[c].base])

----------------------------------------------------------------------------
(* Indices.  A handle names one entry of one vector.  In every class that  *)
(* inherited the entry, it is the entry of the member with that name, or   *)
(* of no member any more, and never one of another member.                 *)

\* Usable, of any handle.
UsableBy(h, c) ==
    /\ h.class \in Chain(c)
    /\ \A d \in Chain(c) \ Chain(h.class) :
           h.at <= IF h.static THEN class[d].funs ELSE class[d].fields

\* The vector that a handle indexes, and whether an index is of that entry.
Vector(r, h) == IF h.static THEN r.methods ELSE r.defaults
Names(m, h) == (m.field <=> ~h.static) /\ m.at = h.at

HandleFits(r, h) ==
    /\ Names(r.members[h.key], h) \/ (h.static /\ r.members[h.key].field)
    /\ h.at \in 1 .. Len(Vector(r, h))
    /\ \A k \in Key \ {h.key} : ~Names(r.members[k], h)

HandleHolds(h) == \A c \in Made : UsableBy(h, c) => HandleFits(class[c], h)

\* lv_getmemberhandle could return it now.
Offered(h) ==
    LET m == class[h.class].members[h.key]
    IN  h.class \in Made /\ Defined(m) /\ Names(m, h)

\* The handle the host keeps, and every one it could take now: so no two
\* members of a class share an entry.
HandlesFit ==
    /\ handle # None => handle.class \in Made
    /\ \A h \in HandleType : h = handle \/ Offered(h) => HandleHolds(h)

HInv == Acyclic /\ BasesGrow /\ HandlesFit

----------------------------------------------------------------------------
(* Facts about chains.                                                     *)

\* The chain of a class is the smallest set with it and the bases of its members.
ChainsLeast ==
    \A c \in Class :
        /\ c \in Chain(c) /\ Chain(c) \subseteq Class /\ Closed(Chain(c))
        /\ \A S \in SUBSET Class : c \in S /\ Closed(S) => Chain(c) \subseteq S

LEMMA ChainLeast == BasesMade => ChainsLeast
<1>. SUFFICES ASSUME BasesMade, NEW c \in Class
              PROVE  /\ c \in Chain(c) /\ Chain(c) \subseteq Class /\ Closed(Chain(c))
                     /\ \A S \in SUBSET Class : c \in S /\ Closed(S) => Chain(c) \subseteq S
  BY DEF ChainsLeast
<1>1. c \in Chain(c) /\ Chain(c) \subseteq Class
  BY DEF Chain
<1>2. \A S \in SUBSET Class : c \in S /\ Closed(S) => Chain(c) \subseteq S
  BY DEF Chain
<1>3. Closed(Chain(c))
  <2>. SUFFICES ASSUME NEW e \in Chain(c) \cap Made, class[e].base # None
                PROVE  class[e].base \in Chain(c)
    BY DEF Closed
  <2>1. \A S \in SUBSET Class : c \in S /\ Closed(S) => class[e].base \in S
    BY <1>2 DEF Closed
  <2>2. class[e].base \in Class
    BY DEF BasesMade, Bases, Made
  <2>. QED BY <2>1, <2>2 DEF Chain
<1>. QED BY <1>1, <1>2, <1>3

\* A chain is a class and the chain of its base.
ChainsUnfold ==
    \A c \in Made :
        Chain(c) = {c} \cup (IF class[c].base = None THEN {} ELSE Chain(class[c].base))

LEMMA ChainUnfold == BasesMade => ChainsUnfold
<1>. SUFFICES ASSUME BasesMade, NEW c \in Made
              PROVE  Chain(c) = {c} \cup (IF class[c].base = None THEN {} ELSE Chain(class[c].base))
  BY DEF ChainsUnfold
<1>. DEFINE b == class[c].base
            S == {c} \cup (IF b = None THEN {} ELSE Chain(b))
<1>1. c \in Class /\ (b # None => b \in Class)
  BY DEF Made, BasesMade, Bases
<1>2. c \in Chain(c) /\ Closed(Chain(c)) /\ Chain(c) \subseteq Class
  BY <1>1, ChainLeast DEF ChainsLeast
<1>3. b # None => b \in Chain(b) /\ Closed(Chain(b)) /\ Chain(b) \subseteq Class
  BY <1>1, ChainLeast DEF ChainsLeast
<1>4. Closed(S) /\ S \in SUBSET Class /\ c \in S
  BY <1>1, <1>3 DEF Closed
<1>5. Chain(c) \subseteq S
  BY <1>1, <1>4, ChainLeast DEF ChainsLeast
<1>6. b # None => Chain(b) \subseteq Chain(c)
  <2>1. b # None => b \in Chain(c)
    BY <1>2 DEF Closed
  <2>. QED BY <1>1, <1>2, <2>1, ChainLeast DEF ChainsLeast
<1>. QED BY <1>2, <1>5, <1>6

\* On the way from a class up to one it derives from there is a class that was
\* derived from that one directly.
LEMMA ChildInChain ==
    ASSUME BasesMade, Acyclic, NEW c \in Made, NEW d \in Chain(c), d # c, Chain(c) \subseteq Made
    PROVE  \E e \in Chain(c) \ Chain(d) : e \in Made /\ class[e].base = d
<1>. DEFINE T == {e \in Chain(c) : d \in Chain(e) /\ e # d}
<1>. SUFFICES ASSUME \A e \in Chain(c) \ Chain(d) : class[e].base # d
              PROVE  FALSE
  OBVIOUS
<1>1. c \in Class /\ d \in Made /\ d # None
  BY ClassAssumption DEF Made
<1>2. Closed(Chain(c)) /\ c \in Chain(c) /\ Chain(c) \in SUBSET Class
  BY <1>1, ChainLeast DEF ChainsLeast
<1>3. Closed(T)
  <2>. SUFFICES ASSUME NEW e \in T, e \in Made, class[e].base # None
                PROVE  class[e].base \in T
    BY DEF Closed
  <2>1. class[e].base \in Chain(c) /\ d \in Chain(class[e].base)
    BY <1>2, ChainUnfold DEF Closed, ChainsUnfold
  <2>2. class[e].base # d
    <3>1. e \notin Chain(class[e].base)
      BY <2>1 DEF Acyclic
    <3>. QED BY <3>1
  <2>. QED BY <2>1, <2>2
<1>4. c \in T /\ T \in SUBSET Class
  BY <1>2
<1>5. Chain(c) \subseteq T
  BY <1>1, <1>3, <1>4, ChainLeast DEF ChainsLeast
<1>. QED BY <1>5

\* What a chain depends on.
LEMMA ChainSame ==
    ASSUME Made' = Made, \A c \in Made : class'[c].base = class[c].base, NEW c \in Class
    PROVE  Chain(c)' = Chain(c)
<1>1. \A S \in SUBSET Class : Closed(S)' <=> Closed(S)
  BY DEF Closed
<1>. QED BY <1>1 DEF Chain

----------------------------------------------------------------------------
(* What an operation other than deriving makes of the indices of a class:  *)
(* at most one name gets a new index, behind those there are, and a field  *)
(* keeps the one it has.                                                   *)

Extends(r, s) ==
    /\ s.base = r.base /\ s.fields = r.fields /\ s.funs = r.funs
    /\ Len(s.defaults) >= Len(r.defaults) /\ Len(s.methods) >= Len(r.methods)
    /\ \E k \in Key :
        /\ \A l \in Key \ {k} : s.members[l] = r.members[l]
        /\ \/ s.members[k] = r.members[k]
           \/ /\ ~r.members[k].field
              /\ s.members[k].field /\ s.members[k].at = Len(r.defaults) + 1
              /\ Len(s.defaults) > Len(r.defaults)
           \/ /\ ~r.members[k].field /\ r.members[k].at = 0
              /\ ~s.members[k].field /\ s.members[k].at = Len(r.methods) + 1
              /\ Len(s.methods) > Len(r.methods)

\* Two indices are the same when their parts are.
LEMMA IndexFacts ==
    ASSUME NEW m \in IndexType
    PROVE  Defined(m) <=> (m.field \/ m.at # 0)
  BY DEF Defined, NoMember, Index, IndexType

\* The handle of a member.
LEMMA OfferedFacts ==
    ASSUME TypeOK, NEW c \in Made, NEW k \in Key, Defined(class[c].members[k])
    PROVE  \E h \in HandleType : /\ h.class = c /\ h.key = k /\ h.static = ~class[c].members[k].field
                                 /\ h.at = class[c].members[k].at /\ Offered(h)
<1>. DEFINE m == class[c].members[k]
            h == [class |-> c, key |-> k, static |-> ~m.field, at |-> m.at]
<1>1. m.field \in BOOLEAN /\ m.at \in Nat /\ c \in Class
  BY MadeFacts, FieldFacts
<1>2. (~m.field) \in BOOLEAN
  BY <1>1
<1>. HIDE DEF m
<1>3. /\ h \in HandleType
      /\ h.class = c /\ h.key = k /\ h.static = ~m.field /\ h.at = m.at
  BY <1>1, <1>2, Zenon DEF HandleType
<1>. HIDE DEF h
<1>4. Offered(h)
  BY <1>1, <1>3 DEF Offered, Names, m
<1>. QED BY <1>3, <1>4 DEF m

\* A handle that fits still does.
LEMMA ExtendsKeeps ==
    ASSUME NEW r, RecordFits(r), NEW s, RecordFits(s), Extends(r, s),
           NEW h \in HandleType, HandleFits(r, h)
    PROVE  HandleFits(s, h)
<1>0. /\ Len(r.defaults) \in Nat /\ Len(r.methods) \in Nat /\ Len(s.defaults) \in Nat /\ Len(s.methods) \in Nat
      /\ h.key \in Key /\ h.static \in BOOLEAN /\ h.at \in Nat
  BY FieldFacts DEF RecordFits, HandleType
<1>1. PICK k \in Key :
        /\ \A l \in Key \ {k} : s.members[l] = r.members[l]
        /\ \/ s.members[k] = r.members[k]
           \/ ~r.members[k].field /\ s.members[k].field /\ s.members[k].at = Len(r.defaults) + 1
           \/ ~r.members[k].field /\ r.members[k].at = 0
              /\ ~s.members[k].field /\ s.members[k].at = Len(r.methods) + 1
  BY DEF Extends
<1>2. h.at \in 1 .. Len(Vector(r, h)) /\ h.at \in 1 .. Len(Vector(s, h))
  BY <1>0 DEF HandleFits, Extends, Vector
<1>3. Names(s.members[h.key], h) \/ (h.static /\ s.members[h.key].field)
  BY <1>0, <1>1, <1>2 DEF HandleFits, Names
<1>4. \A l \in Key \ {h.key} : ~Names(s.members[l], h)
  <2>. SUFFICES ASSUME NEW l \in Key \ {h.key}
                PROVE  ~Names(s.members[l], h)
    OBVIOUS
  <2>1. ~Names(r.members[l], h)
    BY DEF HandleFits
  <2>2. CASE s.members[l] = r.members[l]
    BY <2>1, <2>2
  <2>3. CASE s.members[l].field /\ s.members[l].at = Len(r.defaults) + 1
    BY <1>0, <1>2, <2>3 DEF Vector, Names
  <2>4. CASE ~s.members[l].field /\ s.members[l].at = Len(r.methods) + 1
    BY <1>0, <1>2, <2>4 DEF Vector, Names
  <2>. QED BY <1>1, <2>2, <2>3, <2>4
<1>. QED BY <1>2, <1>3, <1>4 DEF HandleFits

\* An index that is new is of no other member, and behind all those that a
\* class derived before has copies of.
LEMMA ExtendsNew ==
    ASSUME NEW r, RecordFits(r), NEW s, RecordFits(s), Extends(r, s),
           NEW h \in HandleType, Names(s.members[h.key], h),
           s.members[h.key] # r.members[h.key]
    PROVE  HandleFits(s, h) /\ h.at = Len(Vector(r, h)) + 1
<1>0. /\ Len(r.defaults) \in Nat /\ Len(r.methods) \in Nat /\ Len(s.defaults) \in Nat /\ Len(s.methods) \in Nat
      /\ h.key \in Key /\ h.static \in BOOLEAN /\ h.at \in Nat
  BY FieldFacts DEF RecordFits, HandleType
<1>1. /\ \A l \in Key \ {h.key} : s.members[l] = r.members[l]
      /\ \/ /\ s.members[h.key].field /\ s.members[h.key].at = Len(r.defaults) + 1
            /\ Len(s.defaults) > Len(r.defaults)
         \/ /\ ~s.members[h.key].field /\ s.members[h.key].at = Len(r.methods) + 1
            /\ Len(s.methods) > Len(r.methods)
  BY <1>0 DEF Extends
<1>2. h.at = Len(Vector(r, h)) + 1 /\ Len(Vector(s, h)) > Len(Vector(r, h))
  BY <1>0, <1>1 DEF Vector, Names
<1>3. h.at \in 1 .. Len(Vector(s, h))
  BY <1>0, <1>2 DEF Vector
<1>4. \A l \in Key \ {h.key} : ~Names(s.members[l], h)
  <2>. SUFFICES ASSUME NEW l \in Key \ {h.key}, Names(r.members[l], h)
                PROVE  FALSE
    BY <1>1
  <2>1. (r.members[l].field <=> ~h.static) /\ r.members[l].at = h.at
    BY DEF Names
  <2>2. h.at <= Len(Vector(r, h))
    BY <1>0, <2>1 DEF RecordFits, IndicesFit, Vector
  <2>. QED BY <1>0, <1>2, <2>2 DEF Vector
<1>. QED BY <1>2, <1>3, <1>4 DEF HandleFits

\* No index that is new can be used with a class that was derived before.
LEMMA NewIsUnusable ==
    ASSUME IInv, HInv, NEW h \in HandleType, h.class \in Made,
           h.at = Len(Vector(class[h.class], h)) + 1,
           NEW c \in Made, c # h.class
    PROVE  ~UsableBy(h, c)
<1>. SUFFICES ASSUME UsableBy(h, c)
              PROVE  FALSE
  OBVIOUS
<1>. DEFINE d == h.class
<1>1. d \in Chain(c) /\ Chain(c) \subseteq Made /\ BasesMade /\ Acyclic
  BY ChainFacts DEF IInv, HInv, UsableBy
<1>2. PICK e \in Chain(c) \ Chain(d) : e \in Made /\ class[e].base = d
  BY <1>1, ChildInChain
<1>3. h.at <= IF h.static THEN class[e].funs ELSE class[e].fields
  BY DEF UsableBy
<1>4. GrownSince(class[e], class[d])
  <2>1. d # None
    BY ClassAssumption DEF Made
  <2>. QED BY <1>2, <2>1 DEF HInv, BasesGrow
<1>5. class[e] \in ClassType /\ class[d] \in ClassType
  BY <1>2 DEF IInv, RecordFits
<1>6. /\ Len(class[d].defaults) \in Nat /\ Len(class[d].methods) \in Nat
      /\ class[e].funs \in Nat /\ class[e].fields \in Nat /\ h.at \in Nat /\ h.static \in BOOLEAN
  BY <1>5, FieldFacts DEF HandleType
<1>. QED BY <1>3, <1>4, <1>6 DEF GrownSince, Vector

\* Operations that derive no class and take no handle.
LEMMA ExtendsHandles ==
    ASSUME IInv, IInv', HInv, Made' = Made, handle' = handle,
           \A c \in Made : Extends(class[c], class'[c])
    PROVE  HInv'
<1>1. \A c \in Made : /\ class'[c].base = class[c].base /\ class'[c].fields = class[c].fields
                      /\ class'[c].funs = class[c].funs
                      /\ Len(class'[c].defaults) >= Len(class[c].defaults)
                      /\ Len(class'[c].methods) >= Len(class[c].methods)
  BY DEF Extends
<1>2. \A c \in Class : Chain(c)' = Chain(c)
  BY <1>1, ChainSame
<1>3. \A c \in Made : class[c].base # None => class[c].base \in Made
  BY DEF IInv, BasesMade, Bases
<1>4. Made \subseteq Class
  BY DEF Made
<1>5. Acyclic'
  BY <1>1, <1>2, <1>3, <1>4 DEF HInv, Acyclic
<1>6. \A c \in Made : RecordFits(class[c]) /\ RecordFits(class'[c])
  BY DEF IInv
<1>7. BasesGrow'
  <2>. SUFFICES ASSUME NEW c \in Made, class'[c].base # None
                PROVE  GrownSince(class'[c], class'[class'[c].base])
    BY DEF BasesGrow
  <2>1. class[c].base \in Made /\ GrownSince(class[c], class[class[c].base])
    BY <1>1, <1>3 DEF HInv, BasesGrow
  <2>. DEFINE b == class[c].base
  <2>2. class[c] \in ClassType /\ class[b] \in ClassType /\ class'[b] \in ClassType
    BY <1>6, <2>1 DEF RecordFits
  <2>3. /\ class[c].funs \in Nat /\ class[c].fields \in Nat
        /\ Len(class[b].defaults) \in Nat /\ Len(class[b].methods) \in Nat
        /\ Len(class'[b].defaults) \in Nat /\ Len(class'[b].methods) \in Nat
    BY <2>2, FieldFacts
  <2>4. class'[c].base = b /\ GrownSince(class[c], class[b])
    BY <1>1, <2>1
  <2>. HIDE DEF b
  <2>5. /\ class'[c].fields = class[c].fields /\ class'[c].funs = class[c].funs
        /\ Len(class'[b].defaults) >= Len(class[b].defaults)
        /\ Len(class'[b].methods) >= Len(class[b].methods)
    BY <1>1, <2>1 DEF b
  <2>. QED BY SMTT(30), <2>3, <2>4, <2>5 DEF GrownSince
<1>8. \A h \in HandleType, c \in Made : UsableBy(h, c)' => UsableBy(h, c)
  <2>. SUFFICES ASSUME NEW h \in HandleType, NEW c \in Made, UsableBy(h, c)'
                PROVE  UsableBy(h, c)
    OBVIOUS
  <2>1. h.class \in Class /\ c \in Class /\ Chain(c) \subseteq Made
    BY <1>4, ChainFacts DEF HandleType
  <2>. QED BY <1>1, <1>2, <2>1 DEF UsableBy
<1>9. (handle # None => handle.class \in Made)'
  BY DEF HInv, HandlesFit
<1>10. \A h \in HandleType : HandleHolds(h) => HandleHolds(h)'
  BY <1>6, <1>8, ExtendsKeeps DEF HandleHolds
<1>11. \A h \in HandleType : Offered(h)' => HandleHolds(h)'
  <2>. SUFFICES ASSUME NEW h \in HandleType, Offered(h)'
                PROVE  HandleHolds(h)'
    OBVIOUS
  <2>. DEFINE d == h.class
  <2>1. d \in Made /\ h.key \in Key /\ h.class = d
    BY DEF Offered, HandleType
  <2>2. Names(class'[d].members[h.key], h) /\ Defined(class'[d].members[h.key])
    BY <2>1 DEF Offered, Names
  <2>. HIDE DEF d
  <2>3. CASE class'[d].members[h.key] = class[d].members[h.key]
    <3>1. Offered(h)
      BY <2>1, <2>2, <2>3 DEF Offered
    <3>. QED BY <1>10, <3>1 DEF HInv, HandlesFit
  <2>4. CASE class'[d].members[h.key] # class[d].members[h.key]
    <3>1. HandleFits(class'[d], h) /\ h.at = Len(Vector(class[d], h)) + 1
      BY <1>6, <2>1, <2>2, <2>4, ExtendsNew
    <3>2. \A c \in Made : c # d => ~UsableBy(h, c)'
      BY <1>8, <2>1, <3>1, NewIsUnusable
    <3>. QED BY <3>1, <3>2 DEF HandleHolds
  <2>. QED BY <2>3, <2>4
<1>12. \A h \in HandleType : h = handle' => HandleHolds(h)'
  BY <1>10 DEF HInv, HandlesFit
<1>13. HandlesFit'
  BY <1>9, <1>11, <1>12 DEF HandlesFit
<1>. QED BY <1>5, <1>7, <1>13 DEF HInv

----------------------------------------------------------------------------
(* The operations on a class extend it.                                    *)

\* The same indices into vectors as long.
LEMMA SameExtends ==
    ASSUME NEW r \in ClassType, NEW s, s.base = r.base, s.fields = r.fields, s.funs = r.funs,
           s.members = r.members,
           Len(s.defaults) = Len(r.defaults), Len(s.methods) = Len(r.methods)
    PROVE  Extends(r, s)
<1>1. Ctor \in Key /\ Len(r.defaults) \in Nat /\ Len(r.methods) \in Nat
  BY ClassAssumption, FieldFacts
<1>. QED BY <1>1 DEF Extends

LEMMA ReplacedExtends ==
    ASSUME NEW r \in ClassType, NEW n, NEW v \in Value
    PROVE  Extends(r, [r EXCEPT !.defaults[n] = v]) /\ Extends(r, [r EXCEPT !.methods[n] = v])
<1>1. Len([r.defaults EXCEPT ![n] = v]) = Len(r.defaults) /\ Len([r.methods EXCEPT ![n] = v]) = Len(r.methods)
  <2>. DEFINE d == r.defaults
              f == r.methods
  <2>1. d \in Seq(Value) /\ f \in Seq(Value)
    BY FieldFacts
  <2>. HIDE DEF d, f
  <2>2. Len([d EXCEPT ![n] = v]) = Len(d) /\ Len([f EXCEPT ![n] = v]) = Len(f)
    BY <2>1, ReplaceFacts
  <2>. QED BY <2>2 DEF d, f
<1>. DEFINE d == [r.defaults EXCEPT ![n] = v]
            f == [r.methods EXCEPT ![n] = v]
            s == [r EXCEPT !.defaults = d]
            t == [r EXCEPT !.methods = f]
<1>2. [r EXCEPT !.defaults[n] = v] = s /\ [r EXCEPT !.methods[n] = v] = t
  BY Zenon
<1>3. Len(d) = Len(r.defaults) /\ Len(f) = Len(r.methods)
  BY <1>1
<1>. HIDE DEF d, f
<1>4. Extends(r, s)
  <2>1. /\ s.base = r.base /\ s.fields = r.fields /\ s.funs = r.funs
        /\ s.members = r.members /\ s.defaults = d /\ s.methods = r.methods
    BY DEF ClassType
  <2>. HIDE DEF s
  <2>. QED BY <1>3, <2>1, SameExtends
<1>5. Extends(r, t)
  <2>1. /\ t.base = r.base /\ t.fields = r.fields /\ t.funs = r.funs
        /\ t.members = r.members /\ t.defaults = r.defaults /\ t.methods = f
    BY DEF ClassType
  <2>. HIDE DEF t
  <2>. QED BY <1>3, <2>1, SameExtends
<1>. QED BY <1>2, <1>4, <1>5

\* The lock, a metamethod and the size of the user data are no part of it.
LEMMA OthersExtend ==
    ASSUME NEW r \in ClassType, NEW x
    PROVE  /\ Extends(r, r)
           /\ Extends(r, [r EXCEPT !.meta = x])
           /\ Extends(r, [r EXCEPT !.ud = x])
           /\ Extends(r, [r EXCEPT !.locked = x])
  BY SMTT(30), SameExtends DEF ClassType

LEMMA WithMethodExtends ==
    ASSUME NEW r \in ClassType, NEW k \in Key, NEW v \in Value, ~Defined(r.members[k])
    PROVE  Extends(r, WithMethod(r, k, v))
<1>. DEFINE s == WithMethod(r, k, v)
            m == Index(FALSE, Len(r.methods) + 1)
<1>1. /\ s.members = [r.members EXCEPT ![k] = m] /\ s.methods = Append(r.methods, v)
      /\ s.defaults = r.defaults /\ s.base = r.base /\ s.fields = r.fields /\ s.funs = r.funs
  BY DEF WithMethod, ClassType
<1>2. /\ r.members \in [Key -> IndexType] /\ r.methods \in Seq(Value)
      /\ Len(r.methods) \in Nat /\ Len(r.defaults) \in Nat
  BY FieldFacts
<1>3. Len(s.methods) = Len(r.methods) + 1
  BY <1>1, <1>2, AddFacts
<1>4. s.members[k] = m /\ ~m.field /\ m.at = Len(r.methods) + 1
  BY <1>1, <1>2 DEF Index
<1>5. \A l \in Key \ {k} : s.members[l] = r.members[l]
  BY <1>1, <1>2
<1>6. ~r.members[k].field /\ r.members[k].at = 0
  BY <1>2, IndexFacts
<1>. HIDE DEF s, m
<1>7. Extends(r, s)
  BY <1>1, <1>2, <1>3, <1>4, <1>5, <1>6 DEF Extends
<1>. QED BY <1>7 DEF s

LEMMA WithFieldExtends ==
    ASSUME NEW r \in ClassType, NEW k \in Key, NEW v \in Value, ~r.members[k].field
    PROVE  Extends(r, WithField(r, k, v))
<1>. DEFINE s == WithField(r, k, v)
            m == Index(TRUE, Len(r.defaults) + 1)
<1>1. /\ s.members = [r.members EXCEPT ![k] = m] /\ s.defaults = Append(r.defaults, v)
      /\ s.methods = r.methods /\ s.base = r.base /\ s.fields = r.fields /\ s.funs = r.funs
  BY DEF WithField, ClassType
<1>2. /\ r.members \in [Key -> IndexType] /\ r.defaults \in Seq(Value)
      /\ Len(r.methods) \in Nat /\ Len(r.defaults) \in Nat
  BY FieldFacts
<1>3. Len(s.defaults) = Len(r.defaults) + 1
  BY <1>1, <1>2, AddFacts
<1>4. s.members[k] = m /\ m.field /\ m.at = Len(r.defaults) + 1
  BY <1>1, <1>2 DEF Index
<1>5. \A l \in Key \ {k} : s.members[l] = r.members[l]
  BY <1>1, <1>2
<1>. HIDE DEF s, m
<1>6. Extends(r, s)
  BY <1>1, <1>2, <1>3, <1>4, <1>5 DEF Extends
<1>. QED BY <1>6 DEF s

\* LVClass::NewSlot on a class it does not refuse.
LEMMA WithMemberExtends ==
    ASSUME NEW r \in ClassType, NEW k \in Key, NEW v \in Value, NEW static \in BOOLEAN
    PROVE  Extends(r, WithMember(r, k, v, static))
<1>. DEFINE m == r.members[k]
<1>1. CASE m.field
  BY <1>1, ReplacedExtends DEF WithMember
<1>2. CASE ~m.field /\ v \in Fun /\ k \in Meta
  <2>1. WithMember(r, k, v, static) = [r EXCEPT !.meta = [r.meta EXCEPT ![k] = v]]
    BY <1>2, Zenon DEF WithMember
  <2>. QED BY <2>1, OthersExtend
<1>3. CASE ~m.field /\ ~(v \in Fun /\ k \in Meta) /\ IsStatic(v, static) /\ Defined(m)
  BY <1>3, ReplacedExtends DEF WithMember
<1>4. CASE ~m.field /\ ~(v \in Fun /\ k \in Meta) /\ IsStatic(v, static) /\ ~Defined(m)
  BY <1>4, WithMethodExtends DEF WithMember
<1>5. CASE ~m.field /\ ~(v \in Fun /\ k \in Meta) /\ ~IsStatic(v, static)
  BY <1>5, WithFieldExtends DEF WithMember
<1>. QED BY <1>1, <1>2, <1>3, <1>4, <1>5

----------------------------------------------------------------------------
(* Every step keeps the handles.                                           *)

\* An operation on one class.
LEMMA OneClassHandles ==
    ASSUME IInv, IInv', HInv, NEW c \in Made, NEW s, RecordFits(s), Extends(class[c], s),
           class' = [class EXCEPT ![c] = s], handle' = handle
    PROVE  HInv'
<1>1. class \in [Class -> ClassType \cup {None}] /\ s # None /\ c \in Class
  BY ClassAssumption DEF IInv, TypeOK, RecordFits, Made
<1>2. \A d \in Class : class'[d] = IF d = c THEN s ELSE class[d]
  BY <1>1
<1>3. Made' = Made
  BY <1>1, <1>2 DEF Made
<1>4. \A d \in Made : Extends(class[d], class'[d])
  <2>. SUFFICES ASSUME NEW d \in Made
                PROVE  Extends(class[d], class'[d])
    OBVIOUS
  <2>1. d \in Class /\ class[d] \in ClassType
    BY DEF IInv, RecordFits, Made
  <2>2. Extends(class[d], class[d])
    BY <2>1, OthersExtend
  <2>. QED BY <1>2, <2>1, <2>2
<1>. QED BY <1>3, <1>4, ExtendsHandles

\* An operation on no class.
LEMMA NoClassHandles ==
    ASSUME IInv, IInv', HInv, class' = class, handle' = handle
    PROVE  HInv'
<1>1. Made' = Made
  BY DEF Made
<1>2. \A d \in Made : Extends(class[d], class'[d])
  BY OthersExtend DEF IInv, RecordFits
<1>. QED BY <1>1, <1>2, ExtendsHandles

LEMMA NewMemberHandles ==
    ASSUME IInv, IInv', HInv, NEW c \in Made, NEW k \in Key, NEW v \in Value,
           NEW static \in BOOLEAN, NEW raw \in BOOLEAN, NewMember(c, k, v, static, raw)
    PROVE  HInv'
<1>. DEFINE s == WithMember(class[c], k, v, static)
<1>1. RecordFits(class[c]) /\ class[c] \in ClassType /\ ~(class[c].locked /\ ~IsStatic(v, static))
  BY DEF IInv, NewMember, Refused, RecordFits
<1>2. RecordFits(s) /\ Extends(class[c], s)
  BY <1>1, WithMemberFits, WithMemberExtends
<1>3. class' = [class EXCEPT ![c] = s] /\ handle' = handle
  BY DEF NewMember
<1>. HIDE DEF s
<1>. QED BY <1>2, <1>3, OneClassHandles

LEMMA SetUdSizeHandles ==
    ASSUME IInv, IInv', HInv, NEW c \in Made, NEW n \in Sizes, SetUdSize(c, n)
    PROVE  HInv'
<1>. DEFINE s == [class[c] EXCEPT !.ud = n]
<1>1. n \in Nat /\ RecordFits(class[c]) /\ class[c] \in ClassType /\ ~class[c].locked
  BY ClassAssumption DEF IInv, SetUdSize, RecordFits
<1>2. RecordFits(s) /\ Extends(class[c], s)
  BY <1>1, UdFits, OthersExtend
<1>3. class' = [class EXCEPT ![c] = s] /\ handle' = handle
  BY DEF SetUdSize
<1>. HIDE DEF s
<1>. QED BY <1>2, <1>3, OneClassHandles

LEMMA SetClassByHandleHandles ==
    ASSUME IInv, IInv', HInv, NEW c \in Made, NEW v \in Value, SetClassByHandle(c, v)
    PROVE  HInv'
<1>. DEFINE s == IF handle.static THEN [class[c] EXCEPT !.methods[handle.at] = v]
                 ELSE [class[c] EXCEPT !.defaults[handle.at] = v]
<1>1. RecordFits(class[c]) /\ class[c] \in ClassType
  BY DEF IInv, RecordFits
<1>2. RecordFits(s) /\ Extends(class[c], s)
  BY <1>1, ReplacedFits, ReplacedExtends
<1>3. class' = [class EXCEPT ![c] = s] /\ handle' = handle
  BY DEF SetClassByHandle
<1>. HIDE DEF s
<1>. QED BY <1>2, <1>3, OneClassHandles

LEMMA SetByHandleHandles ==
    ASSUME IInv, IInv', HInv, NEW i \in Live, NEW v \in Value, SetByHandle(i, v)
    PROVE  HInv'
<1>. DEFINE c == inst[i].class
            s == [class[c] EXCEPT !.methods[handle.at] = v]
<1>0. handle' = handle
  BY DEF SetByHandle
<1>1. c \in Made /\ RecordFits(class[c]) /\ class[c] \in ClassType
  BY DEF IInv, InstanceFits, RecordFits
<1>2. CASE handle.static
  <2>1. class' = [class EXCEPT ![c] = s]
    BY <1>2 DEF SetByHandle
  <2>2. RecordFits(s) /\ Extends(class[c], s)
    BY <1>1, ReplacedFits, ReplacedExtends
  <2>. HIDE DEF s
  <2>. QED BY <1>0, <1>1, <2>1, <2>2, OneClassHandles
<1>3. CASE ~handle.static
  <2>1. class' = class
    BY <1>3 DEF SetByHandle
  <2>. QED BY <1>0, <2>1, NoClassHandles
<1>. QED BY <1>2, <1>3

\* CreateClassInstance locks a chain.
LEMMA NewInstanceHandles ==
    ASSUME IInv, IInv', HInv, NEW i \in Inst, NEW c \in Made, NewInstance(i, c)
    PROVE  HInv'
<1>1. class' = Lock(c) /\ handle' = handle
  BY DEF NewInstance
<1>2. class \in [Class -> ClassType \cup {None}] /\ c \in Class
  BY DEF IInv, TypeOK, Made
<1>3. \A d \in Class : class'[d] = class[d] \/ class'[d] = [class[d] EXCEPT !.locked = TRUE]
  BY <1>1, <1>2 DEF Lock
<1>4. \A d \in Class : d \notin Chain(c) => class'[d] = class[d]
  BY <1>1, <1>2 DEF Lock
<1>5. \A d \in Made : d \in Class /\ class[d] \in ClassType /\ [class[d] EXCEPT !.locked = TRUE] \in ClassType
  BY LockedFits DEF IInv, RecordFits, Made
<1>6. Made' = Made
  <2>1. Chain(c) \subseteq Made
    BY ChainFacts
  <2>2. \A d \in Class : class'[d] = None <=> class[d] = None
    BY <1>3, <1>4, <1>5, <2>1, ClassAssumption
  <2>. QED BY <2>2 DEF Made
<1>7. \A d \in Made : Extends(class[d], class'[d])
  <2>. SUFFICES ASSUME NEW d \in Made
                PROVE  Extends(class[d], class'[d])
    OBVIOUS
  <2>1. class[d] \in ClassType /\ d \in Class
    BY <1>5
  <2>2. Extends(class[d], class[d]) /\ Extends(class[d], [class[d] EXCEPT !.locked = TRUE])
    BY <2>1, OthersExtend
  <2>. QED BY <1>3, <2>1, <2>2
<1>. QED BY <1>1, <1>6, <1>7, ExtendsHandles

\* lv_getmemberhandle
LEMMA GetHandleHandles ==
    ASSUME IInv, IInv', HInv, NEW c \in Made, NEW k \in Key, GetHandle(c, k)
    PROVE  HInv'
<1>1. /\ handle' = [class |-> c, key |-> k, static |-> ~class[c].members[k].field,
                    at |-> class[c].members[k].at]
      /\ class' = class /\ Defined(class[c].members[k])
  BY DEF GetHandle
<1>2. PICK h \in HandleType : h = handle'
  <2>1. /\ c \in Class /\ class[c].members[k].at \in Nat /\ (~class[c].members[k].field) \in BOOLEAN
    BY MadeFacts, FieldFacts DEF IInv
  <2>. QED BY <1>1, <2>1, Zenon DEF HandleType
<1>3. /\ h.class = c /\ h.key = k /\ h.static = ~class[c].members[k].field
      /\ h.at = class[c].members[k].at
  BY <1>1, <1>2, Zenon
<1>4. Offered(h)
  <2>1. class[c].members[k].field \in BOOLEAN
    BY FieldFacts DEF IInv, RecordFits
  <2>. QED BY <1>1, <1>3, <2>1 DEF Offered, Names
<1>5. Made' = Made
  BY <1>1 DEF Made
<1>6. \A d : Chain(d)' = Chain(d)
  BY <1>1, <1>5 DEF Chain, Closed
<1>7. Acyclic' /\ BasesGrow'
  BY <1>1, <1>5, <1>6 DEF HInv, Acyclic, BasesGrow
<1>8. \A g \in HandleType : /\ HandleHolds(g)' <=> HandleHolds(g)
                            /\ Offered(g)' <=> Offered(g)
  <2>1. \A g \in HandleType, d \in Made : UsableBy(g, d)' <=> UsableBy(g, d)
    BY <1>1, <1>6 DEF UsableBy
  <2>. QED BY <1>1, <1>5, <2>1 DEF HandleHolds, Offered
<1>9. HandleHolds(h)
  BY <1>4 DEF HInv, HandlesFit
<1>10. handle'.class \in Made'
  BY <1>2, <1>3, <1>5
<1>11. HandlesFit'
  BY <1>2, <1>8, <1>9, <1>10 DEF HInv, HandlesFit
<1>. QED BY <1>7, <1>11 DEF HInv

\* A derived class has what its base has.
LEMMA DerivedFacts ==
    ASSUME NEW b \in Made, class[b] \in ClassType
    PROVE  /\ Derived(b).base = b /\ Derived(b).members = class[b].members
           /\ Derived(b).defaults = class[b].defaults /\ Derived(b).methods = class[b].methods
           /\ Derived(b).fields = Len(class[b].defaults) /\ Derived(b).funs = Len(class[b].methods)
<1>1. b # None
  BY ClassAssumption DEF Made
<1>. QED BY <1>1 DEF Derived, ClassType

\* A class without a base has nothing.
LEMMA RootFacts ==
    /\ Derived(None).base = None /\ Derived(None).defaults = <<>> /\ Derived(None).methods = <<>>
    /\ Derived(None).members = [k \in Key |-> NoMember]
  BY DEF Derived

\* The facts about chains after a step.
LEMMA ChainLeastAfter == BasesMade' => ChainsLeast'
  BY ChainLeast, PTL

LEMMA ChainUnfoldAfter == BasesMade' => ChainsUnfold'
  BY ChainUnfold, PTL

\* CLASS_OP and lv_newclass: a class is added to the chains, below them.
LEMMA NewClassChains ==
    ASSUME IInv, IInv', NEW c \in Class, NEW b \in Bases, NewClass(c, b)
    PROVE  /\ c \notin Made /\ Made' = Made \cup {c}
           /\ class'[c] = Derived(b) /\ class'[c].base = b
           /\ \A d \in Made : class'[d] = class[d] /\ Chain(d)' = Chain(d)
           /\ Chain(c)' = {c} \cup (IF b = None THEN {} ELSE Chain(b))
<1>1. class[c] = None /\ class' = [class EXCEPT ![c] = Derived(b)]
  BY DEF NewClass
<1>2. RecordFits(Derived(b)) /\ Derived(b).base = b
  BY DerivedFits
<1>3. class \in [Class -> ClassType \cup {None}] /\ Derived(b) # None
  BY <1>2, ClassAssumption DEF IInv, TypeOK, RecordFits
<1>4. \A d \in Class : class'[d] = IF d = c THEN Derived(b) ELSE class[d]
  BY <1>1, <1>3
<1>5. c \notin Made /\ Made' = Made \cup {c} /\ Made \subseteq Class
  BY <1>1, <1>3, <1>4 DEF Made
<1>6. \A d \in Made : class'[d] = class[d] /\ d \in Class
  BY <1>4, <1>5
<1>7. BasesMade /\ BasesMade'
  BY DEF IInv
<1>8. \A d \in Class :
          /\ d \in Chain(d)' /\ Chain(d)' \subseteq Class /\ Closed(Chain(d))'
          /\ \A S \in SUBSET Class : d \in S /\ Closed(S)' => Chain(d)' \subseteq S
  BY <1>7, ChainLeastAfter DEF ChainsLeast
<1>9. \A d \in Made : Chain(d)' = Chain(d)
  <2>. SUFFICES ASSUME NEW d \in Made
                PROVE  Chain(d)' = Chain(d)
    OBVIOUS
  <2>1. d \in Chain(d) /\ Closed(Chain(d)) /\ Chain(d) \subseteq Made
    BY <1>6, <1>7, ChainLeast, ChainFacts DEF ChainsLeast
  <2>2. \A S \in SUBSET Made : Closed(S)' <=> Closed(S)
    BY <1>5, <1>6 DEF Closed
  <2>3. Chain(d)' \subseteq Chain(d)
    <3>1. \A S \in SUBSET Class : d \in S /\ Closed(S)' => Chain(d)' \subseteq S
      BY <1>6, <1>7, <1>8
    <3>2. \A S : S = Chain(d) => Closed(S)'
      BY <2>1, <2>2
    <3>3. \A S : S = Chain(d) => S \in SUBSET Class /\ d \in S
      BY <1>5, <2>1
    <3>. QED BY <3>1, <3>2, <3>3
  <2>4. d \in Chain(d)' /\ Chain(d)' \subseteq Made
    BY <1>6, <1>7, <1>8, <2>1, <2>3
  <2>5. \A S : S = Chain(d)' => Closed(S)'
    BY <1>6, <1>7, <1>8 DEF Closed
  <2>6. \A S : S = Chain(d)' => Closed(S)
    BY <2>2, <2>4, <2>5
  <2>7. Chain(d) \subseteq Chain(d)'
    <3>1. \A S \in SUBSET Class : d \in S /\ Closed(S) => Chain(d) \subseteq S
      BY <1>6, <1>7, ChainLeast DEF ChainsLeast
    <3>2. Chain(d)' \in SUBSET Class
      BY <1>5, <2>4
    <3>. QED BY <2>4, <2>6, <3>1, <3>2
  <2>. QED BY <2>3, <2>7
<1>10. \A d \in Made' :
          Chain(d)' = {d} \cup (IF class'[d].base = None THEN {} ELSE Chain(class[d].base)')
  BY <1>7, ChainUnfoldAfter DEF ChainsUnfold
<1>11. Chain(c)' = {c} \cup (IF b = None THEN {} ELSE Chain(b))
  <2>1. class'[c].base = b
    BY <1>2, <1>4
  <2>2. Chain(c)' = {c} \cup (IF b = None THEN {} ELSE Chain(class[c].base)')
    BY <1>5, <1>7, <1>10, <2>1
  <2>3. b # None => Chain(class[c].base)' = Chain(b)'
    BY <2>1 DEF Chain, Closed
  <2>4. b # None => Chain(b)' = Chain(b)
    BY <1>9 DEF Bases
  <2>. QED BY <2>2, <2>3, <2>4
<1>. QED BY <1>2, <1>4, <1>5, <1>6, <1>9, <1>11

\* A handle fits a derived class when it fits the base.
LEMMA DerivedHandles ==
    ASSUME NEW b \in Made, class[b] \in ClassType, NEW h
    PROVE  HandleFits(class[b], h) <=> HandleFits(Derived(b), h)
  BY DerivedFacts DEF HandleFits, Vector

LEMMA NewClassHandles ==
    ASSUME IInv, IInv', HInv, NEW c \in Class, NEW b \in Bases, NewClass(c, b)
    PROVE  HInv'
<1>1. /\ c \notin Made /\ Made' = Made \cup {c}
      /\ class'[c] = Derived(b) /\ class'[c].base = b
      /\ \A d \in Made : class'[d] = class[d] /\ Chain(d)' = Chain(d)
      /\ Chain(c)' = {c} \cup (IF b = None THEN {} ELSE Chain(b))
  BY NewClassChains
<1>2. handle' = handle
  BY DEF NewClass
<1>3. /\ \A d \in Made : d \in Chain(d) /\ Chain(d) \subseteq Made /\ class[d] \in ClassType
      /\ \A d \in Made : class[d].base # None => class[d].base \in Made
      /\ b # None => b \in Made
  BY ChainFacts DEF IInv, BasesMade, Bases, RecordFits
<1>4. Acyclic'
  <2>1. \A d \in Made, e \in Made : class'[d].base = e => d \notin Chain(e)'
    BY <1>1 DEF HInv, Acyclic
  <2>2. \A d \in Made : class'[d].base # c
    <3>1. c # None
      BY ClassAssumption
    <3>. QED BY <1>1, <1>3, <3>1
  <2>3. class'[c].base = b /\ (b \in Made => c \notin Chain(b)') /\ b # c
    <3>1. c # None
      BY ClassAssumption
    <3>. QED BY <1>1, <1>3, <3>1
  <2>. QED BY <1>1, <2>1, <2>2, <2>3 DEF Acyclic
<1>5. BasesGrow'
  <2>1. \A d \in Made : class'[d].base # None => GrownSince(class'[d], class'[class'[d].base])
    BY <1>1, <1>3 DEF HInv, BasesGrow
  <2>2. b # None => GrownSince(class'[c], class'[b])
    <3>. SUFFICES ASSUME b # None
                  PROVE  GrownSince(class'[c], class'[b])
      OBVIOUS
    <3>1. b \in Made /\ class[b] \in ClassType /\ class'[b] = class[b]
      BY <1>1, <1>3
    <3>2. /\ class'[c].fields = Len(class'[b].defaults) /\ class'[c].funs = Len(class'[b].methods)
          /\ Len(class'[b].defaults) \in Nat /\ Len(class'[b].methods) \in Nat
      BY <1>1, <3>1, DerivedFacts, FieldFacts
    <3>. QED BY <3>2 DEF GrownSince
  <2>. QED BY <1>1, <2>1, <2>2 DEF BasesGrow
<1>6. \A h \in HandleType, d \in Made : UsableBy(h, d)' => UsableBy(h, d)
  <2>. SUFFICES ASSUME NEW h \in HandleType, NEW d \in Made, UsableBy(h, d)'
                PROVE  UsableBy(h, d)
    OBVIOUS
  <2>1. h.class \in Chain(d) /\ h.class \in Made
    BY <1>1, <1>3 DEF UsableBy
  <2>. QED BY <1>1, <1>3, <2>1 DEF UsableBy
<1>7. ASSUME NEW h \in HandleType, h.class \in Made, UsableBy(h, c)'
      PROVE  b \in Made /\ UsableBy(h, b)
  <2>1. h.class \in Chain(c)' /\ h.class # c
    BY <1>1, <1>7 DEF UsableBy
  <2>2. b # None /\ b \in Made /\ h.class \in Chain(b)
    BY <1>1, <1>3, <2>1
  <2>3. \A d \in Chain(b) \ Chain(h.class) : d \in Chain(c)' \ Chain(h.class)' /\ d \in Made
    BY <1>1, <1>3, <1>7, <2>2
  <2>4. \A d \in Chain(b) \ Chain(h.class) :
            h.at <= IF h.static THEN class[d].funs ELSE class[d].fields
    BY <1>1, <1>7, <2>3 DEF UsableBy
  <2>. QED BY <2>2, <2>4 DEF UsableBy
<1>8. ASSUME NEW h \in HandleType, h.class \in Made, HandleHolds(h)
      PROVE  HandleHolds(h)'
  <2>1. \A d \in Made : UsableBy(h, d)' => HandleFits(class'[d], h)
    BY <1>1, <1>6, <1>8 DEF HandleHolds
  <2>2. UsableBy(h, c)' => HandleFits(class'[c], h)
    <3>. SUFFICES ASSUME UsableBy(h, c)'
                  PROVE  HandleFits(class'[c], h)
      OBVIOUS
    <3>1. b \in Made /\ UsableBy(h, b)
      BY <1>7, <1>8
    <3>2. HandleFits(class[b], h)
      BY <1>8, <3>1 DEF HandleHolds
    <3>. QED BY <1>1, <1>3, <3>1, <3>2, DerivedHandles
  <2>. QED BY <1>1, <2>1, <2>2 DEF HandleHolds
<1>9. ASSUME NEW h \in HandleType, h.class = c, Offered(h)'
      PROVE  HandleHolds(h)'
  <2>1. Names(class'[c].members[h.key], h) /\ Defined(class'[c].members[h.key]) /\ h.key \in Key
    BY <1>9 DEF Offered, Names, HandleType
  <2>2. b # None
    <3>. SUFFICES ASSUME b = None
                  PROVE  FALSE
      OBVIOUS
    <3>1. class'[c].members[h.key] = NoMember
      BY <1>1, <2>1, RootFacts
    <3>. QED BY <2>1, <3>1 DEF Defined
  <2>3. b \in Made /\ b \in Class /\ class[b] \in ClassType /\ class'[c] = Derived(b)
    BY <1>1, <1>3, <2>2 DEF Made
  <2>4. PICK g \in HandleType : g.class = b /\ g.key = h.key /\ g.static = h.static /\ g.at = h.at
    <3>1. [h EXCEPT !.class = b] \in HandleType
      BY <2>3 DEF HandleType
    <3>. QED BY <3>1 DEF HandleType
  <2>5. Offered(g)
    BY <2>1, <2>3, <2>4, DerivedFacts DEF Offered, Names
  <2>6. HandleFits(class[b], g)
    <3>1. UsableBy(g, b)
      BY <1>3, <2>3, <2>4 DEF UsableBy
    <3>. QED BY <2>3, <2>5, <3>1 DEF HInv, HandlesFit, HandleHolds
  <2>7. HandleFits(class'[c], g)
    BY <2>3, <2>6, DerivedHandles
  <2>8. HandleFits(class'[c], h)
    BY <2>4, <2>7 DEF HandleFits, Names, Vector
  <2>9. \A d \in Made : ~UsableBy(h, d)'
    BY <1>1, <1>3, <1>9 DEF UsableBy
  <2>. QED BY <1>1, <2>8, <2>9 DEF HandleHolds
<1>10. \A h \in HandleType : Offered(h)' => HandleHolds(h)'
  <2>. SUFFICES ASSUME NEW h \in HandleType, Offered(h)'
                PROVE  HandleHolds(h)'
    OBVIOUS
  <2>1. CASE h.class = c
    BY <1>9, <2>1
  <2>2. CASE h.class # c
    <3>1. h.class \in Made /\ Offered(h)
      BY <1>1, <2>2 DEF Offered
    <3>. QED BY <1>8, <3>1 DEF HInv, HandlesFit
  <2>. QED BY <2>1, <2>2
<1>11. \A h \in HandleType : h = handle' => HandleHolds(h)'
  <2>. SUFFICES ASSUME NEW h \in HandleType, h = handle
                PROVE  HandleHolds(h)'
    BY <1>2
  <2>1. handle # None
    BY ClassAssumption
  <2>2. h.class \in Made /\ HandleHolds(h)
    BY <2>1 DEF HInv, HandlesFit
  <2>. QED BY <1>8, <2>2
<1>12. (handle # None => handle.class \in Made)'
  BY <1>1, <1>2 DEF HInv, HandlesFit
<1>13. HandlesFit'
  BY <1>10, <1>11, <1>12 DEF HandlesFit
<1>. QED BY <1>4, <1>5, <1>13 DEF HInv

\* Every step keeps the handles.
LEMMA StepHandles ==
    ASSUME IInv, IInv', HInv, [Next]_vars
    PROVE  HInv'
<1>0. Made \subseteq Class /\ Live \subseteq Inst
  BY DEF Made, Live
<1>1. CASE \E c \in Class, b \in Bases : NewClass(c, b)
  BY <1>1, NewClassHandles
<1>2. CASE \E c \in Made, k \in Key, v \in Value, static, raw \in BOOLEAN :
              NewMember(c, k, v, static, raw)
  BY <1>2, NewMemberHandles
<1>3. CASE \E c \in Made, n \in Sizes : SetUdSize(c, n)
  BY <1>3, SetUdSizeHandles
<1>4. CASE \E i \in Inst, c \in Made : NewInstance(i, c)
  BY <1>4, NewInstanceHandles
<1>5. CASE \E i \in Inst, j \in Live : CloneInstance(i, j)
  <2>1. class' = class /\ handle' = handle
    BY <1>5 DEF CloneInstance
  <2>. QED BY <2>1, NoClassHandles
<1>6. CASE \E i \in Live, k \in Key, v \in Value : SetField(i, k, v)
  <2>1. class' = class /\ handle' = handle
    BY <1>6 DEF SetField
  <2>. QED BY <2>1, NoClassHandles
<1>7. CASE \E c \in Made, k \in Key : GetHandle(c, k)
  BY <1>7, GetHandleHandles
<1>8. CASE \E i \in Live, v \in Value : SetByHandle(i, v)
  BY <1>8, SetByHandleHandles
<1>9. CASE \E c \in Made, v \in Value : SetClassByHandle(c, v)
  BY <1>9, SetClassByHandleHandles
<1>10. CASE UNCHANGED vars
  <2>1. class' = class /\ handle' = handle
    BY <1>10 DEF vars
  <2>. QED BY <2>1, NoClassHandles
<1>. QED
  BY <1>1, <1>2, <1>3, <1>4, <1>5, <1>6, <1>7, <1>8, <1>9, <1>10 DEF Next

LEMMA HandleInvariance == Spec => [](IInv /\ HInv)
<1>1. Init => HInv
  <2>. SUFFICES ASSUME Init PROVE HInv
    OBVIOUS
  <2>1. Made = {} /\ handle = None
    BY DEF Init, Made
  <2>2. None \notin HandleType
    BY ClassAssumption
  <2>. QED BY <2>1, <2>2 DEF HInv, Acyclic, BasesGrow, HandlesFit, Offered
<1>2. IInv /\ IInv' /\ HInv /\ [Next]_vars => HInv'
  BY StepHandles
<1>. QED BY <1>1, <1>2, Invariance, PTL DEF Spec

\* A member handle taken from a class is of the same member in every class
\* derived from it after, whatever either overrides: lv_getbyhandle and
\* lv_setbyhandle index the vectors with it and check nothing.
THEOREM HandlesAlwaysHold == Spec => []HandlesHold
<1>1. IInv /\ HInv => HandlesHold
  <2>. SUFFICES ASSUME IInv, HInv, handle # None, NEW c \in Made, Usable(c)
                PROVE  \/ class[c].members[handle.key] = Index(~handle.static, handle.at)
                       \/ handle.static /\ class[c].members[handle.key].field
    BY DEF HandlesHold
  <2>1. handle \in HandleType
    BY DEF IInv, TypeOK
  <2>2. handle.key \in Key /\ handle.static \in BOOLEAN
    BY <2>1 DEF HandleType
  <2>3. HandleHolds(handle) /\ UsableBy(handle, c)
    BY <2>1 DEF HInv, HandlesFit, Usable, UsableBy
  <2>4. PICK m : m = class[c].members[handle.key]
    OBVIOUS
  <2>5. Names(m, handle) \/ (handle.static /\ m.field)
    BY <2>3, <2>4 DEF HandleHolds, HandleFits
  <2>6. m.field \in BOOLEAN /\ m = Index(m.field, m.at)
    BY <2>2, <2>4, FieldFacts DEF IInv, RecordFits
  <2>7. Names(m, handle) => m = Index(~handle.static, handle.at)
    <3>. SUFFICES ASSUME m.field <=> ~handle.static, m.at = handle.at
                  PROVE  m = Index(~handle.static, handle.at)
      BY DEF Names
    <3>1. m.field = ~handle.static
      BY <2>2, <2>6
    <3>. QED BY <2>6, <3>1
  <2>. QED BY <2>4, <2>5, <2>7
<1>. QED BY <1>1, HandleInvariance, PTL

----------------------------------------------------------------------------
(* ClassMembers implements ClassObjects.  What a class and an instance are *)
(* there.                                                                  *)

EntryOf(r, k) ==
    LET m == r.members[k]
    IN  IF ~Defined(m) THEN None
        ELSE [field |-> m.field, val |-> IF m.field THEN r.defaults[m.at] ELSE r.methods[m.at]]

ShapeOf(r) == [k \in Key |-> EntryOf(r, k)]

RecordOf(r, t) ==
    [class |-> t.class,
     vals |-> [k \in {l \in Key : r.members[l].field} |-> t.values[r.members[k].at]]]

\* No two members of a class have the same index.
Distinct(r) ==
    \A k, l \in Key :
        k # l /\ Defined(r.members[k]) =>
            ~((r.members[l].field <=> r.members[k].field) /\ r.members[l].at = r.members[k].at)

\* The entry of a member has its kind and a value.
LEMMA EntryFacts ==
    ASSUME NEW r, RecordFits(r), NEW k \in Key
    PROVE  /\ ~Defined(r.members[k]) => EntryOf(r, k) = None
           /\ r.members[k].field => EntryOf(r, k) = [field |-> TRUE, val |-> r.defaults[r.members[k].at]]
           /\ ~r.members[k].field /\ Defined(r.members[k]) =>
                  EntryOf(r, k) = [field |-> FALSE, val |-> r.methods[r.members[k].at]]
           /\ r.members[k].field \in BOOLEAN /\ r.members[k].at \in Nat
           /\ Defined(r.members[k]) <=> (r.members[k].field \/ r.members[k].at # 0)
           /\ r.members[k].field => r.members[k].at \in 1 .. Len(r.defaults)
           /\ ~r.members[k].field => r.members[k].at \in 0 .. Len(r.methods)
<1>. DEFINE m == r.members[k]
<1>1. r \in ClassType /\ IndicesFit(r)
  BY DEF RecordFits
<1>2. m.field \in BOOLEAN /\ m.at \in Nat /\ m \in IndexType
  BY <1>1, FieldFacts
<1>3. Defined(m) <=> (m.field \/ m.at # 0)
  BY <1>2, IndexFacts
<1>4. /\ m.field => m.at \in 1 .. Len(r.defaults)
      /\ ~m.field => m.at \in 0 .. Len(r.methods)
  BY <1>1 DEF IndicesFit
<1>5. CASE m.field
  <2>1. m.field = TRUE
    BY <1>2, <1>5
  <2>. QED BY <1>2, <1>3, <1>4, <1>5, <2>1 DEF EntryOf
<1>6. CASE ~m.field
  <2>1. m.field = FALSE
    BY <1>2, <1>6
  <2>. QED BY <1>2, <1>3, <1>4, <1>6, <2>1 DEF EntryOf
<1>. QED BY <1>5, <1>6

LEMMA ShapeFacts ==
    ASSUME NEW r, RecordFits(r)
    PROVE  /\ ShapeOf(r) \in Model!Shape /\ ShapeOf(r) # None
           /\ Model!FieldsOf(ShapeOf(r)) = {k \in Key : r.members[k].field}
<1>1. ASSUME NEW k \in Key
      PROVE  /\ EntryOf(r, k) \in Model!Member \cup {None}
             /\ EntryOf(r, k) # None /\ EntryOf(r, k).field <=> r.members[k].field
  <2>1. r.defaults \in Seq(Value) /\ r.methods \in Seq(Value)
    BY FieldFacts DEF RecordFits
  <2>2. CASE r.members[k].field
    <3>1. PICK x \in Value : x = r.defaults[r.members[k].at]
      BY <2>1, <2>2, EntryFacts
    <3>2. EntryOf(r, k) = [field |-> TRUE, val |-> x]
      BY <2>2, <3>1, EntryFacts
    <3>3. EntryOf(r, k) \in Model!Member
      BY <3>2 DEF Model!Member
    <3>4. EntryOf(r, k).field = TRUE /\ EntryOf(r, k) # None
      <4>1. EntryOf(r, k) # None
        BY <3>3, ModelAssumption, Zenon
      <4>2. EntryOf(r, k).field = TRUE
        BY <3>2
      <4>. QED BY <4>1, <4>2
    <3>. QED BY <2>2, <3>3, <3>4
  <2>3. CASE ~r.members[k].field /\ Defined(r.members[k])
    <3>1. PICK x \in Value : x = r.methods[r.members[k].at]
      BY <2>1, <2>3, EntryFacts
    <3>2. EntryOf(r, k) = [field |-> FALSE, val |-> x]
      BY <2>3, <3>1, EntryFacts
    <3>3. EntryOf(r, k) \in Model!Member
      BY <3>2 DEF Model!Member
    <3>4. EntryOf(r, k).field = FALSE /\ EntryOf(r, k) # None
      <4>1. EntryOf(r, k) # None
        BY <3>3, ModelAssumption, Zenon
      <4>2. EntryOf(r, k).field = FALSE
        BY <3>2
      <4>. QED BY <4>1, <4>2
    <3>. QED BY <2>3, <3>3, <3>4
  <2>4. CASE ~Defined(r.members[k])
    BY <2>4, EntryFacts
  <2>. QED BY <2>2, <2>3, <2>4
<1>2. ShapeOf(r) \in Model!Shape
  BY <1>1 DEF ShapeOf, Model!Shape
<1>3. Model!FieldsOf(ShapeOf(r)) = {k \in Key : r.members[k].field}
  BY <1>1 DEF Model!FieldsOf, ShapeOf
<1>. QED BY <1>2, <1>3, ModelAssumption

\* A class with the same entries has the same shape.
LEMMA SameShape ==
    ASSUME NEW r, NEW s, \A k \in Key : EntryOf(s, k) = EntryOf(r, k)
    PROVE  ShapeOf(s) = ShapeOf(r)
  BY DEF ShapeOf

\* One with one other entry has that shape.
LEMMA OneEntry ==
    ASSUME NEW r, NEW s, NEW k \in Key, NEW e, EntryOf(s, k) = e,
           \A l \in Key \ {k} : EntryOf(s, l) = EntryOf(r, l)
    PROVE  ShapeOf(s) = [ShapeOf(r) EXCEPT ![k] = e]
  BY DEF ShapeOf

\* Overriding a field, and a method or static value.
LEMMA FieldReplaced ==
    ASSUME NEW r, RecordFits(r), NEW k \in Key, NEW v \in Value, r.members[k].field,
           NEW n, n = r.members[k].at,
           \A l \in Key \ {k} : ~(r.members[l].field /\ r.members[l].at = n)
    PROVE  ShapeOf([r EXCEPT !.defaults[n] = v]) = [ShapeOf(r) EXCEPT ![k] = [field |-> TRUE, val |-> v]]
<1>. DEFINE d == [r.defaults EXCEPT ![n] = v]
            s == [r EXCEPT !.defaults = d]
<1>1. r \in ClassType /\ r.defaults \in Seq(Value) /\ n \in 1 .. Len(r.defaults)
  BY EntryFacts, FieldFacts DEF RecordFits
<1>2. d[n] = v /\ \A i \in 1 .. Len(r.defaults) : i # n => d[i] = r.defaults[i]
  BY <1>1
<1>. HIDE DEF d
<1>3. /\ [r EXCEPT !.defaults[n] = v] = s
      /\ s.members = r.members /\ s.defaults = d /\ s.methods = r.methods
  BY <1>1 DEF ClassType, d
<1>. HIDE DEF s
<1>4. EntryOf(s, k) = [field |-> TRUE, val |-> v]
  <2>1. Defined(r.members[k]) /\ r.members[k].field = TRUE
    BY EntryFacts
  <2>. QED BY <1>2, <1>3, <2>1 DEF EntryOf
<1>5. \A l \in Key \ {k} : EntryOf(s, l) = EntryOf(r, l)
  <2>. SUFFICES ASSUME NEW l \in Key \ {k}
                PROVE  EntryOf(s, l) = EntryOf(r, l)
    OBVIOUS
  <2>1. r.members[l].field => d[r.members[l].at] = r.defaults[r.members[l].at]
    <3>1. r.members[l].field => r.members[l].at \in 1 .. Len(r.defaults)
      BY EntryFacts
    <3>. QED BY <1>2, <3>1
  <2>. QED BY <1>3, <2>1 DEF EntryOf
<1>6. ShapeOf(s) = [ShapeOf(r) EXCEPT ![k] = [field |-> TRUE, val |-> v]]
  <2>1. PICK e : e = [field |-> TRUE, val |-> v]
    OBVIOUS
  <2>2. ShapeOf(s) = [ShapeOf(r) EXCEPT ![k] = e]
    BY <1>4, <1>5, <2>1, OneEntry
  <2>. QED BY <2>1, <2>2
<1>. QED BY <1>3, <1>6

LEMMA MethodReplaced ==
    ASSUME NEW r, RecordFits(r), NEW k \in Key, NEW v \in Value,
           ~r.members[k].field, Defined(r.members[k]),
           NEW n, n = r.members[k].at,
           \A l \in Key \ {k} : ~(~r.members[l].field /\ r.members[l].at = n)
    PROVE  ShapeOf([r EXCEPT !.methods[n] = v]) = [ShapeOf(r) EXCEPT ![k] = [field |-> FALSE, val |-> v]]
<1>. DEFINE d == [r.methods EXCEPT ![n] = v]
            s == [r EXCEPT !.methods = d]
<1>0. r.members[k].at # 0 /\ r.members[k].at \in 0 .. Len(r.methods) /\ r.members[k].field \in BOOLEAN
  BY EntryFacts
<1>1. r \in ClassType /\ r.methods \in Seq(Value) /\ n \in 1 .. Len(r.methods)
  BY <1>0, FieldFacts DEF RecordFits
<1>2. d[n] = v /\ \A i \in 1 .. Len(r.methods) : i # n => d[i] = r.methods[i]
  BY <1>1
<1>. HIDE DEF d
<1>3. /\ [r EXCEPT !.methods[n] = v] = s
      /\ s.members = r.members /\ s.methods = d /\ s.defaults = r.defaults
  BY <1>1 DEF ClassType, d
<1>. HIDE DEF s
<1>4. EntryOf(s, k) = [field |-> FALSE, val |-> v]
  <2>1. r.members[k].field = FALSE
    BY <1>0
  <2>. QED BY <1>2, <1>3, <2>1 DEF EntryOf
<1>5. \A l \in Key \ {k} : EntryOf(s, l) = EntryOf(r, l)
  <2>. SUFFICES ASSUME NEW l \in Key \ {k}
                PROVE  EntryOf(s, l) = EntryOf(r, l)
    OBVIOUS
  <2>1. ~r.members[l].field /\ Defined(r.members[l]) =>
            d[r.members[l].at] = r.methods[r.members[l].at]
    <3>1. ~r.members[l].field /\ Defined(r.members[l]) => r.members[l].at \in 1 .. Len(r.methods)
      <4>1. /\ ~r.members[l].field => r.members[l].at \in 0 .. Len(r.methods)
            /\ Defined(r.members[l]) <=> (r.members[l].field \/ r.members[l].at # 0)
        BY EntryFacts
      <4>. QED BY <4>1
    <3>. QED BY <1>2, <3>1
  <2>. QED BY <1>3, <2>1 DEF EntryOf
<1>6. ShapeOf(s) = [ShapeOf(r) EXCEPT ![k] = [field |-> FALSE, val |-> v]]
  <2>1. PICK e : e = [field |-> FALSE, val |-> v]
    OBVIOUS
  <2>2. ShapeOf(s) = [ShapeOf(r) EXCEPT ![k] = e]
    BY <1>4, <1>5, <2>1, OneEntry
  <2>. QED BY <2>1, <2>2
<1>. QED BY <1>3, <1>6

\* An entry that no member has any more: the static value was replaced by a
\* field of its name, and a handle still reaches it.
LEMMA OrphanReplaced ==
    ASSUME NEW r, RecordFits(r), NEW v \in Value, NEW n, n # 0,
           \A l \in Key : ~(~r.members[l].field /\ r.members[l].at = n)
    PROVE  ShapeOf([r EXCEPT !.methods[n] = v]) = ShapeOf(r)
<1>. DEFINE d == [r.methods EXCEPT ![n] = v]
            s == [r EXCEPT !.methods = d]
<1>1. r \in ClassType /\ r.methods \in Seq(Value)
  BY FieldFacts DEF RecordFits
<1>2. \A i \in 1 .. Len(r.methods) : i # n => d[i] = r.methods[i]
  BY <1>1
<1>. HIDE DEF d
<1>3. /\ [r EXCEPT !.methods[n] = v] = s
      /\ s.members = r.members /\ s.methods = d /\ s.defaults = r.defaults
  BY <1>1 DEF ClassType, d
<1>. HIDE DEF s
<1>4. \A l \in Key : EntryOf(s, l) = EntryOf(r, l)
  <2>. SUFFICES ASSUME NEW l \in Key
                PROVE  EntryOf(s, l) = EntryOf(r, l)
    OBVIOUS
  <2>1. ~r.members[l].field /\ Defined(r.members[l]) =>
            d[r.members[l].at] = r.methods[r.members[l].at]
    <3>1. ~r.members[l].field /\ Defined(r.members[l]) => r.members[l].at \in 1 .. Len(r.methods)
      <4>1. /\ ~r.members[l].field => r.members[l].at \in 0 .. Len(r.methods)
            /\ Defined(r.members[l]) <=> (r.members[l].field \/ r.members[l].at # 0)
        BY EntryFacts
      <4>. QED BY <4>1
    <3>. QED BY <1>2, <3>1
  <2>. QED BY <1>3, <2>1 DEF EntryOf
<1>5. ShapeOf(s) = ShapeOf(r)
  BY <1>4, SameShape
<1>. QED BY <1>3, <1>5

\* A method and a field that are new.
LEMMA MethodAdded ==
    ASSUME NEW r, RecordFits(r), NEW k \in Key, NEW v \in Value, ~Defined(r.members[k])
    PROVE  ShapeOf(WithMethod(r, k, v)) = [ShapeOf(r) EXCEPT ![k] = [field |-> FALSE, val |-> v]]
<1>. DEFINE n == Len(r.methods) + 1
            d == Append(r.methods, v)
            m == Index(FALSE, n)
            s == WithMethod(r, k, v)
<1>1. r \in ClassType /\ r.methods \in Seq(Value) /\ r.members \in [Key -> IndexType] /\ Len(r.methods) \in Nat
  BY FieldFacts DEF RecordFits
<1>2. d[n] = v /\ \A i \in 1 .. Len(r.methods) : d[i] = r.methods[i]
  BY <1>1
<1>3. s.members = [r.members EXCEPT ![k] = m] /\ s.methods = d /\ s.defaults = r.defaults
  BY <1>1 DEF WithMethod, ClassType
<1>4. m.field = FALSE /\ m.at = n /\ n # 0 /\ Defined(m)
  <2>1. n # 0
    BY <1>1
  <2>. QED BY <2>1 DEF Index, Defined, NoMember
<1>. HIDE DEF d, n, m, s
<1>5. EntryOf(s, k) = [field |-> FALSE, val |-> v]
  BY <1>1, <1>2, <1>3, <1>4 DEF EntryOf
<1>6. \A l \in Key \ {k} : EntryOf(s, l) = EntryOf(r, l)
  <2>. SUFFICES ASSUME NEW l \in Key \ {k}
                PROVE  EntryOf(s, l) = EntryOf(r, l)
    OBVIOUS
  <2>1. ~r.members[l].field /\ Defined(r.members[l]) =>
            d[r.members[l].at] = r.methods[r.members[l].at]
    <3>1. ~r.members[l].field /\ Defined(r.members[l]) => r.members[l].at \in 1 .. Len(r.methods)
      <4>1. /\ ~r.members[l].field => r.members[l].at \in 0 .. Len(r.methods)
            /\ Defined(r.members[l]) <=> (r.members[l].field \/ r.members[l].at # 0)
        BY EntryFacts
      <4>. QED BY <4>1
    <3>. QED BY <1>2, <3>1
  <2>2. s.members[l] = r.members[l]
    BY <1>1, <1>3
  <2>. QED BY <1>3, <2>1, <2>2 DEF EntryOf
<1>7. ShapeOf(s) = [ShapeOf(r) EXCEPT ![k] = [field |-> FALSE, val |-> v]]
  <2>1. PICK e : e = [field |-> FALSE, val |-> v]
    OBVIOUS
  <2>2. ShapeOf(s) = [ShapeOf(r) EXCEPT ![k] = e]
    BY <1>5, <1>6, <2>1, OneEntry
  <2>. QED BY <2>1, <2>2
<1>. QED BY <1>7 DEF s

LEMMA FieldAdded ==
    ASSUME NEW r, RecordFits(r), NEW k \in Key, NEW v \in Value
    PROVE  ShapeOf(WithField(r, k, v)) = [ShapeOf(r) EXCEPT ![k] = [field |-> TRUE, val |-> v]]
<1>. DEFINE n == Len(r.defaults) + 1
            d == Append(r.defaults, v)
            m == Index(TRUE, n)
            s == WithField(r, k, v)
<1>1. r \in ClassType /\ r.defaults \in Seq(Value) /\ r.members \in [Key -> IndexType] /\ Len(r.defaults) \in Nat
  BY FieldFacts DEF RecordFits
<1>2. d[n] = v /\ \A i \in 1 .. Len(r.defaults) : d[i] = r.defaults[i]
  BY <1>1
<1>3. s.members = [r.members EXCEPT ![k] = m] /\ s.methods = r.methods /\ s.defaults = d
  BY <1>1 DEF WithField, ClassType
<1>4. m.field = TRUE /\ m.at = n /\ Defined(m)
  BY DEF Index, Defined, NoMember
<1>. HIDE DEF d, n, m, s
<1>5. EntryOf(s, k) = [field |-> TRUE, val |-> v]
  BY <1>1, <1>2, <1>3, <1>4 DEF EntryOf
<1>6. \A l \in Key \ {k} : EntryOf(s, l) = EntryOf(r, l)
  <2>. SUFFICES ASSUME NEW l \in Key \ {k}
                PROVE  EntryOf(s, l) = EntryOf(r, l)
    OBVIOUS
  <2>1. r.members[l].field => d[r.members[l].at] = r.defaults[r.members[l].at]
    <3>1. r.members[l].field => r.members[l].at \in 1 .. Len(r.defaults)
      BY EntryFacts
    <3>. QED BY <1>2, <3>1
  <2>2. s.members[l] = r.members[l]
    BY <1>1, <1>3
  <2>. QED BY <1>3, <2>1, <2>2 DEF EntryOf
<1>7. ShapeOf(s) = [ShapeOf(r) EXCEPT ![k] = [field |-> TRUE, val |-> v]]
  <2>1. PICK e : e = [field |-> TRUE, val |-> v]
    OBVIOUS
  <2>2. ShapeOf(s) = [ShapeOf(r) EXCEPT ![k] = e]
    BY <1>5, <1>6, <2>1, OneEntry
  <2>. QED BY <2>1, <2>2
<1>. QED BY <1>7 DEF s

\* An instance of a class.
LEMMA RecordFacts ==
    ASSUME NEW r, RecordFits(r), NEW t \in InstType, Len(t.values) = Len(r.defaults)
    PROVE  RecordOf(r, t) \in Model!Record /\ RecordOf(r, t) # None
<1>. DEFINE S == {l \in Key : r.members[l].field}
            f == [k \in S |-> t.values[r.members[k].at]]
<1>1. t.class \in Class /\ t.values \in Seq(Value)
  BY DEF InstType
<1>2. \A k \in S : t.values[r.members[k].at] \in Value
  <2>1. \A k \in S : r.members[k].at \in 1 .. Len(t.values)
    BY EntryFacts
  <2>. QED BY <1>1, <2>1
<1>3. f \in [S -> Value] /\ S \in SUBSET Key
  BY <1>2
<1>4. RecordOf(r, t) = [class |-> t.class, vals |-> f]
  BY DEF RecordOf
<1>. HIDE DEF f, S
<1>5. RecordOf(r, t) \in Model!Record
  BY <1>1, <1>3, <1>4 DEF Model!Record
<1>6. RecordOf(r, t) # None
  BY <1>5, ModelAssumption, Zenon
<1>. QED BY <1>5, <1>6

LEMMA RecordClass ==
    ASSUME NEW r, NEW t
    PROVE  RecordOf(r, t).class = t.class
  BY DEF RecordOf

\* It depends on the indices of the fields.
LEMMA SameRecord ==
    ASSUME NEW r, NEW s, NEW t, \A k \in Key : s.members[k].field <=> r.members[k].field,
           \A k \in Key : r.members[k].field => s.members[k].at = r.members[k].at
    PROVE  RecordOf(s, t) = RecordOf(r, t)
<1>1. {l \in Key : s.members[l].field} = {l \in Key : r.members[l].field}
  OBVIOUS
<1>. QED BY <1>1 DEF RecordOf

\* Writing one value of an instance.
LEMMA ValueReplaced ==
    ASSUME NEW r, RecordFits(r), NEW t \in InstType, Len(t.values) = Len(r.defaults),
           NEW k \in Key, NEW v \in Value, r.members[k].field,
           NEW n, n = r.members[k].at,
           \A l \in Key \ {k} : ~(r.members[l].field /\ r.members[l].at = n)
    PROVE  /\ RecordOf(r, [t EXCEPT !.values[n] = v]) = [RecordOf(r, t) EXCEPT !.vals[k] = v]
           /\ k \in DOMAIN RecordOf(r, t).vals
<1>. DEFINE d == [t.values EXCEPT ![n] = v]
            u == [t EXCEPT !.values = d]
            S == {l \in Key : r.members[l].field}
            f == [l \in S |-> t.values[r.members[l].at]]
            g == [l \in S |-> u.values[r.members[l].at]]
<1>1. t.values \in Seq(Value) /\ \A l \in S : r.members[l].at \in 1 .. Len(t.values)
  BY EntryFacts DEF InstType
<1>2. k \in S /\ n \in 1 .. Len(t.values)
  BY <1>1
<1>3. d[n] = v /\ \A i \in 1 .. Len(t.values) : i # n => d[i] = t.values[i]
  BY <1>1, <1>2
<1>. HIDE DEF d
<1>4. [t EXCEPT !.values[n] = v] = u /\ u.values = d /\ u.class = t.class
  BY DEF InstType, d
<1>. HIDE DEF u
<1>5. g = [f EXCEPT ![k] = v]
  <2>1. \A l \in S : l # k => r.members[l].at # n
    OBVIOUS
  <2>2. \A l \in S : u.values[r.members[l].at] = IF l = k THEN v ELSE t.values[r.members[l].at]
    BY <1>1, <1>3, <1>4, <2>1
  <2>. HIDE DEF S
  <2>. QED BY <1>2, <2>2
<1>6. RecordOf(r, t) = [class |-> t.class, vals |-> f] /\ RecordOf(r, u) = [class |-> t.class, vals |-> g]
  BY <1>4 DEF RecordOf
<1>7. k \in DOMAIN f
  BY <1>2
<1>. HIDE DEF f, g, S
<1>8. RecordOf(r, u) = [RecordOf(r, t) EXCEPT !.vals[k] = v]
  BY <1>5, <1>6
<1>. QED BY <1>4, <1>6, <1>7, <1>8

----------------------------------------------------------------------------
(* What the variables stand for.                                           *)

AbsShape == [c \in Class |-> IF class[c] = None THEN None ELSE ShapeOf(class[c])]

AbsRecord ==
    [i \in Inst |-> IF inst[i] = None THEN None ELSE RecordOf(class[inst[i].class], inst[i])]

AbsFits ==
    /\ AbsShape = [c \in Class |-> AbsShape[c]]
    /\ \A c \in Class : AbsShape[c] = None <=> c \notin Made
    /\ \A c \in Made : c \in Class /\ AbsShape[c] = ShapeOf(class[c])
    /\ AbsRecord = [i \in Inst |-> AbsRecord[i]]
    /\ \A i \in Inst : AbsRecord[i] = None <=> i \notin Live
    /\ \A i \in Live : i \in Inst /\ AbsRecord[i] = RecordOf(class[inst[i].class], inst[i])

LEMMA AbsHolds == IInv => AbsFits
<1>. SUFFICES ASSUME IInv PROVE AbsFits
  OBVIOUS
<1>1. /\ AbsShape = [c \in Class |-> AbsShape[c]]
      /\ \A c \in Class : c \notin Made => AbsShape[c] = None
      /\ \A c \in Made : c \in Class /\ AbsShape[c] = ShapeOf(class[c])
  BY DEF AbsShape, Made
<1>2. \A c \in Made : ShapeOf(class[c]) # None
  BY ShapeFacts DEF IInv
<1>3. /\ AbsRecord = [i \in Inst |-> AbsRecord[i]]
      /\ \A i \in Inst : i \notin Live => AbsRecord[i] = None
      /\ \A i \in Live : i \in Inst /\ AbsRecord[i] = RecordOf(class[inst[i].class], inst[i])
  BY DEF AbsRecord, Live
<1>4. \A i \in Live : RecordOf(class[inst[i].class], inst[i]) # None
  <2>. SUFFICES ASSUME NEW i \in Live
                PROVE  RecordOf(class[inst[i].class], inst[i]) # None
    OBVIOUS
  <2>1. /\ inst[i] \in InstType /\ RecordFits(class[inst[i].class])
        /\ Len(inst[i].values) = Len(class[inst[i].class].defaults)
    BY MadeFacts DEF IInv, InstanceFits
  <2>. QED BY <2>1, RecordFacts
<1>. QED BY <1>1, <1>2, <1>3, <1>4 DEF AbsFits

LEMMA AbsHoldsAfter == IInv' => AbsFits'
  BY AbsHolds, PTL

\* Operations that change the shape of no class.
LEMMA ShapesKept ==
    ASSUME IInv, IInv', Made' = Made, \A c \in Made : ShapeOf(class'[c]) = ShapeOf(class[c])
    PROVE  AbsShape' = AbsShape
<1>1. AbsFits /\ AbsFits'
  BY AbsHolds, AbsHoldsAfter
<1>2. \A c \in Class : AbsShape'[c] = AbsShape[c]
  BY SMTT(30), <1>1 DEF AbsFits
<1>. QED BY <1>1, <1>2 DEF AbsFits

\* An operation on one class.
LEMMA OneShape ==
    ASSUME IInv, IInv', NEW c \in Made, NEW s, s \in ClassType, class' = [class EXCEPT ![c] = s]
    PROVE  /\ Made' = Made
           /\ AbsShape' = [AbsShape EXCEPT ![c] = ShapeOf(s)]
<1>1. AbsFits /\ AbsFits'
  BY AbsHolds, AbsHoldsAfter
<1>2. class \in [Class -> ClassType \cup {None}] /\ s # None /\ c \in Class
  BY ClassAssumption DEF IInv, TypeOK, Made
<1>3. \A d \in Class : class'[d] = IF d = c THEN s ELSE class[d]
  BY <1>2
<1>4. Made' = Made
  BY <1>2, <1>3 DEF Made
<1>5. \A d \in Class : AbsShape'[d] = IF d = c THEN ShapeOf(s) ELSE AbsShape[d]
  <2>. SUFFICES ASSUME NEW d \in Class
                PROVE  AbsShape'[d] = IF d = c THEN ShapeOf(s) ELSE AbsShape[d]
    OBVIOUS
  <2>1. CASE d = c
    BY <1>1, <1>3, <1>4, <2>1 DEF AbsFits
  <2>2. CASE d # c /\ d \in Made
    <3>1. AbsShape[d] = ShapeOf(class[d])
      BY <1>1, <2>2 DEF AbsFits
    <3>2. AbsShape'[d] = ShapeOf(class'[d])
      BY <1>1, <1>4, <2>2 DEF AbsFits
    <3>3. class'[d] = class[d]
      BY <1>3, <2>2
    <3>. QED BY <2>2, <3>1, <3>2, <3>3
  <2>3. CASE d # c /\ d \notin Made
    BY <1>1, <1>4, <2>3 DEF AbsFits
  <2>. QED BY <2>1, <2>2, <2>3
<1>6. /\ AbsShape' = [d \in Class |-> AbsShape'[d]]
      /\ AbsShape = [d \in Class |-> AbsShape[d]]
  BY <1>1 DEF AbsFits
<1>. QED BY <1>4, <1>5, <1>6

LEMMA OneShapeKept ==
    ASSUME IInv, IInv', NEW c \in Made, NEW s, s \in ClassType, class' = [class EXCEPT ![c] = s],
           ShapeOf(s) = ShapeOf(class[c])
    PROVE  AbsShape' = AbsShape
<1>1. class \in [Class -> ClassType \cup {None}] /\ c \in Class
  BY DEF IInv, TypeOK, Made
<1>2. \A d \in Made : ShapeOf(class'[d]) = ShapeOf(class[d])
  BY <1>1
<1>3. Made' = Made
  BY OneShape
<1>. QED BY <1>2, <1>3, ShapesKept

\* Operations on classes only, that give no class with instances a field.
LEMMA RecordsKept ==
    ASSUME IInv, IInv', inst' = inst,
           \A i \in Live : RecordOf(class'[inst[i].class], inst[i]) = RecordOf(class[inst[i].class], inst[i])
    PROVE  AbsRecord' = AbsRecord
<1>1. AbsFits /\ AbsFits'
  BY AbsHolds, AbsHoldsAfter
<1>2. Live' = Live
  BY DEF Live
<1>3. \A i \in Inst : AbsRecord'[i] = AbsRecord[i]
  BY <1>1, <1>2 DEF AbsFits
<1>. QED BY <1>1, <1>3 DEF AbsFits

LEMMA OneClassRecords ==
    ASSUME IInv, IInv', NEW c \in Made, NEW s, s \in ClassType, class' = [class EXCEPT ![c] = s],
           inst' = inst,
           class[c].locked => \A k \in Key :
               /\ s.members[k].field <=> class[c].members[k].field
               /\ class[c].members[k].field => s.members[k].at = class[c].members[k].at
    PROVE  AbsRecord' = AbsRecord
<1>1. class \in [Class -> ClassType \cup {None}] /\ c \in Class
  BY DEF IInv, TypeOK, Made
<1>2. \A d \in Class : class'[d] = IF d = c THEN s ELSE class[d]
  BY <1>1
<1>3. ASSUME NEW i \in Live
      PROVE  RecordOf(class'[inst[i].class], inst[i]) = RecordOf(class[inst[i].class], inst[i])
  <2>1. inst[i].class \in Class /\ class[inst[i].class].locked
    BY DEF IInv, InstanceFits, Made
  <2>2. CASE inst[i].class # c
    BY <1>2, <2>1, <2>2
  <2>3. CASE inst[i].class = c
    <3>1. RecordOf(s, inst[i]) = RecordOf(class[c], inst[i])
      BY <2>1, <2>3, SameRecord
    <3>. QED BY <1>2, <2>1, <2>3, <3>1
  <2>. QED BY <2>2, <2>3
<1>. QED BY <1>3, RecordsKept

\* A definition.
LEMMA DefineMaps ==
    ASSUME IInv, IInv', NEW c \in Made, NEW s, s \in ClassType, class' = [class EXCEPT ![c] = s],
           NEW k \in Key, NEW f \in BOOLEAN, NEW v \in Value,
           ShapeOf(s) = [ShapeOf(class[c]) EXCEPT ![k] = [field |-> f, val |-> v]],
           class[c].members[k].field => f,
           f /\ ~class[c].members[k].field => ~class[c].locked,
           AbsRecord' = AbsRecord
    PROVE  Model!Define(c, k, f, v)
<1>1. AbsFits
  BY AbsHolds
<1>2. c \in Class /\ AbsShape[c] # None /\ AbsShape[c] = ShapeOf(class[c])
  BY <1>1 DEF AbsFits
<1>3. Model!FieldsOf(AbsShape[c]) = {l \in Key : class[c].members[l].field}
  BY <1>2, ShapeFacts DEF IInv
<1>4. (\E i \in Inst : AbsRecord[i] # None /\ AbsRecord[i].class = c) => class[c].locked
  <2>. SUFFICES ASSUME NEW i \in Inst, AbsRecord[i] # None, AbsRecord[i].class = c
                PROVE  class[c].locked
    OBVIOUS
  <2>1. i \in Live /\ AbsRecord[i] = RecordOf(class[inst[i].class], inst[i])
    BY <1>1 DEF AbsFits
  <2>2. AbsRecord[i].class = inst[i].class
    <3>1. RecordOf(class[inst[i].class], inst[i]).class = inst[i].class
      BY RecordClass
    <3>. QED BY <2>1, <3>1
  <2>. QED BY <2>1, <2>2 DEF IInv, InstanceFits
<1>5. AbsShape' = [AbsShape EXCEPT ![c] = [AbsShape[c] EXCEPT ![k] = [field |-> f, val |-> v]]]
  <2>1. AbsShape' = [AbsShape EXCEPT ![c] = ShapeOf(s)]
    BY OneShape
  <2>2. ShapeOf(s) = [AbsShape[c] EXCEPT ![k] = [field |-> f, val |-> v]]
    BY <1>2, Zenon
  <2>. QED BY <2>1, <2>2, Zenon
<1>6. AbsShape' = [AbsShape EXCEPT ![c][k] = [field |-> f, val |-> v]]
  BY <1>5, Zenon
<1>7. /\ AbsShape[c] # None
      /\ k \in Model!FieldsOf(AbsShape[c]) => f
      /\ f /\ (\E i \in Inst : AbsRecord[i] # None /\ AbsRecord[i].class = c) =>
             k \in Model!FieldsOf(AbsShape[c])
  BY <1>2, <1>3, <1>4
<1>. QED BY <1>6, <1>7, Zenon DEF Model!Define, Model!HasInstance, AbsShape, AbsRecord, ShapeOf, EntryOf, RecordOf

----------------------------------------------------------------------------
(* Each operation is one of ClassObjects, or none of its concern.          *)

Maps == Model!Next \/ (AbsShape' = AbsShape /\ AbsRecord' = AbsRecord)

\* No index of a class is that of two members.
LEMMA DistinctIndices ==
    ASSUME IInv, HInv, NEW c \in Made, NEW k \in Key, Defined(class[c].members[k])
    PROVE  \A l \in Key \ {k} :
               ~((class[c].members[l].field <=> class[c].members[k].field)
                 /\ class[c].members[l].at = class[c].members[k].at)
<1>1. PICK h \in HandleType : /\ h.class = c /\ h.key = k /\ h.static = ~class[c].members[k].field
                              /\ h.at = class[c].members[k].at /\ Offered(h)
  BY OfferedFacts DEF IInv
<1>2. UsableBy(h, c)
  BY <1>1, ChainFacts DEF UsableBy
<1>3. HandleFits(class[c], h)
  BY <1>1, <1>2 DEF HInv, HandlesFit, HandleHolds
<1>. QED BY <1>1, <1>3 DEF HandleFits, Names

\* A definition of the model is a step of it.
LEMMA DefineIsNext ==
    ASSUME NEW c \in Class, NEW k \in Key, NEW f \in BOOLEAN, NEW v \in Value, Model!Define(c, k, f, v)
    PROVE  Maps
  BY Zenon DEF Maps, Model!Next

\* LVClass::NewSlot
LEMMA NewMemberMaps ==
    ASSUME IInv, IInv', HInv, NEW c \in Made, NEW k \in Key, NEW v \in Value,
           NEW static \in BOOLEAN, NEW raw \in BOOLEAN, NewMember(c, k, v, static, raw)
    PROVE  Maps
<1>. DEFINE r == class[c]
            m == r.members[k]
            s == WithMember(r, k, v, static)
<1>1. RecordFits(r) /\ r \in ClassType /\ ~(r.locked /\ ~IsStatic(v, static)) /\ c \in Class
  BY DEF IInv, NewMember, Refused, RecordFits, Made
<1>2. class' = [class EXCEPT ![c] = s] /\ inst' = inst
  BY DEF NewMember
<1>3. RecordFits(s) /\ s \in ClassType
  <2>1. RecordFits(s)
    BY <1>1, WithMemberFits
  <2>. QED BY <2>1 DEF RecordFits
<1>4. Defined(m) => \A l \in Key \ {k} : ~((r.members[l].field <=> m.field) /\ r.members[l].at = m.at)
  BY DistinctIndices
<1>5. m.field \in BOOLEAN /\ m \in IndexType
  BY <1>1, FieldFacts
<1>6. CASE m.field
  <2>1. s = [r EXCEPT !.defaults[m.at] = v]
    BY <1>6, Zenon DEF WithMember
  <2>2. Defined(m)
    BY <1>5, <1>6, IndexFacts
  <2>3. ShapeOf(s) = [ShapeOf(r) EXCEPT ![k] = [field |-> TRUE, val |-> v]]
    <3>1. \A l \in Key \ {k} : ~(r.members[l].field /\ r.members[l].at = m.at)
      BY <1>4, <1>6, <2>2
    <3>2. PICK n : n = m.at
      OBVIOUS
    <3>3. ShapeOf([r EXCEPT !.defaults[n] = v]) = [ShapeOf(r) EXCEPT ![k] = [field |-> TRUE, val |-> v]]
      BY <1>1, <1>6, <3>1, <3>2, FieldReplaced
    <3>. QED BY <2>1, <3>2, <3>3
  <2>4. s.members = r.members
    BY <1>1, <2>1 DEF ClassType
  <2>. HIDE DEF s
  <2>5. AbsRecord' = AbsRecord
    BY <1>2, <1>3, <2>4, OneClassRecords
  <2>6. Model!Define(c, k, TRUE, v)
    <3>1. PICK f \in BOOLEAN : f = TRUE
      OBVIOUS
    <3>2. ShapeOf(s) = [ShapeOf(class[c]) EXCEPT ![k] = [field |-> f, val |-> v]]
      BY <2>3, <3>1
    <3>3. Model!Define(c, k, f, v)
      BY <1>2, <1>3, <1>6, <2>5, <3>1, <3>2, DefineMaps
    <3>. QED BY <3>1, <3>3
  <2>. QED BY <1>1, <2>6, DefineIsNext
<1>7. CASE ~m.field /\ v \in Fun /\ k \in Meta
  <2>. DEFINE g == [r.meta EXCEPT ![k] = v]
  <2>1. s = [r EXCEPT !.meta = g]
    BY <1>7, Zenon DEF WithMember
  <2>. HIDE DEF g
  <2>2. s.members = r.members /\ s.defaults = r.defaults /\ s.methods = r.methods
    BY <1>1, <2>1 DEF ClassType
  <2>. HIDE DEF s
  <2>3. ShapeOf(s) = ShapeOf(r)
    BY <2>2, SameShape DEF EntryOf
  <2>4. AbsRecord' = AbsRecord
    BY <1>2, <1>3, <2>2, OneClassRecords
  <2>5. AbsShape' = AbsShape
    BY <1>2, <1>3, <2>3, OneShapeKept
  <2>. QED BY <2>4, <2>5 DEF Maps
<1>8. CASE ~m.field /\ ~(v \in Fun /\ k \in Meta) /\ IsStatic(v, static)
  <2>1. s = IF Defined(m) THEN [r EXCEPT !.methods[m.at] = v] ELSE WithMethod(r, k, v)
    BY <1>8, Zenon DEF WithMember
  <2>2. ShapeOf(s) = [ShapeOf(r) EXCEPT ![k] = [field |-> FALSE, val |-> v]]
    <3>1. CASE Defined(m)
      <4>1. \A l \in Key \ {k} : ~(~r.members[l].field /\ r.members[l].at = m.at)
        BY <1>4, <1>8, <3>1
      <4>2. PICK n : n = m.at
        OBVIOUS
      <4>3. ShapeOf([r EXCEPT !.methods[n] = v]) = [ShapeOf(r) EXCEPT ![k] = [field |-> FALSE, val |-> v]]
        BY <1>1, <1>8, <3>1, <4>1, <4>2, MethodReplaced
      <4>. QED BY <2>1, <3>1, <4>2, <4>3
    <3>2. CASE ~Defined(m)
      <4>1. ShapeOf(WithMethod(r, k, v)) = [ShapeOf(r) EXCEPT ![k] = [field |-> FALSE, val |-> v]]
        BY <1>1, <3>2, MethodAdded
      <4>2. s = WithMethod(r, k, v)
        BY <2>1, <3>2
      <4>. QED BY <4>1, <4>2, Zenon
    <3>. QED BY <3>1, <3>2
  <2>3. \A l \in Key : /\ s.members[l].field <=> r.members[l].field
                       /\ r.members[l].field => s.members[l].at = r.members[l].at
    <3>1. CASE Defined(m)
      BY <1>1, <2>1, <3>1 DEF ClassType
    <3>2. CASE ~Defined(m)
      <4>1. s.members = [r.members EXCEPT ![k] = Index(FALSE, Len(r.methods) + 1)]
        BY <1>1, <2>1, <3>2 DEF ClassType, WithMethod
      <4>2. ~Index(FALSE, Len(r.methods) + 1).field /\ r.members \in [Key -> IndexType]
        BY <1>1, FieldFacts DEF Index
      <4>. QED BY <1>8, <4>1, <4>2
    <3>. QED BY <3>1, <3>2
  <2>. HIDE DEF s
  <2>4. AbsRecord' = AbsRecord
    BY <1>2, <1>3, <2>3, OneClassRecords
  <2>5. Model!Define(c, k, FALSE, v)
    <3>1. PICK f \in BOOLEAN : f = FALSE
      OBVIOUS
    <3>2. ShapeOf(s) = [ShapeOf(class[c]) EXCEPT ![k] = [field |-> f, val |-> v]]
      BY <2>2, <3>1
    <3>3. Model!Define(c, k, f, v)
      BY <1>2, <1>3, <1>8, <2>4, <3>1, <3>2, DefineMaps
    <3>. QED BY <3>1, <3>3
  <2>. QED BY <1>1, <2>5, DefineIsNext
<1>9. CASE ~m.field /\ ~(v \in Fun /\ k \in Meta) /\ ~IsStatic(v, static)
  <2>1. s = WithField(r, k, v) /\ ~r.locked
    BY <1>1, <1>9 DEF WithMember
  <2>2. ShapeOf(s) = [ShapeOf(r) EXCEPT ![k] = [field |-> TRUE, val |-> v]]
    <3>1. ShapeOf(WithField(r, k, v)) = [ShapeOf(r) EXCEPT ![k] = [field |-> TRUE, val |-> v]]
      BY <1>1, FieldAdded
    <3>. QED BY <2>1, <3>1, Zenon
  <2>. HIDE DEF s
  <2>3. AbsRecord' = AbsRecord
    BY <1>2, <1>3, <2>1, OneClassRecords
  <2>4. Model!Define(c, k, TRUE, v)
    <3>1. PICK f \in BOOLEAN : f = TRUE
      OBVIOUS
    <3>2. ShapeOf(s) = [ShapeOf(class[c]) EXCEPT ![k] = [field |-> f, val |-> v]]
      BY <2>2, <3>1
    <3>3. Model!Define(c, k, f, v)
      BY <1>2, <1>3, <2>1, <2>3, <3>1, <3>2, DefineMaps
    <3>. QED BY <3>1, <3>3
  <2>. QED BY <1>1, <2>4, DefineIsNext
<1>. QED BY <1>6, <1>7, <1>8, <1>9

\* lv_setclassudsize changes no member.
LEMMA SetUdSizeMaps ==
    ASSUME IInv, IInv', NEW c \in Made, NEW n \in Sizes, SetUdSize(c, n)
    PROVE  Maps
<1>. DEFINE r == class[c]
            s == [r EXCEPT !.ud = n]
<1>1. r \in ClassType /\ n \in Nat
  BY ClassAssumption DEF IInv, RecordFits
<1>2. class' = [class EXCEPT ![c] = s] /\ inst' = inst
  BY DEF SetUdSize
<1>3. /\ s \in ClassType
      /\ s.members = r.members /\ s.defaults = r.defaults /\ s.methods = r.methods
  BY <1>1 DEF ClassType
<1>. HIDE DEF s
<1>4. ShapeOf(s) = ShapeOf(r)
  BY <1>3, SameShape DEF EntryOf
<1>5. AbsRecord' = AbsRecord
  BY <1>2, <1>3, OneClassRecords
<1>6. AbsShape' = AbsShape
  BY <1>2, <1>3, <1>4, OneShapeKept
<1>. QED BY <1>5, <1>6 DEF Maps

\* The lock does neither.
LEMMA LockMaps ==
    ASSUME IInv, IInv', NEW c \in Made, class' = Lock(c)
    PROVE  /\ AbsShape' = AbsShape /\ Made' = Made
           /\ \A d \in Made : \A t : RecordOf(class'[d], t) = RecordOf(class[d], t)
           /\ \A d \in Made : class'[d].defaults = class[d].defaults
<1>1. class \in [Class -> ClassType \cup {None}] /\ c \in Class /\ Chain(c) \subseteq Made
  BY ChainFacts DEF IInv, TypeOK, Made
<1>2. \A d \in Class : class'[d] = class[d] \/ class'[d] = [class[d] EXCEPT !.locked = TRUE]
  BY <1>1 DEF Lock
<1>3. \A d \in Class \ Made : class'[d] = class[d]
  BY <1>1 DEF Lock
<1>4. \A d \in Made :
          /\ d \in Class /\ class'[d] \in ClassType
          /\ class'[d].members = class[d].members /\ class'[d].defaults = class[d].defaults
          /\ class'[d].methods = class[d].methods
  <2>. SUFFICES ASSUME NEW d \in Made
                PROVE  /\ d \in Class /\ class'[d] \in ClassType
                       /\ class'[d].members = class[d].members /\ class'[d].defaults = class[d].defaults
                       /\ class'[d].methods = class[d].methods
    OBVIOUS
  <2>1. d \in Class /\ class[d] \in ClassType
    BY DEF IInv, RecordFits, Made
  <2>2. CASE class'[d] = class[d]
    BY <2>1, <2>2
  <2>3. CASE class'[d] = [class[d] EXCEPT !.locked = TRUE]
    BY <2>1, <2>3 DEF ClassType
  <2>. QED BY <1>2, <2>1, <2>2, <2>3
<1>5. Made' = Made
  <2>1. \A d \in Class : class'[d] = None <=> class[d] = None
    BY <1>3, <1>4, ClassAssumption DEF Made
  <2>. QED BY <2>1 DEF Made
<1>6. \A d \in Made : ShapeOf(class'[d]) = ShapeOf(class[d])
  BY <1>4, SameShape DEF EntryOf
<1>7. AbsShape' = AbsShape
  BY <1>5, <1>6, ShapesKept
<1>8. \A d \in Made : \A t : RecordOf(class'[d], t) = RecordOf(class[d], t)
  BY <1>4, SameRecord
<1>. QED BY <1>4, <1>5, <1>7, <1>8

\* An instance starts with the defaults of its class.
LEMMA FreshRecord ==
    ASSUME NEW r, RecordFits(r), NEW t, t.values = r.defaults
    PROVE  RecordOf(r, t) = [class |-> t.class, vals |-> Model!Defaults(ShapeOf(r))]
<1>. DEFINE S == {l \in Key : r.members[l].field}
<1>1. Model!FieldsOf(ShapeOf(r)) = S
  BY ShapeFacts
<1>2. \A k \in S : ShapeOf(r)[k].val = t.values[r.members[k].at]
  <2>. SUFFICES ASSUME NEW k \in S
                PROVE  ShapeOf(r)[k].val = t.values[r.members[k].at]
    OBVIOUS
  <2>1. EntryOf(r, k) = [field |-> TRUE, val |-> r.defaults[r.members[k].at]]
    BY EntryFacts
  <2>. QED BY <2>1 DEF ShapeOf
<1>. HIDE DEF S
<1>3. Model!Defaults(ShapeOf(r)) = [k \in S |-> ShapeOf(r)[k].val]
  BY <1>1 DEF Model!Defaults
<1>4. Model!Defaults(ShapeOf(r)) = [k \in S |-> t.values[r.members[k].at]]
  BY <1>2, <1>3
<1>. QED BY <1>4 DEF RecordOf, S

\* An operation that makes or changes one instance.
LEMMA OneRecord ==
    ASSUME IInv, IInv', NEW i \in Inst, NEW t \in InstType, inst' = [inst EXCEPT ![i] = t],
           t.class \in Made, Made' = Made,
           \A d \in Made : \A u : RecordOf(class'[d], u) = RecordOf(class[d], u)
    PROVE  AbsRecord' = [AbsRecord EXCEPT ![i] = RecordOf(class[t.class], t)]
<1>1. AbsFits /\ AbsFits'
  BY AbsHolds, AbsHoldsAfter
<1>2. inst \in [Inst -> InstType \cup {None}] /\ t # None
  BY ClassAssumption DEF IInv, TypeOK
<1>3. inst'[i] = t /\ \A j \in Inst : j # i => inst'[j] = inst[j]
  BY <1>2
<1>4. i \in Live' /\ \A j \in Inst : j # i => (j \in Live' <=> j \in Live)
  BY <1>2, <1>3 DEF Live
<1>5. \A j \in Inst : AbsRecord'[j] = IF j = i THEN RecordOf(class[t.class], t) ELSE AbsRecord[j]
  <2>. SUFFICES ASSUME NEW j \in Inst
                PROVE  AbsRecord'[j] = IF j = i THEN RecordOf(class[t.class], t) ELSE AbsRecord[j]
    OBVIOUS
  <2>1. CASE j = i
    <3>1. AbsRecord'[i] = RecordOf(class'[inst'[i].class], inst'[i])
      BY <1>1, <1>4 DEF AbsFits
    <3>2. RecordOf(class'[t.class], t) = RecordOf(class[t.class], t)
      OBVIOUS
    <3>. QED BY <1>3, <2>1, <3>1, <3>2
  <2>2. CASE j # i /\ j \in Live
    <3>1. AbsRecord'[j] = RecordOf(class'[inst'[j].class], inst'[j])
      BY <1>1, <1>4, <2>2 DEF AbsFits
    <3>2. AbsRecord[j] = RecordOf(class[inst[j].class], inst[j])
      BY <1>1, <2>2 DEF AbsFits
    <3>3. inst'[j] = inst[j] /\ inst[j].class \in Made
      BY <1>3, <2>2 DEF IInv, InstanceFits
    <3>4. RecordOf(class'[inst[j].class], inst[j]) = RecordOf(class[inst[j].class], inst[j])
      BY <3>3
    <3>. QED BY <2>2, <3>1, <3>2, <3>3, <3>4
  <2>3. CASE j # i /\ j \notin Live
    BY <1>1, <1>4, <2>3 DEF AbsFits
  <2>. QED BY <2>1, <2>2, <2>3
<1>6. /\ AbsRecord' = [j \in Inst |-> AbsRecord'[j]]
      /\ AbsRecord = [j \in Inst |-> AbsRecord[j]]
  BY <1>1 DEF AbsFits
<1>. QED BY <1>5, <1>6

\* CreateClassInstance
LEMMA NewInstanceMaps ==
    ASSUME IInv, IInv', NEW i \in Inst, NEW c \in Made, NewInstance(i, c)
    PROVE  Model!Create(i, c)
<1>. DEFINE t == [class |-> c, values |-> class[c].defaults, ud |-> class[c].ud]
<1>1. inst[i] = None /\ class' = Lock(c) /\ inst' = [inst EXCEPT ![i] = t]
  BY DEF NewInstance
<1>2. c \in Class /\ class[c] \in ClassType /\ RecordFits(class[c])
  BY DEF IInv, RecordFits, Made
<1>3. t \in InstType /\ t.class = c /\ t.values = class[c].defaults
  BY <1>2, FieldFacts DEF InstType
<1>. HIDE DEF t
<1>4. AbsShape' = AbsShape /\ Made' = Made /\ \A d \in Made : \A u : RecordOf(class'[d], u) = RecordOf(class[d], u)
  BY <1>1, LockMaps
<1>5. AbsRecord' = [AbsRecord EXCEPT ![i] = RecordOf(class[c], t)]
  BY <1>1, <1>3, <1>4, OneRecord
<1>6. AbsShape[c] = ShapeOf(class[c]) /\ AbsShape[c] # None /\ AbsRecord[i] = None
  BY <1>1, AbsHolds DEF AbsFits, Live
<1>7. RecordOf(class[c], t) = [class |-> c, vals |-> Model!Defaults(AbsShape[c])]
  BY <1>2, <1>3, <1>6, FreshRecord
<1>8. AbsRecord' = [AbsRecord EXCEPT ![i] = [class |-> c, vals |-> Model!Defaults(AbsShape[c])]]
  BY <1>5, <1>7, Zenon
<1>. QED
  BY <1>4, <1>6, <1>8, Zenon DEF Model!Create, AbsShape, AbsRecord, ShapeOf, EntryOf, RecordOf

\* LVInstance::Clone
LEMMA CloneInstanceMaps ==
    ASSUME IInv, IInv', NEW i \in Inst, NEW j \in Live, CloneInstance(i, j)
    PROVE  Model!Copy(i, j)
<1>. DEFINE c == inst[j].class
            n == Len(class[c].defaults)
            w == [k \in 1 .. n |-> inst[j].values[k]]
            t == [class |-> c, ud |-> class[c].ud, values |-> w]
<1>1. inst[i] = None /\ class' = class /\ inst' = [inst EXCEPT ![i] = t]
  BY DEF CloneInstance
<1>2. c \in Made /\ Len(inst[j].values) = n /\ RecordFits(class[c]) /\ c \in Class
  BY DEF IInv, InstanceFits, Made
<1>3. class[c] \in ClassType /\ inst[j].values \in Seq(Value)
  BY <1>2, MadeFacts DEF IInv, InstType
<1>4. n \in Nat /\ class[c].ud \in Nat
  BY <1>3, FieldFacts
<1>5. w \in Seq(Value) /\ w = inst[j].values
  BY <1>2, <1>3, <1>4
<1>. HIDE DEF w
<1>6. t \in InstType /\ t.class = c /\ t.values = inst[j].values
  BY <1>2, <1>4, <1>5 DEF InstType
<1>. HIDE DEF t, n
<1>7. Made' = Made /\ \A d \in Made : \A u : RecordOf(class'[d], u) = RecordOf(class[d], u)
  BY <1>1 DEF Made
<1>8. AbsRecord' = [AbsRecord EXCEPT ![i] = RecordOf(class[c], t)]
  <2>1. t.class \in Made
    BY <1>2, <1>6
  <2>2. AbsRecord' = [AbsRecord EXCEPT ![i] = RecordOf(class[t.class], t)]
    BY <1>1, <1>6, <1>7, <2>1, OneRecord
  <2>. QED BY <1>6, <2>2
<1>9. RecordOf(class[c], t) = RecordOf(class[c], inst[j])
  BY <1>6 DEF RecordOf
<1>10. AbsShape' = AbsShape
  BY <1>1, <1>7, ShapesKept
<1>11. AbsRecord[j] = RecordOf(class[c], inst[j]) /\ AbsRecord[j] # None /\ AbsRecord[i] = None
  BY <1>1, AbsHolds DEF AbsFits, Live
<1>12. AbsRecord' = [AbsRecord EXCEPT ![i] = AbsRecord[j]]
  BY <1>8, <1>9, <1>11
<1>. QED
  BY <1>10, <1>11, <1>12, Zenon DEF Model!Copy, AbsShape, AbsRecord, ShapeOf, EntryOf, RecordOf

\* Writing a value of an instance, by its name or its index.
LEMMA AssignMaps ==
    ASSUME IInv, IInv', HInv, NEW i \in Live, NEW k \in Key, NEW v \in Value,
           class[inst[i].class].members[k].field,
           NEW at, at = class[inst[i].class].members[k].at,
           class' = class, inst' = [inst EXCEPT ![i].values[at] = v]
    PROVE  Model!Assign(i, k, v)
<1>. DEFINE c == inst[i].class
            r == class[c]
            new == [inst[i].values EXCEPT ![at] = v]
            t == [inst[i] EXCEPT !.values = new]
<1>1. /\ i \in Inst /\ inst[i] \in InstType /\ inst[i].values \in Seq(Value)
      /\ c \in Made /\ RecordFits(r) /\ Len(inst[i].values) = Len(r.defaults)
  BY MadeFacts DEF IInv, InstType, InstanceFits
<1>2. new \in Seq(Value)
  BY <1>1, ReplaceFacts
<1>3. inst' = [inst EXCEPT ![i] = t] /\ [inst[i] EXCEPT !.values[at] = v] = t
  BY Zenon
<1>. HIDE DEF new
<1>4. t \in InstType /\ t.class = c
  BY <1>1, <1>2 DEF InstType
<1>. HIDE DEF t
<1>5. Made' = Made /\ \A d \in Made : \A u : RecordOf(class'[d], u) = RecordOf(class[d], u)
  BY DEF Made
<1>6. AbsRecord' = [AbsRecord EXCEPT ![i] = RecordOf(r, t)]
  <2>1. t.class \in Made
    BY <1>1, <1>4
  <2>2. AbsRecord' = [AbsRecord EXCEPT ![i] = RecordOf(class[t.class], t)]
    BY ZenonT(30), <1>1, <1>3, <1>4, <1>5, <2>1, OneRecord
  <2>. QED BY <1>4, <2>2
<1>7. AbsRecord[i] = RecordOf(r, inst[i]) /\ AbsRecord[i] # None
  BY <1>1, AbsHolds DEF AbsFits
<1>8. \A l \in Key \ {k} : ~(r.members[l].field /\ r.members[l].at = at)
  <2>1. Defined(r.members[k])
    BY <1>1, EntryFacts
  <2>. QED BY <1>1, <2>1, DistinctIndices
<1>9. /\ RecordOf(r, t) = [RecordOf(r, inst[i]) EXCEPT !.vals[k] = v]
      /\ k \in DOMAIN RecordOf(r, inst[i]).vals
  <2>1. /\ RecordOf(r, [inst[i] EXCEPT !.values[at] = v]) = [RecordOf(r, inst[i]) EXCEPT !.vals[k] = v]
        /\ k \in DOMAIN RecordOf(r, inst[i]).vals
    <3>1. PICK q : q = r
      OBVIOUS
    <3>2. PICK u : u = inst[i]
      OBVIOUS
    <3>3. /\ RecordFits(q) /\ u \in InstType /\ Len(u.values) = Len(q.defaults)
          /\ q.members[k].field /\ at = q.members[k].at
          /\ \A l \in Key \ {k} : ~(q.members[l].field /\ q.members[l].at = at)
      BY <1>1, <1>8, <3>1, <3>2
    <3>4. /\ RecordOf(q, [u EXCEPT !.values[at] = v]) = [RecordOf(q, u) EXCEPT !.vals[k] = v]
          /\ k \in DOMAIN RecordOf(q, u).vals
      BY <3>3, ValueReplaced, Zenon
    <3>. QED BY <3>1, <3>2, <3>4, Zenon
  <2>. QED BY <1>3, <2>1
<1>10. AbsRecord' = [AbsRecord EXCEPT ![i].vals[k] = v] /\ k \in DOMAIN AbsRecord[i].vals
  <2>1. AbsRecord' = [AbsRecord EXCEPT ![i] = [AbsRecord[i] EXCEPT !.vals[k] = v]]
    BY <1>6, <1>7, <1>9, Zenon
  <2>2. k \in DOMAIN AbsRecord[i].vals
    BY <1>7, <1>9, Zenon
  <2>. QED BY <2>1, <2>2, Zenon
<1>11. AbsShape' = AbsShape
  BY <1>5, ShapesKept
<1>. QED
  BY <1>7, <1>10, <1>11, Zenon DEF Model!Assign, AbsShape, AbsRecord, ShapeOf, EntryOf, RecordOf

LEMMA AssignIsNext ==
    ASSUME NEW i \in Inst, NEW k \in Key, NEW v \in Value, Model!Assign(i, k, v)
    PROVE  Maps
  BY Zenon DEF Maps, Model!Next

\* LVInstance::Set
LEMMA SetFieldMaps ==
    ASSUME IInv, IInv', HInv, NEW i \in Live, NEW k \in Key, NEW v \in Value, SetField(i, k, v)
    PROVE  Maps
<1>1. PICK at : at = class[inst[i].class].members[k].at
  OBVIOUS
<1>2. /\ class[inst[i].class].members[k].field /\ class' = class
      /\ inst' = [inst EXCEPT ![i].values[at] = v]
  BY <1>1 DEF SetField
<1>3. Model!Assign(i, k, v)
  BY <1>1, <1>2, AssignMaps
<1>4. i \in Inst
  BY DEF Live
<1>. QED BY <1>3, <1>4, AssignIsNext

\* The handle, where it can be used.
LEMMA UsableFacts ==
    ASSUME IInv, HInv, handle # None, NEW c \in Made, Usable(c)
    PROVE  handle \in HandleType /\ handle.key \in Key /\ HandleFits(class[c], handle)
<1>1. handle \in HandleType
  BY DEF IInv, TypeOK
<1>2. HandleHolds(handle) /\ UsableBy(handle, c)
  BY <1>1 DEF HInv, HandlesFit, Usable, UsableBy
<1>. QED BY <1>1, <1>2 DEF HandleHolds, HandleType

\* lv_setbyhandle on a method or static value changes that member, or an
\* entry that no member has any more.
LEMMA MethodByHandle ==
    ASSUME IInv, IInv', NEW c \in Made, NEW v \in Value, NEW h \in HandleType, h.static,
           HandleFits(class[c], h), inst' = inst,
           class' = [class EXCEPT ![c] = [class[c] EXCEPT !.methods[h.at] = v]]
    PROVE  Maps
<1>. DEFINE r == class[c]
            s == [r EXCEPT !.methods[h.at] = v]
            k == h.key
<1>1. RecordFits(r) /\ r \in ClassType /\ k \in Key /\ c \in Class
  BY DEF IInv, RecordFits, HandleType, Made
<1>2. RecordFits(s) /\ s \in ClassType /\ s.members = r.members
  <2>1. RecordFits(s)
    BY <1>1, ReplacedFits
  <2>. QED BY <1>1, <2>1 DEF RecordFits, ClassType
<1>3. class' = [class EXCEPT ![c] = s]
  OBVIOUS
<1>4. PICK n : n = h.at
  OBVIOUS
<1>5. n # 0
  <2>1. h.at \in 1 .. Len(r.methods)
    BY DEF HandleFits, Vector
  <2>. QED BY <1>4, <2>1
<1>6. \A l \in Key \ {k} : ~(~r.members[l].field /\ r.members[l].at = n)
  BY <1>4 DEF HandleFits, Names
<1>7. s = [r EXCEPT !.methods[n] = v]
  BY <1>4
<1>. HIDE DEF s
<1>8. AbsRecord' = AbsRecord
  BY <1>2, <1>3, OneClassRecords
<1>9. CASE Names(r.members[k], h)
  <2>1. ~r.members[k].field /\ r.members[k].at = n
    BY <1>4, <1>9 DEF Names
  <2>2. Defined(r.members[k])
    BY <1>1, <1>5, <2>1, EntryFacts
  <2>3. ShapeOf([r EXCEPT !.methods[n] = v]) = [ShapeOf(r) EXCEPT ![k] = [field |-> FALSE, val |-> v]]
    BY <1>1, <1>6, <2>1, <2>2, MethodReplaced
  <2>4. PICK f \in BOOLEAN : f = FALSE
    OBVIOUS
  <2>5. ShapeOf(s) = [ShapeOf(class[c]) EXCEPT ![k] = [field |-> f, val |-> v]]
    BY <1>7, <2>3, <2>4, Zenon
  <2>6. Model!Define(c, k, f, v)
    BY <1>1, <1>2, <1>3, <1>8, <2>1, <2>4, <2>5, DefineMaps
  <2>. QED BY <1>1, <2>6, DefineIsNext
<1>10. CASE ~Names(r.members[k], h)
  <2>1. r.members[k].field
    BY <1>10 DEF HandleFits
  <2>2. \A l \in Key : ~(~r.members[l].field /\ r.members[l].at = n)
    BY <1>6, <2>1
  <2>3. ShapeOf([r EXCEPT !.methods[n] = v]) = ShapeOf(r)
    BY <1>1, <1>5, <2>2, OrphanReplaced
  <2>4. AbsShape' = AbsShape
    BY <1>2, <1>3, <1>7, <2>3, OneShapeKept
  <2>. QED BY <1>8, <2>4 DEF Maps
<1>. QED BY <1>9, <1>10

\* On a field of a class, its default.
LEMMA DefaultByHandle ==
    ASSUME IInv, IInv', NEW c \in Made, NEW v \in Value, NEW h \in HandleType, ~h.static,
           HandleFits(class[c], h), inst' = inst,
           class' = [class EXCEPT ![c] = [class[c] EXCEPT !.defaults[h.at] = v]]
    PROVE  Maps
<1>. DEFINE r == class[c]
            s == [r EXCEPT !.defaults[h.at] = v]
            k == h.key
<1>1. RecordFits(r) /\ r \in ClassType /\ k \in Key /\ c \in Class
  BY DEF IInv, RecordFits, HandleType, Made
<1>2. RecordFits(s) /\ s \in ClassType /\ s.members = r.members
  <2>1. RecordFits(s)
    BY <1>1, ReplacedFits
  <2>. QED BY <1>1, <2>1 DEF RecordFits, ClassType
<1>3. class' = [class EXCEPT ![c] = s]
  OBVIOUS
<1>4. PICK n : n = h.at
  OBVIOUS
<1>5. \A l \in Key \ {k} : ~(r.members[l].field /\ r.members[l].at = n)
  BY <1>4 DEF HandleFits, Names
<1>6. r.members[k].field /\ r.members[k].at = n
  BY <1>4 DEF HandleFits, Names
<1>7. s = [r EXCEPT !.defaults[n] = v]
  BY <1>4
<1>. HIDE DEF s
<1>8. AbsRecord' = AbsRecord
  BY <1>2, <1>3, OneClassRecords
<1>9. ShapeOf([r EXCEPT !.defaults[n] = v]) = [ShapeOf(r) EXCEPT ![k] = [field |-> TRUE, val |-> v]]
  BY <1>1, <1>5, <1>6, FieldReplaced
<1>10. PICK f \in BOOLEAN : f = TRUE
  OBVIOUS
<1>11. ShapeOf(s) = [ShapeOf(class[c]) EXCEPT ![k] = [field |-> f, val |-> v]]
  BY <1>7, <1>9, <1>10, Zenon
<1>12. Model!Define(c, k, f, v)
  BY <1>1, <1>2, <1>3, <1>6, <1>8, <1>10, <1>11, DefineMaps
<1>. QED BY <1>1, <1>12, DefineIsNext

\* lv_setbyhandle with a class
LEMMA SetClassByHandleMaps ==
    ASSUME IInv, IInv', HInv, NEW c \in Made, NEW v \in Value, SetClassByHandle(c, v)
    PROVE  Maps
<1>1. handle \in HandleType /\ HandleFits(class[c], handle) /\ inst' = inst
  BY UsableFacts DEF SetClassByHandle
<1>2. CASE handle.static
  <2>1. class' = [class EXCEPT ![c] = [class[c] EXCEPT !.methods[handle.at] = v]]
    BY <1>2 DEF SetClassByHandle
  <2>. QED BY <1>1, <1>2, <2>1, MethodByHandle
<1>3. CASE ~handle.static
  <2>1. class' = [class EXCEPT ![c] = [class[c] EXCEPT !.defaults[handle.at] = v]]
    BY <1>3 DEF SetClassByHandle
  <2>. QED BY <1>1, <1>3, <2>1, DefaultByHandle
<1>. QED BY <1>2, <1>3

\* lv_setbyhandle with an instance
LEMMA SetByHandleMaps ==
    ASSUME IInv, IInv', HInv, NEW i \in Live, NEW v \in Value, SetByHandle(i, v)
    PROVE  Maps
<1>. DEFINE c == inst[i].class
<1>1. c \in Made /\ i \in Inst
  BY DEF IInv, InstanceFits, Live
<1>2. handle \in HandleType /\ handle.key \in Key /\ HandleFits(class[c], handle)
  BY <1>1, UsableFacts DEF SetByHandle
<1>3. CASE handle.static
  <2>1. class' = [class EXCEPT ![c] = [class[c] EXCEPT !.methods[handle.at] = v]] /\ inst' = inst
    BY <1>3 DEF SetByHandle
  <2>. QED BY <1>1, <1>2, <1>3, <2>1, MethodByHandle
<1>4. CASE ~handle.static
  <2>1. PICK at : at = handle.at
    OBVIOUS
  <2>2. PICK k \in Key : k = handle.key
    BY <1>2
  <2>3. class' = class /\ inst' = [inst EXCEPT ![i].values[at] = v]
    BY <1>4, <2>1 DEF SetByHandle
  <2>4. class[c].members[k].field /\ at = class[c].members[k].at
    BY <1>2, <1>4, <2>1, <2>2 DEF HandleFits, Names
  <2>5. Model!Assign(i, k, v)
    BY <2>3, <2>4, AssignMaps
  <2>. QED BY <1>1, <2>5, AssignIsNext
<1>. QED BY <1>3, <1>4

\* CLASS_OP and lv_newclass
LEMMA NewClassMaps ==
    ASSUME IInv, IInv', NEW c \in Class, NEW b \in Bases, NewClass(c, b)
    PROVE  Model!New(c, b) /\ b \in Class \cup {None}
<1>1. /\ c \notin Made /\ Made' = Made \cup {c} /\ class'[c] = Derived(b)
      /\ \A d \in Made : class'[d] = class[d]
  BY NewClassChains
<1>2. inst' = inst /\ b \in Class \cup {None}
  BY DEF NewClass, Bases, Made
<1>3. AbsFits /\ AbsFits'
  BY AbsHolds, AbsHoldsAfter
<1>4. AbsRecord' = AbsRecord
  <2>1. \A i \in Live : class'[inst[i].class] = class[inst[i].class]
    BY <1>1 DEF IInv, InstanceFits
  <2>2. \A i \in Live : RecordOf(class'[inst[i].class], inst[i]) = RecordOf(class[inst[i].class], inst[i])
    BY <2>1
  <2>. QED BY <1>2, <2>2, RecordsKept
<1>5. ShapeOf(Derived(b)) = IF b = None THEN [k \in Key |-> None] ELSE AbsShape[b]
  <2>1. CASE b = None
    <3>1. Derived(None).members = [k \in Key |-> NoMember]
      BY RootFacts
    <3>2. \A k \in Key : EntryOf(Derived(None), k) = None
      BY <3>1 DEF EntryOf, Defined
    <3>3. ShapeOf(Derived(None)) = [k \in Key |-> None]
      BY <3>2 DEF ShapeOf
    <3>. QED BY <2>1, <3>3
  <2>2. CASE b # None
    <3>1. b \in Made /\ class[b] \in ClassType /\ AbsShape[b] = ShapeOf(class[b])
      BY <1>3, <2>2 DEF Bases, AbsFits, IInv, RecordFits
    <3>2. ShapeOf(Derived(b)) = ShapeOf(class[b])
      BY <3>1, DerivedFacts, SameShape DEF EntryOf
    <3>. QED BY <2>2, <3>1, <3>2
  <2>. QED BY <2>1, <2>2
<1>6. \A d \in Class : AbsShape'[d] = IF d = c THEN ShapeOf(Derived(b)) ELSE AbsShape[d]
  <2>. SUFFICES ASSUME NEW d \in Class
                PROVE  AbsShape'[d] = IF d = c THEN ShapeOf(Derived(b)) ELSE AbsShape[d]
    OBVIOUS
  <2>1. CASE d = c
    <3>1. AbsShape'[d] = ShapeOf(class'[d])
      BY <1>1, <1>3, <2>1 DEF AbsFits
    <3>. QED BY <1>1, <2>1, <3>1
  <2>2. CASE d # c /\ d \in Made
    <3>1. AbsShape'[d] = ShapeOf(class'[d]) /\ AbsShape[d] = ShapeOf(class[d])
      BY <1>1, <1>3, <2>2 DEF AbsFits
    <3>2. class'[d] = class[d]
      BY <1>1, <2>2
    <3>. QED BY <2>2, <3>1, <3>2
  <2>3. CASE d # c /\ d \notin Made
    BY <1>1, <1>3, <2>3 DEF AbsFits
  <2>. QED BY <2>1, <2>2, <2>3
<1>7. AbsShape' = [AbsShape EXCEPT ![c] = ShapeOf(Derived(b))]
  <2>1. /\ AbsShape' = [d \in Class |-> AbsShape'[d]]
        /\ AbsShape = [d \in Class |-> AbsShape[d]]
    BY <1>3 DEF AbsFits
  <2>. QED BY <1>6, <2>1
<1>8. AbsShape' = [AbsShape EXCEPT ![c] = IF b = None THEN [k \in Key |-> None] ELSE AbsShape[b]]
  BY <1>5, <1>7, Zenon
<1>9. AbsShape[c] = None /\ (b # None => AbsShape[b] # None)
  BY <1>1, <1>3 DEF AbsFits, Bases
<1>10. Model!New(c, b)
  BY <1>4, <1>8, <1>9, Zenon DEF Model!New, AbsShape, AbsRecord, ShapeOf, EntryOf, RecordOf
<1>. QED BY <1>2, <1>10

LEMMA InitMaps ==
    ASSUME Init
    PROVE  Model!Init
<1>1. AbsShape = [c \in Class |-> None] /\ AbsRecord = [i \in Inst |-> None]
  BY DEF Init, AbsShape, AbsRecord
<1>. QED BY <1>1, Zenon DEF Model!Init, AbsShape, AbsRecord, ShapeOf, EntryOf, RecordOf

\* Every step is one of ClassObjects, or none.
LEMMA StepMaps ==
    ASSUME IInv, IInv', HInv, [Next]_vars
    PROVE  Maps
<1>0. Made \subseteq Class /\ Live \subseteq Inst
  BY DEF Made, Live
<1>1. CASE \E c \in Class, b \in Bases : NewClass(c, b)
  <2>1. \E c \in Class, b \in Class \cup {None} : Model!New(c, b)
    BY <1>1, NewClassMaps
  <2>. QED BY <2>1, Zenon DEF Maps, Model!Next
<1>2. CASE \E c \in Made, k \in Key, v \in Value, static, raw \in BOOLEAN :
              NewMember(c, k, v, static, raw)
  BY <1>2, NewMemberMaps
<1>3. CASE \E c \in Made, n \in Sizes : SetUdSize(c, n)
  BY <1>3, SetUdSizeMaps
<1>4. CASE \E i \in Inst, c \in Made : NewInstance(i, c)
  <2>1. \E i \in Inst, c \in Class : Model!Create(i, c)
    BY <1>0, <1>4, NewInstanceMaps
  <2>. QED BY <2>1, Zenon DEF Maps, Model!Next
<1>5. CASE \E i \in Inst, j \in Live : CloneInstance(i, j)
  <2>1. \E i, j \in Inst : Model!Copy(i, j)
    BY <1>0, <1>5, CloneInstanceMaps
  <2>. QED BY <2>1, Zenon DEF Maps, Model!Next
<1>6. CASE \E i \in Live, k \in Key, v \in Value : SetField(i, k, v)
  BY <1>6, SetFieldMaps
<1>7. CASE \E c \in Made, k \in Key : GetHandle(c, k)
  <2>1. class' = class /\ inst' = inst
    BY <1>7 DEF GetHandle
  <2>. QED BY <2>1 DEF Maps, AbsShape, AbsRecord
<1>8. CASE \E i \in Live, v \in Value : SetByHandle(i, v)
  BY <1>8, SetByHandleMaps
<1>9. CASE \E c \in Made, v \in Value : SetClassByHandle(c, v)
  BY <1>9, SetClassByHandleMaps
<1>10. CASE UNCHANGED vars
  <2>1. class' = class /\ inst' = inst
    BY <1>10 DEF vars
  <2>. QED BY <2>1 DEF Maps, AbsShape, AbsRecord
<1>. QED
  BY <1>1, <1>2, <1>3, <1>4, <1>5, <1>6, <1>7, <1>8, <1>9, <1>10 DEF Next

\* LVClass and LVInstance behave as maps from names to values: deriving,
\* overriding, locking and writing through a member handle change one entry of
\* one class or instance, and never alias two members or two objects.
THEOREM ClassesAreObjects == Spec => IsClassModel
<1>1. Init => Model!Init
  BY InitMaps
<1>2. IInv /\ HInv /\ (IInv /\ HInv)' /\ [Next]_vars => [Model!Next]_(Model!absVars)
  <2>. SUFFICES ASSUME IInv, HInv, IInv', [Next]_vars
                PROVE  [Model!Next]_(Model!absVars)
    OBVIOUS
  <2>1. Maps
    BY StepMaps
  <2>. QED BY <2>1, Zenon DEF Maps, Model!absVars, AbsShape, AbsRecord, ShapeOf, EntryOf, RecordOf
<1>. QED BY <1>1, <1>2, HandleInvariance, PTL DEF Spec, IsClassModel, Model!Spec
=============================================================================
