---------------------------- MODULE GcHeap_proofs ----------------------------
(***************************************************************************)
(* Proofs about GcHeap, for every number of objects, weak references,      *)
(* registers and slots.                                                    *)
(***************************************************************************)
EXTENDS GcHeap, FiniteSetTheorems, SequenceTheorems, TLAPS

----------------------------------------------------------------------------
(* Counting.                                                               *)

Same(a, b) == IF a = b THEN 1 ELSE 0

Places(f, D, x) == {d \in D : f[d] = x}

LEMMA PlacesFinite ==
    ASSUME NEW D, IsFiniteSet(D), NEW f, NEW x
    PROVE  IsFiniteSet(Places(f, D, x)) /\ Cardinality(Places(f, D, x)) \in Nat
<1>1. Places(f, D, x) \in SUBSET D
  BY DEF Places
<1>. QED BY <1>1, FS_Subset, FS_CardinalityType

\* A change at one place.
LEMMA PlaceChange ==
    ASSUME NEW D, NEW f, NEW g, NEW d, NEW x, IsFiniteSet(D), d \in D,
           \A e \in D : e # d => g[e] = f[e]
    PROVE  Cardinality(Places(g, D, x))
               = Cardinality(Places(f, D, x)) - Same(f[d], x) + Same(g[d], x)
<1>. DEFINE A == Places(f, D, x) \ {d}
<1>1. IsFiniteSet(Places(f, D, x)) /\ Cardinality(Places(f, D, x)) \in Nat
  BY PlacesFinite
<1>2. IsFiniteSet(A) /\ Cardinality(A) = Cardinality(Places(f, D, x)) - Same(f[d], x)
  <2>1. d \in Places(f, D, x) <=> f[d] = x
    BY DEF Places
  <2>. QED BY <1>1, <2>1, FS_RemoveElement DEF Same
<1>3. CASE g[d] = x
  <2>1. Places(g, D, x) = A \cup {d} /\ d \notin A
    BY <1>3 DEF Places
  <2>2. Cardinality(A \cup {d}) = Cardinality(A) + 1
    BY <1>2, <2>1, FS_AddElement
  <2>. QED BY <1>2, <1>3, <2>1, <2>2 DEF Same
<1>4. CASE g[d] # x
  <2>1. Places(g, D, x) = A
    BY <1>4 DEF Places
  <2>2. Same(g[d], x) = 0
    BY <1>4 DEF Same
  <2>. QED BY <1>1, <1>2, <2>1, <2>2 DEF Same
<1>. QED BY <1>3, <1>4

LEMMA PlacesKept ==
    ASSUME NEW D, NEW f, NEW g, NEW x, \A e \in D : g[e] = f[e]
    PROVE  Places(g, D, x) = Places(f, D, x)
  BY DEF Places

\* The releases of x among tasks.
Releasing(t, x) == IF t.op = "release" /\ t.obj = x THEN 1 ELSE 0
Releases(s, x) == {k \in 1 .. Len(s) : s[k].op = "release" /\ s[k].obj = x}
Pending(s, x) == Cardinality(Releases(s, x))

LEMMA ReleasesFinite ==
    ASSUME NEW s, Len(s) \in Nat, NEW x
    PROVE  IsFiniteSet(Releases(s, x)) /\ Pending(s, x) \in Nat
<1>1. Releases(s, x) \in SUBSET (1 .. Len(s))
  BY DEF Releases
<1>2. IsFiniteSet(1 .. Len(s))
  BY FS_Interval
<1>. QED BY <1>1, <1>2, FS_Subset, FS_CardinalityType DEF Pending

\* The set of indices A, moved by n.
LEMMA ShiftedCardinality ==
    ASSUME NEW A \in SUBSET Nat, IsFiniteSet(A), NEW n \in Int, NEW B,
           B = {k + n : k \in A}
    PROVE  IsFiniteSet(B) /\ Cardinality(B) = Cardinality(A)
<1>. DEFINE f == [k \in A |-> k + n]
<1>1. f \in Surjection(A, B)
  BY DEF Surjection
<1>2. f \in Injection(A, B)
  BY <1>1 DEF Injection, IsInjective, Surjection
<1>. QED BY <1>1, <1>2, FS_Surjection

\* The first task is done, and what it starts is done before the others.
Replaced(s, t, p) ==
    /\ Len(t) = Len(p) + Len(s) - 1
    /\ \A k \in 1 .. Len(p) : t[k] = p[k]
    /\ \A k \in 2 .. Len(s) : t[k + Len(p) - 1] = s[k]
    /\ \A k \in 1 .. Len(t) : k > Len(p) => t[k] = s[k - Len(p) + 1]

LEMMA ReplacedHead ==
    ASSUME NEW T, NEW s \in Seq(T), s # <<>>, NEW p \in Seq(T)
    PROVE  /\ p \o Tail(s) \in Seq(T)
           /\ Replaced(s, p \o Tail(s), p)
<1>1. Tail(s) \in Seq(T) /\ Len(Tail(s)) = Len(s) - 1 /\ Len(s) >= 1 /\ Len(s) \in Nat
      /\ \A k \in 1 .. Len(s) - 1 : Tail(s)[k] = s[k + 1]
  BY HeadTailProperties, LenProperties, EmptySeq
<1>2. /\ p \o Tail(s) \in Seq(T) /\ Len(p) \in Nat
      /\ Len(p \o Tail(s)) = Len(p) + Len(Tail(s))
      /\ \A k \in 1 .. Len(p) + Len(Tail(s)) :
           (p \o Tail(s))[k] = IF k <= Len(p) THEN p[k] ELSE Tail(s)[k - Len(p)]
  BY <1>1, ConcatProperties, LenProperties
<1>. DEFINE t == p \o Tail(s)
<1>3. Len(t) = Len(p) + Len(s) - 1
  BY <1>1, <1>2
<1>4. \A k \in 1 .. Len(p) : t[k] = p[k]
  BY <1>1, <1>2
<1>5. \A k \in 1 .. Len(t) : k > Len(p) => t[k] = s[k - Len(p) + 1]
  <2>. SUFFICES ASSUME NEW k \in 1 .. Len(t), k > Len(p) PROVE t[k] = s[k - Len(p) + 1]
    OBVIOUS
  <2>1. t[k] = Tail(s)[k - Len(p)] /\ k - Len(p) \in 1 .. Len(s) - 1
    BY <1>1, <1>2
  <2>. QED BY <1>1, <2>1
<1>6. \A k \in 2 .. Len(s) : t[k + Len(p) - 1] = s[k]
  <2>. SUFFICES ASSUME NEW k \in 2 .. Len(s) PROVE t[k + Len(p) - 1] = s[k]
    OBVIOUS
  <2>1. k + Len(p) - 1 \in 1 .. Len(t) /\ k + Len(p) - 1 > Len(p)
    BY <1>1, <1>2, <1>3
  <2>2. (k + Len(p) - 1) - Len(p) + 1 = k
    BY <1>1, <1>2
  <2>. QED BY <1>5, <2>1, <2>2
<1>. QED BY <1>2, <1>3, <1>4, <1>5, <1>6 DEF Replaced

LEMMA PendingReplaced ==
    ASSUME NEW s, NEW t, NEW p, Len(s) \in Nat, Len(s) >= 1, Len(p) \in Nat,
           Replaced(s, t, p), NEW x
    PROVE  Pending(t, x)
               = Pending(p, x) + Pending(s, x) - Releasing(s[1], x)
<1>. DEFINE A == Releases(s, x) \ {1}
            B == {k + (Len(p) - 1) : k \in A}
            C == Releases(p, x)
<1>1. IsFiniteSet(A) /\ Cardinality(A) = Pending(s, x) - Releasing(s[1], x)
  <2>1. IsFiniteSet(Releases(s, x)) /\ Pending(s, x) \in Nat
    BY ReleasesFinite
  <2>2. 1 \in Releases(s, x) <=> s[1].op = "release" /\ s[1].obj = x
    BY DEF Releases
  <2>. QED BY <2>1, <2>2, FS_RemoveElement DEF Pending, Releasing
<1>2. IsFiniteSet(B) /\ Cardinality(B) = Cardinality(A)
  <2>1. A \in SUBSET Nat
    BY DEF Releases
  <2>2. PICK n \in Int : n = Len(p) - 1
    OBVIOUS
  <2>3. B = {k + n : k \in A}
    BY <2>2
  <2>. HIDE DEF A, B
  <2>. QED BY <1>1, <2>1, <2>3, ShiftedCardinality
<1>3. IsFiniteSet(C) /\ Pending(p, x) = Cardinality(C) /\ Cardinality(C) \in Nat
  BY ReleasesFinite DEF Pending
<1>4. B \cap C = {}
  BY DEF Releases
<1>5. Releases(t, x) = B \cup C
  <2>1. \A k \in C : k \in Releases(t, x)
    BY DEF Releases, Replaced
  <2>2. \A k \in A : k + (Len(p) - 1) \in Releases(t, x)
    <3>. SUFFICES ASSUME NEW k \in A PROVE k + (Len(p) - 1) \in Releases(t, x)
      OBVIOUS
    <3>1. k \in 2 .. Len(s) /\ s[k].op = "release" /\ s[k].obj = x
      BY DEF Releases
    <3>2. k + Len(p) - 1 = k + (Len(p) - 1) /\ k + (Len(p) - 1) \in 1 .. Len(t)
      BY <3>1 DEF Replaced
    <3>3. t[k + (Len(p) - 1)] = s[k]
      BY <3>1, <3>2 DEF Replaced
    <3>. QED BY <3>1, <3>2, <3>3 DEF Releases
  <2>3. \A k \in Releases(t, x) : k \in B \cup C
    <3>. SUFFICES ASSUME NEW k \in Releases(t, x) PROVE k \in B \cup C
      OBVIOUS
    <3>1. k \in 1 .. Len(t) /\ t[k].op = "release" /\ t[k].obj = x
      BY DEF Releases
    <3>2. CASE k <= Len(p)
      BY <3>1, <3>2 DEF Releases, Replaced
    <3>3. CASE k > Len(p)
      <4>1. t[k] = s[k - Len(p) + 1] /\ k - Len(p) + 1 \in 2 .. Len(s)
        BY <3>1, <3>3 DEF Replaced
      <4>2. k - Len(p) + 1 \in A
        BY <3>1, <4>1 DEF Releases
      <4>3. k = (k - Len(p) + 1) + (Len(p) - 1)
        BY <3>1
      <4>. QED BY <4>2, <4>3
    <3>. QED BY <3>1, <3>2, <3>3
  <2>. QED BY <2>1, <2>2, <2>3
<1>6. Cardinality(B \cup C) = Cardinality(B) + Cardinality(C)
  <2>1. Cardinality(B \cap C) = 0
    BY <1>4, FS_EmptySet
  <2>2. Cardinality(B) \in Nat
    BY <1>2, FS_CardinalityType
  <2>. HIDE DEF A, B, C
  <2>3. Cardinality(B \cup C) = Cardinality(B) + Cardinality(C) - Cardinality(B \cap C)
    BY <1>2, <1>3, FS_Union
  <2>. QED BY <1>3, <2>1, <2>2, <2>3
<1>7. Pending(t, x) = Cardinality(B \cup C)
  BY <1>5 DEF Pending
<1>8. Cardinality(A) \in Nat
  BY <1>1, FS_CardinalityType
<1>. HIDE DEF A, B, C
<1>. QED BY <1>1, <1>2, <1>3, <1>6, <1>7, <1>8

----------------------------------------------------------------------------
(* The references to x, by the kind of place that holds them.              *)

InRegisters(x) == Cardinality(Places(stack, Reg, x))
InOpen(x) == Cardinality(Places(open, Reg, x))

SlotsOf(h) == [p \in Obj \X Slot |-> h[p[1]].slots[p[2]]]
InSlots(x) == Cardinality(Places(SlotsOf(heap), Obj \X Slot, x))

Total(x) == InRegisters(x) + InOpen(x) + InSlots(x) + Pending(work, x) + Same(cur, x)

Things == Obj \cup Weak
RefsOf(x) == IF x \in Obj THEN heap[x].refs ELSE weak[x].refs

Exact == \A x \in Things : RefsOf(x) = Total(x)

\* The objects that were never made or are gone hold nothing.
ObjectsFit == \A o \in Obj : heap[o].kind = "free" => heap[o] = Unused

LEMMA Finite ==
    /\ IsFiniteSet(Obj) /\ IsFiniteSet(Weak) /\ IsFiniteSet(Reg) /\ IsFiniteSet(Slot)
    /\ IsFiniteSet(Obj \X Slot)
<1>1. IsFiniteSet(Obj) /\ IsFiniteSet(Weak) /\ IsFiniteSet(Reg) /\ IsFiniteSet(Slot)
  BY GcHeapAssumption
<1>. QED BY <1>1, FS_Product

LEMMA PartsType ==
    ASSUME NEW x
    PROVE  /\ InRegisters(x) \in Nat /\ InOpen(x) \in Nat /\ InSlots(x) \in Nat
           /\ InRegisters(x)' \in Nat /\ InOpen(x)' \in Nat /\ InSlots(x)' \in Nat
<1>1. InRegisters(x) \in Nat /\ InOpen(x) \in Nat /\ InSlots(x) \in Nat
  BY Finite, PlacesFinite DEF InRegisters, InOpen, InSlots
<1>2. InRegisters(x)' \in Nat /\ InOpen(x)' \in Nat /\ InSlots(x)' \in Nat
  BY Finite, PlacesFinite DEF InRegisters, InOpen, InSlots
<1>. QED BY <1>1, <1>2

LEMMA TotalType ==
    ASSUME TypeOK, NEW x
    PROVE  /\ InRegisters(x) \in Nat /\ InOpen(x) \in Nat /\ InSlots(x) \in Nat
           /\ Pending(work, x) \in Nat /\ Same(cur, x) \in Nat /\ Total(x) \in Nat
<1>1. InRegisters(x) \in Nat /\ InOpen(x) \in Nat /\ InSlots(x) \in Nat
  BY Finite, PlacesFinite DEF InRegisters, InOpen, InSlots
<1>2. Pending(work, x) \in Nat
  <2>1. Len(work) \in Nat
    BY LenProperties DEF TypeOK
  <2>. QED BY <2>1, ReleasesFinite
<1>3. Same(cur, x) \in Nat
  BY DEF Same
<1>. QED BY <1>1, <1>2, <1>3 DEF Total

LEMMA Image ==
    ASSUME NEW A, IsFiniteSet(A), NEW B, NEW f \in [A -> B],
           \A b \in B : \E a \in A : f[a] = b,
           \A a, b \in A : f[a] = f[b] => a = b
    PROVE  IsFiniteSet(B) /\ Cardinality(B) = Cardinality(A)
<1>1. f \in Surjection(A, B)
  BY DEF Surjection
<1>2. f \in Injection(A, B)
  BY DEF Injection, IsInjective
<1>. QED BY <1>1, <1>2, FS_Surjection

LEMMA DisjointUnion ==
    ASSUME NEW A, NEW B, IsFiniteSet(A), IsFiniteSet(B), A \cap B = {}
    PROVE  IsFiniteSet(A \cup B) /\ Cardinality(A \cup B) = Cardinality(A) + Cardinality(B)
<1>1. Cardinality(A \cap B) = 0
  BY FS_EmptySet
<1>2. Cardinality(A) \in Nat /\ Cardinality(B) \in Nat
  BY FS_CardinalityType
<1>3. IsFiniteSet(A \cup B) /\ Cardinality(A \cup B) = Cardinality(A) + Cardinality(B) - Cardinality(A \cap B)
  BY FS_Union
<1>. QED BY <1>1, <1>2, <1>3

\* Holders counts each of them once.
LEMMA HoldersCounted ==
    ASSUME TypeOK, ObjectsFit, NEW x \in Things
    PROVE  Cardinality(Holders(x)) = Total(x)
<1>. DEFINE R == {<<"register", r, 0>> : r \in {r \in Reg : stack[r] = x}}
            O == {<<"open", r, 0>> : r \in {r \in Reg : open[r] = x}}
            S == {p \in {"slot"} \X Alive \X Slot : heap[p[2]].slots[p[3]] = x}
            W == {<<"task", k, 0>> : k \in {k \in 1 .. Len(work) :
                                               work[k].op = "release" /\ work[k].obj = x}}
            C == IF cur = x THEN {<<"sweep", 0, 0>>} ELSE {}
<1>1. Holders(x) = (((R \cup O) \cup S) \cup W) \cup C
  BY DEF Holders
<1>2. IsFiniteSet(R) /\ Cardinality(R) = InRegisters(x)
  <2>. DEFINE A == Places(stack, Reg, x)
              f == [r \in A |-> <<"register", r, 0>>]
  <2>1. IsFiniteSet(A)
    BY Finite, PlacesFinite
  <2>2. f \in [A -> R] /\ (\A b \in R : \E a \in A : f[a] = b) /\ \A a, b \in A : f[a] = f[b] => a = b
    BY DEF Places
  <2>. HIDE DEF A, f, R
  <2>3. Cardinality(R) = Cardinality(A) /\ IsFiniteSet(R)
    BY <2>1, <2>2, Image
  <2>. QED BY <2>3 DEF A, InRegisters
<1>3. IsFiniteSet(O) /\ Cardinality(O) = InOpen(x)
  <2>. DEFINE A == Places(open, Reg, x)
              f == [r \in A |-> <<"open", r, 0>>]
  <2>1. IsFiniteSet(A)
    BY Finite, PlacesFinite
  <2>2. f \in [A -> O] /\ (\A b \in O : \E a \in A : f[a] = b) /\ \A a, b \in A : f[a] = f[b] => a = b
    BY DEF Places
  <2>. HIDE DEF A, f, O
  <2>3. Cardinality(O) = Cardinality(A) /\ IsFiniteSet(O)
    BY <2>1, <2>2, Image
  <2>. QED BY <2>3 DEF A, InOpen
<1>4. IsFiniteSet(S) /\ Cardinality(S) = InSlots(x)
  <2>. DEFINE A == Places(SlotsOf(heap), Obj \X Slot, x)
              f == [p \in A |-> <<"slot", p[1], p[2]>>]
  <2>1. IsFiniteSet(A)
    BY Finite, PlacesFinite
  <2>2. \A p \in A : p[1] \in Alive /\ p[2] \in Slot /\ heap[p[1]].slots[p[2]] = x /\ p = <<p[1], p[2]>>
    <3>. SUFFICES ASSUME NEW p \in A
                  PROVE p[1] \in Alive /\ p[2] \in Slot /\ heap[p[1]].slots[p[2]] = x /\ p = <<p[1], p[2]>>
      OBVIOUS
    <3>1. p \in Obj \X Slot /\ heap[p[1]].slots[p[2]] = x
      BY DEF Places, SlotsOf
    <3>2. p[1] \in Obj /\ p[2] \in Slot /\ p = <<p[1], p[2]>>
      BY <3>1
    <3>3. heap[p[1]].kind # "free"
      <4>1. heap[p[1]] # Unused
        BY <3>1, <3>2, GcHeapAssumption DEF Unused, NoSlots, Things
      <4>. QED BY <3>2, <4>1 DEF ObjectsFit
    <3>. QED BY <3>1, <3>2, <3>3 DEF Alive
  <2>3. f \in [A -> S]
    BY <2>2
  <2>4. \A b \in S : \E a \in A : f[a] = b
    <3>. SUFFICES ASSUME NEW b \in S PROVE \E a \in A : f[a] = b
      OBVIOUS
    <3>1. b = <<"slot", b[2], b[3]>> /\ b[2] \in Obj /\ b[3] \in Slot /\ heap[b[2]].slots[b[3]] = x
      BY DEF Alive
    <3>2. <<b[2], b[3]>> \in A
      BY <3>1 DEF Places, SlotsOf
    <3>. QED BY <3>1, <3>2
  <2>5. \A a, b \in A : f[a] = f[b] => a = b
    BY <2>2
  <2>. HIDE DEF A, f, S
  <2>6. Cardinality(S) = Cardinality(A) /\ IsFiniteSet(S)
    BY <2>1, <2>3, <2>4, <2>5, Image
  <2>. QED BY <2>6 DEF A, InSlots
<1>5. IsFiniteSet(W) /\ Cardinality(W) = Pending(work, x)
  <2>. DEFINE A == Releases(work, x)
              f == [r \in A |-> <<"task", r, 0>>]
  <2>1. IsFiniteSet(A)
    <3>1. Len(work) \in Nat
      BY LenProperties DEF TypeOK
    <3>. QED BY <3>1, ReleasesFinite
  <2>2. f \in [A -> W] /\ (\A b \in W : \E a \in A : f[a] = b) /\ \A a, b \in A : f[a] = f[b] => a = b
    BY DEF Releases
  <2>. HIDE DEF A, f, W
  <2>3. Cardinality(W) = Cardinality(A) /\ IsFiniteSet(W)
    BY <2>1, <2>2, Image
  <2>. QED BY <2>3 DEF A, Pending
<1>6. IsFiniteSet(C) /\ Cardinality(C) = Same(cur, x)
  BY FS_Singleton, FS_EmptySet DEF Same
<1>7. R \cap O = {} /\ (R \cup O) \cap S = {}
  OBVIOUS
<1>8. ((R \cup O) \cup S) \cap W = {} /\ (((R \cup O) \cup S) \cup W) \cap C = {}
  OBVIOUS
<1>. HIDE DEF R, O, S, W, C
<1>9. IsFiniteSet(R \cup O) /\ Cardinality(R \cup O) = InRegisters(x) + InOpen(x)
  BY <1>2, <1>3, <1>7, DisjointUnion
<1>10. /\ IsFiniteSet((R \cup O) \cup S)
       /\ Cardinality((R \cup O) \cup S) = InRegisters(x) + InOpen(x) + InSlots(x)
  BY <1>4, <1>7, <1>9, DisjointUnion
<1>11. /\ IsFiniteSet(((R \cup O) \cup S) \cup W)
       /\ Cardinality(((R \cup O) \cup S) \cup W)
              = InRegisters(x) + InOpen(x) + InSlots(x) + Pending(work, x)
  BY <1>5, <1>8, <1>10, DisjointUnion
<1>12. Cardinality((((R \cup O) \cup S) \cup W) \cup C) = Total(x)
  BY <1>6, <1>8, <1>11, DisjointUnion DEF Total
<1>. QED BY <1>1, <1>12

\* What Exact says is what CountsExact says.
LEMMA ExactIsCountsExact ==
    ASSUME TypeOK, ObjectsFit, Exact
    PROVE  CountsExact
<1>1. \A o \in Obj : o \in Things /\ RefsOf(o) = heap[o].refs
  BY DEF Things, RefsOf
<1>2. \A w \in Weak : w \in Things /\ RefsOf(w) = weak[w].refs
  BY GcHeapAssumption DEF Things, RefsOf
<1>. QED BY <1>1, <1>2, HoldersCounted DEF Exact, CountsExact

----------------------------------------------------------------------------
(* What a step changes.                                                    *)

LEMMA RegisterChange ==
    ASSUME TypeOK, NEW r \in Reg, NEW y, stack' = [stack EXCEPT ![r] = y], NEW x
    PROVE  InRegisters(x)' = InRegisters(x) - Same(stack[r], x) + Same(y, x)
<1>1. stack'[r] = y /\ \A e \in Reg \ {r} : stack'[e] = stack[e]
  BY DEF TypeOK
<1>2. PICK f : f = stack
  OBVIOUS
<1>3. PICK g : g = stack'
  OBVIOUS
<1>4. \A e \in Reg : e # r => g[e] = f[e]
  BY <1>1, <1>2, <1>3
<1>5. Cardinality(Places(g, Reg, x))
          = Cardinality(Places(f, Reg, x)) - Same(f[r], x) + Same(g[r], x)
  <2>1. IsFiniteSet(Reg) /\ r \in Reg
    BY Finite
  <2>. QED BY <1>4, <2>1, PlaceChange
<1>. QED BY <1>1, <1>2, <1>3, <1>5 DEF InRegisters

LEMMA OpenChange ==
    ASSUME TypeOK, NEW r \in Reg, NEW y, open' = [open EXCEPT ![r] = y], NEW x
    PROVE  InOpen(x)' = InOpen(x) - Same(open[r], x) + Same(y, x)
<1>1. open'[r] = y /\ \A e \in Reg \ {r} : open'[e] = open[e]
  BY DEF TypeOK
<1>2. PICK f : f = open
  OBVIOUS
<1>3. PICK g : g = open'
  OBVIOUS
<1>4. \A e \in Reg : e # r => g[e] = f[e]
  BY <1>1, <1>2, <1>3
<1>5. Cardinality(Places(g, Reg, x))
          = Cardinality(Places(f, Reg, x)) - Same(f[r], x) + Same(g[r], x)
  <2>1. IsFiniteSet(Reg) /\ r \in Reg
    BY Finite
  <2>. QED BY <1>4, <2>1, PlaceChange
<1>. QED BY <1>1, <1>2, <1>3, <1>5 DEF InOpen

LEMMA SlotChange ==
    ASSUME NEW o \in Obj, NEW i \in Slot, NEW x,
           \A p \in Obj, j \in Slot : p # o \/ j # i => heap'[p].slots[j] = heap[p].slots[j]
    PROVE  InSlots(x)' = InSlots(x) - Same(heap[o].slots[i], x) + Same(heap'[o].slots[i], x)
<1>. DEFINE D == Obj \X Slot
            d == <<o, i>>
<1>1. PICK f : f = SlotsOf(heap)
  OBVIOUS
<1>2. PICK g : g = SlotsOf(heap')
  OBVIOUS
<1>3. d \in D /\ f[d] = heap[o].slots[i] /\ g[d] = heap'[o].slots[i]
  BY <1>1, <1>2 DEF SlotsOf
<1>4. \A e \in D : e # d => g[e] = f[e]
  <2>. SUFFICES ASSUME NEW e \in D, e # d PROVE g[e] = f[e]
    OBVIOUS
  <2>1. e[1] \in Obj /\ e[2] \in Slot /\ (e[1] # o \/ e[2] # i)
    OBVIOUS
  <2>. QED BY <1>1, <1>2, <2>1 DEF SlotsOf
<1>5. IsFiniteSet(D)
  BY Finite
<1>. HIDE DEF D, d
<1>6. Cardinality(Places(g, D, x)) = Cardinality(Places(f, D, x)) - Same(f[d], x) + Same(g[d], x)
  BY <1>3, <1>4, <1>5, PlaceChange
<1>7. InSlots(x) = Cardinality(Places(f, D, x)) /\ InSlots(x)' = Cardinality(Places(g, D, x))
  BY <1>1, <1>2 DEF InSlots, D
<1>. QED BY <1>3, <1>6, <1>7

LEMMA SlotsKept ==
    ASSUME NEW x, \A p \in Obj, j \in Slot : heap'[p].slots[j] = heap[p].slots[j]
    PROVE  InSlots(x)' = InSlots(x)
<1>1. SlotsOf(heap') = SlotsOf(heap)
  BY DEF SlotsOf
<1>. QED BY <1>1 DEF InSlots

\* The tasks that release a reference.
LEMMA ReleaseFacts ==
    ASSUME NEW y \in Ref
    PROVE  /\ Release(y) \in Seq(Task) /\ Len(Release(y)) = IF y = Null THEN 0 ELSE 1
           /\ \A k \in 1 .. Len(Release(y)) : /\ Release(y)[k].op = "release" /\ Release(y)[k].obj = y
           /\ \A x \in Things : Pending(Release(y), x) = Same(y, x)
<1>1. CASE y = Null
  <2>1. Release(y) = <<>> /\ Len(Release(y)) = 0 /\ Release(y) \in Seq(Task)
    BY <1>1 DEF Release
  <2>2. \A x \in Things : Pending(Release(y), x) = 0
    BY <2>1, FS_EmptySet DEF Pending, Releases
  <2>3. \A x \in Things : Same(y, x) = 0
    BY <1>1, GcHeapAssumption DEF Same, Things
  <2>. QED BY <1>1, <2>1, <2>2, <2>3
<1>2. CASE y # Null
  <2>. DEFINE t == [op |-> "release", obj |-> y, slot |-> 1]
  <2>1. Release(y) = <<t>> /\ t \in Task
    BY <1>2 DEF Release, Task, Ref
  <2>2. Release(y) \in Seq(Task) /\ Len(Release(y)) = 1 /\ Release(y)[1] = t
    BY <2>1
  <2>3. t.op = "release" /\ t.obj = y
    OBVIOUS
  <2>4. \A x \in Things : Pending(Release(y), x) = Same(y, x)
    <3>. SUFFICES ASSUME NEW x \in Things PROVE Pending(Release(y), x) = Same(y, x)
      OBVIOUS
    <3>. HIDE DEF t
    <3>1. Releases(Release(y), x) = IF y = x THEN {1} ELSE {}
      BY <2>2, <2>3 DEF Releases
    <3>. QED BY <3>1, FS_Singleton, FS_EmptySet DEF Pending, Same
  <2>. HIDE DEF t
  <2>. QED BY <1>2, <2>2, <2>3, <2>4
<1>. QED BY <1>1, <1>2

LEMMA EmptyPending == \A x : Pending(<<>>, x) = 0
  BY FS_EmptySet DEF Pending, Releases

----------------------------------------------------------------------------
(* The invariant.                                                          *)

\* A list of objects, none twice.
Listed(s) == s \in Seq(Obj) /\ \A j, k \in DOMAIN s : s[j] = s[k] => j = k

Disjoint(s, t) == ToSet(s) \cap ToSet(t) = {}

ListsFit(l) ==
    /\ Listed(l.main)
    /\ \A s \in l.lost : Listed(s) /\ s # <<>> /\ Disjoint(s, l.main)
    /\ \A s, t \in l.lost : s # t => Disjoint(s, t)

Members(l) == ToSet(l.main) \cup UNION {ToSet(s) : s \in l.lost}
Unmarked == Members(Lists)

\* An object is in one of the lists, once, exactly while something refers to it.
ChainsFit ==
    /\ ListsFit(Lists)
    /\ Listed(tchain)
    /\ Unmarked \cap Marked = {}
    /\ \A o \in Obj : heap[o].refs > 0 <=> o \in Unmarked \cup Marked

\* What is left to do frees every object that nothing refers to, once, after
\* its slots are emptied; only those and the object the sweep is at lose slots.
FreeAt(k, o) == work[k].op = "free" /\ work[k].obj = o
DropAt(k, o, i) == work[k].op = "drop" /\ work[k].obj = o /\ work[k].slot = i

Ending(o) == heap[o].kind # "free" /\ heap[o].refs = 0
Finalized == IF phase \in {"next", "closeNext"} THEN {cur} ELSE {}

WorkFits ==
    /\ \A o \in Obj : \A j, k \in 1 .. Len(work) : FreeAt(j, o) /\ FreeAt(k, o) => j = k
    /\ \A o \in Obj : \A k \in 1 .. Len(work) : FreeAt(k, o) =>
          /\ Ending(o)
          /\ \A i \in Slot : heap[o].slots[i] # Null =>
                \E j \in 1 .. Len(work) : j < k /\ DropAt(j, o, i)
    /\ \A o \in Obj : \A i \in Slot : \A k \in 1 .. Len(work) : DropAt(k, o, i) =>
          o \in Finalized \/ \E j \in 1 .. Len(work) : k < j /\ FreeAt(j, o)
    /\ \A o \in Obj : Ending(o) => \E k \in 1 .. Len(work) : FreeAt(k, o)

\* A weak reference and its object know each other.
WeakFits ==
    /\ \A w \in Weak :
          /\ weak[w].live <=> weak[w].refs > 0
          /\ ~ weak[w].live => weak[w].obj = Null
          /\ weak[w].obj # Null =>
                heap[weak[w].obj].kind # "free" /\ heap[weak[w].obj].weak = w
    /\ \A o \in Obj : heap[o].weak # Null =>
          weak[heap[o].weak].live /\ weak[heap[o].weak].obj = o

\* A captured variable has its value in its register.
OpenFits ==
    /\ \A r \in Reg : open[r] # Null =>
          heap[open[r]].kind = "outer" /\ heap[open[r]].slots = NoSlots
    /\ \A r, s \in Reg : open[r] = open[s] => r = s \/ open[r] = Null

InSweep == phase \in {"sweep", "next", "closeSweep", "closeNext"}
InCollection == phase \in {"mark", "marked", "sweep", "next"}

PhaseFits ==
    /\ phase \in {"mark", "marked", "closed"} => work = <<>>
    /\ cur # Null => InSweep /\ cur \notin Marked
    /\ phase \in {"next", "closeNext"} => cur # Null
    /\ ~ InCollection => tchain = <<>>

\* A marked object is kept by a root or by another marked object, and marking
\* goes on until there is nothing else to mark.
MarksFit ==
    /\ \A o \in Marked : o \in Roots \/ \E p \in Marked : o \in Children(p)
    /\ phase \in {"marked", "sweep", "next"} => Found = {}

IInv ==
    TypeOK /\ ObjectsFit /\ Exact /\ ChainsFit /\ WorkFits /\ WeakFits /\ OpenFits
        /\ PhaseFits /\ MarksFit

----------------------------------------------------------------------------
(* What has a reference is there.                                          *)

LEMMA SomePlace ==
    ASSUME NEW D, IsFiniteSet(D), NEW f, NEW x, NEW d \in D, f[d] = x
    PROVE  Cardinality(Places(f, D, x)) > 0
<1>1. d \in Places(f, D, x)
  BY DEF Places
<1>2. IsFiniteSet(Places(f, D, x)) /\ Cardinality(Places(f, D, x)) \in Nat
  BY PlacesFinite
<1>3. Cardinality(Places(f, D, x)) # 0
  BY <1>1, <1>2, FS_EmptySet
<1>. QED BY <1>2, <1>3

LEMMA NoPlace ==
    ASSUME NEW D, IsFiniteSet(D), NEW f, NEW x, \A d \in D : f[d] # x
    PROVE  Cardinality(Places(f, D, x)) = 0
<1>1. Places(f, D, x) = {}
  BY DEF Places
<1>. QED BY <1>1, FS_EmptySet

Held(x) ==
    \/ \E r \in Reg : stack[r] = x \/ open[r] = x
    \/ \E o \in Obj, i \in Slot : heap[o].slots[i] = x
    \/ \E k \in 1 .. Len(work) : work[k].op = "release" /\ work[k].obj = x
    \/ cur = x

LEMMA TotalPositive ==
    ASSUME TypeOK, NEW x
    PROVE  Total(x) > 0 <=> Held(x)
<1>0. Total(x) \in Nat /\ InRegisters(x) \in Nat /\ InOpen(x) \in Nat /\ InSlots(x) \in Nat
      /\ Pending(work, x) \in Nat /\ Same(cur, x) \in Nat
  BY TotalType
<1>1. InRegisters(x) > 0 <=> \E r \in Reg : stack[r] = x
  BY <1>0, Finite, SomePlace, NoPlace DEF InRegisters
<1>2. InOpen(x) > 0 <=> \E r \in Reg : open[r] = x
  BY <1>0, Finite, SomePlace, NoPlace DEF InOpen
<1>3. InSlots(x) > 0 <=> \E o \in Obj, i \in Slot : heap[o].slots[i] = x
  <2>. DEFINE f == SlotsOf(heap)
              D == Obj \X Slot
  <2>1. \A o \in Obj, i \in Slot : <<o, i>> \in D /\ f[<<o, i>>] = heap[o].slots[i]
    BY DEF SlotsOf
  <2>2. \A d \in D : d[1] \in Obj /\ d[2] \in Slot /\ f[d] = heap[d[1]].slots[d[2]]
    BY DEF SlotsOf
  <2>3. IsFiniteSet(D) /\ InSlots(x) = Cardinality(Places(f, D, x))
    BY Finite DEF InSlots
  <2>. HIDE DEF f, D
  <2>4. ASSUME NEW o \in Obj, NEW i \in Slot, heap[o].slots[i] = x
        PROVE  InSlots(x) > 0
    <3>1. PICK d \in D : d = <<o, i>>
      BY <2>1
    <3>2. f[d] = x
      BY <2>1, <2>4, <3>1
    <3>. QED BY <2>3, <3>2, SomePlace
  <2>5. ASSUME \A o \in Obj, i \in Slot : heap[o].slots[i] # x
        PROVE  InSlots(x) = 0
    <3>1. \A d \in D : f[d] # x
      BY <2>2, <2>5
    <3>. QED BY <2>3, <3>1, NoPlace
  <2>. QED BY <2>4, <2>5
<1>4. Pending(work, x) > 0 <=> \E k \in 1 .. Len(work) : work[k].op = "release" /\ work[k].obj = x
  <2>1. IsFiniteSet(Releases(work, x))
    <3>1. Len(work) \in Nat
      BY LenProperties DEF TypeOK
    <3>. QED BY <3>1, ReleasesFinite
  <2>2. Pending(work, x) = 0 <=> Releases(work, x) = {}
    BY <2>1, FS_EmptySet DEF Pending
  <2>. QED BY <1>0, <2>2 DEF Releases
<1>5. Same(cur, x) > 0 <=> cur = x
  BY DEF Same
<1>. QED BY <1>0, <1>1, <1>2, <1>3, <1>4, <1>5 DEF Total, Held

\* What is referred to is alive.
LEMMA HeldFacts ==
    ASSUME IInv, NEW x \in Things, Held(x)
    PROVE  /\ x \in Obj => heap[x].refs > 0 /\ heap[x].kind # "free" /\ x \in Unmarked \cup Marked
           /\ x \in Weak => weak[x].refs > 0 /\ weak[x].live
<1>1. RefsOf(x) > 0
  BY TotalPositive DEF IInv, Exact
<1>2. CASE x \in Obj
  <2>1. heap[x].refs > 0
    BY <1>1, <1>2 DEF RefsOf
  <2>2. heap[x].kind # "free"
    BY <1>2, <2>1 DEF IInv, ObjectsFit, Unused
  <2>. QED BY <1>2, <2>1, <2>2, GcHeapAssumption DEF IInv, ChainsFit
<1>3. CASE x \in Weak
  <2>1. weak[x].refs > 0
    BY <1>1, <1>3, GcHeapAssumption DEF RefsOf
  <2>. QED BY <1>3, <2>1, GcHeapAssumption DEF IInv, WeakFits
<1>. QED BY <1>2, <1>3 DEF Things

----------------------------------------------------------------------------
(* Objects and weak references, field by field.                            *)

ObjType == [ kind : {"free", "table", "closure", "outer"}, refs : Nat,
             slots : [Slot -> Ref], weak : Weak \cup {Null} ]
WeakType == [refs : Nat, obj : Obj \cup {Null}, live : BOOLEAN]

LEMMA Types ==
    TypeOK <=>
        /\ heap \in [Obj -> ObjType] /\ weak \in [Weak -> WeakType]
        /\ stack \in [Reg -> Ref] /\ open \in [Reg -> Obj \cup {Null}]
        /\ chain \in Seq(Obj) /\ tchain \in Seq(Obj) /\ (\A s \in lost : s \in Seq(Obj))
        /\ work \in Seq(Task) /\ cur \in Obj \cup {Null} /\ phase \in Phase
  BY DEF TypeOK, ObjType, WeakType

LEMMA TypesAfter ==
    TypeOK' <=>
        /\ heap' \in [Obj -> ObjType] /\ weak' \in [Weak -> WeakType]
        /\ stack' \in [Reg -> Ref] /\ open' \in [Reg -> Obj \cup {Null}]
        /\ chain' \in Seq(Obj) /\ tchain' \in Seq(Obj) /\ (\A s \in lost' : s \in Seq(Obj))
        /\ work' \in Seq(Task) /\ cur' \in Obj \cup {Null} /\ phase' \in Phase
  BY DEF TypeOK, ObjType, WeakType

LEMMA ObjFields ==
    ASSUME NEW o \in ObjType
    PROVE  /\ o.kind \in {"free", "table", "closure", "outer"} /\ o.refs \in Nat
           /\ o.slots \in [Slot -> Ref] /\ o.weak \in Weak \cup {Null}
           /\ \A i \in Slot : o.slots[i] \in Ref
  BY DEF ObjType

LEMMA UnusedFacts ==
    /\ Unused \in ObjType /\ Unused.kind = "free" /\ Unused.refs = 0
    /\ Unused.slots = NoSlots /\ Unused.weak = Null
    /\ NoSlots \in [Slot -> Ref] /\ \A i \in Slot : NoSlots[i] = Null
    /\ 1 \in Slot
  BY GcHeapAssumption DEF Unused, ObjType, NoSlots, Ref

LEMMA CreatedFacts ==
    ASSUME NEW k \in {"table", "closure", "outer"}
    PROVE  /\ Created(k) \in ObjType /\ Created(k).kind = k /\ Created(k).refs = 0
           /\ Created(k).slots = NoSlots /\ Created(k).weak = Null
  BY GcHeapAssumption DEF Created, Unused, ObjType, NoSlots, Ref

\* __AddRef changes a count.
LEMMA ReferencedFacts ==
    ASSUME NEW h \in [Obj -> ObjType], NEW x
    PROVE  /\ Referenced(h, x) \in [Obj -> ObjType]
           /\ \A o \in Obj : /\ Referenced(h, x)[o].refs = h[o].refs + Same(x, o)
                             /\ Referenced(h, x)[o].kind = h[o].kind
                             /\ Referenced(h, x)[o].slots = h[o].slots
                             /\ Referenced(h, x)[o].weak = h[o].weak
<1>1. CASE x \in Obj
  <2>1. Referenced(h, x) = [h EXCEPT ![x].refs = @ + 1]
    BY <1>1 DEF Referenced
  <2>2. PICK t : t = [h[x] EXCEPT !.refs = h[x].refs + 1]
    OBVIOUS
  <2>3. /\ t \in ObjType /\ t.refs = h[x].refs + 1 /\ t.kind = h[x].kind
        /\ t.slots = h[x].slots /\ t.weak = h[x].weak
    BY <1>1, <2>2 DEF ObjType
  <2>4. Referenced(h, x) = [h EXCEPT ![x] = t]
    BY <2>1, <2>2
  <2>5. \A o \in Obj : Referenced(h, x)[o] = IF o = x THEN t ELSE h[o]
    BY <2>4
  <2>6. \A o \in Obj : h[o].refs \in Nat
    BY DEF ObjType
  <2>7. Referenced(h, x) \in [Obj -> ObjType]
    BY <2>3, <2>4
  <2>. QED BY <2>3, <2>5, <2>6, <2>7 DEF Same
<1>2. CASE x \notin Obj
  <2>1. Referenced(h, x) = h
    BY <1>2 DEF Referenced
  <2>2. \A o \in Obj : h[o].refs \in Nat /\ Same(x, o) = 0
    BY <1>2 DEF ObjType, Same
  <2>. QED BY <2>1, <2>2
<1>. QED BY <1>1, <1>2

LEMMA WeakReferencedFacts ==
    ASSUME NEW v \in [Weak -> WeakType], NEW x
    PROVE  /\ WeakReferenced(v, x) \in [Weak -> WeakType]
           /\ \A w \in Weak : /\ WeakReferenced(v, x)[w].refs = v[w].refs + Same(x, w)
                              /\ WeakReferenced(v, x)[w].obj = v[w].obj
                              /\ WeakReferenced(v, x)[w].live <=> v[w].live
<1>1. CASE x \in Weak
  <2>1. WeakReferenced(v, x) = [v EXCEPT ![x].refs = @ + 1]
    BY <1>1 DEF WeakReferenced
  <2>2. PICK t : t = [v[x] EXCEPT !.refs = v[x].refs + 1]
    OBVIOUS
  <2>3. t \in WeakType /\ t.refs = v[x].refs + 1 /\ t.obj = v[x].obj /\ (t.live <=> v[x].live)
    BY <1>1, <2>2 DEF WeakType
  <2>4. WeakReferenced(v, x) = [v EXCEPT ![x] = t]
    BY <2>1, <2>2
  <2>5. \A w \in Weak : WeakReferenced(v, x)[w] = IF w = x THEN t ELSE v[w]
    BY <2>4
  <2>6. \A w \in Weak : v[w].refs \in Nat
    BY DEF WeakType
  <2>7. WeakReferenced(v, x) \in [Weak -> WeakType]
    BY <2>3, <2>4
  <2>. QED BY <2>3, <2>5, <2>6, <2>7 DEF Same
<1>2. CASE x \notin Weak
  <2>1. WeakReferenced(v, x) = v
    BY <1>2 DEF WeakReferenced
  <2>2. \A w \in Weak : v[w].refs \in Nat /\ Same(x, w) = 0
    BY <1>2 DEF WeakType, Same
  <2>. QED BY <2>1, <2>2
<1>. QED BY <1>1, <1>2

\* An object whose slot is set.
Stored(h, o, i, y) == [h EXCEPT ![o].slots[i] = y]

LEMMA SlotSet ==
    ASSUME NEW h \in [Obj -> ObjType], NEW o \in Obj, NEW i \in Slot, NEW y \in Ref, NEW g,
           g = Stored(h, o, i, y)
    PROVE  /\ g \in [Obj -> ObjType]
           /\ \A p \in Obj : /\ g[p].refs = h[p].refs /\ g[p].kind = h[p].kind
                             /\ g[p].weak = h[p].weak
                             /\ p # o => g[p].slots = h[p].slots
           /\ g[o].slots[i] = y
           /\ \A p \in Obj, j \in Slot : p # o \/ j # i => g[p].slots[j] = h[p].slots[j]
<1>1. PICK f : f = [h[o].slots EXCEPT ![i] = y]
  OBVIOUS
<1>2. h[o].slots \in [Slot -> Ref]
  BY ObjFields
<1>3. f \in [Slot -> Ref] /\ f[i] = y /\ \A j \in Slot : j # i => f[j] = h[o].slots[j]
  BY <1>1, <1>2
<1>4. PICK t : t = [h[o] EXCEPT !.slots = f]
  OBVIOUS
<1>5. /\ t \in ObjType /\ t.refs = h[o].refs /\ t.kind = h[o].kind
      /\ t.slots = f /\ t.weak = h[o].weak
  BY <1>3, <1>4 DEF ObjType
<1>6. g = [h EXCEPT ![o] = t]
  BY <1>1, <1>4, Zenon DEF Stored
<1>7. \A p \in Obj : g[p] = IF p = o THEN t ELSE h[p]
  BY <1>6
<1>8. g \in [Obj -> ObjType]
  BY <1>5, <1>6
<1>. QED BY <1>3, <1>5, <1>7, <1>8

\* An object, or a weak reference, that is put in place of another.
LEMMA ObjectSet ==
    ASSUME NEW h \in [Obj -> ObjType], NEW o \in Obj, NEW t \in ObjType, NEW g,
           g = [h EXCEPT ![o] = t]
    PROVE  g \in [Obj -> ObjType] /\ \A p \in Obj : g[p] = IF p = o THEN t ELSE h[p]
  OBVIOUS

LEMMA WeakSet ==
    ASSUME NEW v \in [Weak -> WeakType], NEW w \in Weak, NEW t \in WeakType, NEW g,
           g = [v EXCEPT ![w] = t]
    PROVE  g \in [Weak -> WeakType] /\ \A p \in Weak : g[p] = IF p = w THEN t ELSE v[p]
  OBVIOUS

----------------------------------------------------------------------------
(* Lists.                                                                  *)

LEMMA ConcatListed ==
    ASSUME NEW s, Listed(s), NEW t, Listed(t), Disjoint(s, t)
    PROVE  Listed(s \o t) /\ ToSet(s \o t) = ToSet(s) \cup ToSet(t)
<1>1. /\ s \o t \in Seq(Obj) /\ Len(s) \in Nat /\ Len(t) \in Nat
      /\ Len(s \o t) = Len(s) + Len(t)
      /\ DOMAIN s = 1 .. Len(s) /\ DOMAIN t = 1 .. Len(t) /\ DOMAIN (s \o t) = 1 .. Len(s) + Len(t)
  BY ConcatProperties, LenProperties DEF Listed
<1>2. /\ \A k \in 1 .. Len(s) : (s \o t)[k] = s[k]
      /\ \A k \in 1 .. Len(t) : (s \o t)[k + Len(s)] = t[k]
      /\ \A k \in 1 .. Len(s) + Len(t) : k > Len(s) =>
            k - Len(s) \in 1 .. Len(t) /\ (s \o t)[k] = t[k - Len(s)]
  BY <1>1, ConcatProperties DEF Listed
<1>. DEFINE u == s \o t
<1>. HIDE DEF u
<1>3. u = s \o t
  BY DEF u
<1>4. ToSet(u) = ToSet(s) \cup ToSet(t)
  <2>1. \A k \in 1 .. Len(s) : s[k] \in ToSet(u)
    BY <1>1, <1>2, <1>3 DEF ToSet
  <2>2. \A k \in 1 .. Len(t) : t[k] \in ToSet(u)
    <3>1. \A k \in 1 .. Len(t) : k + Len(s) \in DOMAIN u /\ u[k + Len(s)] = t[k]
      BY <1>1, <1>2, <1>3
    <3>. QED BY <3>1 DEF ToSet
  <2>3. ASSUME NEW k \in 1 .. Len(s) + Len(t) PROVE u[k] \in ToSet(s) \cup ToSet(t)
    <3>1. CASE k <= Len(s)
      <4>1. k \in DOMAIN s /\ u[k] = s[k]
        BY <1>1, <1>2, <1>3, <3>1
      <4>. QED BY <4>1 DEF ToSet
    <3>2. CASE k > Len(s)
      <4>1. k - Len(s) \in DOMAIN t /\ u[k] = t[k - Len(s)]
        BY <1>1, <1>2, <1>3, <3>2
      <4>. QED BY <4>1 DEF ToSet
    <3>. QED BY <1>1, <3>1, <3>2
  <2>. QED BY ZenonT(30), <1>1, <1>3, <2>1, <2>2, <2>3 DEF ToSet
<1>5. ASSUME NEW j \in DOMAIN u, NEW k \in DOMAIN u, u[j] = u[k]
      PROVE  j = k
  <2>0. j \in 1 .. Len(s) + Len(t) /\ k \in 1 .. Len(s) + Len(t)
    BY <1>1, <1>3, <1>5
  <2>1. CASE j <= Len(s) /\ k <= Len(s)
    <3>1. u[j] = s[j] /\ u[k] = s[k] /\ j \in DOMAIN s /\ k \in DOMAIN s
      BY <1>1, <1>2, <1>3, <2>0, <2>1
    <3>. QED BY <1>5, <3>1 DEF Listed
  <2>2. CASE j > Len(s) /\ k > Len(s)
    <3>1. u[j] = t[j - Len(s)] /\ u[k] = t[k - Len(s)] /\ j - Len(s) \in DOMAIN t /\ k - Len(s) \in DOMAIN t
      BY <1>1, <1>2, <1>3, <2>0, <2>2
    <3>2. j - Len(s) = k - Len(s)
      BY <1>5, <3>1 DEF Listed
    <3>. QED BY <1>1, <2>0, <3>2
  <2>3. ASSUME NEW a \in DOMAIN u, NEW b \in DOMAIN u, a <= Len(s), b > Len(s)
        PROVE  u[a] # u[b]
    <3>1. u[a] = s[a] /\ a \in DOMAIN s /\ u[b] = t[b - Len(s)] /\ b - Len(s) \in DOMAIN t
      BY <1>1, <1>2, <1>3, <2>3
    <3>2. u[a] \in ToSet(s) /\ u[b] \in ToSet(t)
      BY <3>1 DEF ToSet
    <3>. QED BY <3>2 DEF Disjoint
  <2>. QED BY <1>1, <1>5, <2>0, <2>1, <2>2, <2>3
<1>. QED BY <1>1, <1>3, <1>4, <1>5 DEF Listed

LEMMA EmptyListed == Listed(<<>>) /\ ToSet(<<>>) = {}
  BY DEF Listed, ToSet

LEMMA SingleListed ==
    ASSUME NEW o \in Obj
    PROVE  Listed(<<o>>) /\ ToSet(<<o>>) = {o}
  BY DEF Listed, ToSet

LEMMA PairListed ==
    ASSUME NEW o \in Obj, NEW c \in Obj, o # c
    PROVE  Listed(<<o, c>>) /\ ToSet(<<o, c>>) = {o, c}
<1>1. <<o, c>> \in Seq(Obj) /\ DOMAIN <<o, c>> = 1 .. 2 /\ <<o, c>>[1] = o /\ <<o, c>>[2] = c
  OBVIOUS
<1>2. 1 .. 2 = {1, 2}
  OBVIOUS
<1>. QED BY <1>1, <1>2 DEF Listed, ToSet

LEMMA PositionFacts ==
    ASSUME NEW s, Listed(s), NEW o \in ToSet(s)
    PROVE  /\ PositionOf(s, o) \in 1 .. Len(s) /\ s[PositionOf(s, o)] = o
           /\ \A k \in 1 .. Len(s) : s[k] = o => k = PositionOf(s, o)
<1>1. DOMAIN s = 1 .. Len(s)
  BY LenProperties DEF Listed
<1>2. \E k \in DOMAIN s : s[k] = o
  BY DEF ToSet
<1>. QED BY <1>1, <1>2 DEF PositionOf, Listed

\* The list without o: what was before o stays, what was after moves up.
LEMMA WithoutIndices ==
    ASSUME NEW s, Listed(s), NEW o \in ToSet(s), NEW n, n = PositionOf(s, o)
    PROVE  /\ n \in 1 .. Len(s) /\ s[n] = o /\ Len(s) \in Nat
           /\ Without(s, o) \in Seq(Obj) /\ Len(Without(s, o)) = Len(s) - 1
           /\ \A k \in 1 .. Len(s) - 1 :
                 Without(s, o)[k] = IF k < n THEN s[k] ELSE s[k + 1]
<1>1. n \in 1 .. Len(s) /\ s[n] = o /\ Len(s) \in Nat /\ s \in Seq(Obj)
  BY PositionFacts, LenProperties DEF Listed
<1>2. PICK a : a = SubSeq(s, 1, n - 1)
  OBVIOUS
<1>3. PICK b : b = SubSeq(s, n + 1, Len(s))
  OBVIOUS
<1>4. a \in Seq(Obj) /\ Len(a) = n - 1 /\ \A k \in 1 .. n - 1 : a[k] = s[k]
  BY <1>1, <1>2, SubSeqProperties
<1>5. b \in Seq(Obj) /\ Len(b) = Len(s) - n /\ \A k \in 1 .. Len(s) - n : b[k] = s[k + n]
  BY <1>1, <1>3, SubSeqProperties
<1>6. Without(s, o) = a \o b
  BY <1>2, <1>3 DEF Without, RemoveAt
<1>7. PICK c : c = a \o b
  OBVIOUS
<1>9. /\ c \in Seq(Obj) /\ Len(c) = Len(a) + Len(b)
      /\ \A k \in 1 .. Len(a) + Len(b) : c[k] = IF k <= Len(a) THEN a[k] ELSE b[k - Len(a)]
  BY <1>4, <1>5, <1>7, ConcatProperties
<1>10. Len(c) = Len(s) - 1
  BY <1>1, <1>4, <1>5, <1>9
<1>8. ASSUME NEW k \in 1 .. Len(s) - 1
      PROVE  c[k] = IF k < n THEN s[k] ELSE s[k + 1]
  <2>1. CASE k < n
    <3>1. c[k] = a[k]
      BY <1>1, <1>4, <1>9, <1>10, <2>1
    <3>. QED BY <1>1, <1>4, <2>1, <3>1
  <2>2. CASE k >= n
    <3>1. PICK j : j = k - (n - 1)
      OBVIOUS
    <3>2. c[k] = b[j] /\ j \in 1 .. Len(s) - n /\ j + n = k + 1
      BY SMTT(30), <1>1, <1>4, <1>9, <1>10, <2>2, <3>1
    <3>3. b[j] = s[j + n]
      BY <1>5, <3>2
    <3>4. ~ (k < n)
      BY <1>1, <2>2
    <3>. QED BY <3>2, <3>3, <3>4
  <2>. QED BY <1>1, <2>1, <2>2
<1>. QED BY <1>1, <1>6, <1>7, <1>8, <1>9, <1>10

LEMMA WithoutFacts ==
    ASSUME NEW s, Listed(s), NEW o \in ToSet(s)
    PROVE  Listed(Without(s, o)) /\ ToSet(Without(s, o)) = ToSet(s) \ {o}
<1>1. PICK n : n = PositionOf(s, o)
  OBVIOUS
<1>2. PICK t : t = Without(s, o)
  OBVIOUS
<1>3. /\ n \in 1 .. Len(s) /\ s[n] = o /\ Len(s) \in Nat
      /\ t \in Seq(Obj) /\ Len(t) = Len(s) - 1
      /\ \A k \in 1 .. Len(s) - 1 : t[k] = IF k < n THEN s[k] ELSE s[k + 1]
  BY <1>1, <1>2, WithoutIndices
<1>4. DOMAIN s = 1 .. Len(s) /\ DOMAIN t = 1 .. Len(s) - 1
  BY <1>3, LenProperties DEF Listed
<1>5. \A j, k \in 1 .. Len(s) : s[j] = s[k] => j = k
  BY <1>4 DEF Listed
<1>6. ASSUME NEW j \in 1 .. Len(s) - 1, NEW k \in 1 .. Len(s) - 1, t[j] = t[k] PROVE j = k
  BY <1>3, <1>5, <1>6
<1>7. \A k \in 1 .. Len(s) - 1 : t[k] \in ToSet(s) \ {o}
  BY <1>3, <1>4, <1>5 DEF ToSet
<1>8. ASSUME NEW k \in 1 .. Len(s), s[k] # o PROVE s[k] \in ToSet(t)
  <2>1. CASE k < n
    <3>1. k \in DOMAIN t /\ t[k] = s[k]
      BY <1>3, <1>4, <2>1
    <3>. QED BY <3>1 DEF ToSet
  <2>2. CASE k > n
    <3>1. k - 1 \in DOMAIN t /\ t[k - 1] = s[k]
      BY <1>3, <1>4, <2>2
    <3>. QED BY <3>1 DEF ToSet
  <2>. QED BY <1>3, <1>8, <2>1, <2>2
<1>9. ToSet(t) = ToSet(s) \ {o}
  BY <1>4, <1>7, <1>8 DEF ToSet
<1>. QED BY <1>2, <1>3, <1>4, <1>6, <1>9 DEF Listed

LEMMA TailListed ==
    ASSUME NEW s, Listed(s), s # <<>>
    PROVE  Listed(Tail(s)) /\ ToSet(Tail(s)) = ToSet(s) \ {Head(s)} /\ Head(s) \in ToSet(s)
<1>1. PICK t : t = Tail(s)
  OBVIOUS
<1>2. /\ t \in Seq(Obj) /\ Len(s) \in Nat /\ Len(s) >= 1 /\ Len(t) = Len(s) - 1
      /\ Head(s) = s[1] /\ \A k \in 1 .. Len(s) - 1 : t[k] = s[k + 1]
  BY <1>1, HeadTailProperties, LenProperties, EmptySeq DEF Listed
<1>3. DOMAIN s = 1 .. Len(s) /\ DOMAIN t = 1 .. Len(s) - 1
  BY <1>2, LenProperties DEF Listed
<1>4. \A j, k \in 1 .. Len(s) : s[j] = s[k] => j = k
  BY <1>3 DEF Listed
<1>5. ASSUME NEW j \in 1 .. Len(s) - 1, NEW k \in 1 .. Len(s) - 1, t[j] = t[k] PROVE j = k
  BY <1>2, <1>4, <1>5
<1>6. \A k \in 1 .. Len(s) - 1 : t[k] \in ToSet(s) \ {s[1]}
  BY SMTT(30), <1>2, <1>3, <1>4 DEF ToSet
<1>7. ASSUME NEW k \in 1 .. Len(s), s[k] # s[1] PROVE s[k] \in ToSet(t)
  <2>1. k - 1 \in DOMAIN t /\ t[k - 1] = s[k]
    BY <1>2, <1>3, <1>7
  <2>. QED BY <2>1 DEF ToSet
<1>8. ToSet(t) = ToSet(s) \ {s[1]}
  BY <1>3, <1>6, <1>7 DEF ToSet
<1>9. s[1] \in ToSet(s)
  BY <1>2, <1>3 DEF ToSet
<1>. QED BY <1>1, <1>2, <1>3, <1>5, <1>8, <1>9 DEF Listed

\* The lists that SetLists makes of l.
Normal(l) == [main |-> l.main, lost |-> l.lost \ {<<>>}]

\* Objects that are put in front of the chain.
LEMMA PrefixFacts ==
    ASSUME NEW main, NEW lists, ListsFit([main |-> main, lost |-> lists]),
           NEW new, Listed(new), ToSet(new) \cap Members([main |-> main, lost |-> lists]) = {}
    PROVE  /\ ListsFit([main |-> new \o main, lost |-> lists])
           /\ Members([main |-> new \o main, lost |-> lists])
                  = Members([main |-> main, lost |-> lists]) \cup ToSet(new)
<1>1. Listed(main) /\ Disjoint(new, main) /\ \A s \in lists : Disjoint(s, new)
  BY DEF ListsFit, Members, Disjoint
<1>2. Listed(new \o main) /\ ToSet(new \o main) = ToSet(new) \cup ToSet(main)
  BY <1>1, ConcatListed
<1>3. PICK u : u = new \o main
  OBVIOUS
<1>. QED BY <1>1, <1>2, <1>3 DEF ListsFit, Members, Disjoint

LEMMA UnchainedFacts ==
    ASSUME NEW main, NEW lists, NEW l, l = [main |-> main, lost |-> lists], ListsFit(l),
           NEW o \in Members(l)
    PROVE  /\ ListsFit(Normal(Unchained(l, o)))
           /\ Members(Normal(Unchained(l, o))) = Members(l) \ {o}
<1>0. /\ l.main = main /\ l.lost = lists /\ Listed(main)
      /\ \A s \in lists : Listed(s) /\ s # <<>> /\ Disjoint(s, main)
      /\ \A s, t \in lists : s # t => Disjoint(s, t)
      /\ \A s \in lists : s # main
  <2>1. /\ l.main = main /\ l.lost = lists
    OBVIOUS
  <2>2. /\ Listed(main) /\ \A s \in lists : Listed(s) /\ s # <<>> /\ Disjoint(s, main)
        /\ \A s, t \in lists : s # t => Disjoint(s, t)
    BY <2>1 DEF ListsFit
  <2>3. \A s \in lists : s # main
    <3>1. \A s \in lists : Head(s) \in ToSet(s)
      BY <2>2, TailListed
    <3>. QED BY <2>2, <3>1 DEF Disjoint
  <2>. QED BY <2>1, <2>2, <2>3
<1>1. \A t, M, N : t = [main |-> M, lost |-> N] =>
        /\ Normal(t) = [main |-> M, lost |-> N \ {<<>>}]
        /\ Normal(t).main = M /\ Normal(t).lost = N \ {<<>>}
  BY DEF Normal
<1>2. CASE o \in ToSet(main)
  <2>1. PICK u : u = Without(main, o)
    OBVIOUS
  <2>2. Listed(u) /\ ToSet(u) = ToSet(main) \ {o}
    BY <1>0, <1>2, <2>1, WithoutFacts
  <2>3. Unchained(l, o) = [main |-> u, lost |-> lists]
    BY <1>0, <1>2, <2>1 DEF Unchained
  <2>4. PICK n : n = Normal(Unchained(l, o))
    OBVIOUS
  <2>5. n.main = u /\ n.lost = lists
    <3>1. n.main = u /\ n.lost = lists \ {<<>>}
      BY <1>1, <2>3, <2>4
    <3>2. <<>> \notin lists
      BY <1>0
    <3>. QED BY <3>1, <3>2
  <2>6. \A s \in lists : o \notin ToSet(s)
    BY <1>0, <1>2 DEF Disjoint
  <2>7. ListsFit(n)
    BY <1>0, <2>2, <2>5 DEF ListsFit, Disjoint
  <2>8. Members(n) = Members(l) \ {o}
    BY <1>0, <2>2, <2>5, <2>6 DEF Members
  <2>. QED BY <2>4, <2>7, <2>8
<1>3. CASE o \notin ToSet(main)
  <2>1. PICK list \in lists : list = CHOOSE s \in lists : o \in ToSet(s)
    BY <1>0, <1>3 DEF Members
  <2>2. o \in ToSet(list)
    <3>1. \E s \in lists : o \in ToSet(s)
      BY <1>0, <1>3 DEF Members
    <3>. QED BY <2>1, <3>1
  <2>3. \A s \in lists \ {list} : Disjoint(s, list) /\ o \notin ToSet(s)
    BY <1>0, <2>2 DEF Disjoint
  <2>4. PICK n : n = Normal(Unchained(l, o))
    OBVIOUS
  <2>5. CASE Head(list) = o
    <3>1. PICK u : u = Tail(list)
      OBVIOUS
    <3>2. Listed(u) /\ ToSet(u) = ToSet(list) \ {o}
      BY <1>0, <2>5, <3>1, TailListed
    <3>3. Unchained(l, o) = [main |-> u, lost |-> (lists \ {list}) \cup {main}]
      BY <1>0, <1>3, <2>1, <2>5, <3>1 DEF Unchained
    <3>4. n.main = u /\ n.lost = ((lists \ {list}) \cup {main}) \ {<<>>}
      BY <1>1, <2>4, <3>3
    <3>5. ListsFit(n)
      BY <1>0, <2>3, <3>2, <3>4 DEF ListsFit, Disjoint
    <3>6. Members(n) = Members(l) \ {o}
      <4>1. Members(l) = ToSet(main) \cup ToSet(list) \cup UNION {ToSet(s) : s \in lists \ {list}}
        BY <1>0 DEF Members
      <4>2. Members(n) = ToSet(u) \cup ToSet(main) \cup UNION {ToSet(s) : s \in lists \ {list}}
        <5>1. main = <<>> => ToSet(main) = {}
          BY EmptyListed
        <5>2. <<>> \notin lists
          BY <1>0
        <5>. QED BY <3>4, <5>1, <5>2 DEF Members
      <4>3. o \notin UNION {ToSet(s) : s \in lists \ {list}}
        BY <2>3
      <4>. QED BY <1>3, <3>2, <4>1, <4>2, <4>3
    <3>. QED BY <2>4, <3>5, <3>6
  <2>6. CASE Head(list) # o
    <3>1. PICK u : u = Without(list, o)
      OBVIOUS
    <3>2. Listed(u) /\ ToSet(u) = ToSet(list) \ {o}
      BY <1>0, <2>2, <3>1, WithoutFacts
    <3>3. Unchained(l, o) = [main |-> main, lost |-> (lists \ {list}) \cup {u}]
      BY <1>0, <1>3, <2>1, <2>6, <3>1 DEF Unchained
    <3>4. n.main = main /\ n.lost = ((lists \ {list}) \cup {u}) \ {<<>>}
      BY <1>1, <2>4, <3>3
    <3>5. ListsFit(n)
      BY <1>0, <2>3, <3>2, <3>4 DEF ListsFit, Disjoint
    <3>6. Members(n) = Members(l) \ {o}
      <4>1. Members(l) = ToSet(main) \cup ToSet(list) \cup UNION {ToSet(s) : s \in lists \ {list}}
        BY <1>0 DEF Members
      <4>2. Members(n) = ToSet(main) \cup ToSet(u) \cup UNION {ToSet(s) : s \in lists \ {list}}
        <5>1. u = <<>> => ToSet(u) = {}
          BY EmptyListed
        <5>2. <<>> \notin lists
          BY <1>0
        <5>. QED BY <3>4, <5>1, <5>2 DEF Members
      <4>3. o \notin UNION {ToSet(s) : s \in lists \ {list}}
        BY <2>3
      <4>. QED BY <1>3, <3>2, <4>1, <4>2, <4>3
    <3>. QED BY <2>4, <3>5, <3>6
  <2>. QED BY <2>5, <2>6
<1>. QED BY <1>2, <1>3

\* The next object in the list of the object the sweep is at.
LEMMA NextOfFacts ==
    ASSUME ListsFit(Lists), NEW o \in Unmarked
    PROVE  /\ NextOf(o) \in Unmarked \cup {Null}
           /\ NextOf(o) \in Obj => NextOf(o) # o
<1>1. PICK list \in lost \cup {chain} : list = CHOOSE s \in lost \cup {chain} : o \in ToSet(s)
  BY DEF Unmarked, Members, Lists
<1>2. o \in ToSet(list)
  <2>1. \E s \in lost \cup {chain} : o \in ToSet(s)
    BY DEF Unmarked, Members, Lists
  <2>. QED BY <1>1, <2>1
<1>3. Listed(list) /\ ToSet(list) \subseteq Unmarked
  BY DEF Unmarked, Members, Lists, ListsFit
<1>4. PICK k : k = PositionOf(list, o)
  OBVIOUS
<1>5. k \in 1 .. Len(list) /\ list[k] = o /\ Len(list) \in Nat /\ DOMAIN list = 1 .. Len(list)
  BY <1>2, <1>3, <1>4, PositionFacts, LenProperties DEF Listed
<1>6. NextOf(o) = IF k = Len(list) THEN Null ELSE list[k + 1]
  BY <1>1, <1>4 DEF NextOf
<1>7. CASE k = Len(list)
  <2>1. Null \notin Obj
    BY GcHeapAssumption
  <2>. QED BY <1>6, <1>7, <2>1
<1>8. CASE k # Len(list)
  <2>1. k + 1 \in DOMAIN list
    <3>1. PICK n \in Nat : n = Len(list)
      BY <1>5
    <3>2. k \in 1 .. n /\ k # n
      BY <1>5, <1>8, <3>1
    <3>3. k + 1 \in 1 .. n
      BY ONLY <3>2, n \in Nat
    <3>. QED BY <1>5, <3>1, <3>3
  <2>2. list[k + 1] \in ToSet(list)
    BY <2>1 DEF ToSet
  <2>3. list[k + 1] # list[k]
    BY <1>3, <1>5, <2>1 DEF Listed
  <2>. QED BY <1>3, <1>5, <1>6, <1>8, <2>2, <2>3
<1>. QED BY <1>7, <1>8

LEMMA MembersAreObjects ==
    ASSUME TypeOK
    PROVE  Unmarked \subseteq Obj /\ Marked \subseteq Obj
<1>1. \A s \in Seq(Obj) : ToSet(s) \subseteq Obj
  BY DEF ToSet
<1>. QED BY <1>1, Types DEF Unmarked, Members, Lists, Marked

----------------------------------------------------------------------------
(* Steps of scripts.                                                       *)

\* When no destructor runs, nothing that is alive is without a reference.
LEMMA QuietFacts ==
    ASSUME IInv, work = <<>>, NEW o \in Obj
    PROVE  /\ heap[o].refs \in Nat
           /\ heap[o].kind # "free" <=> heap[o].refs > 0
           /\ o \in Alive <=> heap[o].refs > 0
           /\ o \in Unmarked \cup Marked <=> heap[o].refs > 0
<1>1. heap[o].refs \in Nat
  BY Types, ObjFields DEF IInv
<1>2. heap[o].kind # "free" => heap[o].refs # 0
  BY DEF IInv, WorkFits, Ending
<1>3. heap[o].kind = "free" => heap[o].refs = 0
  BY DEF IInv, ObjectsFit, Unused
<1>. QED BY <1>1, <1>2, <1>3 DEF Alive, IInv, ChainsFit

OnlyReleases(w) == \A k \in 1 .. Len(w) : w[k].op = "release"

\* What a script's step keeps whatever it does with values: new objects are
\* put in the chain with a reference, others keep theirs, and what is left to
\* do are releases.
LEMMA ScriptStep ==
    ASSUME IInv, TypeOK', work = <<>>, phase \in {"run", "close"}, phase' = phase,
           cur' = cur, lost' = lost, tchain' = tchain, OnlyReleases(work'),
           NEW new, Listed(new), chain' = new \o chain,
           \A o \in Obj : o \in ToSet(new) =>
               heap[o].kind = "free" /\ heap'[o].kind # "free" /\ heap'[o].refs > 0,
           \A o \in Obj \ ToSet(new) :
               /\ heap'[o].kind = heap[o].kind /\ heap'[o].refs >= heap[o].refs
               /\ heap[o].kind = "free" => heap'[o] = heap[o]
    PROVE  ObjectsFit' /\ ChainsFit' /\ WorkFits' /\ PhaseFits' /\ MarksFit'
<1>1. \A o \in Obj : /\ heap[o].refs \in Nat /\ heap'[o].refs \in Nat
                     /\ heap[o].kind # "free" <=> heap[o].refs > 0
                     /\ o \in Unmarked \cup Marked <=> heap[o].refs > 0
  BY QuietFacts, TypesAfter, ObjFields
<1>2. ToSet(new) \subseteq Obj
  BY DEF Listed, ToSet
<1>3. tchain = <<>> /\ Marked = {} /\ Marked' = {} /\ cur = Null
  BY EmptyListed DEF IInv, PhaseFits, InCollection, InSweep, Marked
<1>4. ObjectsFit'
  BY DEF IInv, ObjectsFit
<1>5. \A o \in Obj : heap'[o].refs > 0 <=> heap'[o].kind # "free"
  BY <1>1, <1>4, UnusedFacts DEF ObjectsFit
<1>6. ChainsFit'
  <2>1. ListsFit([main |-> chain, lost |-> lost]) /\ Unmarked = Members([main |-> chain, lost |-> lost])
    BY DEF IInv, ChainsFit, Unmarked, Lists
  <2>2. ToSet(new) \cap Unmarked = {}
    BY <1>1, <1>2
  <2>3. ListsFit(Lists') /\ Unmarked' = Unmarked \cup ToSet(new)
    BY <2>1, <2>2, PrefixFacts DEF Unmarked, Lists
  <2>4. Listed(tchain') /\ Unmarked' \cap Marked' = {}
    BY <1>3, EmptyListed
  <2>5. \A o \in Obj : heap'[o].refs > 0 <=> o \in Unmarked' \cup Marked'
    BY <1>1, <1>2, <1>3, <1>5, <2>3
  <2>. QED BY <2>3, <2>4, <2>5 DEF ChainsFit
<1>7. WorkFits'
  <2>1. \A o \in Obj : ~ Ending(o)'
    BY <1>5 DEF Ending
  <2>2. \A k \in 1 .. Len(work') : work'[k].op # "free" /\ work'[k].op # "drop"
    BY DEF OnlyReleases
  <2>. QED BY <2>1, <2>2 DEF WorkFits, FreeAt, DropAt
<1>8. PhaseFits'
  BY <1>3 DEF IInv, PhaseFits, InCollection, InSweep
<1>9. MarksFit'
  BY <1>3 DEF MarksFit
<1>. QED BY <1>4, <1>6, <1>7, <1>8, <1>9

\* Counts before the value of a register is set.
CountIn(h, v, x) == IF x \in Obj THEN h[x].refs ELSE v[x].refs

\* An assignment moves one reference: what it takes and what it gives up are
\* the same in the counts and among the holders.
LEMMA AssignCounts ==
    ASSUME TypeOK, work = <<>>, NEW r \in Reg, NEW y \in Ref,
           NEW h \in [Obj -> ObjType], NEW v \in [Weak -> WeakType], Assign(r, y, h, v),
           NEW x \in Things
    PROVE  /\ RefsOf(x)' = CountIn(h, v, x) + Same(y, x)
           /\ Total(x)' = InRegisters(x) + Same(y, x) + InOpen(x)' + InSlots(x)' + Same(cur, x)
<1>1. RefsOf(x)' = CountIn(h, v, x) + Same(y, x)
  <2>1. heap' = Referenced(h, y) /\ weak' = WeakReferenced(v, y)
    BY DEF Assign
  <2>2. CASE x \in Obj
    BY <2>1, <2>2, ReferencedFacts DEF RefsOf, CountIn
  <2>3. CASE x \notin Obj
    <3>1. x \in Weak
      BY <2>3 DEF Things
    <3>. QED BY <2>1, <2>3, <3>1, WeakReferencedFacts DEF RefsOf, CountIn
  <2>. QED BY <2>2, <2>3
<1>2. InRegisters(x)' = InRegisters(x) - Same(stack[r], x) + Same(y, x)
  <2>1. stack' = [stack EXCEPT ![r] = y]
    BY DEF Assign
  <2>. QED BY <2>1, RegisterChange
<1>3. Pending(work, x)' = Same(stack[r], x)
  <2>1. stack[r] \in Ref /\ work' = Release(stack[r])
    BY Types DEF Assign
  <2>. QED BY <2>1, ReleaseFacts
<1>4. cur' = cur
  BY DEF Assign
<1>5. /\ InRegisters(x) \in Nat /\ Same(stack[r], x) \in Nat /\ Same(y, x) \in Nat
  BY TotalType DEF Same
<1>6. Total(x)' = InRegisters(x)' + InOpen(x)' + InSlots(x)' + Pending(work, x)' + Same(cur, x)
  BY <1>4 DEF Total
<1>7. Total(x)' = (InRegisters(x) - Same(stack[r], x) + Same(y, x)) + InOpen(x)' + InSlots(x)'
                    + Same(stack[r], x) + Same(cur, x)
  BY <1>2, <1>3, <1>6
<1>8. InOpen(x)' \in Int /\ InSlots(x)' \in Int
  BY PartsType
<1>. QED BY <1>1, <1>5, <1>7, <1>8

LEMMA TotalWhenQuiet ==
    ASSUME TypeOK, work = <<>>, NEW x
    PROVE  Total(x) = InRegisters(x) + InOpen(x) + InSlots(x) + Same(cur, x)
  BY EmptyPending, TotalType DEF Total

LEMMA AssignFacts ==
    ASSUME NEW r \in Reg, NEW y \in Ref, NEW h \in [Obj -> ObjType], NEW v \in [Weak -> WeakType],
           TypeOK, Assign(r, y, h, v)
    PROVE  /\ heap' \in [Obj -> ObjType] /\ weak' \in [Weak -> WeakType]
           /\ stack' \in [Reg -> Ref] /\ work' \in Seq(Task) /\ OnlyReleases(work')
           /\ \A o \in Obj : /\ heap'[o].refs = h[o].refs + Same(y, o)
                             /\ heap'[o].kind = h[o].kind /\ heap'[o].slots = h[o].slots
                             /\ heap'[o].weak = h[o].weak
           /\ \A w \in Weak : /\ weak'[w].refs = v[w].refs + Same(y, w)
                              /\ weak'[w].obj = v[w].obj /\ (weak'[w].live <=> v[w].live)
           /\ tchain' = tchain /\ cur' = cur /\ phase' = phase
<1>1. /\ heap' = Referenced(h, y) /\ weak' = WeakReferenced(v, y)
      /\ stack' = [stack EXCEPT ![r] = y] /\ work' = Release(stack[r])
      /\ tchain' = tchain /\ cur' = cur /\ phase' = phase
  BY DEF Assign
<1>2. stack \in [Reg -> Ref] /\ stack[r] \in Ref
  BY Types
<1>3. work' \in Seq(Task) /\ OnlyReleases(work')
  BY <1>1, <1>2, ReleaseFacts DEF OnlyReleases
<1>4. stack' \in [Reg -> Ref]
  BY <1>1, <1>2
<1>. QED BY <1>1, <1>3, <1>4, ReferencedFacts, WeakReferencedFacts

\* A step that makes and breaks no pair of a weak reference and an object.
LEMMA PairsKept ==
    ASSUME NEW y, WeakFits, TypeOK, TypeOK',
           \A o \in Obj : /\ heap'[o].weak = heap[o].weak
                          /\ heap[o].kind # "free" => heap'[o].kind # "free",
           \A w \in Weak : /\ weak'[w].refs = weak[w].refs + Same(y, w)
                           /\ weak'[w].obj = weak[w].obj /\ (weak'[w].live <=> weak[w].live),
           y \in Weak => weak[y].live
    PROVE  WeakFits'
<1>1. \A w \in Weak : weak[w].refs \in Nat /\ weak[w].obj \in Obj \cup {Null}
  BY Types DEF WeakType
<1>2. \A o \in Obj : heap[o].weak \in Weak \cup {Null}
  BY Types, ObjFields
<1>3. \A w \in Weak : weak'[w].live <=> weak'[w].refs > 0
  BY <1>1 DEF WeakFits, Same
<1>4. \A w \in Weak : ~ weak'[w].live => weak'[w].obj = Null
  BY DEF WeakFits
<1>5. \A w \in Weak : weak'[w].obj # Null =>
          heap'[weak'[w].obj].kind # "free" /\ heap'[weak'[w].obj].weak = w
  BY <1>1 DEF WeakFits
<1>6. \A o \in Obj : heap'[o].weak # Null =>
          weak'[heap'[o].weak].live /\ weak'[heap'[o].weak].obj = o
  BY <1>2 DEF WeakFits
<1>. QED BY <1>3, <1>4, <1>5, <1>6 DEF WeakFits

LEMMA OutersKept ==
    ASSUME OpenFits, TypeOK, open' = open,
           \A o \in Obj : heap[o].kind = "outer" =>
               heap'[o].kind = heap[o].kind /\ heap'[o].slots = heap[o].slots
    PROVE  OpenFits'
<1>1. \A r \in Reg : open[r] \in Obj \cup {Null}
  BY Types
<1>2. \A r \in Reg : open'[r] # Null =>
          heap'[open'[r]].kind = "outer" /\ heap'[open'[r]].slots = NoSlots
  BY <1>1 DEF OpenFits
<1>. QED BY <1>2 DEF OpenFits

\* A value that is copied from a place that holds it.
LEMMA CopyFacts ==
    ASSUME IInv, work = <<>>, NEW y \in Ref, y = Null \/ Held(y) \/ \E w \in Weak : y = weak[w].obj
    PROVE  /\ y \in Obj => heap[y].kind # "free"
           /\ y \in Weak => weak[y].live
<1>1. CASE y = Null
  BY <1>1, GcHeapAssumption
<1>2. CASE y # Null /\ Held(y)
  BY <1>2, HeldFacts DEF Ref, Things
<1>3. CASE y # Null /\ \E w \in Weak : y = weak[w].obj
  <2>1. PICK w \in Weak : y = weak[w].obj
    BY <1>3
  <2>2. weak[w].obj \in Obj \cup {Null}
    BY Types DEF IInv, WeakType
  <2>3. y \in Obj /\ heap[y].kind # "free"
    BY <1>3, <2>1, <2>2 DEF IInv, WeakFits
  <2>. QED BY <2>3, GcHeapAssumption
<1>. QED BY <1>1, <1>2, <1>3

\* A register is set to a value that is there.
LEMMA CopyStep ==
    ASSUME IInv, Idle, NEW r \in Reg, NEW y \in Ref, Assign(r, y, heap, weak),
           y \in Obj => heap[y].kind # "free", y \in Weak => weak[y].live,
           open' = open, chain' = chain, lost' = lost
    PROVE  IInv'
<1>1. TypeOK /\ heap \in [Obj -> ObjType] /\ weak \in [Weak -> WeakType] /\ work = <<>> /\ phase = "run"
  BY Types DEF IInv, Idle
<1>2. /\ heap' \in [Obj -> ObjType] /\ weak' \in [Weak -> WeakType]
      /\ stack' \in [Reg -> Ref] /\ work' \in Seq(Task) /\ OnlyReleases(work')
      /\ \A o \in Obj : /\ heap'[o].refs = heap[o].refs + Same(y, o)
                        /\ heap'[o].kind = heap[o].kind /\ heap'[o].slots = heap[o].slots
                        /\ heap'[o].weak = heap[o].weak
      /\ \A w \in Weak : /\ weak'[w].refs = weak[w].refs + Same(y, w)
                         /\ weak'[w].obj = weak[w].obj /\ (weak'[w].live <=> weak[w].live)
      /\ tchain' = tchain /\ cur' = cur /\ phase' = phase
  BY <1>1, AssignFacts
<1>3. TypeOK'
  BY <1>1, <1>2, Types, TypesAfter
<1>5. ObjectsFit' /\ ChainsFit' /\ WorkFits' /\ PhaseFits' /\ MarksFit'
  <2>1. chain' = <<>> \o chain
    BY <1>1, Types
  <2>2. \A o \in Obj : heap'[o].refs >= heap[o].refs
    BY <1>1, <1>2, ObjFields DEF Same
  <2>3. \A o \in Obj : heap[o].kind = "free" => heap'[o] = heap[o]
    <3>1. heap' = Referenced(heap, y)
      BY DEF Assign
    <3>2. \A o \in Obj : o # y => heap'[o] = heap[o]
      BY <1>1, <3>1 DEF Referenced
    <3>. QED BY <3>2
  <2>. QED BY <1>1, <1>2, <1>3, <2>1, <2>2, <2>3, ScriptStep, EmptyListed
<1>6. Exact'
  <2>. SUFFICES ASSUME NEW x \in Things PROVE RefsOf(x)' = Total(x)'
    BY DEF Exact
  <2>1. /\ RefsOf(x)' = CountIn(heap, weak, x) + Same(y, x)
        /\ Total(x)' = InRegisters(x) + Same(y, x) + InOpen(x)' + InSlots(x)' + Same(cur, x)
    BY <1>1, AssignCounts
  <2>2. InOpen(x)' = InOpen(x)
    BY DEF InOpen
  <2>3. InSlots(x)' = InSlots(x)
    BY <1>2, SlotsKept
  <2>4. CountIn(heap, weak, x) = RefsOf(x) /\ RefsOf(x) = Total(x)
    BY DEF CountIn, RefsOf, IInv, Exact
  <2>5. Total(x) = InRegisters(x) + InOpen(x) + InSlots(x) + Same(cur, x)
    BY <1>1, TotalWhenQuiet
  <2>6. /\ InRegisters(x) \in Nat /\ InOpen(x) \in Nat /\ InSlots(x) \in Nat /\ Same(cur, x) \in Nat
        /\ Same(y, x) \in Nat
    BY PartsType DEF Same
  <2>. QED BY <2>1, <2>2, <2>3, <2>4, <2>5, <2>6
<1>7. WeakFits'
  <2>. QED BY <1>1, <1>2, <1>3, PairsKept DEF IInv
<1>8. OpenFits'
  BY <1>1, <1>2, OutersKept DEF IInv
<1>. QED BY <1>3, <1>5, <1>6, <1>7, <1>8 DEF IInv

LEMMA RealFacts ==
    ASSUME TypeOK, NEW y \in Ref, Held(y)
    PROVE  /\ Real(y) \in Ref
           /\ Real(y) = Null \/ Held(Real(y)) \/ \E w \in Weak : Real(y) = weak[w].obj
<1>1. CASE y \in Weak
  <2>1. Real(y) = weak[y].obj /\ weak[y].obj \in Obj \cup {Null}
    BY <1>1, Types DEF Real, WeakType
  <2>. QED BY <1>1, <2>1 DEF Ref
<1>2. CASE y \notin Weak
  BY <1>2 DEF Real
<1>. QED BY <1>1, <1>2

LEMMA MoveStep ==
    ASSUME IInv, NEW r \in Reg, NEW s \in Reg, NEW x \in {stack[s], Real(stack[s]), Null}, Move(r, x)
    PROVE  IInv'
<1>1. TypeOK /\ stack[s] \in Ref /\ Null \in Ref
  BY Types DEF IInv, Ref
<1>2. Held(stack[s])
  BY DEF Held
<1>3. PICK y : y = x
  OBVIOUS
<1>4. y \in Ref /\ (y = Null \/ Held(y) \/ \E w \in Weak : y = weak[w].obj)
  BY <1>1, <1>2, <1>3, RealFacts
<1>5. work = <<>> /\ Idle
  BY DEF Move, Idle
<1>6. /\ y \in Obj => heap[y].kind # "free"
      /\ y \in Weak => weak[y].live
  BY <1>4, <1>5, CopyFacts
<1>. QED BY <1>3, <1>4, <1>5, <1>6, CopyStep DEF Move

LEMMA GetSlotStep ==
    ASSUME IInv, NEW r \in Reg, NEW s \in Reg, NEW i \in Slot, GetSlot(r, s, i)
    PROVE  IInv'
<1>1. TypeOK /\ stack[s] \in Obj
  BY DEF IInv, GetSlot
<1>2. PICK z : z = heap[stack[s]].slots[i]
  OBVIOUS
<1>3. z \in Ref /\ Held(z)
  <2>1. heap[stack[s]] \in ObjType
    BY <1>1, Types
  <2>. QED BY <1>1, <1>2, <2>1, ObjFields DEF Held
<1>4. PICK y : y = Real(z)
  OBVIOUS
<1>5. y \in Ref /\ (y = Null \/ Held(y) \/ \E w \in Weak : y = weak[w].obj)
  BY <1>1, <1>3, <1>4, RealFacts
<1>6. work = <<>> /\ Idle
  BY DEF GetSlot, Idle
<1>7. /\ y \in Obj => heap[y].kind # "free"
      /\ y \in Weak => weak[y].live
  BY <1>5, <1>6, CopyFacts
<1>. QED BY <1>2, <1>4, <1>5, <1>6, <1>7, CopyStep DEF GetSlot

LEMMA NewTableStep ==
    ASSUME IInv, NEW r \in Reg, NEW o \in Obj, NewTable(r, o)
    PROVE  IInv'
<1>1. /\ TypeOK /\ heap \in [Obj -> ObjType] /\ weak \in [Weak -> WeakType]
      /\ work = <<>> /\ phase = "run" /\ heap[o] = Unused /\ heap[o].kind = "free" /\ o \in Ref
  BY Types DEF IInv, Idle, NewTable, Alive, ObjectsFit, Ref
<1>2. PICK h : h = [heap EXCEPT ![o] = Created("table")]
  OBVIOUS
<1>3. /\ h \in [Obj -> ObjType] /\ h[o] = Created("table")
      /\ \A p \in Obj : p # o => h[p] = heap[p]
  BY <1>1, <1>2, CreatedFacts
<1>4. /\ Created("table").kind = "table" /\ Created("table").refs = 0
      /\ Created("table").slots = NoSlots /\ Created("table").weak = Null
  BY CreatedFacts
<1>5. \A p \in Obj : /\ h[p].refs = heap[p].refs /\ h[p].slots = heap[p].slots
                     /\ h[p].weak = heap[p].weak
                     /\ p # o => h[p].kind = heap[p].kind
  BY <1>1, <1>3, <1>4, UnusedFacts
<1>6. /\ Assign(r, o, h, weak) /\ chain' = <<o>> \o chain
      /\ open' = open /\ lost' = lost
  BY <1>2 DEF NewTable
<1>7. /\ heap' \in [Obj -> ObjType] /\ weak' \in [Weak -> WeakType]
      /\ stack' \in [Reg -> Ref] /\ work' \in Seq(Task) /\ OnlyReleases(work')
      /\ \A p \in Obj : /\ heap'[p].refs = h[p].refs + Same(o, p)
                        /\ heap'[p].kind = h[p].kind /\ heap'[p].slots = h[p].slots
                        /\ heap'[p].weak = h[p].weak
      /\ \A w \in Weak : /\ weak'[w].refs = weak[w].refs + Same(o, w)
                         /\ weak'[w].obj = weak[w].obj /\ (weak'[w].live <=> weak[w].live)
      /\ tchain' = tchain /\ cur' = cur /\ phase' = phase
  BY <1>1, <1>3, <1>6, AssignFacts
<1>8. PICK new : new = <<o>>
  OBVIOUS
<1>9. Listed(new) /\ ToSet(new) = {o} /\ chain' = new \o chain
  BY <1>6, <1>8, SingleListed
<1>10. TypeOK'
  <2>1. chain' \in Seq(Obj)
    BY <1>1, <1>6, Types
  <2>. QED BY <1>1, <1>6, <1>7, <2>1, Types, TypesAfter
<1>11. \A p \in Obj : p # o => heap'[p] = heap[p]
  <2>1. heap' = Referenced(h, o)
    BY <1>6 DEF Assign
  <2>. QED BY <1>3, <2>1 DEF Referenced
<1>12. ObjectsFit' /\ ChainsFit' /\ WorkFits' /\ PhaseFits' /\ MarksFit'
  <2>1. heap'[o].kind # "free" /\ heap'[o].refs > 0
    BY <1>1, <1>3, <1>4, <1>7 DEF Same
  <2>2. \A p \in Obj \ {o} : heap[p].refs \in Nat
    BY <1>1, ObjFields
  <2>3. lost' = lost
    BY <1>6
  <2>4. \A p \in Obj : p \in ToSet(new) =>
            heap[p].kind = "free" /\ heap'[p].kind # "free" /\ heap'[p].refs > 0
    BY <1>1, <1>9, <2>1
  <2>5. \A p \in Obj \ ToSet(new) :
            /\ heap'[p].kind = heap[p].kind /\ heap'[p].refs >= heap[p].refs
            /\ heap[p].kind = "free" => heap'[p] = heap[p]
    BY <1>9, <1>11, <2>2
  <2>. QED BY <1>1, <1>7, <1>9, <1>10, <2>3, <2>4, <2>5, ScriptStep
<1>13. Exact'
  <2>. SUFFICES ASSUME NEW x \in Things PROVE RefsOf(x)' = Total(x)'
    BY DEF Exact
  <2>1. /\ RefsOf(x)' = CountIn(h, weak, x) + Same(o, x)
        /\ Total(x)' = InRegisters(x) + Same(o, x) + InOpen(x)' + InSlots(x)' + Same(cur, x)
    BY <1>1, <1>3, <1>6, AssignCounts
  <2>2. InOpen(x)' = InOpen(x)
    BY <1>6 DEF InOpen
  <2>3. InSlots(x)' = InSlots(x)
    BY <1>5, <1>7, SlotsKept
  <2>4. CountIn(h, weak, x) = RefsOf(x) /\ RefsOf(x) = Total(x)
    BY <1>5 DEF CountIn, RefsOf, IInv, Exact
  <2>5. Total(x) = InRegisters(x) + InOpen(x) + InSlots(x) + Same(cur, x)
    BY <1>1, TotalWhenQuiet
  <2>6. /\ InRegisters(x) \in Nat /\ InOpen(x) \in Nat /\ InSlots(x) \in Nat /\ Same(cur, x) \in Nat
        /\ Same(o, x) \in Nat
    BY PartsType DEF Same
  <2>. QED BY <2>1, <2>2, <2>3, <2>4, <2>5, <2>6
<1>14. WeakFits'
  <2>1. o \notin Weak
    BY GcHeapAssumption
  <2>2. \A p \in Obj : /\ heap'[p].weak = heap[p].weak
                       /\ heap[p].kind # "free" => heap'[p].kind # "free"
    BY <1>1, <1>5, <1>7
  <2>. QED BY <1>1, <1>7, <1>10, <2>1, <2>2, PairsKept DEF IInv
<1>15. OpenFits'
  <2>1. \A p \in Obj : heap[p].kind = "outer" =>
            heap'[p].kind = heap[p].kind /\ heap'[p].slots = heap[p].slots
    BY <1>1, <1>5, <1>7
  <2>. QED BY <1>1, <1>6, <2>1, OutersKept DEF IInv
<1>. QED BY <1>10, <1>12, <1>13, <1>14, <1>15 DEF IInv

LEMMA PendingAfter ==
    ASSUME NEW t \in Task, NEW q \in Seq(Task), NEW x
    PROVE  /\ <<t>> \o q \in Seq(Task)
           /\ Pending(<<t>> \o q, x) = Releasing(t, x) + Pending(q, x)
<1>1. PICK s : s = <<t>> \o q
  OBVIOUS
<1>2. s \in Seq(Task) /\ s # <<>> /\ Tail(s) = q /\ s[1] = t /\ Len(s) \in Nat /\ Len(s) >= 1
  BY <1>1
<1>3. PICK p : p = <<>>
  OBVIOUS
<1>4. p \in Seq(Task) /\ Len(p) = 0 /\ p \o Tail(s) = q
  BY <1>2, <1>3
<1>5. Replaced(s, q, p)
  BY <1>2, <1>4, ReplacedHead
<1>6. Pending(q, x) = Pending(p, x) + Pending(s, x) - Releasing(s[1], x)
  BY <1>2, <1>4, <1>5, PendingReplaced
<1>7. Pending(p, x) = 0
  BY <1>3, EmptyPending
<1>8. Pending(s, x) \in Nat
  BY <1>2, ReleasesFinite
<1>9. Releasing(t, x) \in Nat
  BY DEF Releasing
<1>. QED BY <1>1, <1>2, <1>6, <1>7, <1>8, <1>9

\* A value that is stored in a slot.
LEMMA StoreFacts ==
    ASSUME NEW o \in Obj, NEW i \in Slot, NEW y \in Ref, TypeOK,
           heap' = Stored(Referenced(heap, y), o, i, y), weak' = WeakReferenced(weak, y)
    PROVE  /\ heap' \in [Obj -> ObjType] /\ weak' \in [Weak -> WeakType]
           /\ \A p \in Obj : /\ heap'[p].refs = heap[p].refs + Same(y, p)
                             /\ heap'[p].kind = heap[p].kind /\ heap'[p].weak = heap[p].weak
                             /\ p # o => heap'[p].slots = heap[p].slots
                             /\ p # o /\ p # y => heap'[p] = heap[p]
           /\ \A w \in Weak : /\ weak'[w].refs = weak[w].refs + Same(y, w)
                              /\ weak'[w].obj = weak[w].obj /\ (weak'[w].live <=> weak[w].live)
           /\ \A x \in Things :
                 /\ RefsOf(x)' = RefsOf(x) + Same(y, x)
                 /\ InSlots(x)' = InSlots(x) - Same(heap[o].slots[i], x) + Same(y, x)
<1>1. heap \in [Obj -> ObjType] /\ weak \in [Weak -> WeakType]
  BY Types
<1>2. PICK h : h = Referenced(heap, y)
  OBVIOUS
<1>3. /\ h \in [Obj -> ObjType]
      /\ \A p \in Obj : /\ h[p].refs = heap[p].refs + Same(y, p)
                        /\ h[p].kind = heap[p].kind
                        /\ h[p].slots = heap[p].slots
                        /\ h[p].weak = heap[p].weak
                        /\ p # y => h[p] = heap[p]
  <2>1. \A p \in Obj : p # y => h[p] = heap[p]
    BY <1>1, <1>2 DEF Referenced
  <2>. QED BY <1>1, <1>2, <2>1, ReferencedFacts
<1>4. PICK g : g = heap'
  OBVIOUS
<1>5. g = Stored(h, o, i, y)
  BY <1>2, <1>4
<1>6. /\ g \in [Obj -> ObjType]
      /\ \A p \in Obj : /\ g[p].refs = h[p].refs /\ g[p].kind = h[p].kind
                        /\ g[p].weak = h[p].weak
                        /\ p # o => g[p].slots = h[p].slots
      /\ g[o].slots[i] = y
      /\ \A p \in Obj, j \in Slot : p # o \/ j # i => g[p].slots[j] = h[p].slots[j]
  BY <1>3, <1>5, SlotSet
<1>7. \A p \in Obj : p # o => g[p] = h[p]
  BY <1>3, <1>5 DEF Stored
<1>8. \A p \in Obj : /\ heap'[p].refs = heap[p].refs + Same(y, p)
                     /\ heap'[p].kind = heap[p].kind /\ heap'[p].weak = heap[p].weak
                     /\ p # o => heap'[p].slots = heap[p].slots
                     /\ p # o /\ p # y => heap'[p] = heap[p]
  BY <1>3, <1>4, <1>6, <1>7
<1>9. /\ weak' \in [Weak -> WeakType]
      /\ \A w \in Weak : /\ weak'[w].refs = weak[w].refs + Same(y, w)
                         /\ weak'[w].obj = weak[w].obj /\ (weak'[w].live <=> weak[w].live)
  BY <1>1, WeakReferencedFacts
<1>10. ASSUME NEW x \in Things
       PROVE  /\ RefsOf(x)' = RefsOf(x) + Same(y, x)
              /\ InSlots(x)' = InSlots(x) - Same(heap[o].slots[i], x) + Same(y, x)
  <2>1. \A p \in Obj, j \in Slot : p # o \/ j # i => heap'[p].slots[j] = heap[p].slots[j]
    BY <1>3, <1>4, <1>6
  <2>2. heap'[o].slots[i] = y
    BY <1>4, <1>6
  <2>3. InSlots(x)' = InSlots(x) - Same(heap[o].slots[i], x) + Same(heap'[o].slots[i], x)
    BY <2>1, SlotChange
  <2>4. RefsOf(x)' = RefsOf(x) + Same(y, x)
    BY <1>8, <1>9 DEF RefsOf, Things
  <2>. QED BY <2>2, <2>3, <2>4
<1>. QED BY <1>4, <1>6, <1>8, <1>9, <1>10

LEMMA SetSlotStep ==
    ASSUME IInv, NEW s \in Reg, NEW i \in Slot, NEW r \in Reg, SetSlot(s, i, r)
    PROVE  IInv'
<1>1. PICK o \in Obj : o = stack[s]
  BY DEF SetSlot
<1>2. PICK y \in Ref : y = stack[r]
  BY Types DEF IInv
<1>3. PICK z : z = heap[o].slots[i]
  OBVIOUS
<1>4. /\ TypeOK /\ heap[o].kind = "table" /\ work = <<>> /\ phase = "run"
      /\ heap' = Stored(Referenced(heap, y), o, i, y) /\ weak' = WeakReferenced(weak, y)
      /\ work' = Release(z) /\ stack' = stack /\ open' = open /\ chain' = chain /\ lost' = lost
      /\ tchain' = tchain /\ cur' = cur /\ phase' = phase
  BY <1>1, <1>2, <1>3 DEF SetSlot, Idle, IInv, Stored
<1>5. z \in Ref
  <2>1. heap[o] \in ObjType
    BY <1>4, Types
  <2>. QED BY <1>3, <2>1, ObjFields
<1>6. /\ heap' \in [Obj -> ObjType] /\ weak' \in [Weak -> WeakType]
      /\ \A p \in Obj : /\ heap'[p].refs = heap[p].refs + Same(y, p)
                        /\ heap'[p].kind = heap[p].kind /\ heap'[p].weak = heap[p].weak
                        /\ p # o => heap'[p].slots = heap[p].slots
                        /\ p # o /\ p # y => heap'[p] = heap[p]
      /\ \A w \in Weak : /\ weak'[w].refs = weak[w].refs + Same(y, w)
                         /\ weak'[w].obj = weak[w].obj /\ (weak'[w].live <=> weak[w].live)
      /\ \A x \in Things :
            /\ RefsOf(x)' = RefsOf(x) + Same(y, x)
            /\ InSlots(x)' = InSlots(x) - Same(heap[o].slots[i], x) + Same(y, x)
  BY <1>4, StoreFacts
<1>7. Held(y) /\ Held(o)
  BY <1>1, <1>2 DEF Held
<1>8. (y \in Obj => heap[y].kind # "free") /\ (y \in Weak => weak[y].live)
  BY <1>4, <1>7, CopyFacts
<1>9. work' \in Seq(Task) /\ OnlyReleases(work')
  BY <1>4, <1>5, ReleaseFacts DEF OnlyReleases
<1>10. TypeOK'
  BY <1>4, <1>6, <1>9, Types, TypesAfter
<1>11. ObjectsFit' /\ ChainsFit' /\ WorkFits' /\ PhaseFits' /\ MarksFit'
  <2>1. chain' = <<>> \o chain
    BY <1>4, Types
  <2>2. \A p \in Obj : heap[p].refs \in Nat
    BY <1>4, Types, ObjFields
  <2>3. \A p \in Obj : heap'[p].kind = heap[p].kind /\ heap'[p].refs >= heap[p].refs
    BY <1>6, <2>2 DEF Same
  <2>4. \A p \in Obj : heap[p].kind = "free" => heap'[p] = heap[p]
    BY <1>4, <1>6, <1>8
  <2>. QED BY <1>4, <1>9, <1>10, <2>1, <2>3, <2>4, ScriptStep, EmptyListed
<1>12. Exact'
  <2>. SUFFICES ASSUME NEW x \in Things PROVE RefsOf(x)' = Total(x)'
    BY DEF Exact
  <2>1. /\ RefsOf(x)' = RefsOf(x) + Same(y, x)
        /\ InSlots(x)' = InSlots(x) - Same(z, x) + Same(y, x)
    BY <1>3, <1>6
  <2>2. InRegisters(x)' = InRegisters(x) /\ InOpen(x)' = InOpen(x)
    BY <1>4 DEF InRegisters, InOpen
  <2>3. Pending(work, x)' = Same(z, x)
    BY <1>4, <1>5, ReleaseFacts
  <2>4. RefsOf(x) = InRegisters(x) + InOpen(x) + InSlots(x) + Same(cur, x)
    BY <1>4, TotalWhenQuiet DEF IInv, Exact
  <2>5. Total(x)' = InRegisters(x) + InOpen(x) + InSlots(x)' + Same(z, x) + Same(cur, x)
    BY <1>4, <2>2, <2>3 DEF Total
  <2>6. /\ InRegisters(x) \in Nat /\ InOpen(x) \in Nat /\ InSlots(x) \in Nat /\ Same(cur, x) \in Nat
        /\ Same(y, x) \in Nat /\ Same(z, x) \in Nat
    BY PartsType DEF Same
  <2>. QED BY <2>1, <2>4, <2>5, <2>6
<1>13. WeakFits'
  BY <1>4, <1>6, <1>8, <1>10, PairsKept DEF IInv
<1>14. OpenFits'
  <2>1. \A p \in Obj : heap[p].kind = "outer" =>
            heap'[p].kind = heap[p].kind /\ heap'[p].slots = heap[p].slots
    BY <1>4, <1>6
  <2>. QED BY <1>4, <2>1, OutersKept DEF IInv
<1>. QED BY <1>10, <1>11, <1>12, <1>13, <1>14 DEF IInv

\* Registers and captured variables that go.
LEMMA CloseOuterStep ==
    ASSUME IInv, NEW s \in Reg, CloseOuter(s)
    PROVE  IInv'
<1>1. PICK o \in Obj : o = open[s]
  BY Types DEF IInv, CloseOuter
<1>2. PICK y \in Ref : y = stack[s]
  BY Types DEF IInv
<1>3. /\ TypeOK /\ work = <<>> /\ phase = "close" /\ 1 \in Slot
      /\ heap' = Stored(Referenced(heap, y), o, 1, y) /\ weak' = WeakReferenced(weak, y)
      /\ work' = Release(o) /\ stack' = stack /\ open' = [open EXCEPT ![s] = Null]
      /\ chain' = chain /\ lost' = lost /\ tchain' = tchain /\ cur' = cur /\ phase' = phase
  BY <1>1, <1>2, UnusedFacts DEF CloseOuter, IInv, Stored
<1>4. heap[o].kind = "outer" /\ heap[o].slots[1] = Null /\ o \in Ref
  <2>1. heap[o].kind = "outer" /\ heap[o].slots = NoSlots
    BY <1>1, GcHeapAssumption DEF IInv, OpenFits
  <2>. QED BY <1>3, <2>1, UnusedFacts DEF Ref
<1>5. /\ heap' \in [Obj -> ObjType] /\ weak' \in [Weak -> WeakType]
      /\ \A p \in Obj : /\ heap'[p].refs = heap[p].refs + Same(y, p)
                        /\ heap'[p].kind = heap[p].kind /\ heap'[p].weak = heap[p].weak
                        /\ p # o => heap'[p].slots = heap[p].slots
                        /\ p # o /\ p # y => heap'[p] = heap[p]
      /\ \A w \in Weak : /\ weak'[w].refs = weak[w].refs + Same(y, w)
                         /\ weak'[w].obj = weak[w].obj /\ (weak'[w].live <=> weak[w].live)
      /\ \A x \in Things :
            /\ RefsOf(x)' = RefsOf(x) + Same(y, x)
            /\ InSlots(x)' = InSlots(x) - Same(heap[o].slots[1], x) + Same(y, x)
  BY <1>3, StoreFacts
<1>6. Held(y) /\ Held(o)
  BY <1>1, <1>2 DEF Held
<1>7. (y \in Obj => heap[y].kind # "free") /\ (y \in Weak => weak[y].live)
  BY <1>3, <1>6, CopyFacts
<1>8. work' \in Seq(Task) /\ OnlyReleases(work')
  BY <1>3, <1>4, ReleaseFacts DEF OnlyReleases
<1>9. open' \in [Reg -> Obj \cup {Null}] /\ open'[s] = Null /\ \A r \in Reg : r # s => open'[r] = open[r]
  BY <1>3, Types
<1>10. TypeOK'
  BY <1>3, <1>5, <1>8, <1>9, Types, TypesAfter
<1>11. ObjectsFit' /\ ChainsFit' /\ WorkFits' /\ PhaseFits' /\ MarksFit'
  <2>1. chain' = <<>> \o chain
    BY <1>3, Types
  <2>2. \A p \in Obj : heap[p].refs \in Nat
    BY <1>3, Types, ObjFields
  <2>3. \A p \in Obj : heap'[p].kind = heap[p].kind /\ heap'[p].refs >= heap[p].refs
    BY <1>5, <2>2 DEF Same
  <2>4. \A p \in Obj : heap[p].kind = "free" => heap'[p] = heap[p]
    BY <1>4, <1>5, <1>7
  <2>. QED BY <1>3, <1>8, <1>10, <2>1, <2>3, <2>4, ScriptStep, EmptyListed
<1>12. Exact'
  <2>. SUFFICES ASSUME NEW x \in Things PROVE RefsOf(x)' = Total(x)'
    BY DEF Exact
  <2>1. /\ RefsOf(x)' = RefsOf(x) + Same(y, x)
        /\ InSlots(x)' = InSlots(x) + Same(y, x)
    <3>1. Same(Null, x) = 0
      BY GcHeapAssumption DEF Same, Things
    <3>2. InSlots(x) \in Nat /\ Same(y, x) \in Nat
      BY PartsType DEF Same
    <3>. QED BY <1>4, <1>5, <3>1, <3>2
  <2>2. InRegisters(x)' = InRegisters(x)
    BY <1>3 DEF InRegisters
  <2>3. InOpen(x)' = InOpen(x) - Same(o, x)
    <3>1. Same(Null, x) = 0
      BY GcHeapAssumption DEF Same, Things
    <3>2. InOpen(x)' = InOpen(x) - Same(o, x) + Same(Null, x)
      BY <1>1, <1>3, OpenChange
    <3>3. InOpen(x) \in Nat /\ Same(o, x) \in Nat
      BY PartsType DEF Same
    <3>. QED BY <3>1, <3>2, <3>3
  <2>4. Pending(work, x)' = Same(o, x)
    BY <1>3, <1>4, ReleaseFacts
  <2>5. RefsOf(x) = InRegisters(x) + InOpen(x) + InSlots(x) + Same(cur, x)
    BY <1>3, TotalWhenQuiet DEF IInv, Exact
  <2>6. Total(x)' = InRegisters(x) + InOpen(x)' + InSlots(x)' + Same(o, x) + Same(cur, x)
    BY <1>3, <2>2, <2>4 DEF Total
  <2>7. /\ InRegisters(x) \in Nat /\ InOpen(x) \in Nat /\ InSlots(x) \in Nat /\ Same(cur, x) \in Nat
        /\ Same(y, x) \in Nat /\ Same(o, x) \in Nat
    BY PartsType DEF Same
  <2>. QED BY <2>1, <2>3, <2>5, <2>6, <2>7
<1>13. WeakFits'
  BY <1>3, <1>5, <1>7, <1>10, PairsKept DEF IInv
<1>14. OpenFits'
  <2>1. \A r \in Reg : r # s /\ open[r] # Null => open[r] # o /\ open[r] \in Obj
    BY <1>1, <1>3, Types DEF IInv, OpenFits
  <2>2. \A r \in Reg : open'[r] # Null =>
            heap'[open'[r]].kind = "outer" /\ heap'[open'[r]].slots = NoSlots
    BY <1>5, <1>9, <2>1 DEF IInv, OpenFits
  <2>3. \A p, q \in Reg : open'[p] = open'[q] => p = q \/ open'[p] = Null
    BY <1>9 DEF IInv, OpenFits
  <2>. QED BY <2>2, <2>3 DEF OpenFits
<1>. QED BY <1>10, <1>11, <1>12, <1>13, <1>14 DEF IInv

LEMMA RegisterEnds ==
    ASSUME IInv, NEW s \in Reg, work = <<>>, phase \in {"run", "close"},
           heap' = heap, weak' = weak, open' = open, chain' = chain, lost' = lost,
           tchain' = tchain, cur' = cur, phase' = phase,
           work' = Release(stack[s]), stack' = [stack EXCEPT ![s] = Null]
    PROVE  IInv'
<1>1. PICK y \in Ref : y = stack[s]
  BY Types DEF IInv
<1>2. TypeOK /\ Null \in Ref
  BY DEF IInv, Ref
<1>3. work' \in Seq(Task) /\ OnlyReleases(work') /\ \A x \in Things : Pending(work, x)' = Same(y, x)
  BY <1>1, ReleaseFacts DEF OnlyReleases
<1>4. TypeOK'
  BY <1>2, <1>3, Types, TypesAfter
<1>5. ObjectsFit' /\ ChainsFit' /\ WorkFits' /\ PhaseFits' /\ MarksFit'
  <2>1. chain' = <<>> \o chain
    BY <1>2, Types
  <2>2. \A p \in Obj : heap'[p].refs >= heap[p].refs
    BY <1>2, Types, ObjFields
  <2>. QED BY <1>3, <1>4, <2>1, <2>2, ScriptStep, EmptyListed
<1>6. Exact'
  <2>. SUFFICES ASSUME NEW x \in Things PROVE RefsOf(x)' = Total(x)'
    BY DEF Exact
  <2>1. RefsOf(x)' = RefsOf(x) /\ InOpen(x)' = InOpen(x) /\ InSlots(x)' = InSlots(x)
    BY DEF RefsOf, InOpen, InSlots
  <2>2. InRegisters(x)' = InRegisters(x) - Same(y, x)
    <3>1. Same(Null, x) = 0
      BY GcHeapAssumption DEF Same, Things
    <3>2. InRegisters(x)' = InRegisters(x) - Same(y, x) + Same(Null, x)
      BY <1>1, <1>2, RegisterChange
    <3>3. InRegisters(x) \in Nat /\ Same(y, x) \in Nat
      BY PartsType DEF Same
    <3>. QED BY <3>1, <3>2, <3>3
  <2>3. RefsOf(x) = InRegisters(x) + InOpen(x) + InSlots(x) + Same(cur, x)
    BY <1>2, TotalWhenQuiet DEF IInv, Exact
  <2>4. Total(x)' = InRegisters(x)' + InOpen(x) + InSlots(x) + Same(y, x) + Same(cur, x)
    BY <1>3, <2>1 DEF Total
  <2>5. /\ InRegisters(x) \in Nat /\ InOpen(x) \in Nat /\ InSlots(x) \in Nat /\ Same(cur, x) \in Nat
        /\ Same(y, x) \in Nat
    BY PartsType DEF Same
  <2>. QED BY <2>1, <2>2, <2>3, <2>4, <2>5
<1>7. WeakFits' /\ OpenFits'
  BY DEF IInv, WeakFits, OpenFits
<1>. QED BY <1>4, <1>5, <1>6, <1>7 DEF IInv

LEMMA NullRegisterStep ==
    ASSUME IInv, NEW s \in Reg, NullRegister(s)
    PROVE  IInv'
  BY RegisterEnds DEF NullRegister

LEMMA EndVariableStep ==
    ASSUME IInv, NEW s \in Reg, EndVariable(s)
    PROVE  IInv'
<1>0. TypeOK /\ open \in [Reg -> Obj \cup {Null}] /\ stack \in [Reg -> Ref] /\ Null \in Ref
  BY Types DEF IInv, Ref
<1>1. CASE open[s] = Null
  <2>1. open' = open
    BY <1>0, <1>1 DEF EndVariable
  <2>. QED BY <1>1, <2>1, RegisterEnds DEF EndVariable, Idle
<1>2. CASE open[s] # Null
  <2>1. PICK o \in Obj : o = open[s]
    BY <1>0, <1>2
  <2>2. PICK y \in Ref : y = stack[s]
    BY <1>0
  <2>3. /\ TypeOK /\ work = <<>> /\ phase = "run" /\ 1 \in Slot
        /\ heap' = Stored(Referenced(heap, y), o, 1, y) /\ weak' = WeakReferenced(weak, y)
        /\ work' = Release(o) \o Release(y)
        /\ stack' = [stack EXCEPT ![s] = Null] /\ open' = [open EXCEPT ![s] = Null]
        /\ chain' = chain /\ lost' = lost /\ tchain' = tchain /\ cur' = cur /\ phase' = phase
    BY <1>0, <1>2, <2>1, <2>2, UnusedFacts DEF EndVariable, Idle, Stored
  <2>4. heap[o].kind = "outer" /\ heap[o].slots[1] = Null /\ o \in Ref
    <3>1. heap[o].kind = "outer" /\ heap[o].slots = NoSlots
      BY <1>2, <2>1 DEF IInv, OpenFits
    <3>. QED BY <2>3, <3>1, UnusedFacts DEF Ref
  <2>5. /\ heap' \in [Obj -> ObjType] /\ weak' \in [Weak -> WeakType]
        /\ \A p \in Obj : /\ heap'[p].refs = heap[p].refs + Same(y, p)
                          /\ heap'[p].kind = heap[p].kind /\ heap'[p].weak = heap[p].weak
                          /\ p # o => heap'[p].slots = heap[p].slots
                          /\ p # o /\ p # y => heap'[p] = heap[p]
        /\ \A w \in Weak : /\ weak'[w].refs = weak[w].refs + Same(y, w)
                           /\ weak'[w].obj = weak[w].obj /\ (weak'[w].live <=> weak[w].live)
        /\ \A x \in Things :
              /\ RefsOf(x)' = RefsOf(x) + Same(y, x)
              /\ InSlots(x)' = InSlots(x) - Same(heap[o].slots[1], x) + Same(y, x)
    BY <2>3, StoreFacts
  <2>6. Held(y) /\ Held(o)
    BY <2>1, <2>2 DEF Held
  <2>7. (y \in Obj => heap[y].kind # "free") /\ (y \in Weak => weak[y].live)
    BY <2>3, <2>6, CopyFacts
  <2>8. PICK t \in Task : t = [op |-> "release", obj |-> o, slot |-> 1]
    <3>1. o \in Obj \cup Weak
      OBVIOUS
    <3>2. [op |-> "release", obj |-> o, slot |-> 1] \in Task
      BY <3>1 DEF Task
    <3>. QED BY <3>2
  <2>9. PICK q : q = Release(y)
    OBVIOUS
  <2>10. /\ q \in Seq(Task) /\ Len(q) \in Nat /\ (\A k \in 1 .. Len(q) : q[k].op = "release")
         /\ \A x \in Things : Pending(q, x) = Same(y, x)
    BY <2>9, ReleaseFacts, LenProperties
  <2>11. work' = <<t>> \o q
    BY <2>3, <2>8, <2>9, GcHeapAssumption DEF Release
  <2>12. work' \in Seq(Task) /\ OnlyReleases(work')
         /\ \A x \in Things : Pending(work, x)' = Same(o, x) + Same(y, x)
    <3>1. /\ Len(<<t>> \o q) = 1 + Len(q)
          /\ \A k \in 1 .. 1 + Len(q) : (<<t>> \o q)[k] = IF k = 1 THEN t ELSE q[k - 1]
      BY <2>10
    <3>2. OnlyReleases(<<t>> \o q)
      BY <2>8, <2>10, <3>1 DEF OnlyReleases
    <3>3. \A x \in Things : Releasing(t, x) = Same(o, x)
      BY <2>8 DEF Releasing, Same
    <3>. QED BY <2>10, <2>11, <3>2, <3>3, PendingAfter
  <2>13. open' \in [Reg -> Obj \cup {Null}] /\ open'[s] = Null /\ \A r \in Reg : r # s => open'[r] = open[r]
    BY <1>0, <2>3
  <2>14. TypeOK'
    <3>1. stack' \in [Reg -> Ref]
      BY <1>0, <2>3
    <3>. QED BY <2>3, <2>5, <2>12, <2>13, <3>1, Types, TypesAfter
  <2>15. ObjectsFit' /\ ChainsFit' /\ WorkFits' /\ PhaseFits' /\ MarksFit'
    <3>1. chain' = <<>> \o chain
      BY <2>3, Types
    <3>2. \A p \in Obj : heap[p].refs \in Nat
      BY <2>3, Types, ObjFields
    <3>3. \A p \in Obj : heap'[p].kind = heap[p].kind /\ heap'[p].refs >= heap[p].refs
      BY <2>5, <3>2 DEF Same
    <3>4. \A p \in Obj : heap[p].kind = "free" => heap'[p] = heap[p]
      BY <2>4, <2>5, <2>7
    <3>. QED BY <2>3, <2>12, <2>14, <3>1, <3>3, <3>4, ScriptStep, EmptyListed
  <2>16. Exact'
    <3>. SUFFICES ASSUME NEW x \in Things PROVE RefsOf(x)' = Total(x)'
      BY DEF Exact
    <3>0. Same(Null, x) = 0
      BY GcHeapAssumption DEF Same, Things
    <3>1. /\ InRegisters(x) \in Nat /\ InOpen(x) \in Nat /\ InSlots(x) \in Nat /\ Same(cur, x) \in Nat
          /\ Same(y, x) \in Nat /\ Same(o, x) \in Nat
      BY PartsType DEF Same
    <3>2. /\ RefsOf(x)' = RefsOf(x) + Same(y, x)
          /\ InSlots(x)' = InSlots(x) + Same(y, x)
      BY <2>4, <2>5, <3>0, <3>1
    <3>3. InRegisters(x)' = InRegisters(x) - Same(y, x)
      <4>1. InRegisters(x)' = InRegisters(x) - Same(y, x) + Same(Null, x)
        BY <2>2, <2>3, RegisterChange
      <4>. QED BY <3>0, <3>1, <4>1
    <3>4. InOpen(x)' = InOpen(x) - Same(o, x)
      <4>1. InOpen(x)' = InOpen(x) - Same(o, x) + Same(Null, x)
        BY <2>1, <2>3, OpenChange
      <4>. QED BY <3>0, <3>1, <4>1
    <3>5. RefsOf(x) = InRegisters(x) + InOpen(x) + InSlots(x) + Same(cur, x)
      BY <2>3, TotalWhenQuiet DEF IInv, Exact
    <3>6. Total(x)' = InRegisters(x)' + InOpen(x)' + InSlots(x)' + (Same(o, x) + Same(y, x)) + Same(cur, x)
      BY <2>3, <2>12 DEF Total
    <3>. QED BY <3>1, <3>2, <3>3, <3>4, <3>5, <3>6
  <2>17. WeakFits'
    <3>1. WeakFits /\ TypeOK
      BY DEF IInv
    <3>2. \A p \in Obj : /\ heap'[p].weak = heap[p].weak
                         /\ heap[p].kind # "free" => heap'[p].kind # "free"
      BY <2>5
    <3>3. \A w \in Weak : /\ weak'[w].refs = weak[w].refs + Same(y, w)
                          /\ weak'[w].obj = weak[w].obj /\ (weak'[w].live <=> weak[w].live)
      BY <2>5
    <3>. QED BY <2>7, <2>14, <3>1, <3>2, <3>3, PairsKept
  <2>18. OpenFits'
    <3>1. \A r \in Reg : r # s /\ open[r] # Null => open[r] # o /\ open[r] \in Obj
      BY <1>0, <2>1 DEF IInv, OpenFits
    <3>2. \A r \in Reg : open'[r] # Null =>
              heap'[open'[r]].kind = "outer" /\ heap'[open'[r]].slots = NoSlots
      BY <2>5, <2>13, <3>1 DEF IInv, OpenFits
    <3>3. \A p, q1 \in Reg : open'[p] = open'[q1] => p = q1 \/ open'[p] = Null
      BY <2>13 DEF IInv, OpenFits
    <3>. QED BY <3>2, <3>3 DEF OpenFits
  <2>. QED BY <2>14, <2>15, <2>16, <2>17, <2>18 DEF IInv
<1>. QED BY <1>1, <1>2

LEMMA GetWeakRefStep ==
    ASSUME IInv, NEW r \in Reg, NEW s \in Reg, NEW w \in Weak, GetWeakRef(r, s, w)
    PROVE  IInv'
<1>1. /\ TypeOK /\ Idle /\ work = <<>> /\ phase = "run" /\ w \in Ref
      /\ open' = open /\ chain' = chain /\ lost' = lost
  BY DEF GetWeakRef, Idle, IInv, Ref
<1>2. PICK o \in Obj : o = stack[s]
  BY DEF GetWeakRef
<1>3. heap \in [Obj -> ObjType] /\ weak \in [Weak -> WeakType] /\ w \notin Obj /\ w # Null
  BY <1>1, Types, GcHeapAssumption
<1>4. CASE heap[o].weak # Null
  <2>1. w = heap[o].weak /\ Assign(r, w, heap, weak)
    BY <1>2, <1>4 DEF GetWeakRef
  <2>2. weak[w].live
    BY <1>4, <2>1 DEF IInv, WeakFits
  <2>. QED BY <1>1, <1>3, <2>1, <2>2, CopyStep
<1>5. CASE heap[o].weak = Null
  <2>1. PICK a : a = [heap[o] EXCEPT !.weak = w]
    OBVIOUS
  <2>2. PICK b : b = [refs |-> 0, obj |-> o, live |-> TRUE]
    OBVIOUS
  <2>3. PICK h : h = [heap EXCEPT ![o] = a]
    OBVIOUS
  <2>4. PICK v : v = [weak EXCEPT ![w] = b]
    OBVIOUS
  <2>5. ~ weak[w].live /\ Assign(r, w, h, v)
    BY <1>2, <1>5, <2>1, <2>2, <2>3, <2>4 DEF GetWeakRef
  <2>6. /\ a \in ObjType /\ a.weak = w /\ a.refs = heap[o].refs /\ a.kind = heap[o].kind
        /\ a.slots = heap[o].slots
    BY <1>3, <2>1 DEF ObjType
  <2>7. b \in WeakType /\ b.refs = 0 /\ b.obj = o /\ b.live
    BY <2>2 DEF WeakType
  <2>8. /\ h \in [Obj -> ObjType] /\ h[o] = a /\ \A p \in Obj : p # o => h[p] = heap[p]
        /\ v \in [Weak -> WeakType] /\ v[w] = b /\ \A u \in Weak : u # w => v[u] = weak[u]
    BY <1>3, <2>3, <2>4, <2>6, <2>7
  <2>9. weak[w].refs = 0 /\ weak[w].obj = Null
    <3>1. weak[w].refs \in Nat
      BY <1>3 DEF WeakType
    <3>. QED BY <2>5, <3>1 DEF IInv, WeakFits
  <2>10. heap[o].kind # "free"
    <3>1. Held(o) /\ o \in Things
      BY <1>2 DEF Held, Things
    <3>. QED BY <3>1, HeldFacts
  <2>11. /\ heap' \in [Obj -> ObjType] /\ weak' \in [Weak -> WeakType]
         /\ stack' \in [Reg -> Ref] /\ work' \in Seq(Task) /\ OnlyReleases(work')
         /\ \A p \in Obj : /\ heap'[p].refs = h[p].refs + Same(w, p)
                           /\ heap'[p].kind = h[p].kind /\ heap'[p].slots = h[p].slots
                           /\ heap'[p].weak = h[p].weak
         /\ \A u \in Weak : /\ weak'[u].refs = v[u].refs + Same(w, u)
                            /\ weak'[u].obj = v[u].obj /\ (weak'[u].live <=> v[u].live)
         /\ tchain' = tchain /\ cur' = cur /\ phase' = phase
    BY <1>1, <2>5, <2>8, AssignFacts
  <2>12. \A p \in Obj : /\ heap'[p].refs = heap[p].refs
                        /\ heap'[p].kind = heap[p].kind /\ heap'[p].slots = heap[p].slots
                        /\ heap'[p].weak = IF p = o THEN w ELSE heap[p].weak
    <3>1. \A p \in Obj : Same(w, p) = 0 /\ heap[p].refs \in Nat
      BY <1>3, ObjFields DEF Same
    <3>. QED BY <2>6, <2>8, <2>11, <3>1
  <2>13. /\ weak'[w].refs = 1 /\ weak'[w].obj = o /\ weak'[w].live
         /\ \A u \in Weak : u # w => weak'[u].refs = weak[u].refs /\ weak'[u].obj = weak[u].obj
                                     /\ (weak'[u].live <=> weak[u].live)
    <3>1. \A u \in Weak : u # w => Same(w, u) = 0 /\ weak[u].refs \in Nat
      BY <1>3 DEF Same, WeakType
    <3>2. Same(w, w) = 1
      BY DEF Same
    <3>. QED BY <2>7, <2>8, <2>11, <3>1, <3>2
  <2>14. TypeOK'
    BY <1>1, <2>11, Types, TypesAfter
  <2>15. ObjectsFit' /\ ChainsFit' /\ WorkFits' /\ PhaseFits' /\ MarksFit'
    <3>1. chain' = <<>> \o chain
      BY <1>1, Types
    <3>2. \A p \in Obj : heap'[p].kind = heap[p].kind /\ heap'[p].refs >= heap[p].refs
      BY <1>3, <2>12, ObjFields
    <3>3. \A p \in Obj : heap[p].kind = "free" => heap'[p] = heap[p]
      <4>1. heap' = h
        BY <1>3, <2>5 DEF Assign, Referenced
      <4>. QED BY <2>8, <2>10, <4>1
    <3>. QED BY <1>1, <2>11, <2>14, <3>1, <3>2, <3>3, ScriptStep, EmptyListed
  <2>16. Exact'
    <3>. SUFFICES ASSUME NEW x \in Things PROVE RefsOf(x)' = Total(x)'
      BY DEF Exact
    <3>1. /\ RefsOf(x)' = CountIn(h, v, x) + Same(w, x)
          /\ Total(x)' = InRegisters(x) + Same(w, x) + InOpen(x)' + InSlots(x)' + Same(cur, x)
      BY <1>1, <2>5, <2>8, AssignCounts
    <3>2. InOpen(x)' = InOpen(x)
      BY <1>1 DEF InOpen
    <3>3. InSlots(x)' = InSlots(x)
      BY <2>12, SlotsKept
    <3>4. CountIn(h, v, x) = RefsOf(x) /\ RefsOf(x) = Total(x)
      BY <2>6, <2>7, <2>8, <2>9 DEF CountIn, RefsOf, IInv, Exact, Things
    <3>5. Total(x) = InRegisters(x) + InOpen(x) + InSlots(x) + Same(cur, x)
      BY <1>1, TotalWhenQuiet
    <3>6. /\ InRegisters(x) \in Nat /\ InOpen(x) \in Nat /\ InSlots(x) \in Nat /\ Same(cur, x) \in Nat
          /\ Same(w, x) \in Nat
      BY PartsType DEF Same
    <3>. QED BY <3>1, <3>2, <3>3, <3>4, <3>5, <3>6
  <2>17. WeakFits'
    <3>0. /\ \A u \in Weak : weak[u].obj \in Obj \cup {Null}
          /\ \A p \in Obj : heap[p].weak \in Weak \cup {Null}
          /\ Null \notin Obj /\ Null \notin Weak
      BY <1>3, GcHeapAssumption DEF WeakType, ObjType
    <3>1. \A u \in Weak : /\ weak'[u].live <=> weak'[u].refs > 0
                          /\ ~ weak'[u].live => weak'[u].obj = Null
      BY <2>13 DEF IInv, WeakFits
    <3>2. ASSUME NEW u \in Weak, weak'[u].obj # Null
          PROVE  heap'[weak'[u].obj].kind # "free" /\ heap'[weak'[u].obj].weak = u
      <4>1. CASE u = w
        BY <2>10, <2>12, <2>13, <4>1
      <4>2. CASE u # w
        <5>1. weak'[u].obj = weak[u].obj /\ weak[u].obj \in Obj
          BY <2>13, <3>0, <3>2, <4>2
        <5>2. heap[weak[u].obj].kind # "free" /\ heap[weak[u].obj].weak = u
          BY <3>0, <5>1 DEF IInv, WeakFits
        <5>3. weak[u].obj # o
          BY <1>5, <3>0, <5>2
        <5>. QED BY <2>12, <5>1, <5>2, <5>3
      <4>. QED BY <4>1, <4>2
    <3>3. ASSUME NEW p \in Obj, heap'[p].weak # Null
          PROVE  weak'[heap'[p].weak].live /\ weak'[heap'[p].weak].obj = p
      <4>1. CASE p = o
        BY <2>12, <2>13, <4>1
      <4>2. CASE p # o
        <5>1. heap'[p].weak = heap[p].weak /\ heap[p].weak \in Weak
          BY <2>12, <3>0, <3>3, <4>2
        <5>2. weak[heap[p].weak].live /\ weak[heap[p].weak].obj = p
          BY <3>0, <5>1 DEF IInv, WeakFits
        <5>3. heap[p].weak # w
          BY <2>5, <5>2
        <5>. QED BY <2>13, <5>1, <5>2, <5>3
      <4>. QED BY <4>1, <4>2
    <3>. QED BY <3>1, <3>2, <3>3 DEF WeakFits
  <2>18. OpenFits'
    BY <1>1, <2>12, OutersKept DEF IInv
  <2>. QED BY <2>14, <2>15, <2>16, <2>17, <2>18 DEF IInv
<1>. QED BY <1>4, <1>5

ClosureOver(o) == [Created("closure") EXCEPT !.slots[1] = o]

LEMMA ClosureFacts ==
    ASSUME NEW o \in Obj, NEW t, t = ClosureOver(o)
    PROVE  /\ t \in ObjType /\ t.kind = "closure" /\ t.refs = 0 /\ t.weak = Null
           /\ t.slots[1] = o /\ \A i \in Slot : i # 1 => t.slots[i] = Null
<1>1. PICK c : c = Created("closure")
  OBVIOUS
<1>2. c \in ObjType /\ c.kind = "closure" /\ c.refs = 0 /\ c.slots = NoSlots /\ c.weak = Null
  BY <1>1, CreatedFacts
<1>3. PICK f : f = [c.slots EXCEPT ![1] = o]
  OBVIOUS
<1>4. f \in [Slot -> Ref] /\ f[1] = o /\ \A i \in Slot : i # 1 => f[i] = Null
  <2>1. NoSlots \in [Slot -> Ref] /\ (\A i \in Slot : NoSlots[i] = Null) /\ 1 \in Slot /\ o \in Ref
    BY UnusedFacts DEF Ref
  <2>. QED BY <1>2, <1>3, <2>1
<1>5. t = [c EXCEPT !.slots = f]
  BY <1>1, <1>3, Zenon DEF ClosureOver
<1>. QED BY <1>2, <1>4, <1>5 DEF ObjType

\* A new closure c over the outer o, which has a place in h.
LEMMA CaptureStep ==
    ASSUME IInv, NEW r \in Reg, NEW s \in Reg, NEW c \in Obj, NEW o \in Obj, Capture(r, s, c, o)
    PROVE  IInv'
<1>0. /\ TypeOK /\ work = <<>> /\ phase = "run" /\ heap[c] = Unused /\ heap[c].kind = "free" /\ c \in Ref
      /\ heap \in [Obj -> ObjType] /\ weak \in [Weak -> WeakType] /\ open \in [Reg -> Obj \cup {Null}]
      /\ chain \in Seq(Obj) /\ 1 \in Slot /\ Null \notin Obj /\ lost' = lost
  BY Types, GcHeapAssumption DEF IInv, Idle, Capture, Alive, ObjectsFit, Ref
<1>1. PICK t : t = ClosureOver(o)
  OBVIOUS
<1>2. /\ t \in ObjType /\ t.kind = "closure" /\ t.refs = 0 /\ t.weak = Null
      /\ t.slots[1] = o /\ \A i \in Slot : i # 1 => t.slots[i] = Null
  BY <1>1, ClosureFacts
<1>3. PICK h : h = [heap EXCEPT ![c] = t]
  OBVIOUS
<1>4. h \in [Obj -> ObjType] /\ h[c] = t /\ \A p \in Obj : p # c => h[p] = heap[p]
  BY <1>0, <1>2, <1>3
<1>5. \A p \in Obj : heap[p].kind = "free" => heap[p] = Unused
  BY DEF IInv, ObjectsFit
<1>6. \A i \in Slot : heap[c].slots[i] = Null
  BY <1>0, UnusedFacts
\* What both cases have in common: g is h with one more reference to o.
<1>7. ASSUME NEW g \in [Obj -> ObjType], Assign(r, c, g, weak), o # c,
             g[c] = t,
             \A p \in Obj \ {c, o} : g[p] = heap[p],
             g[o].kind = "outer" /\ g[o].slots = heap[o].slots /\ g[o].weak = heap[o].weak,
             heap[o].kind \in {"free", "outer"},
             NEW new, Listed(new), chain' = new \o chain,
             ToSet(new) = {c} \cup (IF heap[o].kind = "free" THEN {o} ELSE {}),
             NEW n \in {0, 1},
             g[o].refs = heap[o].refs + 1 + n,
             open' \in [Reg -> Obj \cup {Null}],
             \A x \in Things : InOpen(x)' = InOpen(x) + (IF x = o THEN n ELSE 0),
             OpenFits'
      PROVE  IInv'
  <2>1. /\ heap' \in [Obj -> ObjType] /\ weak' \in [Weak -> WeakType]
        /\ stack' \in [Reg -> Ref] /\ work' \in Seq(Task) /\ OnlyReleases(work')
        /\ \A p \in Obj : /\ heap'[p].refs = g[p].refs + Same(c, p)
                          /\ heap'[p].kind = g[p].kind /\ heap'[p].slots = g[p].slots
                          /\ heap'[p].weak = g[p].weak
        /\ \A w \in Weak : /\ weak'[w].refs = weak[w].refs + Same(c, w)
                           /\ weak'[w].obj = weak[w].obj /\ (weak'[w].live <=> weak[w].live)
        /\ tchain' = tchain /\ cur' = cur /\ phase' = phase
    BY <1>0, <1>7, AssignFacts
  <2>2. heap' = [g EXCEPT ![c].refs = @ + 1]
    BY <1>7 DEF Assign, Referenced
  <2>3. \A p \in Obj : p # c => heap'[p] = g[p]
    BY <1>7, <2>2
  <2>4. TypeOK'
    <3>1. chain' \in Seq(Obj)
      BY <1>0, <1>7, ConcatProperties DEF Listed
    <3>. QED BY <1>0, <1>7, <2>1, <3>1, Types, TypesAfter
  <2>5. /\ heap'[c].refs = 1 /\ heap'[c].kind = "closure"
        /\ heap'[o].refs = heap[o].refs + 1 + n /\ heap[o].refs \in Nat /\ heap'[o].kind = "outer"
    <3>1. heap[o].refs \in Nat
      BY <1>0, ObjFields
    <3>2. Same(c, c) = 1
      BY DEF Same
    <3>. QED BY <1>2, <1>7, <2>1, <2>3, <3>1, <3>2
  <2>6. ObjectsFit' /\ ChainsFit' /\ WorkFits' /\ PhaseFits' /\ MarksFit'
    <3>1. \A p \in Obj : p \in ToSet(new) =>
              heap[p].kind = "free" /\ heap'[p].kind # "free" /\ heap'[p].refs > 0
      BY <1>0, <1>7, <2>5
    <3>2. \A p \in Obj \ ToSet(new) :
              /\ heap'[p].kind = heap[p].kind /\ heap'[p].refs >= heap[p].refs
              /\ heap[p].kind = "free" => heap'[p] = heap[p]
      <4>1. ASSUME NEW p \in Obj \ ToSet(new), p # o
            PROVE  heap'[p] = heap[p] /\ heap[p].refs \in Nat
        BY <1>0, <1>7, <2>3, <4>1, ObjFields
      <4>2. ASSUME o \notin ToSet(new)
            PROVE  /\ heap'[o].kind = heap[o].kind /\ heap'[o].refs >= heap[o].refs
                   /\ heap[o].kind # "free"
        BY <1>7, <2>5, <4>2
      <4>. QED BY <4>1, <4>2
    <3>. QED BY <1>0, <1>7, <2>1, <2>4, <3>1, <3>2, ScriptStep
  <2>7. Exact'
    <3>. SUFFICES ASSUME NEW x \in Things PROVE RefsOf(x)' = Total(x)'
      BY DEF Exact
    <3>1. /\ RefsOf(x)' = CountIn(g, weak, x) + Same(c, x)
          /\ Total(x)' = InRegisters(x) + Same(c, x) + InOpen(x)' + InSlots(x)' + Same(cur, x)
      BY <1>0, <1>7, AssignCounts
    <3>2. InSlots(x)' = InSlots(x) + Same(o, x)
      <4>1. \A p \in Obj, j \in Slot : p # c \/ j # 1 => heap'[p].slots[j] = heap[p].slots[j]
        <5>. SUFFICES ASSUME NEW p \in Obj, NEW j \in Slot, p # c \/ j # 1
                      PROVE  heap'[p].slots[j] = heap[p].slots[j]
          OBVIOUS
        <5>1. CASE p = c
          BY <1>2, <1>6, <1>7, <2>1, <5>1
        <5>2. CASE p = o
          BY <1>7, <2>1, <5>2
        <5>3. CASE p \notin {c, o}
          BY <1>7, <2>1, <5>3
        <5>. QED BY <5>1, <5>2, <5>3
      <4>2. heap'[c].slots[1] = o /\ heap[c].slots[1] = Null
        BY <1>0, <1>2, <1>6, <1>7, <2>1
      <4>3. InSlots(x)' = InSlots(x) - Same(heap[c].slots[1], x) + Same(heap'[c].slots[1], x)
        BY <1>0, <4>1, SlotChange
      <4>4. Same(Null, x) = 0
        BY GcHeapAssumption DEF Same, Things
      <4>5. InSlots(x) \in Nat
        BY PartsType
      <4>. QED BY <4>2, <4>3, <4>4, <4>5
    <3>3. CountIn(g, weak, x) = RefsOf(x) + Same(o, x) + (IF x = o THEN n ELSE 0)
      <4>1. \A p \in Obj : p # o => g[p].refs = heap[p].refs /\ heap[p].refs \in Nat
        BY ZenonT(30), <1>0, <1>2, <1>7, UnusedFacts, ObjFields
      <4>2. \A w \in Weak : weak[w].refs \in Nat /\ w # o
        BY <1>0, GcHeapAssumption DEF WeakType
      <4>3. CASE x = o
        BY <1>7, <2>5, <4>3 DEF CountIn, RefsOf, Same
      <4>4. CASE x # o
        BY <4>1, <4>2, <4>4 DEF CountIn, RefsOf, Same, Things
      <4>. QED BY <4>3, <4>4
    <3>4. RefsOf(x) = InRegisters(x) + InOpen(x) + InSlots(x) + Same(cur, x)
      BY <1>0, TotalWhenQuiet DEF IInv, Exact
    <3>5. /\ InRegisters(x) \in Nat /\ InOpen(x) \in Nat /\ InSlots(x) \in Nat /\ Same(cur, x) \in Nat
          /\ Same(c, x) \in Nat /\ Same(o, x) \in Nat
      BY PartsType DEF Same
    <3>6. InOpen(x)' = InOpen(x) + (IF x = o THEN n ELSE 0)
      BY <1>7
    <3>7. (IF x = o THEN n ELSE 0) \in Nat
      OBVIOUS
    <3>. HIDE <1>7
    <3>8. PICK m \in Nat : m = IF x = o THEN n ELSE 0
      BY <3>7
    <3>. QED BY <3>1, <3>2, <3>3, <3>4, <3>5, <3>6, <3>8
  <2>8. WeakFits'
    <3>1. \A p \in Obj : /\ heap'[p].weak = heap[p].weak
                         /\ heap[p].kind # "free" => heap'[p].kind # "free"
      <4>1. heap'[c].weak = heap[c].weak
        BY <1>0, <1>2, <1>7, <2>1, UnusedFacts
      <4>2. \A p \in Obj \ {c, o} : heap'[p] = heap[p]
        BY <1>7, <2>3
      <4>3. heap'[o].weak = heap[o].weak
        BY <1>7, <2>1
      <4>. QED BY <2>5, <4>1, <4>2, <4>3
    <3>2. c \notin Weak
      BY GcHeapAssumption
    <3>3. WeakFits
      BY DEF IInv
    <3>4. \A w \in Weak : /\ weak'[w].refs = weak[w].refs + Same(c, w)
                          /\ weak'[w].obj = weak[w].obj /\ (weak'[w].live <=> weak[w].live)
      BY <2>1
    <3>. QED BY <1>0, <2>4, <3>1, <3>2, <3>3, <3>4, PairsKept
  <2>. QED BY <1>7, <2>4, <2>6, <2>7, <2>8 DEF IInv
<1>8. CASE open[s] # Null
  <2>1. /\ o = open[s] /\ Assign(r, c, Referenced(h, o), weak) /\ chain' = <<c>> \o chain
        /\ open' = open
    BY <1>1, <1>3, <1>8 DEF Capture, ClosureOver
  <2>2. heap[o].kind = "outer" /\ heap[o].slots = NoSlots
    BY <1>8, <2>1 DEF IInv, OpenFits
  <2>3. o # c /\ heap[o].refs \in Nat
    BY <1>0, <2>2, ObjFields
  <2>4. PICK g : g = Referenced(h, o)
    OBVIOUS
  <2>5. /\ g \in [Obj -> ObjType] /\ g[o].kind = "outer" /\ g[o].slots = heap[o].slots
        /\ g[o].weak = heap[o].weak /\ g[o].refs = heap[o].refs + 1
    <3>1. Same(o, o) = 1
      BY DEF Same
    <3>. QED BY <1>4, <2>2, <2>3, <2>4, <3>1, ReferencedFacts
  <2>6. g[c] = t /\ \A p \in Obj \ {c, o} : g[p] = heap[p]
    BY <1>4, <2>3, <2>4 DEF Referenced
  <2>7. PICK new : new = <<c>>
    OBVIOUS
  <2>8. Listed(new) /\ ToSet(new) = {c} \cup (IF heap[o].kind = "free" THEN {o} ELSE {})
    BY <2>2, <2>7, SingleListed
  <2>9. OpenFits'
    <3>1. \A p \in Reg : open[p] # Null => open[p] # c
      <4>1. \A p \in Reg : open[p] # Null => heap[open[p]].kind = "outer"
        BY DEF IInv, OpenFits
      <4>. QED BY <1>0, <4>1
    <3>2. \A p \in Obj : heap[p].kind = "outer" =>
              heap'[p].kind = heap[p].kind /\ heap'[p].slots = heap[p].slots
      <4>1. heap' = [g EXCEPT ![c].refs = @ + 1]
        BY <2>1, <2>4 DEF Assign, Referenced
      <4>2. \A p \in Obj : p # c => heap'[p] = g[p]
        BY <2>5, <4>1
      <4>. QED BY <1>0, <2>2, <2>5, <2>6, <4>2
    <3>. QED BY <1>0, <2>1, <3>2, OutersKept DEF IInv
  <2>10. \A x \in Things : InOpen(x)' = InOpen(x) + (IF x = o THEN 0 ELSE 0)
    BY <2>1, PartsType DEF InOpen
  <2>11. PICK n \in {0, 1} : n = 0
    OBVIOUS
  <2>12. g[o].refs = heap[o].refs + 1 + n /\ \A x \in Things : InOpen(x)' = InOpen(x) + (IF x = o THEN n ELSE 0)
    BY <2>3, <2>5, <2>10, <2>11
  <2>13. Assign(r, c, g, weak) /\ chain' = new \o chain /\ open' \in [Reg -> Obj \cup {Null}]
    BY <1>0, <2>1, <2>4, <2>7
  <2>. QED BY <1>7, <2>2, <2>3, <2>5, <2>6, <2>8, <2>9, <2>12, <2>13
<1>9. CASE open[s] = Null
  <2>1. PICK u : u = [Created("outer") EXCEPT !.refs = 2]
    OBVIOUS
  <2>2. PICK g : g = [h EXCEPT ![o] = u]
    OBVIOUS
  <2>3. /\ o \notin Alive \cup {c} /\ Assign(r, c, g, weak) /\ chain' = <<o, c>> \o chain
        /\ open' = [open EXCEPT ![s] = o]
    BY <1>1, <1>3, <1>9, <2>1, <2>2 DEF Capture, ClosureOver
  <2>4. o # c /\ heap[o].kind = "free" /\ heap[o] = Unused
    BY <1>5, <2>3 DEF Alive
  <2>5. u \in ObjType /\ u.kind = "outer" /\ u.refs = 2 /\ u.slots = NoSlots /\ u.weak = Null
    BY <2>1, CreatedFacts DEF ObjType
  <2>6. g \in [Obj -> ObjType] /\ g[o] = u /\ g[c] = t /\ \A p \in Obj \ {c, o} : g[p] = heap[p]
    BY <1>4, <2>2, <2>4, <2>5
  <2>7. /\ g[o].kind = "outer" /\ g[o].slots = heap[o].slots /\ g[o].weak = heap[o].weak
        /\ g[o].refs = heap[o].refs + 1 + 1
    BY <2>4, <2>5, <2>6, UnusedFacts
  <2>8. PICK new : new = <<o, c>>
    OBVIOUS
  <2>9. Listed(new) /\ ToSet(new) = {c} \cup (IF heap[o].kind = "free" THEN {o} ELSE {})
    BY <2>4, <2>8, PairListed
  <2>10. open' \in [Reg -> Obj \cup {Null}] /\ open'[s] = o /\ \A p \in Reg : p # s => open'[p] = open[p]
    BY <1>0, <2>3
  <2>11. \A x \in Things : InOpen(x)' = InOpen(x) + (IF x = o THEN 1 ELSE 0)
    <3>. SUFFICES ASSUME NEW x \in Things PROVE InOpen(x)' = InOpen(x) + (IF x = o THEN 1 ELSE 0)
      OBVIOUS
    <3>1. InOpen(x)' = InOpen(x) - Same(open[s], x) + Same(o, x)
      BY <1>0, <2>3, OpenChange
    <3>2. Same(open[s], x) = 0
      BY <1>9, GcHeapAssumption DEF Same, Things
    <3>3. InOpen(x) \in Nat
      BY PartsType
    <3>. QED BY <3>1, <3>2, <3>3 DEF Same
  <2>12. OpenFits'
    <3>0. \A p \in Reg : open[p] # Null => /\ heap[open[p]].kind = "outer" /\ heap[open[p]].slots = NoSlots
                                           /\ open[p] \in Obj
      BY <1>0 DEF IInv, OpenFits
    <3>1. \A p \in Reg : open[p] # Null => open[p] \in Obj \ {c, o}
      BY <1>0, <2>4, <3>0
    <3>2. \A p \in Obj : p # c => heap'[p] = g[p]
      <4>1. heap' = [g EXCEPT ![c].refs = @ + 1]
        BY <2>3 DEF Assign, Referenced
      <4>. QED BY <2>6, <4>1
    <3>3. \A p \in Reg : open'[p] # Null =>
              heap'[open'[p]].kind = "outer" /\ heap'[open'[p]].slots = NoSlots
      <4>1. heap'[o].kind = "outer" /\ heap'[o].slots = NoSlots
        BY <2>4, <2>5, <2>6, <3>2
      <4>2. \A p \in Reg : open[p] # Null => heap'[open[p]] = heap[open[p]]
        BY <2>6, <3>1, <3>2
      <4>. QED BY <2>10, <3>0, <4>1, <4>2
    <3>4. \A p, q \in Reg : open'[p] = open'[q] => p = q \/ open'[p] = Null
      <4>1. \A p, q \in Reg : open[p] = open[q] => p = q \/ open[p] = Null
        BY DEF IInv, OpenFits
      <4>. QED BY <1>0, <2>10, <3>1, <4>1
    <3>. QED BY <3>3, <3>4 DEF OpenFits
  <2>13. PICK n \in {0, 1} : n = 1
    OBVIOUS
  <2>14. g[o].refs = heap[o].refs + 1 + n /\ \A x \in Things : InOpen(x)' = InOpen(x) + (IF x = o THEN n ELSE 0)
    BY <2>7, <2>11, <2>13
  <2>15. chain' = new \o chain
    BY <2>3, <2>8
  <2>. QED BY <1>7, <2>3, <2>4, <2>6, <2>7, <2>9, <2>10, <2>12, <2>14, <2>15
<1>. QED BY <1>8, <1>9

----------------------------------------------------------------------------
(* Steps of destructors.                                                   *)

LEMMA TaskFacts ==
    ASSUME NEW t \in Task
    PROVE  /\ t.op \in {"release", "drop", "free"}
           /\ t.op = "release" => t.obj \in Things
           /\ t.op = "drop" => t.obj \in Obj /\ t.slot \in Slot
           /\ t.op = "free" => t.obj \in Obj
<1>1. CASE t \in {[op |-> "release", obj |-> o, slot |-> 1] : o \in Obj \cup Weak}
  BY <1>1 DEF Things
<1>2. CASE t \in {[op |-> "drop", obj |-> o, slot |-> i] : o \in Obj, i \in Slot}
  BY <1>2
<1>3. CASE t \in {[op |-> "free", obj |-> o, slot |-> 1] : o \in Obj}
  BY <1>3
<1>. QED BY <1>1, <1>2, <1>3 DEF Task

LEMMA FirstTask ==
    ASSUME TypeOK, work # <<>>
    PROVE  /\ Head(work) = work[1] /\ work[1] \in Task
           /\ Len(work) \in Nat /\ Len(work) >= 1 /\ 1 \in 1 .. Len(work)
           /\ \A k \in 1 .. Len(work) : work[k] \in Task
<1>1. work \in Seq(Task)
  BY Types
<1>. QED BY <1>1, HeadTailProperties, LenProperties, EmptySeq

\* The counts after a task is done, and p put in its place.
LEMMA DestroyCounts ==
    ASSUME NEW p \in Seq(Task), NEW x \in Things, TypeOK, work # <<>>,
           work' = p \o Tail(work), stack' = stack, open' = open, cur' = cur
    PROVE  /\ Total(x)' = Total(x) - InSlots(x) + InSlots(x)' + Pending(p, x) - Releasing(work[1], x)
           /\ Total(x) \in Nat /\ InSlots(x) \in Nat /\ InSlots(x)' \in Nat
           /\ Pending(p, x) \in Nat /\ Releasing(work[1], x) \in Nat
           /\ work' \in Seq(Task)
<1>1. PICK s : s = work
  OBVIOUS
<1>2. s \in Seq(Task) /\ s # <<>> /\ Len(s) \in Nat /\ Len(s) >= 1
  BY <1>1, FirstTask, Types
<1>3. PICK t : t = p \o Tail(s)
  OBVIOUS
<1>4. t \in Seq(Task) /\ Replaced(s, t, p) /\ Len(p) \in Nat
  BY <1>2, <1>3, ReplacedHead, LenProperties
<1>5. Pending(t, x) = Pending(p, x) + Pending(s, x) - Releasing(s[1], x)
  BY <1>2, <1>4, PendingReplaced
<1>6. Pending(p, x) \in Nat /\ Pending(s, x) \in Nat
  BY <1>2, <1>4, ReleasesFinite
<1>7. Releasing(s[1], x) \in Nat
  BY DEF Releasing
<1>8. Total(x)' = InRegisters(x) + InOpen(x) + InSlots(x)' + Pending(t, x) + Same(cur, x)
  BY <1>1, <1>3 DEF Total, InRegisters, InOpen
<1>9. /\ InRegisters(x) \in Nat /\ InOpen(x) \in Nat /\ InSlots(x) \in Nat /\ Same(cur, x) \in Nat
      /\ InSlots(x)' \in Nat /\ Total(x) \in Nat
  BY TotalType, PartsType
<1>10. Total(x) = InRegisters(x) + InOpen(x) + InSlots(x) + Pending(s, x) + Same(cur, x)
  BY <1>1 DEF Total
<1>11. Total(x)' = Total(x) - InSlots(x) + InSlots(x)' + Pending(p, x) - Releasing(s[1], x)
  <2>1. PICK a \in Nat : a = Pending(p, x)
    BY <1>6
  <2>2. PICK b \in Nat : b = Pending(s, x)
    BY <1>6
  <2>3. PICK c \in Nat : c = Releasing(s[1], x)
    BY <1>7
  <2>4. Total(x)' = InRegisters(x) + InOpen(x) + InSlots(x)' + (a + b - c) + Same(cur, x)
    BY <1>5, <1>8, <2>1, <2>2, <2>3
  <2>5. Total(x) = InRegisters(x) + InOpen(x) + InSlots(x) + b + Same(cur, x)
    BY <1>10, <2>2
  <2>6. PICK d \in Nat : d = InRegisters(x)
    BY <1>9
  <2>7. PICK e \in Nat : e = InOpen(x)
    BY <1>9
  <2>8. PICK f \in Nat : f = InSlots(x)
    BY <1>9
  <2>9. PICK f1 \in Nat : f1 = InSlots(x)'
    BY <1>9
  <2>10. PICK h \in Nat : h = Same(cur, x)
    BY <1>9
  <2>11. Total(x) = d + e + f + b + h
    BY <2>5, <2>6, <2>7, <2>8, <2>10
  <2>12. Total(x)' = d + e + f1 + (a + b - c) + h
    BY <2>4, <2>6, <2>7, <2>9, <2>10
  <2>13. d + e + f1 + (a + b - c) + h = (d + e + f + b + h) - f + f1 + a - c
    OBVIOUS
  <2>14. Total(x)' = Total(x) - f + f1 + a - c
    BY <2>11, <2>12, <2>13
  <2>. QED BY <2>1, <2>3, <2>8, <2>9, <2>14
<1>12. work' \in Seq(Task)
  BY <1>1, <1>3, <1>4
<1>. QED BY <1>1, <1>6, <1>7, <1>9, <1>11, <1>12

\* Where the tasks are after the first is replaced.
LEMMA Moved ==
    ASSUME NEW p \in Seq(Task), TypeOK, work # <<>>, work' = p \o Tail(work)
    PROVE  /\ Len(p) \in Nat /\ Len(work) \in Nat /\ Len(work)' = Len(p) + Len(work) - 1
           /\ \A k \in 1 .. Len(p) : work'[k] = p[k]
           /\ \A k \in 2 .. Len(work) : k + Len(p) - 1 \in 1 .. Len(work)' /\ work'[k + Len(p) - 1] = work[k]
           /\ \A k \in 1 .. Len(work)' : k > Len(p) =>
                 k - Len(p) + 1 \in 2 .. Len(work) /\ work'[k] = work[k - Len(p) + 1]
<1>1. PICK s : s = work
  OBVIOUS
<1>2. s \in Seq(Task) /\ s # <<>> /\ Len(s) \in Nat /\ Len(s) >= 1 /\ Len(p) \in Nat
  BY <1>1, FirstTask, Types, LenProperties
<1>3. PICK t : t = p \o Tail(s)
  OBVIOUS
<1>4. Replaced(s, t, p)
  BY <1>2, <1>3, ReplacedHead
<1>5. Len(t) = Len(p) + Len(s) - 1
  BY <1>4 DEF Replaced
<1>6. \A k \in 2 .. Len(s) : k + Len(p) - 1 \in 1 .. Len(t) /\ t[k + Len(p) - 1] = s[k]
  BY <1>2, <1>4, <1>5 DEF Replaced
<1>7. \A k \in 1 .. Len(t) : k > Len(p) =>
          k - Len(p) + 1 \in 2 .. Len(s) /\ t[k] = s[k - Len(p) + 1]
  BY <1>2, <1>4, <1>5 DEF Replaced
<1>8. \A k \in 1 .. Len(p) : t[k] = p[k]
  BY <1>4 DEF Replaced
<1>. QED BY <1>1, <1>2, <1>3, <1>5, <1>6, <1>7, <1>8

\* Places of tasks that end the lives of objects, after the first is done and
\* references are released in its place.
LEMMA WorkGoesOn ==
    ASSUME NEW p \in Seq(Task), \A k \in 1 .. Len(p) : p[k].op = "release",
           WorkFits, TypeOK, work # <<>>, work' = p \o Tail(work), phase' = phase, cur' = cur,
           \A o \in Obj : Ending(o)' <=> Ending(o) /\ ~ FreeAt(1, o),
           \A o \in Obj, i \in Slot :
               heap'[o].slots[i] # Null => heap[o].slots[i] # Null /\ ~ DropAt(1, o, i)
    PROVE  WorkFits'
<1>1. PICK n : n = Len(p)
  OBVIOUS
<1>2. PICK m : m = Len(work)
  OBVIOUS
<1>3. /\ n \in Nat /\ m \in Nat /\ Len(work)' = n + m - 1 /\ m >= 1
      /\ \A k \in 1 .. n : work'[k].op = "release"
      /\ \A k \in 2 .. m : k + n - 1 \in 1 .. Len(work)' /\ work'[k + n - 1] = work[k]
      /\ \A k \in 1 .. Len(work)' : k > n => k - n + 1 \in 2 .. m /\ work'[k] = work[k - n + 1]
  BY <1>1, <1>2, Moved, FirstTask
<1>4. PICK g : g = Len(work)'
  OBVIOUS
<1>5. \A k \in 2 .. m : k + n - 1 \in 1 .. g
  BY <1>3, <1>4
<1>15. ASSUME NEW k \in 1 .. g, work'[k].op # "release"
       PROVE  k > n
  <2>1. k \notin 1 .. n
    BY <1>3, <1>15
  <2>2. n \in Nat
    BY <1>3
  <2>. QED BY ONLY <2>1, <2>2, k \in 1 .. g
<1>6. ASSUME NEW k \in 1 .. g, NEW o \in Obj, FreeAt(k, o)'
      PROVE  k > n /\ k - n + 1 \in 2 .. m /\ FreeAt(k - n + 1, o)
  <2>1. k > n
    BY <1>6, <1>15 DEF FreeAt
  <2>. QED BY <1>3, <1>4, <1>6, <2>1 DEF FreeAt
<1>7. ASSUME NEW k \in 1 .. g, NEW o \in Obj, NEW i \in Slot, DropAt(k, o, i)'
      PROVE  k > n /\ k - n + 1 \in 2 .. m /\ DropAt(k - n + 1, o, i)
  <2>1. k > n
    BY <1>7, <1>15 DEF DropAt
  <2>. QED BY <1>3, <1>4, <1>7, <2>1 DEF DropAt
<1>8. ASSUME NEW k \in 2 .. m, NEW o \in Obj
      PROVE  /\ FreeAt(k, o) => FreeAt(k + n - 1, o)'
             /\ \A i \in Slot : DropAt(k, o, i) => DropAt(k + n - 1, o, i)'
  BY <1>3 DEF FreeAt, DropAt
<1>9. /\ \A o \in Obj : \A j, k \in 1 .. m : FreeAt(j, o) /\ FreeAt(k, o) => j = k
      /\ \A o \in Obj : \A k \in 1 .. m : FreeAt(k, o) =>
            /\ Ending(o)
            /\ \A i \in Slot : heap[o].slots[i] # Null =>
                  \E j \in 1 .. m : j < k /\ DropAt(j, o, i)
      /\ \A o \in Obj : \A i \in Slot : \A k \in 1 .. m : DropAt(k, o, i) =>
            o \in Finalized \/ \E j \in 1 .. m : k < j /\ FreeAt(j, o)
      /\ \A o \in Obj : Ending(o) => \E k \in 1 .. m : FreeAt(k, o)
  BY <1>2 DEF WorkFits
<1>10. Finalized' = Finalized
  BY DEF Finalized
<1>11. ASSUME NEW o \in Obj, NEW j \in 1 .. g, NEW k \in 1 .. g, FreeAt(j, o)', FreeAt(k, o)'
       PROVE  j = k
  <2>1. j - n + 1 \in 1 .. m /\ k - n + 1 \in 1 .. m /\ FreeAt(j - n + 1, o) /\ FreeAt(k - n + 1, o)
    <3>1. j - n + 1 \in 2 .. m /\ k - n + 1 \in 2 .. m /\ FreeAt(j - n + 1, o) /\ FreeAt(k - n + 1, o)
      BY <1>6, <1>11
    <3>2. \A l \in 2 .. m : l \in 1 .. m
      OBVIOUS
    <3>. QED BY <3>1, <3>2
  <2>2. j - n + 1 = k - n + 1
    BY <1>9, <2>1
  <2>3. j \in Int /\ k \in Int
    BY <1>3, <1>4
  <2>4. n \in Int
    BY <1>3
  <2>. QED BY ONLY <2>2, <2>3, <2>4
<1>12. ASSUME NEW o \in Obj, NEW k \in 1 .. g, FreeAt(k, o)'
       PROVE  /\ Ending(o)'
              /\ \A i \in Slot : heap'[o].slots[i] # Null =>
                    \E j \in 1 .. g : j < k /\ DropAt(j, o, i)'
  <2>1. PICK l \in 2 .. m : l = k - n + 1 /\ FreeAt(l, o)
    BY <1>6, <1>12
  <2>2. ~ FreeAt(1, o)
    <3>1. 1 \in 1 .. m /\ l \in 1 .. m /\ l # 1
      BY <1>3, <2>1
    <3>. QED BY <1>9, <2>1, <3>1
  <2>3. Ending(o)'
    <3>1. l \in 1 .. m
      BY <1>3, <2>1
    <3>. QED BY <1>9, <2>1, <2>2, <3>1
  <2>4. ASSUME NEW i \in Slot, heap'[o].slots[i] # Null
        PROVE  \E j \in 1 .. g : j < k /\ DropAt(j, o, i)'
    <3>1. heap[o].slots[i] # Null /\ ~ DropAt(1, o, i)
      BY <2>4
    <3>2. PICK j \in 1 .. m : j < l /\ DropAt(j, o, i)
      <4>1. l \in 1 .. m
        BY <1>3, <2>1
      <4>. QED BY <1>9, <2>1, <3>1, <4>1
    <3>3. j \in 2 .. m
      <4>1. j # 1
        BY <3>1, <3>2
      <4>. QED BY ONLY <4>1, j \in 1 .. m, <1>3
    <3>4. DropAt(j + n - 1, o, i)' /\ j + n - 1 \in 1 .. g
      BY <1>5, <1>8, <3>2, <3>3
    <3>5. j + n - 1 < k
      BY ONLY <1>3, <2>1, <3>2, <3>3, k \in 1 .. g, j < l, l = k - n + 1
    <3>. QED BY <3>4, <3>5
  <2>. QED BY <2>3, <2>4
<1>13. ASSUME NEW o \in Obj, NEW i \in Slot, NEW k \in 1 .. g, DropAt(k, o, i)'
       PROVE  o \in Finalized' \/ \E j \in 1 .. g : k < j /\ FreeAt(j, o)'
  <2>1. PICK l \in 2 .. m : l = k - n + 1 /\ DropAt(l, o, i)
    BY <1>7, <1>13
  <2>2. l \in 1 .. m
    BY <1>3, <2>1
  <2>3. CASE \E j \in 1 .. m : l < j /\ FreeAt(j, o)
    <3>1. PICK j \in 1 .. m : l < j /\ FreeAt(j, o)
      BY <2>3
    <3>2. j \in 2 .. m
      BY ONLY <1>3, l \in 2 .. m, j \in 1 .. m, <3>1
    <3>3. FreeAt(j + n - 1, o)' /\ j + n - 1 \in 1 .. g
      BY <1>5, <1>8, <3>1, <3>2
    <3>4. k < j + n - 1
      BY ONLY <1>3, <2>1, <3>1, <3>2, k \in 1 .. g, l < j, l = k - n + 1
    <3>. QED BY <3>3, <3>4
  <2>. QED BY <1>9, <1>10, <2>1, <2>2, <2>3
<1>14. ASSUME NEW o \in Obj, Ending(o)'
       PROVE  \E k \in 1 .. g : FreeAt(k, o)'
  <2>1. Ending(o) /\ ~ FreeAt(1, o)
    BY <1>14
  <2>2. PICK k \in 1 .. m : FreeAt(k, o)
    BY <1>9, <2>1
  <2>3. k \in 2 .. m
    <3>1. k # 1
      BY <2>1, <2>2
    <3>. QED BY ONLY <3>1, k \in 1 .. m, <1>3
  <2>. QED BY <1>5, <1>8, <2>2, <2>3
<1>. QED BY <1>4, <1>11, <1>12, <1>13, <1>14 DEF WorkFits

\* What the tasks before which an object is freed do.
Dying(p, o, n) ==
    /\ Slot = 1 .. n
    /\ p \in Seq(Task) /\ Len(p) = n + 1
    /\ \A k \in 1 .. n : p[k].op = "drop" /\ p[k].obj = o /\ p[k].slot = k
    /\ p[n + 1].op = "free" /\ p[n + 1].obj = o

LEMMA DyingTasks ==
    ASSUME NEW o \in Obj
    PROVE  \E n \in Nat : Dying(Drops(o) \o FreeTask(o), o, n)
<1>0. PICK p : p = Drops(o) \o FreeTask(o)
  OBVIOUS
<1>1. PICK n : n = Cardinality(Slot)
  OBVIOUS
<1>2. n \in Nat /\ Slot = 1 .. n
  <2>1. IsFiniteSet(Slot) /\ Slot = 1 .. n
    BY <1>1, GcHeapAssumption
  <2>. QED BY <1>1, <2>1, FS_CardinalityType
<1>3. PICK d : d = [i \in 1 .. n |-> [op |-> "drop", obj |-> o, slot |-> i]]
  OBVIOUS
<1>4. PICK t : t = [op |-> "free", obj |-> o, slot |-> 1]
  OBVIOUS
<1>5. p = d \o <<t>>
  BY <1>0, <1>1, <1>3, <1>4 DEF Drops, FreeTask
<1>6. \A i \in 1 .. n : d[i] = [op |-> "drop", obj |-> o, slot |-> i]
  BY <1>3
<1>7. \A i \in 1 .. n : d[i] \in Task
  <2>1. \A i \in Slot : [op |-> "drop", obj |-> o, slot |-> i] \in Task
    BY DEF Task
  <2>. QED BY <1>2, <1>6, <2>1
<1>8. t \in Task
  BY <1>4 DEF Task
<1>9. d \in [1 .. n -> Task]
  BY <1>3, <1>7
<1>10. d \in Seq(Task) /\ Len(d) = n
  BY <1>2, <1>9, IsASeq
<1>11. <<t>> \in Seq(Task) /\ Len(<<t>>) = 1 /\ <<t>>[1] = t
  BY <1>8
<1>12. /\ p \in Seq(Task) /\ Len(p) = n + 1
       /\ \A k \in 1 .. n + 1 : p[k] = IF k <= n THEN d[k] ELSE <<t>>[k - n]
  BY <1>5, <1>10, <1>11, ConcatProperties
<1>13. \A k \in 1 .. n : p[k] = d[k]
  BY <1>2, <1>12
<1>14. p[n + 1] = t
  <2>1. n + 1 \in 1 .. n + 1 /\ ~ (n + 1 <= n) /\ (n + 1) - n = 1
    BY <1>2
  <2>. QED BY <1>11, <1>12, <2>1
<1>15. \A k \in 1 .. n : p[k].op = "drop" /\ p[k].obj = o /\ p[k].slot = k
  <2>. SUFFICES ASSUME NEW k \in 1 .. n PROVE p[k].op = "drop" /\ p[k].obj = o /\ p[k].slot = k
    OBVIOUS
  <2>1. p[k] = [op |-> "drop", obj |-> o, slot |-> k]
    BY <1>6, <1>13
  <2>. QED BY <2>1
<1>16. p[n + 1].op = "free" /\ p[n + 1].obj = o
  BY <1>4, <1>14
<1>17. Dying(p, o, n)
  BY <1>2, <1>12, <1>15, <1>16 DEF Dying
<1>. QED BY <1>0, <1>2, <1>17

\* An object begins to die: its tasks are put before the others.
LEMMA WorkOfDying ==
    ASSUME NEW o \in Obj, NEW p, NEW n \in Nat, Dying(p, o, n),
           WorkFits, TypeOK, work # <<>>, work' = p \o Tail(work), phase' = phase, cur' = cur,
           work[1].op = "release", ~ Ending(o),
           \A q \in Obj : Ending(q)' <=> Ending(q) \/ q = o,
           \A q \in Obj : heap'[q].slots = heap[q].slots
    PROVE  WorkFits'
<1>1. /\ Slot = 1 .. n
      /\ p \in Seq(Task) /\ Len(p) = n + 1
      /\ \A k \in 1 .. n : p[k].op = "drop" /\ p[k].obj = o /\ p[k].slot = k
      /\ p[n + 1].op = "free" /\ p[n + 1].obj = o
  BY DEF Dying
<1>2. PICK m : m = Len(work)
  OBVIOUS
<1>3. PICK g : g = Len(work)'
  OBVIOUS
<1>4. /\ m \in Nat /\ m >= 1 /\ g = n + m
      /\ \A k \in 1 .. n + 1 : work'[k] = p[k]
      /\ \A k \in 2 .. m : k + n \in 1 .. g /\ work'[k + n] = work[k]
      /\ \A k \in 1 .. g : k > n + 1 => k - n \in 2 .. m /\ work'[k] = work[k - n]
  <2>1. PICK l : l = Len(p)
    OBVIOUS
  <2>2. p \in Seq(Task) /\ l = n + 1
    BY <1>1, <2>1
  <2>3. /\ m \in Nat /\ g = l + m - 1 /\ m >= 1
        /\ \A k \in 1 .. l : work'[k] = p[k]
        /\ \A k \in 2 .. m : k + l - 1 \in 1 .. g /\ work'[k + l - 1] = work[k]
        /\ \A k \in 1 .. g : k > l => k - l + 1 \in 2 .. m /\ work'[k] = work[k - l + 1]
    <3>1. /\ m \in Nat /\ Len(work)' = l + m - 1 /\ m >= 1
          /\ \A k \in 1 .. l : work'[k] = p[k]
          /\ \A k \in 2 .. m : k + l - 1 \in 1 .. Len(work)' /\ work'[k + l - 1] = work[k]
          /\ \A k \in 1 .. Len(work)' : k > l =>
                k - l + 1 \in 2 .. m /\ work'[k] = work[k - l + 1]
      <4>1. p \in Seq(Task) /\ TypeOK /\ work # <<>> /\ work' = p \o Tail(work)
        BY <2>2
      <4>2. Len(work) >= 1
        BY FirstTask
      <4>3. /\ Len(work) \in Nat /\ Len(work)' = Len(p) + Len(work) - 1
            /\ \A k \in 1 .. Len(p) : work'[k] = p[k]
            /\ \A k \in 2 .. Len(work) :
                  k + Len(p) - 1 \in 1 .. Len(work)' /\ work'[k + Len(p) - 1] = work[k]
            /\ \A k \in 1 .. Len(work)' : k > Len(p) =>
                  k - Len(p) + 1 \in 2 .. Len(work) /\ work'[k] = work[k - Len(p) + 1]
        BY ONLY <4>1, Moved
      <4>. QED BY ONLY <1>2, <2>1, <4>2, <4>3
    <3>. QED BY <1>3, <3>1
  <2>4. g = n + m /\ \A k \in 1 .. n + 1 : work'[k] = p[k]
    <3>1. g = n + m
      BY ONLY <2>2, <2>3, n \in Nat
    <3>2. \A k \in 1 .. n + 1 : work'[k] = p[k]
      BY ONLY <2>2, <2>3
    <3>. QED BY <3>1, <3>2
  <2>5. ASSUME NEW k \in 2 .. m PROVE k + n \in 1 .. g /\ work'[k + n] = work[k]
    <3>1. k + l - 1 = k + n
      BY <2>2
    <3>. QED BY <2>3, <3>1
  <2>6. ASSUME NEW k \in 1 .. g, k > n + 1 PROVE k - n \in 2 .. m /\ work'[k] = work[k - n]
    <3>1. k - l + 1 = k - n /\ k > l
      BY <2>2, <2>6
    <3>. QED BY <2>3, <3>1
  <2>. QED BY <2>3, <2>4, <2>5, <2>6
<1>5. /\ \A q \in Obj : \A j, k \in 1 .. m : FreeAt(j, q) /\ FreeAt(k, q) => j = k
      /\ \A q \in Obj : \A k \in 1 .. m : FreeAt(k, q) =>
            /\ Ending(q)
            /\ \A i \in Slot : heap[q].slots[i] # Null =>
                  \E j \in 1 .. m : j < k /\ DropAt(j, q, i)
      /\ \A q \in Obj : \A i \in Slot : \A k \in 1 .. m : DropAt(k, q, i) =>
            q \in Finalized \/ \E j \in 1 .. m : k < j /\ FreeAt(j, q)
      /\ \A q \in Obj : Ending(q) => \E k \in 1 .. m : FreeAt(k, q)
  BY <1>2 DEF WorkFits
<1>6. \A q \in Obj : ~ FreeAt(1, q) /\ \A i \in Slot : ~ DropAt(1, q, i)
  BY DEF FreeAt, DropAt
<1>7. Finalized' = Finalized
  BY DEF Finalized
\* The tasks after the change, by place.
<1>8. ASSUME NEW k \in 1 .. g, NEW q \in Obj, FreeAt(k, q)'
      PROVE  \/ k = n + 1 /\ q = o
             \/ k > n + 1 /\ k - n \in 2 .. m /\ FreeAt(k - n, q)
  <2>1. CASE k \in 1 .. n
    <3>1. work'[k] = p[k] /\ p[k].op = "drop"
      BY <1>1, <1>4, <2>1
    <3>. QED BY <1>8, <3>1 DEF FreeAt
  <2>2. CASE k = n + 1
    BY <1>1, <1>4, <1>8, <2>2 DEF FreeAt
  <2>3. CASE k > n + 1
    BY <1>4, <1>8, <2>3 DEF FreeAt
  <2>. QED BY ONLY <2>1, <2>2, <2>3, k \in 1 .. g, n \in Nat
<1>9. ASSUME NEW k \in 1 .. g, NEW q \in Obj, NEW i \in Slot, DropAt(k, q, i)'
      PROVE  \/ k = i /\ q = o /\ k <= n
             \/ k > n + 1 /\ k - n \in 2 .. m /\ DropAt(k - n, q, i)
  <2>1. CASE k \in 1 .. n
    <3>1. work'[k] = p[k] /\ p[k].obj = o /\ p[k].slot = k /\ k <= n
      BY <1>1, <1>4, <2>1
    <3>. QED BY <1>9, <3>1 DEF DropAt
  <2>2. CASE k = n + 1
    <3>1. work'[k] = p[k] /\ p[k].op = "free"
      BY <1>1, <1>4, <2>2
    <3>. QED BY <1>9, <3>1 DEF DropAt
  <2>3. CASE k > n + 1
    BY <1>4, <1>9, <2>3 DEF DropAt
  <2>. QED BY ONLY <2>1, <2>2, <2>3, k \in 1 .. g, n \in Nat
<1>10. /\ n + 1 \in 1 .. g /\ FreeAt(n + 1, o)'
       /\ \A i \in Slot : i \in 1 .. g /\ i < n + 1 /\ DropAt(i, o, i)'
  <2>1. n + 1 \in 1 .. g /\ n + 1 \in 1 .. n + 1
    BY <1>4
  <2>2. \A i \in Slot : i \in 1 .. g /\ i \in 1 .. n + 1 /\ i < n + 1 /\ i \in 1 .. n
    BY <1>1, <1>4
  <2>3. FreeAt(n + 1, o)'
    BY <1>1, <1>4, <2>1 DEF FreeAt
  <2>4. \A i \in Slot : DropAt(i, o, i)'
    BY <1>1, <1>4, <2>2 DEF DropAt
  <2>. QED BY <2>1, <2>2, <2>3, <2>4
<1>11. ASSUME NEW k \in 1 .. m, NEW q \in Obj
       PROVE  /\ FreeAt(k, q) => k + n \in 1 .. g /\ FreeAt(k + n, q)'
              /\ \A i \in Slot : DropAt(k, q, i) => k + n \in 1 .. g /\ DropAt(k + n, q, i)'
  <2>1. CASE k = 1
    BY <1>6, <2>1
  <2>2. CASE k \in 2 .. m
    BY <1>4, <2>2 DEF FreeAt, DropAt
  <2>. QED BY <2>1, <2>2
<1>12. \A k \in 1 .. m : ~ FreeAt(k, o)
  BY <1>5
<1>13. ASSUME NEW q \in Obj, NEW j \in 1 .. g, NEW k \in 1 .. g, FreeAt(j, q)', FreeAt(k, q)'
       PROVE  j = k
  <2>0. \A l \in 2 .. m : l \in 1 .. m
    OBVIOUS
  <2>1. CASE q = o
    BY <1>8, <1>12, <1>13, <2>0, <2>1
  <2>2. CASE q # o
    <3>1. j - n \in 1 .. m /\ k - n \in 1 .. m /\ FreeAt(j - n, q) /\ FreeAt(k - n, q)
      BY <1>8, <1>13, <2>0, <2>2
    <3>2. j - n = k - n
      BY <1>5, <3>1
    <3>. QED BY <3>2
  <2>. QED BY <2>1, <2>2
<1>14. ASSUME NEW q \in Obj, NEW k \in 1 .. g, FreeAt(k, q)'
       PROVE  /\ Ending(q)'
              /\ \A i \in Slot : heap'[q].slots[i] # Null =>
                    \E j \in 1 .. g : j < k /\ DropAt(j, q, i)'
  <2>1. CASE k = n + 1 /\ q = o
    BY <1>10, <2>1
  <2>2. CASE k - n \in 2 .. m /\ FreeAt(k - n, q)
    <3>1. PICK l \in 1 .. m : l = k - n /\ FreeAt(l, q)
      BY <2>2
    <3>2. Ending(q)'
      BY <1>5, <3>1
    <3>3. ASSUME NEW i \in Slot, heap'[q].slots[i] # Null
          PROVE  \E j \in 1 .. g : j < k /\ DropAt(j, q, i)'
      <4>1. PICK j \in 1 .. m : j < l /\ DropAt(j, q, i)
        BY <1>5, <3>1, <3>3
      <4>2. j + n \in 1 .. g /\ DropAt(j + n, q, i)'
        BY <1>11, <4>1
      <4>3. j + n < k
        BY ONLY <3>1, <4>1, k \in 1 .. g, j \in 1 .. m, n \in Nat, l \in 1 .. m
      <4>. QED BY <4>2, <4>3
    <3>. QED BY <3>2, <3>3
  <2>. QED BY <1>8, <1>14, <2>1, <2>2
<1>15. ASSUME NEW q \in Obj, NEW i \in Slot, NEW k \in 1 .. g, DropAt(k, q, i)'
       PROVE  q \in Finalized' \/ \E j \in 1 .. g : k < j /\ FreeAt(j, q)'
  <2>1. CASE q = o /\ k <= n
    <3>1. k < n + 1
      BY <2>1
    <3>. QED BY <1>10, <2>1, <3>1
  <2>2. CASE k - n \in 2 .. m /\ DropAt(k - n, q, i)
    <3>1. PICK l \in 1 .. m : l = k - n /\ DropAt(l, q, i)
      BY <2>2
    <3>2. CASE \E j \in 1 .. m : l < j /\ FreeAt(j, q)
      <4>1. PICK j \in 1 .. m : l < j /\ FreeAt(j, q)
        BY <3>2
      <4>2. j + n \in 1 .. g /\ FreeAt(j + n, q)'
        BY <1>11, <4>1
      <4>3. k < j + n
        BY ONLY <3>1, <4>1, k \in 1 .. g, j \in 1 .. m, n \in Nat, l \in 1 .. m
      <4>. QED BY <4>2, <4>3
    <3>. QED BY <1>5, <1>7, <3>1, <3>2
  <2>. QED BY <1>9, <1>15, <2>1, <2>2
<1>16. ASSUME NEW q \in Obj, Ending(q)'
       PROVE  \E k \in 1 .. g : FreeAt(k, q)'
  <2>1. CASE q = o
    BY <1>10, <2>1
  <2>2. CASE q # o
    <3>1. PICK k \in 1 .. m : FreeAt(k, q)
      BY <1>5, <1>16, <2>2
    <3>. QED BY <1>11, <3>1
  <2>. QED BY <2>1, <2>2
<1>. QED BY <1>3, <1>13, <1>14, <1>15, <1>16 DEF WorkFits

\* Destructors touch nothing of a marked object.
LEMMA DestroyKeepsMarks ==
    ASSUME PhaseFits, MarksFit, work # <<>>, UNCHANGED <<stack, open, tchain, cur, phase>>,
           \A o \in Marked : heap'[o].slots = heap[o].slots
    PROVE  PhaseFits' /\ MarksFit'
<1>1. phase \notin {"mark", "marked", "closed"}
  BY DEF PhaseFits
<1>2. Marked' = Marked /\ Roots' = Roots
  BY DEF Marked, Roots
<1>3. \A o \in Marked : Children(o)' = Children(o)
  BY DEF Children
<1>4. PhaseFits'
  BY <1>1, <1>2 DEF PhaseFits, InSweep, InCollection
<1>5. Found' = Found
  BY <1>2, <1>3 DEF Found
<1>6. MarksFit'
  BY <1>2, <1>3, <1>5 DEF MarksFit
<1>. QED BY <1>4, <1>6

LEMMA ReleaseObjectStep ==
    ASSUME IInv, NEW o \in Obj, work # <<>>, work[1].op = "release", work[1].obj = o,
           ReleaseObject(o), UNCHANGED <<stack, open, tchain, cur, phase>>
    PROVE  IInv'
<1>0. /\ TypeOK /\ heap \in [Obj -> ObjType] /\ o \in Things /\ weak' = weak
      /\ 1 \in 1 .. Len(work) /\ work \in Seq(Task) /\ chain \in Seq(Obj)
      /\ \A p \in Obj : heap[p].refs \in Nat
  BY Types, FirstTask, ObjFields DEF IInv, Things, ReleaseObject
<1>1. heap[o].refs > 0 /\ heap[o].kind # "free" /\ o \in Unmarked \cup Marked
  <2>1. Held(o)
    BY <1>0 DEF Held
  <2>. QED BY <1>0, <2>1, HeldFacts
<1>2. PICK t : t = [heap[o] EXCEPT !.refs = heap[o].refs - 1]
  OBVIOUS
<1>3. /\ t \in ObjType /\ t.refs = heap[o].refs - 1 /\ t.kind = heap[o].kind
      /\ t.slots = heap[o].slots /\ t.weak = heap[o].weak
  <2>1. heap[o].refs - 1 \in Nat
    BY <1>0, <1>1
  <2>. QED BY ZenonT(30), <1>0, <1>2, <2>1 DEF ObjType
<1>4. heap' = [heap EXCEPT ![o] = t]
  BY <1>2 DEF ReleaseObject
<1>5. /\ heap' \in [Obj -> ObjType]
      /\ heap'[o].refs = heap[o].refs - 1
      /\ \A p \in Obj : /\ p # o => heap'[p] = heap[p]
                        /\ heap'[p].kind = heap[p].kind /\ heap'[p].slots = heap[p].slots
                        /\ heap'[p].weak = heap[p].weak
  BY <1>0, <1>3, <1>4
<1>6. PICK p \in Seq(Task) :
          /\ work' = p \o Tail(work)
          /\ \A x \in Things : Pending(p, x) = 0
          /\ WorkFits'
          /\ ChainsFit'
          /\ chain' \in Seq(Obj) /\ \A s \in lost' : s \in Seq(Obj)
  <2>1. ASSUME heap[o].refs = 1
        PROVE  o \notin Marked
    <3>. SUFFICES ASSUME o \in Marked PROVE FALSE
      OBVIOUS
    <3>1. InRegisters(o) > 0 \/ InSlots(o) > 0
      <4>1. CASE o \in Roots
        <5>1. \E r \in Reg : stack[r] = o
          BY <4>1 DEF Roots
        <5>. QED BY <5>1, Finite, SomePlace DEF InRegisters
      <4>2. CASE \E q \in Marked : o \in Children(q)
        <5>1. PICK q \in Obj, i \in Slot : heap[q].slots[i] = o
          BY <1>0, <4>2, MembersAreObjects DEF Children
        <5>2. PICK d \in Obj \X Slot : d = <<q, i>>
          OBVIOUS
        <5>3. SlotsOf(heap)[d] = o
          BY <5>1, <5>2 DEF SlotsOf
        <5>4. PICK f : f = SlotsOf(heap)
          OBVIOUS
        <5>. QED BY <5>3, <5>4, Finite, SomePlace DEF InSlots
      <4>. QED BY <4>1, <4>2 DEF IInv, MarksFit
    <3>2. Pending(work, o) > 0
      <4>1. 1 \in Releases(work, o)
        BY <1>0 DEF Releases
      <4>2. IsFiniteSet(Releases(work, o)) /\ Pending(work, o) \in Nat
        BY <1>0, ReleasesFinite, LenProperties
      <4>. QED BY <4>1, <4>2, FS_EmptySet DEF Pending
    <3>3. Total(o) = 1
      BY <1>0, <2>1 DEF IInv, Exact, RefsOf
    <3>4. /\ InRegisters(o) \in Nat /\ InOpen(o) \in Nat /\ InSlots(o) \in Nat
          /\ Pending(work, o) \in Nat /\ Same(cur, o) \in Nat
      BY <1>0, TotalType
    <3>. QED BY <3>1, <3>2, <3>3, <3>4 DEF Total
  <2>2. CASE heap[o].refs # 1
    <3>1. PICK p : p = <<>>
      OBVIOUS
    <3>2. p \in Seq(Task) /\ (\A x \in Things : Pending(p, x) = 0) /\ (\A k \in 1 .. Len(p) : p[k].op = "release")
      BY <3>1, EmptyPending
    <3>3. work' = Tail(work) /\ chain' = chain /\ lost' = lost
      BY <2>2 DEF ReleaseObject
    <3>4. work' = p \o Tail(work)
      BY <1>0, <3>1, <3>3, HeadTailProperties
    <3>5. heap'[o].refs > 0
      BY <1>0, <1>1, <1>5, <2>2
    <3>6. \A q \in Obj : Ending(q)' <=> Ending(q) /\ ~ FreeAt(1, q)
      <4>1. \A q \in Obj : ~ FreeAt(1, q)
        BY DEF FreeAt
      <4>2. \A q \in Obj : Ending(q)' <=> Ending(q)
        BY <1>1, <1>5, <3>5 DEF Ending
      <4>. QED BY <4>1, <4>2
    <3>7. \A q \in Obj, i \in Slot :
               heap'[q].slots[i] # Null => heap[q].slots[i] # Null /\ ~ DropAt(1, q, i)
      BY <1>5 DEF DropAt
    <3>8. WorkFits'
      BY <1>0, <3>2, <3>4, <3>6, <3>7, WorkGoesOn DEF IInv
    <3>9. ChainsFit'
      <4>1. Lists' = Lists /\ Unmarked' = Unmarked /\ Marked' = Marked
        BY <3>3 DEF Lists, Unmarked, Marked
      <4>2. \A q \in Obj : heap'[q].refs > 0 <=> heap[q].refs > 0
        BY <1>1, <1>5, <3>5
      <4>3. ChainsFit
        BY DEF IInv
      <4>. QED BY <4>1, <4>2, <4>3 DEF ChainsFit
    <3>10. chain' \in Seq(Obj) /\ \A s \in lost' : s \in Seq(Obj)
      BY <1>0, <3>3, Types
    <3>. QED BY <3>2, <3>4, <3>8, <3>9, <3>10
  <2>3. CASE heap[o].refs = 1
    <3>1. o \notin Marked /\ o \in Unmarked
      BY <1>1, <2>1, <2>3
    <3>2. PICK p : p = Drops(o) \o FreeTask(o)
      OBVIOUS
    <3>3. PICK n \in Nat : Dying(p, o, n)
      BY <3>2, DyingTasks
    <3>4. p \in Seq(Task)
      BY <3>3 DEF Dying
    <3>5. SetLists(Unchained(Lists, o)) /\ work' = p \o Tail(work)
      BY <2>3, <3>1, <3>2 DEF ReleaseObject
    <3>6. \A x \in Things : Pending(p, x) = 0
      <4>1. \A k \in 1 .. n + 1 : p[k].op # "release"
        <5>1. \A k \in 1 .. n : p[k].op = "drop"
          BY <3>3 DEF Dying
        <5>2. p[n + 1].op = "free"
          BY <3>3 DEF Dying
        <5>3. \A k \in 1 .. n + 1 : k \in 1 .. n \/ k = n + 1
          OBVIOUS
        <5>. QED BY <5>1, <5>2, <5>3
      <4>2. Len(p) = n + 1
        BY <3>3 DEF Dying
      <4>3. \A x : Releases(p, x) = {}
        BY <4>1, <4>2 DEF Releases
      <4>. QED BY <4>3, FS_EmptySet DEF Pending
    <3>7. heap'[o].refs = 0
      BY <1>5, <2>3
    <3>8. \A q \in Obj : Ending(q)' <=> Ending(q) \/ q = o
      BY <1>1, <1>5, <3>7 DEF Ending
    <3>9. ~ Ending(o)
      BY <1>1 DEF Ending
    <3>10. WorkFits'
      BY <1>0, <1>5, <3>3, <3>5, <3>8, <3>9, WorkOfDying DEF IInv
    <3>11. PICK l : l = Lists
      OBVIOUS
    <3>12. PICK m : m = Normal(Unchained(l, o))
      OBVIOUS
    <3>13. ListsFit(m) /\ Members(m) = Unmarked \ {o}
      <4>1. l = [main |-> chain, lost |-> lost] /\ ListsFit(l) /\ o \in Members(l)
        BY <3>1, <3>11 DEF Lists, IInv, ChainsFit, Unmarked
      <4>2. Members(m) = Members(l) \ {o} /\ ListsFit(m)
        BY <3>12, <4>1, UnchainedFacts
      <4>. QED BY <3>11, <4>2 DEF Unmarked
    <3>14. Lists' = m
      <4>1. chain' = m.main /\ lost' = m.lost
        BY <3>5, <3>11, <3>12 DEF SetLists, Normal
      <4>2. m = [main |-> m.main, lost |-> m.lost]
        BY <3>12 DEF Normal
      <4>. QED BY <4>1, <4>2 DEF Lists
    <3>15. ListsFit(Lists)' /\ Unmarked' = Unmarked \ {o}
      BY <3>13, <3>14 DEF Unmarked
    <3>16. ChainsFit'
      <4>1. Marked' = Marked /\ tchain' = tchain
        BY DEF Marked
      <4>2. \A q \in Obj : heap'[q].refs > 0 <=> q \in Unmarked' \cup Marked'
        BY <1>5, <3>1, <3>7, <3>15, <4>1 DEF IInv, ChainsFit
      <4>. QED BY <3>15, <4>1, <4>2 DEF IInv, ChainsFit
    <3>17. chain' \in Seq(Obj) /\ \A s \in lost' : s \in Seq(Obj)
      BY <3>15 DEF ListsFit, Listed, Lists
    <3>. QED BY <3>4, <3>5, <3>6, <3>10, <3>16, <3>17
  <2>. QED BY <2>2, <2>3
<1>7. /\ work' \in Seq(Task)
      /\ \A x \in Things : Total(x)' = Total(x) - Releasing(work[1], x)
  <2>1. \A x \in Things : InSlots(x)' = InSlots(x)
    BY <1>5, SlotsKept
  <2>2. ASSUME NEW x \in Things
        PROVE  work' \in Seq(Task) /\ Total(x)' = Total(x) - Releasing(work[1], x)
    <3>1. /\ Total(x)' = Total(x) - InSlots(x) + InSlots(x)' + Pending(p, x) - Releasing(work[1], x)
          /\ Total(x) \in Nat /\ InSlots(x) \in Nat /\ Releasing(work[1], x) \in Nat
          /\ work' \in Seq(Task)
      BY <1>0, <1>6, DestroyCounts
    <3>. QED BY <1>6, <2>1, <3>1
  <2>. QED BY <1>0, <2>2
<1>8. TypeOK'
  BY <1>0, <1>5, <1>6, <1>7, Types, TypesAfter
<1>9. ObjectsFit'
  BY <1>1, <1>5 DEF IInv, ObjectsFit
<1>10. Exact'
  <2>. SUFFICES ASSUME NEW x \in Things PROVE RefsOf(x)' = Total(x)'
    BY DEF Exact
  <2>1. RefsOf(x)' = RefsOf(x) - Releasing(work[1], x)
    <3>1. CASE x = o
      BY <1>5, <3>1 DEF RefsOf, Releasing
    <3>2. CASE x # o /\ x \in Obj
      BY <1>0, <1>5, <3>2 DEF RefsOf, Releasing
    <3>3. CASE x \in Weak /\ x \notin Obj
      <4>1. weak[x].refs \in Nat
        BY <1>0, <3>3, Types DEF WeakType
      <4>. QED BY <1>0, <3>3, <4>1 DEF RefsOf, Releasing
    <3>. QED BY <3>1, <3>2, <3>3 DEF Things
  <2>. QED BY <1>7, <2>1 DEF IInv, Exact
<1>11. WeakFits' /\ OpenFits'
  <2>1. WeakFits /\ OpenFits /\ \A r \in Reg : open[r] \in Obj \cup {Null}
    BY <1>0, Types DEF IInv
  <2>3. WeakFits'
    <3>1. PICK y : y = Null
      OBVIOUS
    <3>2. \A w \in Weak : /\ weak'[w].refs = weak[w].refs + Same(y, w)
                          /\ weak'[w].obj = weak[w].obj /\ (weak'[w].live <=> weak[w].live)
      BY <1>0, <3>1, Types, GcHeapAssumption DEF Same, WeakType
    <3>3. \A q \in Obj : /\ heap'[q].weak = heap[q].weak
                         /\ heap[q].kind # "free" => heap'[q].kind # "free"
      BY <1>5
    <3>4. y \notin Weak
      BY <3>1, GcHeapAssumption
    <3>. QED BY <1>0, <1>8, <2>1, <3>2, <3>3, <3>4, PairsKept
  <2>4. OpenFits'
    BY <1>5, <2>1 DEF OpenFits
  <2>. QED BY <2>3, <2>4
<1>12. PhaseFits' /\ MarksFit'
  <2>1. \A q \in Marked : heap'[q].slots = heap[q].slots
    BY <1>0, <1>5, MembersAreObjects
  <2>. QED BY <2>1, DestroyKeepsMarks DEF IInv
<1>. QED BY <1>6, <1>8, <1>9, <1>10, <1>11, <1>12 DEF IInv

LEMMA ChainsKept ==
    ASSUME ChainsFit, chain' = chain, lost' = lost, tchain' = tchain,
           \A o \in Obj : heap'[o].refs = heap[o].refs
    PROVE  ChainsFit'
<1>1. Lists' = Lists /\ Unmarked' = Unmarked /\ Marked' = Marked
  BY DEF Lists, Unmarked, Marked
<1>. QED BY <1>1 DEF ChainsFit

LEMMA ReleaseWeakStep ==
    ASSUME IInv, NEW w \in Weak, work # <<>>, work[1].op = "release", work[1].obj = w,
           ReleaseWeak(w), UNCHANGED <<stack, open, tchain, cur, phase>>
    PROVE  IInv'
<1>0. /\ TypeOK /\ heap \in [Obj -> ObjType] /\ weak \in [Weak -> WeakType] /\ w \in Things /\ w \notin Obj
      /\ 1 \in 1 .. Len(work) /\ work \in Seq(Task) /\ chain' = chain /\ lost' = lost
      /\ Null \notin Obj /\ Null \notin Weak
  BY Types, FirstTask, GcHeapAssumption DEF IInv, Things, ReleaseWeak
<1>1. /\ \A u \in Weak : weak[u].refs \in Nat /\ weak[u].obj \in Obj \cup {Null}
      /\ \A q \in Obj : heap[q].refs \in Nat /\ heap[q].weak \in Weak \cup {Null}
  BY <1>0 DEF WeakType, ObjType
<1>2. weak[w].refs > 0 /\ weak[w].live
  <2>1. Held(w)
    BY <1>0 DEF Held
  <2>. QED BY <1>0, <2>1, HeldFacts
<1>3. PICK p : p = <<>>
  OBVIOUS
<1>4. p \in Seq(Task) /\ (\A x \in Things : Pending(p, x) = 0) /\ (\A k \in 1 .. Len(p) : p[k].op = "release")
  BY <1>3, EmptyPending
<1>5. work' = p \o Tail(work)
  BY <1>0, <1>3, HeadTailProperties DEF ReleaseWeak
\* What the object is told, and what becomes of the weak reference.
<1>6. /\ heap' \in [Obj -> ObjType]
      /\ \A q \in Obj : /\ heap'[q].refs = heap[q].refs /\ heap'[q].kind = heap[q].kind
                        /\ heap'[q].slots = heap[q].slots
                        /\ heap'[q].weak = IF weak[w].refs = 1 /\ weak[w].obj = q THEN Null ELSE heap[q].weak
                        /\ heap[q].kind = "free" => heap'[q] = heap[q]
  <2>1. CASE weak[w].refs = 1 /\ weak[w].obj # Null
    <3>1. PICK o \in Obj : o = weak[w].obj
      BY <1>1, <2>1
    <3>2. PICK t : t = [heap[o] EXCEPT !.weak = Null]
      OBVIOUS
    <3>3. /\ t \in ObjType /\ t.refs = heap[o].refs /\ t.kind = heap[o].kind
          /\ t.slots = heap[o].slots /\ t.weak = Null
      BY <1>0, <3>2 DEF ObjType
    <3>4. heap' = [heap EXCEPT ![o] = t]
      BY <2>1, <3>1, <3>2 DEF ReleaseWeak
    <3>5. heap[o].kind # "free"
      BY <2>1, <3>1 DEF IInv, WeakFits
    <3>. QED BY <1>0, <2>1, <3>1, <3>3, <3>4, <3>5
  <2>2. CASE weak[w].refs # 1 \/ weak[w].obj = Null
    <3>1. heap' = heap
      BY <2>2 DEF ReleaseWeak
    <3>2. \A q \in Obj : ~ (weak[w].refs = 1 /\ weak[w].obj = q)
      BY <1>0, <2>2
    <3>. QED BY <1>0, <3>1, <3>2
  <2>. QED BY <2>1, <2>2
<1>7. /\ weak' \in [Weak -> WeakType]
      /\ weak'[w].refs = weak[w].refs - 1
      /\ weak[w].refs = 1 => weak'[w].obj = Null /\ ~ weak'[w].live
      /\ weak[w].refs # 1 => weak'[w].obj = weak[w].obj /\ (weak'[w].live <=> weak[w].live)
      /\ \A u \in Weak : u # w => weak'[u] = weak[u]
  <2>1. CASE weak[w].refs = 1
    <3>1. NoWeak \in WeakType /\ NoWeak.refs = 0 /\ NoWeak.obj = Null /\ ~ NoWeak.live
      BY DEF NoWeak, WeakType
    <3>2. weak' = [weak EXCEPT ![w] = NoWeak]
      BY <2>1 DEF ReleaseWeak
    <3>. QED BY <1>0, <2>1, <3>1, <3>2
  <2>2. CASE weak[w].refs # 1
    <3>1. PICK t : t = [weak[w] EXCEPT !.refs = weak[w].refs - 1]
      OBVIOUS
    <3>2. t \in WeakType /\ t.refs = weak[w].refs - 1 /\ t.obj = weak[w].obj /\ (t.live <=> weak[w].live)
      <4>1. weak[w].refs - 1 \in Nat
        BY <1>1, <1>2
      <4>. QED BY <1>0, <3>1, <4>1 DEF WeakType
    <3>3. weak' = [weak EXCEPT ![w] = t]
      BY <2>2, <3>1 DEF ReleaseWeak
    <3>. QED BY <1>0, <2>2, <3>2, <3>3
  <2>. QED BY <2>1, <2>2
<1>8. /\ work' \in Seq(Task)
      /\ \A x \in Things : Total(x)' = Total(x) - Releasing(work[1], x)
  <2>1. \A x \in Things : InSlots(x)' = InSlots(x)
    BY <1>6, SlotsKept
  <2>2. ASSUME NEW x \in Things
        PROVE  work' \in Seq(Task) /\ Total(x)' = Total(x) - Releasing(work[1], x)
    <3>1. /\ Total(x)' = Total(x) - InSlots(x) + InSlots(x)' + Pending(p, x) - Releasing(work[1], x)
          /\ Total(x) \in Nat /\ InSlots(x) \in Nat /\ Releasing(work[1], x) \in Nat
          /\ work' \in Seq(Task)
      BY <1>0, <1>4, <1>5, DestroyCounts
    <3>. QED BY <1>4, <2>1, <3>1
  <2>. QED BY <1>0, <2>2
<1>9. TypeOK'
  BY <1>0, <1>6, <1>7, <1>8, Types, TypesAfter
<1>10. ObjectsFit'
  BY <1>6 DEF IInv, ObjectsFit
<1>11. Exact'
  <2>. SUFFICES ASSUME NEW x \in Things PROVE RefsOf(x)' = Total(x)'
    BY DEF Exact
  <2>1. RefsOf(x)' = RefsOf(x) - Releasing(work[1], x)
    <3>1. CASE x = w
      BY <1>0, <1>7, <3>1 DEF RefsOf, Releasing
    <3>2. CASE x # w /\ x \in Obj
      BY <1>0, <1>1, <1>6, <3>2 DEF RefsOf, Releasing
    <3>3. CASE x # w /\ x \in Weak /\ x \notin Obj
      BY <1>0, <1>1, <1>7, <3>3 DEF RefsOf, Releasing
    <3>. QED BY <3>1, <3>2, <3>3 DEF Things
  <2>. QED BY <1>8, <2>1 DEF IInv, Exact
<1>12. ChainsFit'
  BY <1>0, <1>6, ChainsKept DEF IInv
<1>13. WorkFits'
  <2>1. \A q \in Obj : Ending(q)' <=> Ending(q) /\ ~ FreeAt(1, q)
    BY <1>6 DEF Ending, FreeAt
  <2>2. \A q \in Obj, i \in Slot :
             heap'[q].slots[i] # Null => heap[q].slots[i] # Null /\ ~ DropAt(1, q, i)
    BY <1>6 DEF DropAt
  <2>. QED BY <1>0, <1>4, <1>5, <2>1, <2>2, WorkGoesOn DEF IInv
<1>14. WeakFits'
  <2>0. WeakFits
    BY DEF IInv
  <2>1. ASSUME NEW u \in Weak
        PROVE  /\ weak'[u].live <=> weak'[u].refs > 0
               /\ ~ weak'[u].live => weak'[u].obj = Null
    <3>1. CASE u = w
      BY <1>1, <1>2, <1>7, <3>1
    <3>2. CASE u # w
      BY <1>7, <2>0, <3>2 DEF WeakFits
    <3>. QED BY <3>1, <3>2
  <2>2. ASSUME NEW u \in Weak, weak'[u].obj # Null
        PROVE  heap'[weak'[u].obj].kind # "free" /\ heap'[weak'[u].obj].weak = u
    <3>1. weak'[u].obj = weak[u].obj /\ weak[u].obj \in Obj /\ ~ (u = w /\ weak[w].refs = 1)
      BY <1>1, <1>7, <2>2
    <3>2. heap[weak[u].obj].kind # "free" /\ heap[weak[u].obj].weak = u
      BY <1>0, <2>0, <3>1 DEF WeakFits
    <3>3. ~ (weak[w].refs = 1 /\ weak[w].obj = weak[u].obj)
      <4>1. weak[w].obj = weak[u].obj => w = u
        BY <1>0, <2>0, <3>1, <3>2 DEF WeakFits
      <4>. QED BY <3>1, <4>1
    <3>. QED BY <1>6, <3>1, <3>2, <3>3
  <2>3. ASSUME NEW q \in Obj, heap'[q].weak # Null
        PROVE  weak'[heap'[q].weak].live /\ weak'[heap'[q].weak].obj = q
    <3>1. heap'[q].weak = heap[q].weak /\ heap[q].weak \in Weak /\ ~ (weak[w].refs = 1 /\ weak[w].obj = q)
      BY <1>1, <1>6, <2>3
    <3>2. weak[heap[q].weak].live /\ weak[heap[q].weak].obj = q
      BY <1>0, <2>0, <3>1 DEF WeakFits
    <3>3. CASE heap[q].weak = w
      BY <1>7, <3>1, <3>2, <3>3
    <3>4. CASE heap[q].weak # w
      BY <1>7, <3>1, <3>2, <3>4
    <3>. QED BY <3>3, <3>4
  <2>. QED BY <2>1, <2>2, <2>3 DEF WeakFits
<1>15. OpenFits'
  <2>1. OpenFits /\ \A r \in Reg : open[r] \in Obj \cup {Null}
    BY <1>0, Types DEF IInv
  <2>. QED BY <1>6, <2>1 DEF OpenFits
<1>16. PhaseFits' /\ MarksFit'
  <2>1. \A q \in Marked : heap'[q].slots = heap[q].slots
    BY <1>0, <1>6, MembersAreObjects
  <2>. QED BY <2>1, DestroyKeepsMarks DEF IInv
<1>. QED BY <1>9, <1>10, <1>11, <1>12, <1>13, <1>14, <1>15, <1>16 DEF IInv

LEMMA DropSlotStep ==
    ASSUME IInv, NEW o \in Obj, NEW i \in Slot, work # <<>>,
           work[1].op = "drop", work[1].obj = o, work[1].slot = i,
           DropSlot(o, i), UNCHANGED <<stack, open, tchain, cur, phase>>
    PROVE  IInv'
<1>0. /\ TypeOK /\ heap \in [Obj -> ObjType] /\ o \in Things /\ weak' = weak /\ Null \in Ref
      /\ 1 \in 1 .. Len(work) /\ work \in Seq(Task) /\ chain' = chain /\ lost' = lost
  BY Types, FirstTask DEF IInv, Things, DropSlot, Ref
<1>1. heap[o].kind # "free" /\ o \notin Marked
  <2>1. DropAt(1, o, i)
    BY DEF DropAt
  <2>2. CASE o \in Finalized
    <3>1. cur = o
      BY <2>2 DEF Finalized
    <3>2. Held(o)
      BY <3>1 DEF Held
    <3>3. heap[o].kind # "free"
      BY <1>0, <3>2, HeldFacts
    <3>4. o # Null
      BY GcHeapAssumption
    <3>. QED BY <3>1, <3>3, <3>4 DEF IInv, PhaseFits
  <2>3. CASE \E j \in 1 .. Len(work) : FreeAt(j, o)
    <3>1. Ending(o)
      BY <2>3 DEF IInv, WorkFits
    <3>. QED BY <3>1 DEF Ending, IInv, ChainsFit
  <2>. QED BY <1>0, <2>1, <2>2, <2>3 DEF IInv, WorkFits
<1>2. PICK z : z = heap[o].slots[i]
  OBVIOUS
<1>3. z \in Ref
  <2>1. heap[o] \in ObjType
    BY <1>0
  <2>. QED BY <1>2, <2>1, ObjFields
<1>4. PICK p : p = Release(z)
  OBVIOUS
<1>5. p \in Seq(Task) /\ (\A x \in Things : Pending(p, x) = Same(z, x)) /\ (\A k \in 1 .. Len(p) : p[k].op = "release")
  BY <1>3, <1>4, ReleaseFacts
<1>6. work' = p \o Tail(work)
  BY <1>2, <1>4 DEF DropSlot
<1>7. PICK g : g = heap'
  OBVIOUS
<1>8. /\ g \in [Obj -> ObjType]
      /\ \A q \in Obj : /\ g[q].refs = heap[q].refs /\ g[q].kind = heap[q].kind
                        /\ g[q].weak = heap[q].weak
                        /\ q # o => g[q].slots = heap[q].slots
      /\ g[o].slots[i] = Null
      /\ \A q \in Obj, j \in Slot : q # o \/ j # i => g[q].slots[j] = heap[q].slots[j]
  <2>1. PICK h : h = heap
    OBVIOUS
  <2>2. g = Stored(h, o, i, Null)
    BY <1>7, <2>1 DEF DropSlot, Stored
  <2>3. /\ g \in [Obj -> ObjType]
        /\ \A q \in Obj : /\ g[q].refs = h[q].refs /\ g[q].kind = h[q].kind
                          /\ g[q].weak = h[q].weak
                          /\ q # o => g[q].slots = h[q].slots
        /\ g[o].slots[i] = Null
        /\ \A q \in Obj, j \in Slot : q # o \/ j # i => g[q].slots[j] = h[q].slots[j]
    BY <1>0, <2>1, <2>2, SlotSet
  <2>. QED BY <2>1, <2>3
<1>9. \A q \in Obj : q # o => g[q] = heap[q]
  <2>1. heap' = [heap EXCEPT ![o] = heap'[o]]
    BY <1>0 DEF DropSlot
  <2>. QED BY <1>0, <1>7, <2>1
<1>10. /\ work' \in Seq(Task)
       /\ \A x \in Things : Total(x)' = Total(x)
  <2>1. ASSUME NEW x \in Things
        PROVE  work' \in Seq(Task) /\ Total(x)' = Total(x)
    <3>1. /\ Total(x)' = Total(x) - InSlots(x) + InSlots(x)' + Pending(p, x) - Releasing(work[1], x)
          /\ Total(x) \in Nat /\ InSlots(x) \in Nat /\ work' \in Seq(Task)
      BY <1>0, <1>5, <1>6, DestroyCounts
    <3>2. InSlots(x)' = InSlots(x) - Same(heap[o].slots[i], x) + Same(heap'[o].slots[i], x)
      <4>1. \A q \in Obj, j \in Slot : q # o \/ j # i => heap'[q].slots[j] = heap[q].slots[j]
        BY <1>7, <1>8
      <4>. QED BY <4>1, SlotChange
    <3>3. Same(heap'[o].slots[i], x) = 0
      BY <1>7, <1>8, GcHeapAssumption DEF Same, Things
    <3>4. Releasing(work[1], x) = 0
      BY DEF Releasing
    <3>5. Same(z, x) \in Nat /\ Pending(p, x) = Same(z, x)
      BY <1>5 DEF Same
    <3>6. InSlots(x)' = InSlots(x) - Same(z, x) + 0
      BY <1>2, <3>2, <3>3
    <3>. QED BY <3>1, <3>4, <3>5, <3>6
  <2>. QED BY <1>0, <2>1
<1>11. TypeOK'
  BY <1>0, <1>7, <1>8, <1>10, Types, TypesAfter
<1>12. ObjectsFit'
  BY <1>1, <1>7, <1>8, <1>9 DEF IInv, ObjectsFit
<1>13. Exact'
  <2>1. \A x \in Things : RefsOf(x)' = RefsOf(x)
    BY <1>0, <1>7, <1>8 DEF RefsOf
  <2>. QED BY <1>10, <2>1 DEF IInv, Exact
<1>14. ChainsFit'
  BY <1>0, <1>7, <1>8, ChainsKept DEF IInv
<1>15. WorkFits'
  <2>1. \A q \in Obj : Ending(q)' <=> Ending(q) /\ ~ FreeAt(1, q)
    BY <1>7, <1>8 DEF Ending, FreeAt
  <2>2. \A q \in Obj, j \in Slot :
             heap'[q].slots[j] # Null => heap[q].slots[j] # Null /\ ~ DropAt(1, q, j)
    BY <1>7, <1>8 DEF DropAt
  <2>. QED BY <1>0, <1>5, <1>6, <2>1, <2>2, WorkGoesOn DEF IInv
<1>16. WeakFits'
  <2>1. PICK y : y = Null
    OBVIOUS
  <2>2. \A w \in Weak : /\ weak'[w].refs = weak[w].refs + Same(y, w)
                        /\ weak'[w].obj = weak[w].obj /\ (weak'[w].live <=> weak[w].live)
    BY <1>0, <2>1, Types, GcHeapAssumption DEF Same, WeakType
  <2>3. \A q \in Obj : /\ heap'[q].weak = heap[q].weak
                       /\ heap[q].kind # "free" => heap'[q].kind # "free"
    BY <1>7, <1>8
  <2>4. y \notin Weak
    BY <2>1, GcHeapAssumption
  <2>5. WeakFits
    BY DEF IInv
  <2>. QED BY <1>0, <1>11, <2>2, <2>3, <2>4, <2>5, PairsKept
<1>17. OpenFits'
  <2>1. OpenFits /\ \A r \in Reg : open[r] \in Obj \cup {Null}
    BY <1>0, Types DEF IInv
  <2>2. ASSUME heap[o].slots = NoSlots PROVE heap'[o].slots = NoSlots
    <3>1. g[o].slots \in [Slot -> Ref] /\ NoSlots \in [Slot -> Ref]
      BY <1>8, ObjFields, UnusedFacts
    <3>2. \A j \in Slot : g[o].slots[j] = NoSlots[j]
      BY <1>8, <2>2, UnusedFacts
    <3>3. PICK a \in [Slot -> Ref] : a = g[o].slots
      BY <3>1
    <3>4. PICK b \in [Slot -> Ref] : b = NoSlots
      BY <3>1
    <3>5. a = b
      BY <3>2, <3>3, <3>4
    <3>. QED BY <1>7, <3>3, <3>4, <3>5
  <2>3. \A r \in Reg : open'[r] # Null =>
            heap'[open'[r]].kind = "outer" /\ heap'[open'[r]].slots = NoSlots
    BY <1>7, <1>8, <2>1, <2>2 DEF OpenFits
  <2>. QED BY <2>1, <2>3 DEF OpenFits
<1>18. PhaseFits' /\ MarksFit'
  <2>1. \A q \in Marked : heap'[q].slots = heap[q].slots
    BY <1>0, <1>1, <1>7, <1>9, MembersAreObjects
  <2>. QED BY <2>1, DestroyKeepsMarks DEF IInv
<1>. QED BY <1>11, <1>12, <1>13, <1>14, <1>15, <1>16, <1>17, <1>18 DEF IInv

LEMMA FreeStep ==
    ASSUME IInv, NEW o \in Obj, work # <<>>, work[1].op = "free", work[1].obj = o,
           Free(o), UNCHANGED <<stack, open, tchain, cur, phase>>
    PROVE  IInv'
<1>0. /\ TypeOK /\ heap \in [Obj -> ObjType] /\ weak \in [Weak -> WeakType] /\ o \in Things
      /\ 1 \in 1 .. Len(work) /\ work \in Seq(Task) /\ chain' = chain /\ lost' = lost
      /\ Null \notin Obj /\ Null \notin Weak
  BY Types, FirstTask, GcHeapAssumption DEF IInv, Things, Free
<1>1. /\ \A u \in Weak : weak[u].refs \in Nat /\ weak[u].obj \in Obj \cup {Null}
      /\ \A q \in Obj : heap[q].refs \in Nat /\ heap[q].weak \in Weak \cup {Null}
  BY <1>0 DEF WeakType, ObjType
<1>2. FreeAt(1, o)
  BY DEF FreeAt
<1>3. /\ heap[o].kind # "free" /\ heap[o].refs = 0 /\ o \notin Marked
      /\ \A i \in Slot : heap[o].slots[i] = Null
  <2>1. Ending(o) /\ \A i \in Slot : heap[o].slots[i] # Null =>
                        \E j \in 1 .. Len(work) : j < 1 /\ DropAt(j, o, i)
    BY <1>0, <1>2 DEF IInv, WorkFits
  <2>2. \A j \in 1 .. Len(work) : ~ (j < 1)
    OBVIOUS
  <2>3. o \notin Marked
    BY <2>1 DEF Ending, IInv, ChainsFit
  <2>. QED BY <2>1, <2>2, <2>3 DEF Ending
<1>4. ~ Held(o)
  BY <1>0, <1>3, HeldFacts
<1>5. PICK p : p = <<>>
  OBVIOUS
<1>6. p \in Seq(Task) /\ (\A x \in Things : Pending(p, x) = 0) /\ (\A k \in 1 .. Len(p) : p[k].op = "release")
  BY <1>5, EmptyPending
<1>7. work' = p \o Tail(work)
  BY <1>0, <1>5, HeadTailProperties DEF Free
<1>8. /\ heap' \in [Obj -> ObjType] /\ heap'[o] = Unused
      /\ \A q \in Obj : q # o => heap'[q] = heap[q]
  BY <1>0, UnusedFacts DEF Free
<1>9. /\ weak' \in [Weak -> WeakType]
      /\ \A u \in Weak : /\ weak'[u].refs = weak[u].refs /\ (weak'[u].live <=> weak[u].live)
                         /\ weak'[u].obj = IF heap[o].weak = u THEN Null ELSE weak[u].obj
  <2>1. CASE heap[o].weak = Null
    BY <1>0, <2>1 DEF Free
  <2>2. CASE heap[o].weak # Null
    <3>1. PICK w \in Weak : w = heap[o].weak
      BY <1>1, <2>2
    <3>2. PICK t : t = [weak[w] EXCEPT !.obj = Null]
      OBVIOUS
    <3>3. t \in WeakType /\ t.refs = weak[w].refs /\ t.obj = Null /\ (t.live <=> weak[w].live)
      BY <1>0, <3>2 DEF WeakType
    <3>4. weak' = [weak EXCEPT ![w] = t]
      BY <2>2, <3>1, <3>2 DEF Free
    <3>. QED BY <1>0, <3>1, <3>3, <3>4
  <2>. QED BY <2>1, <2>2
<1>10. /\ work' \in Seq(Task)
       /\ \A x \in Things : Total(x)' = Total(x)
  <2>1. \A x \in Things : InSlots(x)' = InSlots(x)
    <3>1. \A q \in Obj, j \in Slot : heap'[q].slots[j] = heap[q].slots[j]
      BY <1>3, <1>8, UnusedFacts
    <3>. QED BY <3>1, SlotsKept
  <2>2. ASSUME NEW x \in Things
        PROVE  work' \in Seq(Task) /\ Total(x)' = Total(x)
    <3>1. /\ Total(x)' = Total(x) - InSlots(x) + InSlots(x)' + Pending(p, x) - Releasing(work[1], x)
          /\ Total(x) \in Nat /\ InSlots(x) \in Nat /\ work' \in Seq(Task)
      BY <1>0, <1>6, <1>7, DestroyCounts
    <3>2. Releasing(work[1], x) = 0
      BY DEF Releasing
    <3>. QED BY <1>6, <2>1, <3>1, <3>2
  <2>. QED BY <1>0, <2>2
<1>11. TypeOK'
  BY <1>0, <1>8, <1>9, <1>10, Types, TypesAfter
<1>12. ObjectsFit'
  BY <1>8 DEF IInv, ObjectsFit
<1>13. \A q \in Obj : heap'[q].refs = heap[q].refs
  BY <1>3, <1>8, UnusedFacts
<1>14. Exact'
  <2>1. \A x \in Things : RefsOf(x)' = RefsOf(x)
    BY <1>9, <1>13 DEF RefsOf, Things
  <2>. QED BY <1>10, <2>1 DEF IInv, Exact
<1>15. ChainsFit'
  BY <1>0, <1>13, ChainsKept DEF IInv
<1>16. WorkFits'
  <2>1. \A q \in Obj : Ending(q)' <=> Ending(q) /\ ~ FreeAt(1, q)
    <3>1. ~ Ending(o)'
      BY <1>8, UnusedFacts DEF Ending
    <3>2. \A q \in Obj : q # o => (Ending(q)' <=> Ending(q)) /\ ~ FreeAt(1, q)
      BY <1>8 DEF Ending, FreeAt
    <3>. QED BY <1>2, <3>1, <3>2
  <2>2. \A q \in Obj, j \in Slot :
             heap'[q].slots[j] # Null => heap[q].slots[j] # Null /\ ~ DropAt(1, q, j)
    BY <1>8, UnusedFacts DEF DropAt
  <2>. QED BY <1>0, <1>6, <1>7, <2>1, <2>2, WorkGoesOn DEF IInv
<1>17. WeakFits'
  <2>0. WeakFits
    BY DEF IInv
  <2>1. ASSUME NEW u \in Weak
        PROVE  /\ weak'[u].live <=> weak'[u].refs > 0
               /\ ~ weak'[u].live => weak'[u].obj = Null
    BY <1>9, <2>0 DEF WeakFits
  <2>2. ASSUME NEW u \in Weak, weak'[u].obj # Null
        PROVE  heap'[weak'[u].obj].kind # "free" /\ heap'[weak'[u].obj].weak = u
    <3>1. weak'[u].obj = weak[u].obj /\ weak[u].obj \in Obj /\ heap[o].weak # u
      BY <1>1, <1>9, <2>2
    <3>2. heap[weak[u].obj].kind # "free" /\ heap[weak[u].obj].weak = u
      BY <1>0, <2>0, <3>1 DEF WeakFits
    <3>3. weak[u].obj # o
      BY <3>1, <3>2
    <3>. QED BY <1>8, <3>1, <3>2, <3>3
  <2>3. ASSUME NEW q \in Obj, heap'[q].weak # Null
        PROVE  weak'[heap'[q].weak].live /\ weak'[heap'[q].weak].obj = q
    <3>1. q # o
      BY <1>8, <2>3, UnusedFacts
    <3>2. heap'[q].weak = heap[q].weak /\ heap[q].weak \in Weak
      BY <1>1, <1>8, <2>3, <3>1
    <3>3. weak[heap[q].weak].live /\ weak[heap[q].weak].obj = q
      BY <1>0, <2>0, <3>2 DEF WeakFits
    <3>4. heap[o].weak # heap[q].weak
      <4>1. heap[o].weak # Null => weak[heap[o].weak].obj = o
        BY <2>0 DEF WeakFits
      <4>. QED BY <1>0, <3>1, <3>2, <3>3, <4>1
    <3>. QED BY <1>9, <3>2, <3>3, <3>4
  <2>. QED BY <2>1, <2>2, <2>3 DEF WeakFits
<1>18. OpenFits'
  <2>1. OpenFits /\ \A r \in Reg : open[r] \in Obj \cup {Null}
    BY <1>0, Types DEF IInv
  <2>2. \A r \in Reg : open[r] # o
    BY <1>4 DEF Held
  <2>. QED BY <1>8, <2>1, <2>2 DEF OpenFits
<1>19. PhaseFits' /\ MarksFit'
  <2>1. \A q \in Marked : heap'[q].slots = heap[q].slots
    BY <1>0, <1>3, <1>8, MembersAreObjects
  <2>. QED BY <2>1, DestroyKeepsMarks DEF IInv
<1>. QED BY <1>11, <1>12, <1>14, <1>15, <1>16, <1>17, <1>18, <1>19 DEF IInv

LEMMA DestroyStep ==
    ASSUME IInv, Destroy
    PROVE  IInv'
<1>1. TypeOK /\ work # <<>> /\ UNCHANGED <<stack, open, tchain, cur, phase>>
  BY DEF IInv, Destroy
<1>2. Head(work) = work[1] /\ work[1] \in Task
  BY <1>1, FirstTask
<1>3. PICK t \in Task : t = work[1]
  BY <1>2
<1>4. /\ t.op \in {"release", "drop", "free"}
      /\ t.op = "release" => t.obj \in Things
      /\ t.op = "drop" => t.obj \in Obj /\ t.slot \in Slot
      /\ t.op = "free" => t.obj \in Obj
  BY TaskFacts
<1>5. \/ t.op = "release" /\ t.obj \in Obj /\ ReleaseObject(t.obj)
      \/ t.op = "release" /\ t.obj \in Weak /\ ReleaseWeak(t.obj)
      \/ t.op = "drop" /\ DropSlot(t.obj, t.slot)
      \/ t.op = "free" /\ Free(t.obj)
  BY <1>2, <1>3 DEF Destroy
<1>6. CASE t.op = "release" /\ t.obj \in Obj /\ ReleaseObject(t.obj)
  BY <1>1, <1>3, <1>6, ReleaseObjectStep
<1>7. CASE t.op = "release" /\ t.obj \in Weak /\ ReleaseWeak(t.obj)
  BY <1>1, <1>3, <1>7, ReleaseWeakStep
<1>8. CASE t.op = "drop" /\ DropSlot(t.obj, t.slot)
  BY <1>1, <1>3, <1>4, <1>8, DropSlotStep
<1>9. CASE t.op = "free" /\ Free(t.obj)
  BY <1>1, <1>3, <1>4, <1>9, FreeStep
<1>. QED BY <1>5, <1>6, <1>7, <1>8, <1>9

----------------------------------------------------------------------------
(* Steps of the collector.                                                 *)

LEMMA WorkKept ==
    ASSUME WorkFits, heap' = heap, work' = work, Finalized' = Finalized
    PROVE  WorkFits'
<1>1. \A o \in Obj : \A j, k \in 1 .. Len(work)' : FreeAt(j, o)' /\ FreeAt(k, o)' => j = k
  BY DEF WorkFits, FreeAt
<1>2. \A o \in Obj : \A k \in 1 .. Len(work)' : FreeAt(k, o)' =>
          /\ Ending(o)'
          /\ \A i \in Slot : heap'[o].slots[i] # Null =>
                \E j \in 1 .. Len(work)' : j < k /\ DropAt(j, o, i)'
  BY DEF WorkFits, FreeAt, DropAt, Ending
<1>3. \A o \in Obj : \A i \in Slot : \A k \in 1 .. Len(work)' : DropAt(k, o, i)' =>
          o \in Finalized' \/ \E j \in 1 .. Len(work)' : k < j /\ FreeAt(j, o)'
  BY DEF WorkFits, FreeAt, DropAt
<1>4. \A o \in Obj : Ending(o)' => \E k \in 1 .. Len(work)' : FreeAt(k, o)'
  BY DEF WorkFits, FreeAt, Ending
<1>. QED BY ONLY <1>1, <1>2, <1>3, <1>4 DEF WorkFits

LEMMA InitIInv == Init => IInv
<1>. SUFFICES ASSUME Init PROVE IInv
  OBVIOUS
<1>0. /\ heap = [o \in Obj |-> Unused] /\ weak = [w \in Weak |-> NoWeak]
      /\ stack = [r \in Reg |-> Null] /\ open = [r \in Reg |-> Null]
      /\ chain = <<>> /\ lost = {} /\ tchain = <<>> /\ work = <<>> /\ cur = Null /\ phase = "run"
  BY DEF Init
<1>1. TypeOK
  <2>1. NoWeak \in WeakType /\ Null \in Ref /\ phase \in Phase
    BY <1>0 DEF NoWeak, WeakType, Ref, Phase
  <2>. QED BY <1>0, <2>1, UnusedFacts, Types
<1>2. ObjectsFit
  BY <1>0 DEF ObjectsFit
<1>3. \A x \in Things : ~ Held(x)
  BY <1>0, UnusedFacts, GcHeapAssumption DEF Held, Things
<1>4. \A o \in Obj : heap[o].refs = 0 /\ heap[o].kind = "free" /\ heap[o].weak = Null
  BY <1>0, UnusedFacts
<1>5. \A w \in Weak : weak[w].refs = 0 /\ weak[w].obj = Null /\ ~ weak[w].live
  BY <1>0 DEF NoWeak
<1>6. Exact
  <2>1. \A x \in Things : RefsOf(x) = 0
    BY <1>4, <1>5 DEF RefsOf, Things
  <2>2. \A x \in Things : Total(x) \in Nat /\ ~ (Total(x) > 0)
    BY <1>1, <1>3, TotalPositive, TotalType
  <2>. QED BY <2>1, <2>2 DEF Exact
<1>7. ChainsFit
  <2>1. ToSet(<<>>) = {} /\ Listed(<<>>)
    BY EmptyListed
  <2>2. ListsFit(Lists) /\ Unmarked = {} /\ Marked = {}
    BY <1>0, <2>1 DEF ListsFit, Lists, Unmarked, Members, Marked
  <2>. QED BY <1>0, <1>4, <2>1, <2>2 DEF ChainsFit
<1>8. WorkFits
  <2>1. Len(work) = 0
    BY <1>0
  <2>2. \A o \in Obj : ~ Ending(o)
    BY <1>4 DEF Ending
  <2>. QED BY <2>1, <2>2 DEF WorkFits
<1>9. WeakFits
  BY <1>4, <1>5 DEF WeakFits
<1>10. OpenFits
  BY <1>0 DEF OpenFits
<1>11. PhaseFits /\ MarksFit
  BY <1>0, EmptyListed DEF PhaseFits, MarksFit, InCollection, InSweep, Marked
<1>. QED BY <1>1, <1>2, <1>6, <1>7, <1>8, <1>9, <1>10, <1>11 DEF IInv

\* A step from one phase to the next that changes nothing else.
LEMMA PhaseStep ==
    ASSUME IInv, work = <<>>, phase' \in Phase,
           UNCHANGED <<heap, weak, stack, open, chain, lost, tchain, work, cur>>,
           phase' \notin {"next", "closeNext"},
           cur # Null => InSweep', tchain = <<>> \/ InCollection',
           phase' \in {"marked", "sweep"} => Found = {}
    PROVE  IInv'
<1>0. TypeOK /\ Len(work) = 0 /\ Len(work)' = 0
  BY DEF IInv
<1>1. TypeOK'
  BY <1>0, Types, TypesAfter
<1>2. ObjectsFit' /\ WeakFits' /\ OpenFits'
  BY DEF IInv, ObjectsFit, WeakFits, OpenFits
<1>3. Exact'
  <2>1. \A x \in Things : RefsOf(x)' = RefsOf(x) /\ Total(x)' = Total(x)
    BY DEF RefsOf, Total, InRegisters, InOpen, InSlots
  <2>. QED BY <2>1 DEF IInv, Exact
<1>4. ChainsFit'
  BY ChainsKept DEF IInv
<1>5. WorkFits'
  <2>1. \A o \in Obj : Ending(o)' <=> Ending(o)
    BY DEF Ending
  <2>2. \A o \in Obj : ~ Ending(o)
    BY ONLY IInv, work = <<>>, QuietFacts DEF Ending
  <2>3. 1 .. Len(work)' = {}
    BY ONLY <1>0
  <2>. QED BY <2>1, <2>2, <2>3 DEF WorkFits
<1>6. PhaseFits' /\ MarksFit'
  <2>1. Marked' = Marked /\ Roots' = Roots /\ (\A o \in Marked : Children(o)' = Children(o)) /\ Found' = Found
    <3>1. Marked' = Marked /\ Roots' = Roots
      BY DEF Marked, Roots
    <3>2. \A o : Children(o)' = Children(o)
      BY DEF Children
    <3>3. Found' = Found
      BY <3>1, <3>2 DEF Found
    <3>. QED BY <3>1, <3>2, <3>3
  <2>2. PhaseFits'
    BY <2>1 DEF IInv, PhaseFits
  <2>3. MarksFit'
    BY <2>1 DEF IInv, MarksFit
  <2>. QED BY <2>2, <2>3
<1>. QED BY <1>1, <1>2, <1>3, <1>4, <1>5, <1>6 DEF IInv

LEMMA StartMarkStep == ASSUME IInv, StartMark PROVE IInv'
<1>1. phase = "run" /\ work = <<>> /\ phase' = "mark"
      /\ UNCHANGED <<heap, weak, stack, open, chain, lost, tchain, work, cur>>
  BY DEF StartMark, Idle
<1>2. cur = Null /\ tchain = <<>>
  BY <1>1 DEF IInv, PhaseFits, InSweep, InCollection
<1>. QED BY <1>1, <1>2, PhaseStep DEF Phase

LEMMA EndMarkStep == ASSUME IInv, EndMark PROVE IInv'
<1>1. phase = "mark" /\ phase' = "marked" /\ Found = {}
      /\ UNCHANGED <<heap, weak, stack, open, chain, lost, tchain, work, cur>>
  BY DEF EndMark
<1>2. cur = Null /\ work = <<>>
  BY <1>1 DEF IInv, PhaseFits, InSweep
<1>. QED BY <1>1, <1>2, PhaseStep DEF Phase, InCollection

LEMMA CloseStep == ASSUME IInv, Close PROVE IInv'
<1>1. phase = "run" /\ work = <<>> /\ phase' = "close"
      /\ UNCHANGED <<heap, weak, stack, open, chain, lost, tchain, work, cur>>
  BY DEF Close, Idle
<1>2. cur = Null /\ tchain = <<>>
  BY <1>1 DEF IInv, PhaseFits, InSweep, InCollection
<1>. QED BY <1>1, <1>2, PhaseStep DEF Phase

LEMMA ClosedStep == ASSUME IInv, Closed PROVE IInv'
<1>1. phase = "closeSweep" /\ work = <<>> /\ phase' = "closed" /\ cur = Null
      /\ UNCHANGED <<heap, weak, stack, open, chain, lost, tchain, work, cur>>
  BY DEF Closed
<1>2. tchain = <<>>
  BY <1>1 DEF IInv, PhaseFits, InCollection
<1>. QED BY <1>1, <1>2, PhaseStep DEF Phase

LEMMA MarkStep ==
    ASSUME IInv, NEW o \in Obj, Mark(o)
    PROVE  IInv'
<1>0. /\ TypeOK /\ phase = "mark" /\ o \in Found
      /\ UNCHANGED <<heap, weak, stack, open, work, cur, phase>>
      /\ SetLists(Unchained(Lists, o)) /\ tchain' = <<o>> \o tchain
  BY DEF IInv, Mark
<1>1. o \notin Marked /\ (o \in Roots \/ \E p \in Marked : o \in Children(p))
  BY <1>0 DEF Found
<1>2. o \in Unmarked
  <2>1. Held(o)
    <3>1. CASE o \in Roots
      BY <3>1 DEF Roots, Held
    <3>2. CASE \E p \in Marked : o \in Children(p)
      BY <1>0, <3>2, MembersAreObjects DEF Children, Held
    <3>. QED BY <1>1, <3>1, <3>2
  <2>2. o \in Things
    BY DEF Things
  <2>. QED BY <1>1, <2>1, <2>2, HeldFacts
<1>3. PICK l : l = Lists
  OBVIOUS
<1>4. PICK m : m = Normal(Unchained(l, o))
  OBVIOUS
<1>5. ListsFit(m) /\ Members(m) = Unmarked \ {o}
  <2>1. l = [main |-> chain, lost |-> lost] /\ ListsFit(l) /\ o \in Members(l)
    BY <1>2, <1>3 DEF Lists, IInv, ChainsFit, Unmarked
  <2>2. Members(m) = Members(l) \ {o} /\ ListsFit(m)
    BY <1>4, <2>1, UnchainedFacts
  <2>. QED BY <1>3, <2>2 DEF Unmarked
<1>6. Lists' = m
  <2>1. chain' = m.main /\ lost' = m.lost
    BY <1>0, <1>3, <1>4 DEF SetLists, Normal
  <2>2. m = [main |-> m.main, lost |-> m.lost]
    BY <1>4 DEF Normal
  <2>. QED BY <2>1, <2>2 DEF Lists
<1>7. ListsFit(Lists)' /\ Unmarked' = Unmarked \ {o}
  BY <1>5, <1>6 DEF Unmarked
<1>8. Listed(tchain') /\ Marked' = Marked \cup {o}
  <2>1. PICK new : new = <<o>>
    OBVIOUS
  <2>2. Listed(new) /\ ToSet(new) = {o}
    BY <2>1, SingleListed
  <2>3. Listed(tchain) /\ Disjoint(new, tchain)
    BY <1>1, <2>2 DEF IInv, ChainsFit, Disjoint, Marked
  <2>4. PICK t : t = tchain
    OBVIOUS
  <2>5. Listed(new \o t) /\ ToSet(new \o t) = ToSet(new) \cup ToSet(t)
    BY <2>2, <2>3, <2>4, ConcatListed
  <2>. QED BY <1>0, <2>1, <2>2, <2>4, <2>5 DEF Marked
<1>9. ChainsFit'
  BY <1>0, <1>2, <1>7, <1>8 DEF IInv, ChainsFit
<1>10. TypeOK'
  <2>1. chain' \in Seq(Obj) /\ (\A s \in lost' : s \in Seq(Obj)) /\ tchain' \in Seq(Obj)
    BY <1>7, <1>8 DEF ListsFit, Listed, Lists
  <2>. QED BY <1>0, <2>1, Types, TypesAfter
<1>11. ObjectsFit' /\ WeakFits' /\ OpenFits'
  BY <1>0 DEF IInv, ObjectsFit, WeakFits, OpenFits
<1>12. Exact'
  <2>1. \A x \in Things : RefsOf(x)' = RefsOf(x) /\ Total(x)' = Total(x)
    BY <1>0 DEF RefsOf, Total, InRegisters, InOpen, InSlots
  <2>. QED BY <2>1 DEF IInv, Exact
<1>13. WorkFits'
  <2>1. WorkFits /\ Finalized' = Finalized
    BY <1>0 DEF IInv, Finalized
  <2>. QED BY <1>0, <2>1, WorkKept
<1>14. PhaseFits'
  BY <1>0 DEF IInv, PhaseFits, InSweep, InCollection
<1>15. MarksFit'
  <2>1. Roots' = Roots /\ \A p \in Obj : Children(p)' = Children(p)
    BY <1>0 DEF Roots, Children
  <2>2. Marked \subseteq Obj
    BY <1>0, MembersAreObjects
  <2>. QED BY <1>0, <1>1, <1>8, <2>1, <2>2 DEF IInv, MarksFit
<1>. QED BY <1>9, <1>10, <1>11, <1>12, <1>13, <1>14, <1>15 DEF IInv

\* The loop over _gc_chain of a collection that marked everything, or of lv_close.
SweepGoesOn ==
    /\ phase' \in {"sweep", "closeSweep"}
    /\ phase' = "closeSweep" => tchain = <<>>
    /\ phase' = "sweep" => Found = {}

\* The reference of the sweep goes from one object to the next.
LEMMA CursorStep ==
    ASSUME NEW y \in Obj \cup {Null}, IInv, y \in Obj => y \in Unmarked,
           work = <<>>, work' = Release(cur), heap' = Referenced(heap, y), cur' = y,
           UNCHANGED <<weak, stack, open, chain, lost, tchain>>, SweepGoesOn
    PROVE  IInv'
<1>0. /\ TypeOK /\ heap \in [Obj -> ObjType] /\ cur \in Ref /\ cur \in Obj \cup {Null}
      /\ y \in Ref /\ phase' \in Phase /\ Null \notin Obj
      /\ \A o \in Obj : heap[o].refs \in Nat
  BY Types, ObjFields, GcHeapAssumption DEF IInv, Ref, Phase, SweepGoesOn
<1>1. /\ heap' \in [Obj -> ObjType]
      /\ \A o \in Obj : /\ heap'[o].refs = heap[o].refs + Same(y, o)
                        /\ heap'[o].kind = heap[o].kind
                        /\ heap'[o].slots = heap[o].slots
                        /\ heap'[o].weak = heap[o].weak
                        /\ o # y => heap'[o] = heap[o]
  <2>1. \A o \in Obj : o # y => heap'[o] = heap[o]
    BY <1>0 DEF Referenced
  <2>. QED BY <1>0, <2>1, ReferencedFacts
<1>2. y \in Obj => heap[y].refs > 0 /\ heap[y].kind # "free" /\ y \notin Marked
  <2>1. y \in Obj => heap[y].refs > 0 /\ y \notin Marked
    BY DEF IInv, ChainsFit
  <2>. QED BY <1>0, <2>1, UnusedFacts DEF IInv, ObjectsFit
<1>3. /\ work' \in Seq(Task) /\ Len(work)' \in Nat
      /\ \A k \in 1 .. Len(work)' : work'[k].op = "release"
      /\ \A x \in Things : Pending(work, x)' = Same(cur, x)
  BY <1>0, ReleaseFacts
<1>4. TypeOK'
  BY <1>0, <1>1, <1>3, Types, TypesAfter
<1>5. ObjectsFit'
  BY <1>0, <1>1, <1>2 DEF IInv, ObjectsFit
<1>6. Exact'
  <2>. SUFFICES ASSUME NEW x \in Things PROVE RefsOf(x)' = Total(x)'
    BY DEF Exact
  <2>1. RefsOf(x)' = RefsOf(x) + Same(y, x)
    <3>1. CASE x \in Obj
      BY <1>1, <3>1 DEF RefsOf
    <3>2. CASE x \notin Obj
      <4>1. x \in Weak /\ weak[x].refs \in Nat
        BY <1>0, <3>2, Types DEF Things, WeakType
      <4>2. RefsOf(x)' = RefsOf(x)
        BY <3>2 DEF RefsOf
      <4>3. Same(y, x) = 0
        BY <1>0, <3>2, <4>1, GcHeapAssumption DEF Same
      <4>4. RefsOf(x) = weak[x].refs
        BY <3>2 DEF RefsOf
      <4>. QED BY <4>1, <4>2, <4>3, <4>4
    <3>. QED BY <3>1, <3>2
  <2>2. InRegisters(x)' = InRegisters(x) /\ InOpen(x)' = InOpen(x)
    BY DEF InRegisters, InOpen
  <2>3. InSlots(x)' = InSlots(x)
    BY <1>1, SlotsKept
  <2>4. Total(x)' = InRegisters(x) + InOpen(x) + InSlots(x) + Same(cur, x) + Same(y, x)
    BY <1>3, <2>2, <2>3 DEF Total
  <2>5. RefsOf(x) = InRegisters(x) + InOpen(x) + InSlots(x) + Same(cur, x)
    BY <1>0, TotalWhenQuiet DEF IInv, Exact
  <2>. QED BY <2>1, <2>4, <2>5
<1>7. ChainsFit'
  <2>1. Lists' = Lists /\ Unmarked' = Unmarked /\ Marked' = Marked
    BY DEF Lists, Unmarked, Marked
  <2>2. \A o \in Obj : heap'[o].refs > 0 <=> heap[o].refs > 0
    BY <1>0, <1>1, <1>2 DEF Same
  <2>. QED BY <2>1, <2>2 DEF IInv, ChainsFit
<1>8. WorkFits'
  <2>1. \A o \in Obj : heap[o].kind # "free" <=> heap[o].refs > 0
    BY QuietFacts
  <2>2. \A o \in Obj : ~ Ending(o)'
    BY <1>0, <1>1, <2>1 DEF Ending, Same
  <2>3. \A k \in 1 .. Len(work)' : work'[k].op # "free" /\ work'[k].op # "drop"
    BY <1>3
  <2>. QED BY <2>2, <2>3 DEF WorkFits, FreeAt, DropAt
<1>9. WeakFits'
  <2>1. PICK z : z = Null
    OBVIOUS
  <2>2. \A w \in Weak : /\ weak'[w].refs = weak[w].refs + Same(z, w)
                        /\ weak'[w].obj = weak[w].obj /\ (weak'[w].live <=> weak[w].live)
    BY <1>0, <2>1, Types, GcHeapAssumption DEF Same, WeakType
  <2>3. \A o \in Obj : /\ heap'[o].weak = heap[o].weak
                       /\ heap[o].kind # "free" => heap'[o].kind # "free"
    BY <1>1
  <2>4. z \notin Weak
    BY <2>1, GcHeapAssumption
  <2>5. WeakFits
    BY DEF IInv
  <2>. QED BY <1>0, <1>4, <2>2, <2>3, <2>4, <2>5, PairsKept
<1>10. OpenFits'
  BY <1>0, <1>1, OutersKept DEF IInv
<1>11. PhaseFits' /\ MarksFit'
  <2>1. Marked' = Marked /\ Roots' = Roots
    BY DEF Marked, Roots
  <2>2. Marked \subseteq Obj
    BY <1>0, MembersAreObjects
  <2>3. \A o \in Marked : Children(o)' = Children(o)
    BY <1>1, <2>2 DEF Children
  <2>4. Found' = Found
    BY <2>1, <2>3 DEF Found
  <2>5. PhaseFits'
    BY <1>0, <1>2, <2>1 DEF PhaseFits, InSweep, InCollection, SweepGoesOn
  <2>6. MarksFit'
    BY <2>1, <2>3, <2>4 DEF IInv, MarksFit, SweepGoesOn
  <2>. QED BY <2>5, <2>6
<1>. QED BY <1>4, <1>5, <1>6, <1>7, <1>8, <1>9, <1>10, <1>11 DEF IInv

\* What the loop over _gc_chain starts with.
LEMMA StartSweepStep ==
    ASSUME IInv, NEW at \in {"sweep", "closeSweep"}, StartSweep(at), work = <<>>, work' = work,
           UNCHANGED <<weak, stack, open, chain, lost, tchain>>, cur = Null,
           at = "closeSweep" => tchain = <<>>, at = "sweep" => Found = {}
    PROVE  IInv'
<1>1. PICK y : y = cur'
  OBVIOUS
<1>2. heap' = Referenced(heap, y) /\ phase' = at /\ y = IF chain = <<>> THEN Null ELSE Head(chain)
  BY <1>1 DEF StartSweep
<1>3. y \in Obj \cup {Null} /\ (y \in Obj => y \in Unmarked)
  <2>1. CASE chain = <<>>
    BY <1>2, <2>1, GcHeapAssumption
  <2>2. CASE chain # <<>>
    <3>1. Listed(chain)
      BY DEF IInv, ChainsFit, ListsFit, Lists
    <3>2. Head(chain) \in ToSet(chain)
      BY <2>2, <3>1, TailListed
    <3>3. ToSet(chain) \subseteq Unmarked
      BY DEF Unmarked, Members, Lists
    <3>. QED BY <1>2, <2>2, <3>2, <3>3, MembersAreObjects DEF IInv
  <2>. QED BY <2>1, <2>2
<1>4. work' = Release(cur)
  BY DEF Release
<1>5. SweepGoesOn
  BY <1>2 DEF SweepGoesOn
<1>. QED BY <1>1, <1>2, <1>3, <1>4, <1>5, CursorStep

LEMMA CollectStep == ASSUME IInv, Collect PROVE IInv'
<1>1. /\ phase = "marked" /\ StartSweep("sweep")
      /\ UNCHANGED <<weak, stack, open, chain, lost, tchain, work>>
  BY DEF Collect
<1>2. work = <<>> /\ cur = Null /\ Found = {}
  BY <1>1 DEF IInv, PhaseFits, InSweep, MarksFit
<1>. QED BY <1>1, <1>2, StartSweepStep

LEMMA CloseSweepStep == ASSUME IInv, CloseSweep PROVE IInv'
<1>1. /\ phase = "close" /\ StartSweep("closeSweep") /\ work = <<>>
      /\ UNCHANGED <<weak, stack, open, chain, lost, tchain, work>>
  BY DEF CloseSweep
<1>2. cur = Null /\ tchain = <<>>
  BY <1>1 DEF IInv, PhaseFits, InSweep, InCollection
<1>. QED BY <1>1, <1>2, StartSweepStep

LEMMA SweepNextStep == ASSUME IInv, SweepNext PROVE IInv'
<1>1. /\ phase \in {"next", "closeNext"} /\ work = <<>> /\ work' = Release(cur)
      /\ heap' = Referenced(heap, NextOf(cur)) /\ cur' = NextOf(cur)
      /\ phase' = IF phase = "next" THEN "sweep" ELSE "closeSweep"
      /\ UNCHANGED <<weak, stack, open, chain, lost, tchain>>
  BY DEF SweepNext
<1>2. cur \in Obj /\ cur \notin Marked
  BY <1>1, Types DEF IInv, PhaseFits
<1>3. cur \in Unmarked
  <2>1. Held(cur) /\ cur \in Things
    BY <1>2 DEF Held, Things
  <2>. QED BY <1>2, <2>1, HeldFacts
<1>4. PICK y : y = NextOf(cur)
  OBVIOUS
<1>5. y \in Unmarked \cup {Null}
  BY <1>3, <1>4, NextOfFacts DEF IInv, ChainsFit
<1>6. y \in Obj \cup {Null} /\ (y \in Obj => y \in Unmarked)
  BY <1>5, MembersAreObjects, GcHeapAssumption DEF IInv
<1>7. (phase' = "closeSweep" => tchain = <<>>) /\ (phase' = "sweep" => Found = {})
  BY <1>1 DEF IInv, PhaseFits, MarksFit, InCollection
<1>8. SweepGoesOn
  BY <1>1, <1>7 DEF SweepGoesOn
<1>. QED BY <1>1, <1>4, <1>6, <1>8, CursorStep

LEMMA FinalizeObjectStep == ASSUME IInv, FinalizeObject PROVE IInv'
<1>0. /\ TypeOK /\ phase \in {"sweep", "closeSweep"} /\ work = <<>> /\ work' = Drops(cur)
      /\ phase' = IF phase = "sweep" THEN "next" ELSE "closeNext"
      /\ UNCHANGED <<heap, weak, stack, open, chain, lost, tchain, cur>>
  BY DEF IInv, FinalizeObject, Sweeping
<1>1. PICK o \in Obj : o = cur
  BY <1>0, Types DEF FinalizeObject
<1>2. PICK n : n = Cardinality(Slot)
  OBVIOUS
<1>3. n \in Nat /\ Slot = 1 .. n
  <2>1. IsFiniteSet(Slot) /\ Slot = 1 .. n
    BY <1>2, GcHeapAssumption
  <2>. QED BY <1>2, <2>1, FS_CardinalityType
<1>4. PICK d : d = [i \in 1 .. n |-> [op |-> "drop", obj |-> o, slot |-> i]]
  OBVIOUS
<1>5. d \in Seq(Task) /\ Len(d) = n /\ \A k \in 1 .. n : d[k].op = "drop" /\ d[k].obj = o
  <2>1. \A i \in 1 .. n : d[i] = [op |-> "drop", obj |-> o, slot |-> i]
    BY <1>4
  <2>2. \A i \in Slot : [op |-> "drop", obj |-> o, slot |-> i] \in Task
    BY DEF Task
  <2>3. d \in [1 .. n -> Task]
    BY <1>3, <1>4, <2>2
  <2>4. d \in Seq(Task) /\ Len(d) = n
    BY <1>3, <2>3, IsASeq
  <2>5. ASSUME NEW k \in 1 .. n PROVE d[k].op = "drop" /\ d[k].obj = o
    <3>1. d[k] = [op |-> "drop", obj |-> o, slot |-> k]
      BY <2>1
    <3>. QED BY <3>1
  <2>. QED BY <2>4, <2>5
<1>6. work' = d
  BY <1>0, <1>1, <1>2, <1>4 DEF Drops
<1>7. TypeOK'
  <2>1. phase' \in Phase
    BY <1>0 DEF Phase
  <2>. QED BY <1>0, <1>5, <1>6, <2>1, Types, TypesAfter
<1>8. ObjectsFit' /\ WeakFits' /\ OpenFits'
  BY <1>0 DEF IInv, ObjectsFit, WeakFits, OpenFits
<1>9. Exact'
  <2>. SUFFICES ASSUME NEW x \in Things PROVE RefsOf(x)' = Total(x)'
    BY DEF Exact
  <2>1. RefsOf(x)' = RefsOf(x) /\ InRegisters(x)' = InRegisters(x) /\ InOpen(x)' = InOpen(x)
        /\ InSlots(x)' = InSlots(x)
    BY <1>0 DEF RefsOf, InRegisters, InOpen, InSlots
  <2>2. Pending(d, x) = 0
    <3>1. Releases(d, x) = {}
      BY <1>5 DEF Releases
    <3>. QED BY <3>1, FS_EmptySet DEF Pending
  <2>3. RefsOf(x) = InRegisters(x) + InOpen(x) + InSlots(x) + Same(cur, x)
    BY <1>0, TotalWhenQuiet DEF IInv, Exact
  <2>4. Total(x)' = InRegisters(x) + InOpen(x) + InSlots(x) + 0 + Same(cur, x)
    BY <1>0, <1>6, <2>1, <2>2 DEF Total
  <2>5. InRegisters(x) \in Nat /\ InOpen(x) \in Nat /\ InSlots(x) \in Nat /\ Same(cur, x) \in Nat
    BY PartsType DEF Same
  <2>. QED BY <2>1, <2>3, <2>4, <2>5
<1>10. ChainsFit'
  BY <1>0, ChainsKept DEF IInv
<1>11. WorkFits'
  <2>0. \A q \in Obj : ~ Ending(q)
    <3>1. work = <<>>
      BY <1>0
    <3>. QED BY ONLY IInv, <3>1, QuietFacts DEF Ending
  <2>1. \A q \in Obj : ~ Ending(q)'
    BY <1>0, <2>0 DEF Ending
  <2>2. \A k \in 1 .. Len(work)' : work'[k].op = "drop" /\ work'[k].obj = o
    BY <1>5, <1>6
  <2>3. o \in Finalized'
    BY <1>0, <1>1 DEF Finalized
  <2>. QED BY <2>1, <2>2, <2>3 DEF WorkFits, FreeAt, DropAt
<1>12. PhaseFits' /\ MarksFit'
  <2>1. Marked' = Marked /\ Roots' = Roots /\ \A q : Children(q)' = Children(q)
    BY <1>0 DEF Marked, Roots, Children
  <2>2. Found' = Found
    BY <2>1 DEF Found
  <2>3. PhaseFits'
    BY <1>0, <2>1, Types DEF IInv, PhaseFits, InSweep, InCollection, FinalizeObject
  <2>4. MarksFit'
    BY <1>0, <2>1, <2>2 DEF IInv, MarksFit
  <2>. QED BY <2>3, <2>4
<1>. QED BY <1>7, <1>8, <1>9, <1>10, <1>11, <1>12 DEF IInv

\* Two chains become one, and what is left in the first is cut off.
LEMMA SplitFacts ==
    ASSUME NEW l, ListsFit(l), l.lost = l.lost \ {<<>>}, NEW t, Listed(t),
           Members(l) \cap ToSet(t) = {}, NEW m,
           m = Normal([main |-> t, lost |-> l.lost \cup {l.main}])
    PROVE  ListsFit(m) /\ Members(m) = Members(l) \cup ToSet(t)
<1>1. m.main = t /\ m.lost = (l.lost \cup {l.main}) \ {<<>>}
  BY DEF Normal
<1>2. /\ Listed(l.main) /\ \A s \in l.lost : Listed(s) /\ s # <<>> /\ Disjoint(s, l.main)
      /\ \A s, r \in l.lost : s # r => Disjoint(s, r)
  BY DEF ListsFit
<1>3. \A s \in l.lost \cup {l.main} : Listed(s) /\ ToSet(s) \subseteq Members(l)
  BY <1>2 DEF Members
<1>4. \A s \in m.lost : Listed(s) /\ s # <<>> /\ Disjoint(s, t)
  BY <1>1, <1>3 DEF Disjoint
<1>5. \A s, r \in m.lost : s # r => Disjoint(s, r)
  BY <1>1, <1>2 DEF Disjoint
<1>6. ListsFit(m)
  BY ZenonT(30), <1>1, <1>4, <1>5 DEF ListsFit
<1>7. l.main = <<>> => ToSet(l.main) = {}
  BY EmptyListed
<1>8. Members(m) = Members(l) \cup ToSet(t)
  BY <1>1, <1>2, <1>7 DEF Members
<1>. QED BY <1>6, <1>8

LEMMA EndSweepStep == ASSUME IInv, EndSweep PROVE IInv'
<1>0. /\ TypeOK /\ phase = "sweep" /\ work = <<>> /\ cur = Null
      /\ chain' = tchain /\ lost' = (lost \cup {chain}) \ {<<>>}
      /\ tchain' = <<>> /\ phase' = "run"
      /\ UNCHANGED <<heap, weak, stack, open, work, cur>>
  BY DEF IInv, EndSweep, SetLists
<1>1. PICK l : l = Lists
  OBVIOUS
<1>2. PICK m : m = Normal([main |-> tchain, lost |-> l.lost \cup {l.main}])
  OBVIOUS
<1>3. l.main = chain /\ l.lost = lost
  BY <1>1 DEF Lists
<1>4. ListsFit(m) /\ Members(m) = Unmarked \cup Marked
  <2>1. ListsFit(l) /\ Listed(tchain) /\ Members(l) = Unmarked /\ Members(l) \cap ToSet(tchain) = {}
    BY <1>1 DEF IInv, ChainsFit, Unmarked, Marked
  <2>2. l.lost = l.lost \ {<<>>}
    BY <2>1 DEF ListsFit
  <2>3. PICK t : t = tchain
    OBVIOUS
  <2>4. ListsFit(m) /\ Members(m) = Members(l) \cup ToSet(t)
    BY <1>2, <2>1, <2>2, <2>3, SplitFacts
  <2>. QED BY <2>1, <2>3, <2>4 DEF Marked
<1>5. Lists' = m
  BY <1>0, <1>2, <1>3 DEF Lists, Normal
<1>6. ListsFit(Lists)' /\ Unmarked' = Unmarked \cup Marked
  BY <1>4, <1>5 DEF Unmarked
<1>7. Listed(tchain') /\ Marked' = {}
  BY <1>0, EmptyListed DEF Marked
<1>8. ChainsFit'
  BY <1>0, <1>6, <1>7 DEF IInv, ChainsFit
<1>9. TypeOK'
  <2>1. chain' \in Seq(Obj) /\ (\A s \in lost' : s \in Seq(Obj)) /\ tchain' \in Seq(Obj)
    BY <1>6, <1>7 DEF ListsFit, Listed, Lists
  <2>2. phase' \in Phase
    BY <1>0 DEF Phase
  <2>. QED BY <1>0, <2>1, <2>2, Types, TypesAfter
<1>10. ObjectsFit' /\ WeakFits' /\ OpenFits'
  BY <1>0 DEF IInv, ObjectsFit, WeakFits, OpenFits
<1>11. Exact'
  <2>1. \A x \in Things : RefsOf(x)' = RefsOf(x) /\ Total(x)' = Total(x)
    BY <1>0 DEF RefsOf, Total, InRegisters, InOpen, InSlots
  <2>. QED BY <2>1 DEF IInv, Exact
<1>12. WorkFits'
  <2>1. \A q \in Obj : ~ Ending(q)
    <3>1. work = <<>>
      BY <1>0
    <3>. QED BY ONLY IInv, <3>1, QuietFacts DEF Ending
  <2>2. \A q \in Obj : ~ Ending(q)'
    BY <1>0, <2>1 DEF Ending
  <2>3. 1 .. Len(work)' = {}
    BY <1>0
  <2>. QED BY <2>2, <2>3 DEF WorkFits
<1>13. PhaseFits' /\ MarksFit'
  BY <1>0, <1>7 DEF PhaseFits, MarksFit, InSweep, InCollection
<1>. QED BY <1>8, <1>9, <1>10, <1>11, <1>12, <1>13 DEF IInv

\* A list that goes on with another.
LEMMA JoinedFacts ==
    ASSUME NEW l, ListsFit(l), NEW t, Listed(t), Members(l) \cap ToSet(t) = {}, NEW m,
           m = Normal([main |-> l.main \o t, lost |-> l.lost])
    PROVE  ListsFit(m) /\ Members(m) = Members(l) \cup ToSet(t)
<1>1. m.main = l.main \o t /\ m.lost = l.lost
  BY DEF Normal, ListsFit
<1>2. /\ Listed(l.main) /\ \A s \in l.lost : Listed(s) /\ s # <<>> /\ Disjoint(s, l.main)
      /\ \A s, r \in l.lost : s # r => Disjoint(s, r)
  BY DEF ListsFit
<1>3. ToSet(l.main) \subseteq Members(l) /\ \A s \in l.lost : ToSet(s) \subseteq Members(l)
  BY DEF Members
<1>4. Listed(m.main) /\ ToSet(m.main) = ToSet(l.main) \cup ToSet(t)
  <2>1. PICK s : s = l.main
    OBVIOUS
  <2>2. Listed(s) /\ Disjoint(s, t)
    BY <1>2, <1>3, <2>1 DEF Disjoint
  <2>. QED BY <1>1, <2>1, <2>2, ConcatListed
<1>5. \A s \in m.lost : Listed(s) /\ s # <<>> /\ Disjoint(s, m.main)
  BY <1>1, <1>2, <1>3, <1>4 DEF Disjoint
<1>6. ListsFit(m)
  BY <1>1, <1>2, <1>4, <1>5 DEF ListsFit
<1>7. Members(m) = Members(l) \cup ToSet(t)
  BY <1>1, <1>4 DEF Members
<1>. QED BY <1>6, <1>7

\* The collector's heap before and after an array of what was not found.
SameButArrays ==
    \A o \in Obj : /\ heap'[o].weak = heap[o].weak
                   /\ heap[o].kind # "free" => heap'[o].kind = heap[o].kind
                                               /\ heap'[o].slots = heap[o].slots

\* A register gets y, which is Null or in t, and the objects of t come back.
LEMMA ResurrectedStep ==
    ASSUME NEW r \in Reg, NEW y \in Obj \cup {Null}, NEW t, IInv, phase = "marked",
           heap' \in [Obj -> ObjType], ObjectsFit', SameButArrays,
           Listed(t), ToSet(t) \cap Unmarked = {}, chain' = chain \o t, lost' = lost \ {<<>>},
           \A o \in Obj : heap'[o].refs > 0 <=> o \in Unmarked \cup ToSet(t),
           \A o \in Obj : heap'[o].kind # "free" <=> heap'[o].refs > 0,
           \A x \in Things : RefsOf(x)' - InSlots(x)' = RefsOf(x) - InSlots(x) + Same(y, x),
           stack' = [stack EXCEPT ![r] = y], work' = Release(stack[r]),
           tchain' = <<>>, phase' = "run", weak' = weak, open' = open, cur' = cur
    PROVE  IInv'
<1>0. TypeOK /\ work = <<>> /\ cur = Null /\ lost' = lost /\ stack[r] \in Ref /\ Null \notin Obj
  <2>1. TypeOK /\ work = <<>> /\ cur = Null
    BY DEF IInv, PhaseFits, InSweep
  <2>2. lost' = lost
    BY DEF IInv, ChainsFit, ListsFit, Lists
  <2>. QED BY <2>1, <2>2, Types, GcHeapAssumption
<1>1. Lists' = [main |-> chain \o t, lost |-> lost] /\ Lists = [main |-> chain, lost |-> lost]
  BY <1>0 DEF Lists
<1>2. ListsFit(Lists)' /\ Unmarked' = Unmarked \cup ToSet(t)
  <2>1. PICK l : l = Lists
    OBVIOUS
  <2>2. PICK m : m = Normal([main |-> l.main \o t, lost |-> l.lost])
    OBVIOUS
  <2>3. l.main = chain /\ l.lost = lost
    BY <1>1, <2>1
  <2>4. ListsFit(l) /\ Members(l) = Unmarked
    BY <2>1 DEF IInv, ChainsFit, Unmarked
  <2>5. ListsFit(m) /\ Members(m) = Members(l) \cup ToSet(t)
    BY <2>2, <2>4, JoinedFacts
  <2>6. Lists' = m
    BY <1>0, <1>1, <2>2, <2>3 DEF Normal
  <2>. QED BY <2>4, <2>5, <2>6 DEF Unmarked
<1>3. Listed(tchain') /\ Marked' = {}
  BY EmptyListed DEF Marked
<1>4. ChainsFit'
  BY <1>2, <1>3 DEF ChainsFit
<1>5. /\ work' \in Seq(Task) /\ \A k \in 1 .. Len(work)' : work'[k].op = "release"
      /\ \A x \in Things : Pending(work, x)' = Same(stack[r], x)
  BY <1>0, ReleaseFacts
<1>6. TypeOK'
  <2>1. chain' \in Seq(Obj) /\ (\A s \in lost' : s \in Seq(Obj)) /\ tchain' \in Seq(Obj)
    BY <1>2, <1>3 DEF ListsFit, Listed, Lists
  <2>2. phase' \in Phase /\ y \in Ref
    BY DEF Phase, Ref
  <2>3. stack' \in [Reg -> Ref]
    BY <1>0, <2>2, Types
  <2>. QED BY <1>0, <1>5, <2>1, <2>2, <2>3, Types, TypesAfter
<1>7. Exact'
  <2>. SUFFICES ASSUME NEW x \in Things PROVE RefsOf(x)' = Total(x)'
    BY DEF Exact
  <2>1. InRegisters(x)' = InRegisters(x) - Same(stack[r], x) + Same(y, x)
    BY <1>0, RegisterChange
  <2>2. InOpen(x)' = InOpen(x)
    BY DEF InOpen
  <2>3. RefsOf(x) = InRegisters(x) + InOpen(x) + InSlots(x) + Same(cur, x)
    BY <1>0, TotalWhenQuiet DEF IInv, Exact
  <2>4. Total(x)' = InRegisters(x)' + InOpen(x) + InSlots(x)' + Same(stack[r], x) + Same(cur, x)
    BY <1>5, <2>2 DEF Total
  <2>5. RefsOf(x)' \in Int
    <3>1. x \in Obj => heap'[x].refs \in Nat
      BY ObjFields
    <3>2. x \in Weak => weak'[x].refs \in Nat
      BY <1>0, Types DEF WeakType
    <3>. QED BY <3>1, <3>2 DEF RefsOf, Things
  <2>6. /\ InRegisters(x) \in Nat /\ InOpen(x) \in Nat /\ InSlots(x) \in Nat /\ InSlots(x)' \in Nat
        /\ Same(cur, x) \in Nat /\ Same(y, x) \in Nat /\ Same(stack[r], x) \in Nat
    BY PartsType DEF Same
  <2>7. RefsOf(x)' - InSlots(x)' = RefsOf(x) - InSlots(x) + Same(y, x)
    OBVIOUS
  <2>8. PICK f \in Int, g \in Nat : f = RefsOf(x)' /\ g = InSlots(x)'
    BY <2>5, <2>6
  <2>9. f - g = RefsOf(x) - InSlots(x) + Same(y, x)
    BY <2>7, <2>8
  <2>10. f = InRegisters(x) + InOpen(x) + g + Same(y, x) + Same(cur, x)
    <3>1. PICK a \in Nat, b \in Nat, c \in Nat, d \in Nat, e \in Nat :
              a = InRegisters(x) /\ b = InOpen(x) /\ c = InSlots(x) /\ d = Same(cur, x) /\ e = Same(y, x)
      BY <2>6
    <3>2. f - g = ((a + b + c + d) - c) + e
      BY <2>3, <2>9, <3>1, Zenon
    <3>3. f = a + b + g + e + d
      BY ONLY <3>2, f \in Int, g \in Nat, a \in Nat, b \in Nat, c \in Nat, d \in Nat, e \in Nat
    <3>. QED BY <3>1, <3>3
  <2>11. Total(x)' = InRegisters(x) + InOpen(x) + g + Same(y, x) + Same(cur, x)
    BY SMTT(30), <2>1, <2>4, <2>6, <2>8
  <2>. QED BY <2>8, <2>10, <2>11
<1>8. WorkFits'
  <2>1. \A o \in Obj : ~ Ending(o)'
    BY DEF Ending
  <2>2. \A k \in 1 .. Len(work)' : work'[k].op # "free" /\ work'[k].op # "drop"
    BY <1>5
  <2>. QED BY <2>1, <2>2 DEF WorkFits, FreeAt, DropAt
<1>9. WeakFits'
  <2>1. PICK z : z = Null
    OBVIOUS
  <2>2. \A w \in Weak : /\ weak'[w].refs = weak[w].refs + Same(z, w)
                        /\ weak'[w].obj = weak[w].obj /\ (weak'[w].live <=> weak[w].live)
    BY <1>0, <2>1, Types, GcHeapAssumption DEF Same, WeakType
  <2>3. \A o \in Obj : /\ heap'[o].weak = heap[o].weak
                       /\ heap[o].kind # "free" => heap'[o].kind # "free"
    BY DEF SameButArrays
  <2>4. z \notin Weak
    BY <2>1, GcHeapAssumption
  <2>5. WeakFits
    BY DEF IInv
  <2>. QED BY <1>0, <1>6, <2>2, <2>3, <2>4, <2>5, PairsKept
<1>10. OpenFits'
  BY <1>0, OutersKept DEF IInv, SameButArrays
<1>11. PhaseFits' /\ MarksFit'
  BY <1>0, <1>3 DEF PhaseFits, MarksFit, InSweep, InCollection
<1>. QED BY <1>4, <1>6, <1>7, <1>8, <1>9, <1>10, <1>11 DEF IInv

LEMMA PlaceAdded ==
    ASSUME NEW D, IsFiniteSet(D), NEW f, NEW g, NEW x, NEW d \in D, f[d] # x,
           \A e \in D : g[e] = x <=> f[e] = x \/ e = d
    PROVE  Cardinality(Places(g, D, x)) = Cardinality(Places(f, D, x)) + 1
<1>1. Places(g, D, x) = Places(f, D, x) \cup {d} /\ d \notin Places(f, D, x)
  BY DEF Places
<1>2. IsFiniteSet(Places(f, D, x))
  BY PlacesFinite
<1>. QED BY <1>1, <1>2, FS_AddElement

\* The array of what was not found.
ArrayOf(slots) == [Created("table") EXCEPT !.refs = 1, !.slots = slots]

LEMMA ArrayFacts ==
    ASSUME NEW slots \in [Slot -> Ref]
    PROVE  /\ ArrayOf(slots) \in ObjType /\ ArrayOf(slots).kind = "table"
           /\ ArrayOf(slots).refs = 1 /\ ArrayOf(slots).slots = slots
           /\ ArrayOf(slots).weak = Null
  BY GcHeapAssumption DEF ArrayOf, Created, Unused, ObjType, NoSlots, Ref

\* It has each of the objects found once, and nothing else.
Listing(slots, found) ==
    /\ slots \in [Slot -> found \cup {Null}]
    /\ \A x \in found : \E i \in Slot : slots[i] = x
    /\ \A i, j \in Slot : slots[i] = slots[j] => i = j \/ slots[i] = Null

LEMMA InOrder ==
    ASSUME Listed(chain), NEW found \in SUBSET ToSet(chain), Null \notin found,
           NEW slots \in [Slot -> found \cup {Null}],
           found \subseteq {slots[i] : i \in Slot},
           \A i, j \in Slot : i < j /\ slots[j] # Null =>
               slots[i] # Null /\ PositionOf(chain, slots[i]) < PositionOf(chain, slots[j])
    PROVE  Listing(slots, found)
<1>1. \A x \in found : PositionOf(chain, x) \in Nat
  <2>1. DOMAIN chain = 1 .. Len(chain) /\ Len(chain) \in Nat
    BY LenProperties DEF Listed
  <2>. QED BY <2>1, PositionFacts
<1>2. Slot \subseteq Int
  <2>1. PICK n : n = Cardinality(Slot)
    OBVIOUS
  <2>2. Slot = 1 .. n
    BY <2>1, GcHeapAssumption
  <2>. QED BY ONLY <2>2
<1>3. \A i, j \in Slot : i < j => slots[i] # slots[j] \/ slots[i] = Null
  <2>. SUFFICES ASSUME NEW i \in Slot, NEW j \in Slot, i < j, slots[i] = slots[j], slots[i] # Null
                PROVE  FALSE
    OBVIOUS
  <2>1. slots[i] \in found
    OBVIOUS
  <2>2. PositionOf(chain, slots[i]) < PositionOf(chain, slots[j])
    OBVIOUS
  <2>3. PICK n : n = PositionOf(chain, slots[i])
    OBVIOUS
  <2>4. n < n
    BY <2>2, <2>3
  <2>. QED BY <1>1, <2>1, <2>3, <2>4
<1>4. \A i, j \in Slot : slots[i] = slots[j] => i = j \/ slots[i] = Null
  BY <1>2, <1>3
<1>. QED BY <1>4 DEF Listing

\* The array adds one reference to each of them.
LEMMA ArrayCounts ==
    ASSUME NEW a \in Obj, NEW found \in SUBSET Obj, NEW slots, TypeOK, Listing(slots, found),
           a \notin found, heap[a] = Unused, weak' = weak, heap' \in [Obj -> ObjType],
           heap'[a].refs = 1, heap'[a].slots = slots,
           \A o \in Obj : o # a =>
               /\ heap'[o].slots = heap[o].slots
               /\ heap'[o].refs = heap[o].refs + (IF o \in found THEN 1 ELSE 0),
           NEW x \in Things
    PROVE  RefsOf(x)' - InSlots(x)' = RefsOf(x) - InSlots(x) + Same(a, x)
<1>. DEFINE D == Obj \X Slot
            f == SlotsOf(heap)
            g == SlotsOf(heap')
<1>1. /\ \A o \in Obj, i \in Slot : <<o, i>> \in D /\ f[<<o, i>>] = heap[o].slots[i]
                                    /\ g[<<o, i>>] = heap'[o].slots[i]
      /\ \A e \in D : e[1] \in Obj /\ e[2] \in Slot /\ e = <<e[1], e[2]>>
  BY DEF SlotsOf
<1>2. IsFiniteSet(D) /\ InSlots(x) = Cardinality(Places(f, D, x))
      /\ InSlots(x)' = Cardinality(Places(g, D, x))
  BY Finite DEF InSlots
<1>. HIDE DEF D, f, g
<1>3. x # Null /\ \A i \in Slot : f[<<a, i>>] # x /\ g[<<a, i>>] = slots[i]
  <2>1. x # Null
    BY GcHeapAssumption DEF Things
  <2>. QED BY <1>1, <2>1, UnusedFacts
<1>4. \A e \in D : e[1] # a => g[e] = f[e]
  BY <1>1
<1>5. InSlots(x)' = InSlots(x) + (IF x \in found THEN 1 ELSE 0)
  <2>1. CASE x \in found
    <3>1. PICK i \in Slot : slots[i] = x
      BY <2>1 DEF Listing
    <3>2. PICK d \in D : d = <<a, i>>
      BY <1>1
    <3>3. \A j \in Slot : slots[j] = x => j = i
      BY <1>3, <3>1 DEF Listing
    <3>4. \A e \in D : g[e] = x <=> f[e] = x \/ e = d
      <4>. SUFFICES ASSUME NEW e \in D PROVE g[e] = x <=> f[e] = x \/ e = d
        OBVIOUS
      <4>1. CASE e[1] = a
        <5>1. e = <<a, e[2]>> /\ e[2] \in Slot
          BY <1>1, <4>1
        <5>2. g[e] = slots[e[2]] /\ f[e] # x
          BY <1>3, <5>1
        <5>. QED BY <3>1, <3>2, <3>3, <5>1, <5>2
      <4>2. CASE e[1] # a
        BY <1>4, <3>2, <4>2
      <4>. QED BY <4>1, <4>2
    <3>5. f[d] # x
      BY <1>3, <3>2
    <3>6. Cardinality(Places(g, D, x)) = Cardinality(Places(f, D, x)) + 1
      BY <1>2, <3>4, <3>5, PlaceAdded
    <3>. QED BY <1>2, <2>1, <3>6
  <2>2. CASE x \notin found
    <3>1. \A j \in Slot : slots[j] # x
      BY <1>3, <2>2 DEF Listing
    <3>2. \A e \in D : g[e] = x <=> f[e] = x
      <4>. SUFFICES ASSUME NEW e \in D PROVE g[e] = x <=> f[e] = x
        OBVIOUS
      <4>1. CASE e[1] = a
        <5>1. e = <<a, e[2]>> /\ e[2] \in Slot
          BY <1>1, <4>1
        <5>. QED BY <1>3, <3>1, <5>1
      <4>2. CASE e[1] # a
        BY <1>4, <4>2
      <4>. QED BY <4>1, <4>2
    <3>3. Places(g, D, x) = Places(f, D, x)
      BY <3>2 DEF Places
    <3>4. InSlots(x) \in Nat
      BY PartsType
    <3>. QED BY <1>2, <2>2, <3>3, <3>4
  <2>. QED BY <2>1, <2>2
<1>6. RefsOf(x)' = RefsOf(x) + Same(a, x) + (IF x \in found THEN 1 ELSE 0) /\ RefsOf(x) \in Nat
  <2>1. CASE x = a
    <3>1. RefsOf(x)' = 1 /\ RefsOf(x) = 0
      BY <2>1, UnusedFacts DEF RefsOf
    <3>. QED BY <2>1, <3>1 DEF Same
  <2>2. CASE x # a /\ x \in Obj
    <3>1. heap[x].refs \in Nat
      BY <2>2, Types, ObjFields
    <3>. QED BY <2>2, <3>1 DEF RefsOf, Same
  <2>3. CASE x \notin Obj
    <3>1. x \in Weak /\ x \notin found /\ x # a
      BY <2>3 DEF Things
    <3>2. weak[x].refs \in Nat
      BY <3>1, Types DEF WeakType
    <3>. QED BY <2>3, <3>1, <3>2 DEF RefsOf, Same
  <2>. QED BY <2>1, <2>2, <2>3
<1>7. InSlots(x) \in Nat /\ Same(a, x) \in Nat
  BY PartsType DEF Same
<1>. QED BY <1>5, <1>6, <1>7

LEMMA ResurrectStep ==
    ASSUME NEW r \in Reg, NEW a \in Obj, IInv, Resurrect(r, a)
    PROVE  IInv'
<1>0. /\ TypeOK /\ phase = "marked" /\ work' = Release(stack[r]) /\ tchain' = <<>>
      /\ phase' = "run" /\ weak' = weak /\ open' = open /\ cur' = cur
  BY DEF IInv, Resurrect
<1>1. work = <<>> /\ cur = Null /\ Null \notin Obj
  BY <1>0, GcHeapAssumption DEF IInv, PhaseFits, InSweep
<1>2. /\ heap \in [Obj -> ObjType] /\ Unmarked \subseteq Obj /\ Marked \subseteq Obj
      /\ Listed(chain) /\ Listed(tchain) /\ ToSet(tchain) = Marked /\ Unmarked \cap Marked = {}
      /\ ToSet(chain) \subseteq Unmarked
  BY <1>0, Types, MembersAreObjects DEF IInv, ChainsFit, ListsFit, Lists, Marked, Unmarked, Members
<1>3. \A o \in Obj : /\ heap[o].refs \in Nat
                     /\ heap[o].kind # "free" <=> heap[o].refs > 0
                     /\ o \in Alive <=> heap[o].refs > 0
                     /\ o \in Unmarked \cup Marked <=> heap[o].refs > 0
  BY ONLY IInv, <1>1, QuietFacts
<1>4. CASE chain = <<>>
  <2>1. /\ heap' = heap /\ stack' = [stack EXCEPT ![r] = Null]
        /\ chain' = tchain /\ lost' = lost \ {<<>>}
    BY <1>4, <1>0 DEF Resurrect, SetLists
  <2>2. PICK y \in Obj \cup {Null} : y = Null
    OBVIOUS
  <2>3. PICK t : t = tchain
    OBVIOUS
  <2>4. tchain \in Seq(Obj)
    BY <1>0, Types
  <2>5. chain' = chain \o t
    BY <1>4, <2>1, <2>3, <2>4
  <2>6. ObjectsFit' /\ SameButArrays
    BY <2>1 DEF IInv, ObjectsFit, SameButArrays
  <2>7. \A x \in Things : RefsOf(x)' - InSlots(x)' = RefsOf(x) - InSlots(x) + Same(y, x)
    <3>. SUFFICES ASSUME NEW x \in Things
                  PROVE RefsOf(x)' - InSlots(x)' = RefsOf(x) - InSlots(x) + Same(y, x)
      OBVIOUS
    <3>1. RefsOf(x)' = RefsOf(x) /\ InSlots(x)' = InSlots(x)
      BY <1>0, <2>1 DEF RefsOf, InSlots
    <3>2. Same(y, x) = 0
      BY <2>2, GcHeapAssumption DEF Same, Things
    <3>3. RefsOf(x) = Total(x)
      BY DEF IInv, Exact
    <3>4. RefsOf(x) \in Nat /\ InSlots(x) \in Nat
      BY <1>0, <3>3, TotalType
    <3>. QED BY <3>1, <3>2, <3>4
  <2>8. stack' = [stack EXCEPT ![r] = y]
    BY <2>1, <2>2
  <2>9. Listed(t) /\ ToSet(t) = Marked
    BY <1>2, <2>3
  <2>. QED BY <1>0, <1>2, <1>3, <2>1, <2>5, <2>6, <2>7, <2>8, <2>9, ResurrectedStep
<1>5. CASE chain # <<>>
  <2>1. PICK found : found = {o \in ToSet(chain) : heap[o].kind # "outer"}
    OBVIOUS
  <2>2. PICK slots \in [Slot -> found \cup {Null}] :
          /\ found \subseteq {slots[i] : i \in Slot}
          /\ \A i, j \in Slot : i < j /\ slots[j] # Null =>
                slots[i] # Null /\ PositionOf(chain, slots[i]) < PositionOf(chain, slots[j])
          /\ heap' = [o \in Obj |->
                IF o = a THEN ArrayOf(slots)
                ELSE IF o \in found THEN [heap[o] EXCEPT !.refs = @ + 1] ELSE heap[o]]
    <3>. DEFINE F == {o \in ToSet(chain) : heap[o].kind # "outer"}
    <3>1. \E S \in [Slot -> F \cup {Null}] :
            /\ F \subseteq {S[i] : i \in Slot}
            /\ \A i, j \in Slot : i < j /\ S[j] # Null =>
                  /\ S[i] # Null
                  /\ PositionOf(chain, S[i]) < PositionOf(chain, S[j])
            /\ heap' = [o \in Obj |->
                  IF o = a THEN [Created("table") EXCEPT !.refs = 1, !.slots = S]
                  ELSE IF o \in F THEN [heap[o] EXCEPT !.refs = @ + 1] ELSE heap[o]]
      BY ONLY Resurrect(r, a), <1>5, Zenon DEF Resurrect
    <3>2. F = found
      BY <2>1
    <3>. HIDE DEF F
    <3>3. PICK S \in [Slot -> F \cup {Null}] :
            /\ F \subseteq {S[i] : i \in Slot}
            /\ \A i, j \in Slot : i < j /\ S[j] # Null =>
                  /\ S[i] # Null
                  /\ PositionOf(chain, S[i]) < PositionOf(chain, S[j])
            /\ heap' = [o \in Obj |->
                  IF o = a THEN ArrayOf(S)
                  ELSE IF o \in F THEN [heap[o] EXCEPT !.refs = @ + 1] ELSE heap[o]]
      BY ONLY <3>1, Zenon DEF ArrayOf
    <3>. QED BY ONLY <3>2, <3>3, S \in [Slot -> F \cup {Null}], Zenon
  <2>3. /\ a \notin Alive /\ stack' = [stack EXCEPT ![r] = a]
        /\ chain' = chain \o <<a>> \o tchain /\ lost' = lost \ {<<>>}
    BY <1>5 DEF Resurrect, SetLists
  <2>4. /\ found \in SUBSET ToSet(chain) /\ found \in SUBSET Obj /\ Null \notin found
        /\ slots \in [Slot -> Ref]
    BY <1>1, <1>2, <2>1 DEF Ref
  <2>5. Listing(slots, found)
    BY <1>2, <2>2, <2>4, InOrder
  <2>6. heap[a].kind = "free" /\ heap[a] = Unused /\ a \notin Unmarked /\ a \notin Marked /\ a \notin found
    <3>1. heap[a].kind = "free"
      BY <2>3 DEF Alive
    <3>. QED BY <1>2, <1>3, <2>4, <3>1 DEF IInv, ObjectsFit
  <2>7. /\ heap' \in [Obj -> ObjType] /\ heap'[a] = ArrayOf(slots)
        /\ \A o \in Obj : o # a =>
             /\ heap'[o].slots = heap[o].slots /\ heap'[o].kind = heap[o].kind
             /\ heap'[o].weak = heap[o].weak
             /\ heap'[o].refs = heap[o].refs + (IF o \in found THEN 1 ELSE 0)
             /\ o \notin found => heap'[o] = heap[o]
    <3>1. \A o \in Obj : heap[o] \in ObjType /\ [heap[o] EXCEPT !.refs = @ + 1] \in ObjType
      BY <1>2 DEF ObjType
    <3>2. heap' \in [Obj -> ObjType]
      BY <2>2, <2>4, <3>1, ArrayFacts
    <3>3. \A o \in Obj : o # a /\ o \in found => heap'[o] = [heap[o] EXCEPT !.refs = heap[o].refs + 1]
      BY <2>2
    <3>4. \A o \in Obj : o # a /\ o \notin found => heap'[o] = heap[o]
      BY <2>2
    <3>5. heap'[a] = ArrayOf(slots)
      BY <2>2
    <3>6. \A o \in Obj : o # a /\ o \in found =>
             /\ heap'[o].slots = heap[o].slots /\ heap'[o].kind = heap[o].kind
             /\ heap'[o].weak = heap[o].weak /\ heap'[o].refs = heap[o].refs + 1
      BY <3>1, <3>3 DEF ObjType
    <3>. QED BY <1>3, <3>2, <3>4, <3>5, <3>6
  <2>8. /\ heap'[a].refs = 1 /\ heap'[a].slots = slots /\ heap'[a].kind = "table"
        /\ heap'[a].weak = Null
    BY <2>4, <2>7, ArrayFacts
  <2>9. \A x \in Things : RefsOf(x)' - InSlots(x)' = RefsOf(x) - InSlots(x) + Same(a, x)
    BY <1>0, <2>4, <2>5, <2>6, <2>7, <2>8, ArrayCounts
  <2>10. \A o \in Obj : heap'[o].kind # "free" <=> heap'[o].refs > 0
    <3>1. \A o \in found : heap[o].refs > 0
      BY <1>2, <1>3, <2>4
    <3>. QED BY <1>3, <2>7, <2>8, <3>1
  <2>11. ObjectsFit'
    <3>1. \A o \in found : heap[o].kind # "free"
      BY <1>2, <1>3, <2>4
    <3>2. \A o \in Obj : o # a /\ heap'[o].kind = "free" => heap'[o] = Unused
      BY <2>7, <3>1 DEF IInv, ObjectsFit
    <3>. QED BY <2>8, <3>2 DEF ObjectsFit
  <2>12. SameButArrays
    BY <2>6, <2>7, <2>8, UnusedFacts DEF SameButArrays
  <2>13. PICK s : s = <<a>>
    OBVIOUS
  <2>14. PICK t : t = s \o tchain
    OBVIOUS
  <2>15. Listed(t) /\ ToSet(t) = {a} \cup Marked
    <3>1. Listed(s) /\ ToSet(s) = {a}
      BY <2>13, SingleListed
    <3>2. Disjoint(s, tchain)
      BY <1>2, <2>6, <3>1 DEF Disjoint
    <3>3. PICK q : q = tchain
      OBVIOUS
    <3>4. Listed(s \o q) /\ ToSet(s \o q) = ToSet(s) \cup ToSet(q)
      BY <1>2, <3>1, <3>2, <3>3, ConcatListed
    <3>. QED BY <1>2, <2>14, <3>1, <3>3, <3>4
  <2>16. chain' = chain \o t
    <3>1. chain \in Seq(Obj) /\ tchain \in Seq(Obj) /\ s \in Seq(Obj)
      BY <1>0, <2>13, Types
    <3>2. (chain \o s) \o tchain = chain \o (s \o tchain)
      BY <3>1, ConcatAssociative
    <3>. QED BY <2>3, <2>13, <2>14, <3>2
  <2>17. \A o \in Obj : heap'[o].refs > 0 <=> o \in Unmarked \cup ToSet(t)
    <3>1. \A o \in found : heap[o].refs > 0
      BY <1>2, <1>3, <2>4
    <3>. QED BY <1>3, <2>7, <2>8, <2>15, <3>1
  <2>18. ToSet(t) \cap Unmarked = {}
    BY <1>2, <2>6, <2>15
  <2>19. lost' = lost \ {<<>>} /\ stack' = [stack EXCEPT ![r] = a]
    BY <2>3
  <2>20. PICK y \in Obj \cup {Null} : y = a
    OBVIOUS
  <2>21. /\ stack' = [stack EXCEPT ![r] = y]
         /\ \A x \in Things : RefsOf(x)' - InSlots(x)' = RefsOf(x) - InSlots(x) + Same(y, x)
    BY <2>9, <2>19, <2>20
  <2>. QED BY <1>0, <2>7, <2>10, <2>11, <2>12, <2>15, <2>16, <2>17, <2>18, <2>19, <2>21, ResurrectedStep
<1>. QED BY <1>4, <1>5

----------------------------------------------------------------------------
(* The invariant holds, and what follows from it.                          *)

LEMMA NextStep == ASSUME IInv, [Next]_vars PROVE IInv'
<1>1. CASE UNCHANGED vars
  <2>0. /\ heap' = heap /\ weak' = weak /\ stack' = stack /\ open' = open /\ chain' = chain
        /\ lost' = lost /\ tchain' = tchain /\ work' = work /\ cur' = cur /\ phase' = phase
    BY <1>1 DEF vars
  <2>1. TypeOK' /\ ObjectsFit' /\ WeakFits' /\ OpenFits'
    BY <2>0 DEF IInv, TypeOK, ObjectsFit, WeakFits, OpenFits
  <2>2. Exact'
    <3>1. \A x \in Things : RefsOf(x)' = RefsOf(x) /\ Total(x)' = Total(x)
      BY <2>0 DEF RefsOf, Total, InRegisters, InOpen, InSlots
    <3>. QED BY <3>1 DEF IInv, Exact
  <2>3. ChainsFit'
    BY <2>0, ChainsKept DEF IInv
  <2>4. WorkFits'
    <3>1. WorkFits /\ Finalized' = Finalized
      BY <2>0 DEF IInv, Finalized
    <3>. QED BY <2>0, <3>1, WorkKept
  <2>5. PhaseFits' /\ MarksFit'
    <3>1. Marked' = Marked /\ Roots' = Roots /\ \A o : Children(o)' = Children(o)
      BY <2>0 DEF Marked, Roots, Children
    <3>2. Found' = Found
      BY <3>1 DEF Found
    <3>. QED BY <2>0, <3>1, <3>2 DEF IInv, PhaseFits, MarksFit, InSweep, InCollection
  <2>. QED BY <2>1, <2>2, <2>3, <2>4, <2>5 DEF IInv
<1>2. ASSUME NEW r \in Reg, NEW s \in Reg,
             \/ \E o \in Obj : NewTable(r, o) \/ \E c \in Obj : Capture(r, s, c, o)
             \/ \E x \in {stack[s], Real(stack[s]), Null} : Move(r, x)
             \/ \E i \in Slot : GetSlot(r, s, i) \/ SetSlot(s, i, r)
             \/ \E w \in Weak : GetWeakRef(r, s, w)
      PROVE  IInv'
  BY <1>2, NewTableStep, CaptureStep, MoveStep, GetSlotStep, SetSlotStep, GetWeakRefStep
<1>3. ASSUME NEW s \in Reg, EndVariable(s) \/ CloseOuter(s) \/ NullRegister(s)
      PROVE  IInv'
  BY <1>3, EndVariableStep, CloseOuterStep, NullRegisterStep
<1>4. CASE Destroy
  BY <1>4, DestroyStep
<1>5. CASE StartMark \/ EndMark \/ Collect \/ FinalizeObject \/ SweepNext \/ EndSweep
  BY <1>5, StartMarkStep, EndMarkStep, CollectStep, FinalizeObjectStep, SweepNextStep, EndSweepStep
<1>6. ASSUME NEW o \in Obj, Mark(o) \/ \E r \in Reg : Resurrect(r, o)
      PROVE  IInv'
  BY <1>6, MarkStep, ResurrectStep
<1>7. CASE Close \/ CloseSweep \/ Closed
  BY <1>7, CloseStep, CloseSweepStep, ClosedStep
<1>. QED BY <1>1, <1>2, <1>3, <1>4, <1>5, <1>6, <1>7 DEF Next

\* The inductive invariant: exact counts, lists without repetitions that have
\* the objects with a reference, destructors that finish what they began
\* (object.h, object.cpp, state.cpp:191-455).
THEOREM HeapInvariance == Spec => []IInv
<1>1. Init => IInv
  BY InitIInv
<1>2. IInv /\ [Next]_vars => IInv'
  BY NextStep
<1>. QED BY <1>1, <1>2, PTL DEF Spec

\* Whatever a script, a destructor, a collection or lv_close does, and in the
\* middle of it, the count of an object and of a weak reference is the number
\* of places that hold a reference to it (__AddRef and __Release, object.h).
THEOREM CountsAlwaysExact == Spec => []CountsExact
<1>1. IInv => CountsExact
  BY ExactIsCountsExact DEF IInv
<1>. QED BY <1>1, HeapInvariance, PTL

LEMMA NothingDangles == ASSUME IInv PROVE NoPointerDangles
<1>0. /\ TypeOK /\ heap \in [Obj -> ObjType] /\ Obj \cap Weak = {} /\ Null \notin Obj \cup Weak
      /\ \A w \in Weak : weak[w].obj \in Obj \cup {Null}
      /\ \A o \in Obj : heap[o].weak \in Weak \cup {Null}
  BY Types, ObjFields, GcHeapAssumption DEF IInv, WeakType
<1>1. ASSUME NEW x, Held(x)
      PROVE  (x \in Obj => x \in Alive) /\ (x \in Weak => weak[x].live)
  BY <1>1, HeldFacts DEF Things, Alive
<1>2. \A w \in Weak : weak[w].obj \in Obj => weak[w].obj \in Alive
  BY <1>0 DEF IInv, WeakFits, Alive
<1>3. \A o \in Unmarked \cup Marked : o \in Alive
  <2>1. \A o \in Obj : heap[o].refs > 0 => heap[o].kind # "free"
    BY UnusedFacts DEF IInv, ObjectsFit
  <2>. QED BY <1>0, <2>1, MembersAreObjects DEF IInv, ChainsFit, Alive
<1>4. NoDangling
  <2>. DEFINE A == {stack[r] : r \in Reg} \cup {open[r] : r \in Reg} \cup {cur}
              U == UNION {{heap[o].slots[i] : i \in Slot} : o \in Alive}
              W == {weak[w].obj : w \in Weak}
              referred == A \cup U \cup W
              listed == ToSet(chain) \cup Marked \cup UNION {ToSet(l) : l \in lost}
  <2>1. \A x \in referred : Held(x) \/ \E w \in Weak : x = weak[w].obj
    <3>1. \A r \in Reg : Held(stack[r]) /\ Held(open[r])
      BY DEF Held
    <3>2. \A o \in Alive : \A i \in Slot : Held(heap[o].slots[i])
      BY DEF Held, Alive
    <3>3. Held(cur)
      BY DEF Held
    <3>4. ASSUME NEW x \in referred PROVE Held(x) \/ \E w \in Weak : x = weak[w].obj
      <4>1. CASE \E r \in Reg : x = stack[r] \/ x = open[r]
        BY <3>1, <4>1, Zenon
      <4>2. CASE \E o \in Alive : \E i \in Slot : x = heap[o].slots[i]
        BY <3>2, <4>2, Zenon
      <4>3. \/ \E r \in Reg : x = stack[r] \/ x = open[r]
            \/ \E o \in Alive : \E i \in Slot : x = heap[o].slots[i]
            \/ x = cur
            \/ \E w \in Weak : x = weak[w].obj
        <5>1. \A a \in A : a = cur \/ \E r \in Reg : a = stack[r] \/ a = open[r]
          OBVIOUS
        <5>2. \A u \in U : \E o \in Alive : \E i \in Slot : u = heap[o].slots[i]
          OBVIOUS
        <5>3. \A v \in W : \E w \in Weak : v = weak[w].obj
          OBVIOUS
        <5>. HIDE DEF A, U, W
        <5>. QED BY <5>1, <5>2, <5>3
      <4>. QED BY <3>3, <4>1, <4>2, <4>3, Zenon
    <3>. QED BY <3>4
  <2>2. referred \cap Obj \subseteq Alive
    BY <1>1, <1>2, <2>1
  <2>3. listed \subseteq Alive
    <3>1. listed = Unmarked \cup Marked
      BY DEF Unmarked, Members, Lists
    <3>. QED BY <1>3, <3>1
  <2>4. \A w \in Weak \cap referred : weak[w].live
    BY <1>0, <1>1, <2>1
  <2>. QED BY <2>2, <2>3, <2>4 DEF NoDangling
<1>5. WeakPairs
  BY <1>0 DEF IInv, WeakFits, WeakPairs, Alive
<1>. QED BY <1>4, <1>5 DEF NoPointerDangles

\* No pointer is left to an object that is gone: not in a register, a slot, a
\* list of the chain, the cursor of a sweep or a weak reference, which its
\* object's destructor nulls and which tells its object when it goes first
\* (object.cpp:11-32, 449-736).
THEOREM PointersNeverDangle == Spec => []NoPointerDangles
<1>1. IInv => NoPointerDangles
  BY NothingDangles
<1>. QED BY <1>1, HeapInvariance, PTL

----------------------------------------------------------------------------
(* The collector finds every object and frees exactly those that no script *)
(* can reach.  These proofs assume ~ OpenUnmarked: with OpenUnmarked a     *)
(* collection may run while an open captured variable is out of the reach  *)
(* of the scripts, and leaves it in a list that the chain does not lead to.*)
(*                                                                         *)
(* What can be reached.                                                    *)

\* The objects of every set that has those of R and goes on along C.
Closed2(S, R, C) == R \subseteq S /\ \A p \in S : C[p] \subseteq S
LeastOf(R, C) == {o \in Obj : \A S \in SUBSET Obj : Closed2(S, R, C) => o \in S}

ChildrenOf(h) == [o \in Obj |-> {h[o].slots[i] : i \in Slot} \cap Obj]

LEMMA LeastClosed ==
    ASSUME NEW R \in SUBSET Obj, NEW C, \A o \in Obj : C[o] \subseteq Obj
    PROVE  /\ LeastOf(R, C) \subseteq Obj /\ R \subseteq LeastOf(R, C)
           /\ \A p \in LeastOf(R, C) : C[p] \subseteq LeastOf(R, C)
<1>1. LeastOf(R, C) \subseteq Obj
  BY DEF LeastOf
<1>2. R \subseteq LeastOf(R, C)
  BY DEF LeastOf, Closed2
<1>3. ASSUME NEW p \in LeastOf(R, C), NEW c \in C[p]
      PROVE  c \in LeastOf(R, C)
  <2>1. c \in Obj
    BY <1>1
  <2>2. \A S \in SUBSET Obj : Closed2(S, R, C) => c \in S
    BY DEF LeastOf, Closed2
  <2>. QED BY <2>1, <2>2 DEF LeastOf
<1>. QED BY <1>1, <1>2, <1>3

LEMMA LeastIsLeast ==
    ASSUME NEW R, NEW C, NEW S \in SUBSET Obj, Closed2(S, R, C)
    PROVE  LeastOf(R, C) \subseteq S
  BY DEF LeastOf

\* Only what can be reached matters.
LEMMA LeastKept ==
    ASSUME NEW R \in SUBSET Obj, NEW C, NEW D, \A o \in Obj : C[o] \subseteq Obj,
           \A o \in Obj : D[o] \subseteq Obj, \A o \in LeastOf(R, C) : D[o] = C[o]
    PROVE  LeastOf(R, D) = LeastOf(R, C)
<1>. DEFINE A == LeastOf(R, C)
            B == LeastOf(R, D)
<1>1. A \subseteq Obj /\ R \subseteq A /\ \A p \in A : C[p] \subseteq A
  BY LeastClosed
<1>2. B \subseteq Obj /\ R \subseteq B /\ \A p \in B : D[p] \subseteq B
  BY LeastClosed
<1>3. B \subseteq A
  <2>1. Closed2(A, R, D)
    BY <1>1 DEF Closed2
  <2>2. PICK S \in SUBSET Obj : S = A
    BY <1>1
  <2>3. Closed2(S, R, D)
    BY <2>1, <2>2
  <2>. QED BY <2>2, <2>3, LeastIsLeast
<1>4. A \subseteq B
  <2>1. PICK S \in SUBSET Obj : S = A \cap B
    BY <1>1
  <2>2. Closed2(S, R, C)
    BY <1>1, <1>2, <2>1 DEF Closed2
  <2>3. A \subseteq S
    BY <2>2, LeastIsLeast
  <2>. QED BY <2>1, <2>3
<1>. QED BY <1>3, <1>4

LEMMA ReachIsLeast ==
    /\ Reach = LeastOf(Roots, ChildrenOf(heap)) /\ Roots \subseteq Obj
    /\ \A o \in Obj : ChildrenOf(heap)[o] = Children(o) /\ Children(o) \subseteq Obj
<1>1. \A o \in Obj : ChildrenOf(heap)[o] = Children(o) /\ Children(o) \subseteq Obj
  BY DEF ChildrenOf, Children
<1>2. \A S \in SUBSET Obj : Closed2(S, Roots, ChildrenOf(heap))
          <=> Roots \subseteq S /\ \A p \in S : Children(p) \subseteq S
  BY <1>1 DEF Closed2
<1>3. Reach = LeastOf(Roots, ChildrenOf(heap))
  BY <1>2 DEF Reach, LeastOf
<1>4. Roots \subseteq Obj
  BY DEF Roots
<1>. QED BY <1>1, <1>3, <1>4

LEMMA ReachFacts ==
    /\ Reach \subseteq Obj /\ Roots \subseteq Reach
    /\ \A p \in Reach : Children(p) \subseteq Reach
<1>0. PICK R \in SUBSET Obj : R = Roots
  BY ReachIsLeast
<1>1. PICK C : R = Roots /\ C = ChildrenOf(heap)
  BY <1>0
<1>2. \A o \in Obj : C[o] \subseteq Obj
  BY <1>1, ReachIsLeast
<1>3. /\ LeastOf(R, C) \subseteq Obj /\ R \subseteq LeastOf(R, C)
      /\ \A p \in LeastOf(R, C) : C[p] \subseteq LeastOf(R, C)
  BY <1>2, LeastClosed
<1>. QED BY <1>1, <1>3, ReachIsLeast

\* When what can be reached stays as it is, the same can be reached.
LEMMA ReachKept ==
    ASSUME stack' = stack, \A o \in Reach : heap'[o].slots = heap[o].slots
    PROVE  Reach' = Reach
<1>0. PICK R \in SUBSET Obj : R = Roots
  BY ReachIsLeast
<1>1. PICK C : R = Roots /\ C = ChildrenOf(heap)
  BY <1>0
<1>2. PICK D : D = ChildrenOf(heap')
  OBVIOUS
<1>3. \A o \in Obj : C[o] \subseteq Obj /\ D[o] \subseteq Obj
  BY <1>1, <1>2 DEF ChildrenOf
<1>4. Reach = LeastOf(R, C)
  BY <1>1, ReachIsLeast
<1>5. \A o \in LeastOf(R, C) : D[o] = C[o]
  BY <1>1, <1>2, <1>4, ReachFacts DEF ChildrenOf
<1>6. LeastOf(R, D) = LeastOf(R, C)
  BY <1>3, <1>5, LeastKept
<1>7. Reach' = LeastOf(R, D)
  <2>1. Roots' = R
    BY <1>1 DEF Roots
  <2>2. \A o \in Obj : D[o] = Children(o)'
    BY <1>2 DEF ChildrenOf, Children
  <2>3. \A S \in SUBSET Obj : Closed2(S, R, D)
            <=> Roots' \subseteq S /\ \A p \in S : Children(p)' \subseteq S
    BY <2>1, <2>2 DEF Closed2
  <2>. QED BY <2>3 DEF Reach, LeastOf
<1>. QED BY <1>4, <1>6, <1>7

\* A collection that has nothing else to mark has marked all of it.
LEMMA ReachMarked ==
    ASSUME TypeOK, Found = {}
    PROVE  Reach \subseteq Marked
<1>1. Roots \subseteq Marked /\ \A p \in Marked : Children(p) \subseteq Marked
  BY DEF Found
<1>2. PICK S \in SUBSET Obj : S = Marked
  BY MembersAreObjects
<1>3. PICK R, C : R = Roots /\ C = ChildrenOf(heap)
  OBVIOUS
<1>4. Closed2(S, R, C)
  BY <1>1, <1>2, <1>3, ReachIsLeast DEF Closed2
<1>5. LeastOf(R, C) \subseteq S
  BY <1>4, LeastIsLeast
<1>. QED BY <1>2, <1>3, <1>5, ReachIsLeast

----------------------------------------------------------------------------
(* The invariant.                                                          *)

\* A collection starts only while scripts can reach every open variable, and
\* marks only what they can reach.
OpenReached == InCollection => \A r \in Reg : open[r] \in Reach \cup {Null}
MarkedReached == InCollection => Marked \subseteq Reach

NothingLost == lost = {}

\* The sweep leaves an object without references, and goes on to the next.
Emptied(o) == heap[o].slots = NoSlots
Later(o) == cur # Null /\ PositionOf(chain, cur) < PositionOf(chain, o)
AtCursor(o) ==
    /\ cur = o
    /\ \/ Sweeping
       \/ \A i \in Slot : heap[o].slots[i] # Null => \E k \in 1 .. Len(work) : DropAt(k, o, i)
Passed == InSweep => \A o \in ToSet(chain) : Emptied(o) \/ Later(o) \/ AtCursor(o)

\* lv_close goes through the chain when the VM has nothing any more.
RootsGone ==
    phase \in {"closeSweep", "closeNext", "closed"} =>
        \A r \in Reg : stack[r] = Null /\ open[r] = Null
ClosedEmpty == phase = "closed" => chain = <<>>

EInv == OpenReached /\ MarkedReached /\ NothingLost /\ Passed /\ RootsGone /\ ClosedEmpty

\* When nothing is lost, what is not marked is in the chain.
LEMMA ChainHasUnmarked ==
    ASSUME lost = {}
    PROVE  Unmarked = ToSet(chain)
  BY DEF Unmarked, Members, Lists

\* At the end of a sweep nothing is left in the chain.
LEMMA SweptChain ==
    ASSUME IInv, lost = {}, work = <<>>, cur = Null,
           \A o \in ToSet(chain) : heap[o].slots = NoSlots,
           \A r \in Reg : stack[r] \notin ToSet(chain) /\ open[r] \notin ToSet(chain),
           \A p \in Marked : Children(p) \cap ToSet(chain) = {}
    PROVE  chain = <<>>
<1>. SUFFICES ASSUME chain # <<>> PROVE FALSE
  OBVIOUS
<1>0. TypeOK /\ Null \notin Obj /\ Null \notin Weak /\ Unmarked \subseteq Obj
  BY MembersAreObjects, GcHeapAssumption DEF IInv
<1>1. PICK o : o = Head(chain)
  OBVIOUS
<1>2. o \in ToSet(chain) /\ o \in Obj
  <2>1. Listed(chain)
    BY DEF IInv, ChainsFit, ListsFit, Lists
  <2>. QED BY <1>0, <1>1, <2>1, TailListed, ChainHasUnmarked
<1>3. Total(o) > 0
  <2>1. heap[o].refs > 0
    BY <1>2, ChainHasUnmarked DEF IInv, ChainsFit
  <2>2. RefsOf(o) = heap[o].refs /\ o \in Things
    BY <1>2 DEF RefsOf, Things
  <2>. QED BY <2>1, <2>2 DEF IInv, Exact
<1>4. Held(o)
  BY <1>0, <1>3, TotalPositive
<1>5. ~ \E r \in Reg : stack[r] = o \/ open[r] = o
  BY <1>2
<1>6. ~ \E k \in 1 .. Len(work) : work[k].op = "release" /\ work[k].obj = o
  BY ONLY work = <<>>
<1>7. cur # o
  BY <1>0, <1>2
<1>8. PICK p \in Obj, i \in Slot : heap[p].slots[i] = o
  BY <1>4, <1>5, <1>6, <1>7 DEF Held
<1>9. heap[p].kind # "free"
  BY <1>0, <1>2, <1>8, UnusedFacts DEF IInv, ObjectsFit
<1>10. p \in Unmarked \cup Marked
  BY ONLY IInv, work = <<>>, <1>9, p \in Obj, QuietFacts
<1>11. p \notin Marked
  BY <1>2, <1>8 DEF Children
<1>12. heap[p].slots = NoSlots
  BY <1>10, <1>11, ChainHasUnmarked
<1>. QED BY <1>0, <1>2, <1>8, <1>12, UnusedFacts

----------------------------------------------------------------------------
(* Steps of scripts and of the collector.                                  *)

\* While scripts run, and while lv_close finalizes the VM, there is only one
\* thing to keep.
LEMMA QuietStep ==
    ASSUME phase' \in {"run", "close"}, lost' = {}
    PROVE  EInv'
  BY DEF EInv, OpenReached, MarkedReached, NothingLost, Passed, RootsGone, ClosedEmpty,
         InCollection, InSweep

LEMMA InitEInv == Init => EInv
  BY DEF Init, EInv, OpenReached, MarkedReached, NothingLost, Passed, RootsGone, ClosedEmpty,
         InCollection, InSweep

LEMMA StartMarkKeeps ==
    ASSUME ~ OpenUnmarked, IInv, EInv, StartMark
    PROVE  EInv'
<1>1. /\ phase = "run" /\ phase' = "mark" /\ \A r \in Reg : open[r] \in Reach \cup {Null}
      /\ UNCHANGED <<heap, weak, stack, open, chain, lost, tchain, work, cur>>
  BY DEF StartMark, Idle
<1>2. Reach' = Reach
  BY <1>1, ReachKept
<1>3. Marked' = {}
  BY <1>1, EmptyListed DEF IInv, PhaseFits, InCollection, Marked
<1>. QED BY <1>1, <1>2, <1>3 DEF EInv, OpenReached, MarkedReached, NothingLost, Passed, RootsGone,
                                 ClosedEmpty, InCollection, InSweep

LEMMA MarkKeeps ==
    ASSUME IInv, EInv, NEW o \in Obj, Mark(o)
    PROVE  EInv'
<1>1. /\ phase = "mark" /\ phase' = "mark" /\ o \in Found /\ lost = {}
      /\ SetLists(Unchained(Lists, o)) /\ tchain' = <<o>> \o tchain
      /\ UNCHANGED <<heap, weak, stack, open, work, cur>>
  BY DEF Mark, EInv, NothingLost
<1>2. Reach' = Reach
  BY <1>1, ReachKept
<1>3. o \in Reach /\ o \notin Marked
  <2>1. Marked \subseteq Reach
    BY <1>1 DEF EInv, MarkedReached, InCollection
  <2>. QED BY <1>1, <2>1, ReachFacts DEF Found
<1>4. Marked' = Marked \cup {o}
  <2>1. PICK new : new = <<o>>
    OBVIOUS
  <2>2. Listed(new) /\ ToSet(new) = {o}
    BY <2>1, SingleListed
  <2>3. Listed(tchain) /\ Disjoint(new, tchain)
    BY <1>3, <2>2 DEF IInv, ChainsFit, Disjoint, Marked
  <2>4. PICK t : t = tchain
    OBVIOUS
  <2>5. ToSet(new \o t) = ToSet(new) \cup ToSet(t)
    BY <2>2, <2>3, <2>4, ConcatListed
  <2>. QED BY <1>1, <2>1, <2>2, <2>4, <2>5 DEF Marked
<1>5. lost' = {}
  <2>1. o \in ToSet(chain)
    <3>1. Held(o)
      <4>1. CASE o \in Roots
        BY <4>1 DEF Roots, Held
      <4>2. CASE \E p \in Marked : o \in Children(p)
        BY <4>2, MembersAreObjects DEF IInv, Children, Held
      <4>. QED BY <1>1, <4>1, <4>2 DEF Found
    <3>2. o \in Unmarked
      BY <1>3, <3>1, HeldFacts DEF Things
    <3>. QED BY <1>1, <3>2, ChainHasUnmarked
  <2>2. Unchained(Lists, o).lost = {}
    BY <1>1, <2>1 DEF Unchained, Lists
  <2>. QED BY <1>1, <2>2 DEF SetLists
<1>. QED BY <1>1, <1>2, <1>3, <1>4, <1>5
         DEF EInv, OpenReached, MarkedReached, NothingLost, Passed, RootsGone, ClosedEmpty,
             InCollection, InSweep

LEMMA EndMarkKeeps ==
    ASSUME IInv, EInv, EndMark
    PROVE  EInv'
<1>1. /\ phase = "mark" /\ phase' = "marked"
      /\ UNCHANGED <<heap, weak, stack, open, chain, lost, tchain, work, cur>>
  BY DEF EndMark
<1>2. Reach' = Reach /\ Marked' = Marked
  BY <1>1, ReachKept DEF Marked
<1>. QED BY <1>1, <1>2
         DEF EInv, OpenReached, MarkedReached, NothingLost, Passed, RootsGone, ClosedEmpty,
             InCollection, InSweep

\* The sweep starts at the first object.
LEMMA StartSweepKeeps ==
    ASSUME IInv, EInv, NEW at \in {"sweep", "closeSweep"}, StartSweep(at),
           UNCHANGED <<weak, stack, open, chain, lost, tchain, work>>,
           at = "sweep" => phase = "marked",
           at = "closeSweep" => \A r \in Reg : open[r] = Null /\ stack[r] = Null
    PROVE  EInv'
<1>1. phase' = at /\ cur' = (IF chain = <<>> THEN Null ELSE Head(chain)) /\ heap' = Referenced(heap, cur')
  BY DEF StartSweep
<1>2. TypeOK /\ heap \in [Obj -> ObjType] /\ Listed(chain)
  BY Types DEF IInv, ChainsFit, ListsFit, Lists
<1>3. \A o \in Obj : heap'[o].slots = heap[o].slots
  BY <1>1, <1>2, ReferencedFacts
<1>4. Reach' = Reach /\ Marked' = Marked
  BY <1>3, ReachKept, ReachFacts DEF Marked
<1>5. Passed'
  <2>. SUFFICES ASSUME NEW o \in ToSet(chain) PROVE Later(o)' \/ AtCursor(o)'
    BY DEF Passed
  <2>1. chain # <<>>
    BY EmptyListed
  <2>2. PICK h : h = Head(chain)
    OBVIOUS
  <2>3. h \in ToSet(chain) /\ h # Null /\ cur' = h
    <3>1. h \in ToSet(chain)
      BY <1>2, <2>1, <2>2, TailListed
    <3>. QED BY <1>1, <1>2, <2>1, <2>2, <3>1, GcHeapAssumption, ChainHasUnmarked, MembersAreObjects
             DEF EInv, NothingLost
  <2>4. CASE o = h
    BY <1>1, <2>3, <2>4 DEF AtCursor, Sweeping
  <2>5. CASE o # h
    <3>1. PICK n \in Nat : n = Len(chain)
      BY <1>2, LenProperties DEF Listed
    <3>2. PICK a \in 1 .. n : a = PositionOf(chain, h)
      BY <1>2, <2>3, <3>1, PositionFacts
    <3>3. PICK b \in 1 .. n : b = PositionOf(chain, o)
      BY <1>2, <3>1, PositionFacts
    <3>4. 1 \in 1 .. n
      BY ONLY a \in 1 .. n, n \in Nat
    <3>5. chain[1] = h
      <4>1. chain \in Seq(Obj)
        BY <1>2 DEF Listed
      <4>. QED BY <2>1, <2>2, <4>1
    <3>6. a = 1
      BY <1>2, <2>3, <3>1, <3>2, <3>4, <3>5, PositionFacts
    <3>7. b # 1
      BY <1>2, <2>5, <3>3, <3>5, PositionFacts
    <3>8. a < b
      BY ONLY <3>6, <3>7, b \in 1 .. n, n \in Nat
    <3>. QED BY <2>3, <3>2, <3>3, <3>8 DEF Later
  <2>. QED BY <2>4, <2>5
<1>6. OpenReached' /\ MarkedReached'
  BY <1>1, <1>4 DEF EInv, OpenReached, MarkedReached, InCollection
<1>7. NothingLost' /\ RootsGone' /\ ClosedEmpty'
  BY <1>1 DEF EInv, NothingLost, RootsGone, ClosedEmpty
<1>. QED BY <1>5, <1>6, <1>7 DEF EInv

LEMMA CollectKeeps ==
    ASSUME IInv, EInv, Collect
    PROVE  EInv'
<1>1. /\ phase = "marked" /\ StartSweep("sweep")
      /\ UNCHANGED <<weak, stack, open, chain, lost, tchain, work>>
  BY DEF Collect
<1>. QED BY <1>1, StartSweepKeeps

LEMMA CloseSweepKeeps ==
    ASSUME IInv, EInv, CloseSweep
    PROVE  EInv'
<1>1. /\ StartSweep("closeSweep") /\ \A r \in Reg : open[r] = Null /\ stack[r] = Null
      /\ UNCHANGED <<weak, stack, open, chain, lost, tchain, work>>
  BY DEF CloseSweep
<1>. QED BY <1>1, StartSweepKeeps

\* An object that is emptied has a task for each of its slots.
LEMMA DropTasks ==
    ASSUME NEW o
    PROVE  \A i \in Slot : \E k \in 1 .. Len(Drops(o)) :
               Drops(o)[k].op = "drop" /\ Drops(o)[k].obj = o /\ Drops(o)[k].slot = i
<1>1. PICK n : n = Cardinality(Slot)
  OBVIOUS
<1>2. n \in Nat /\ Slot = 1 .. n
  <2>1. IsFiniteSet(Slot) /\ Slot = 1 .. n
    BY <1>1, GcHeapAssumption
  <2>. QED BY <1>1, <2>1, FS_CardinalityType
<1>3. PICK d : d = [i \in 1 .. n |-> [op |-> "drop", obj |-> o, slot |-> i]]
  OBVIOUS
<1>4. Len(d) = n
  BY <1>2, <1>3, LenProperties
<1>5. ASSUME NEW i \in 1 .. n
      PROVE  d[i].op = "drop" /\ d[i].obj = o /\ d[i].slot = i
  <2>1. d[i] = [op |-> "drop", obj |-> o, slot |-> i]
    BY <1>3
  <2>. QED BY <2>1
<1>6. Drops(o) = d
  BY <1>1, <1>3 DEF Drops
<1>. QED BY <1>2, <1>4, <1>5, <1>6

LEMMA FinalizeObjectKeeps ==
    ASSUME IInv, EInv, FinalizeObject
    PROVE  EInv'
<1>1. /\ phase \in {"sweep", "closeSweep"} /\ work' = Drops(cur)
      /\ phase' = (IF phase = "sweep" THEN "next" ELSE "closeNext")
      /\ UNCHANGED <<heap, weak, stack, open, chain, lost, tchain, cur>>
  BY DEF FinalizeObject, Sweeping
<1>2. Reach' = Reach /\ Marked' = Marked
  BY <1>1, ReachKept DEF Marked
<1>3. Passed'
  <2>. SUFFICES ASSUME NEW o \in ToSet(chain) PROVE Emptied(o)' \/ Later(o)' \/ AtCursor(o)'
    BY <1>1 DEF Passed
  <2>1. Emptied(o) \/ Later(o) \/ cur = o
    BY <1>1 DEF EInv, Passed, InSweep, AtCursor
  <2>2. CASE cur = o
    <3>1. \A i \in Slot : \E k \in 1 .. Len(work') :
               work'[k].op = "drop" /\ work'[k].obj = o /\ work'[k].slot = i
      BY <1>1, <2>2, DropTasks
    <3>2. \A i \in Slot : \E k \in 1 .. Len(work)' : DropAt(k, o, i)'
      BY <3>1 DEF DropAt
    <3>. QED BY <1>1, <2>2, <3>2 DEF AtCursor
  <2>. QED BY <1>1, <2>1, <2>2 DEF Emptied, Later
<1>4. OpenReached' /\ MarkedReached'
  BY <1>1, <1>2 DEF EInv, OpenReached, MarkedReached, InCollection
<1>5. NothingLost' /\ RootsGone' /\ ClosedEmpty'
  BY <1>1 DEF EInv, NothingLost, RootsGone, ClosedEmpty
<1>. QED BY <1>3, <1>4, <1>5 DEF EInv

\* An object whose slots have all been emptied.
LEMMA AllEmpty ==
    ASSUME TypeOK, NEW o \in Obj, \A i \in Slot : heap[o].slots[i] = Null
    PROVE  heap[o].slots = NoSlots
<1>1. heap[o].slots \in [Slot -> Ref]
  BY Types, ObjFields
<1>. QED BY <1>1 DEF NoSlots

\* Where the sweep is.
LEMMA CursorInChain ==
    ASSUME IInv, lost = {}, cur # Null
    PROVE  cur \in ToSet(chain) /\ cur \in Obj
<1>1. cur \in Obj /\ cur \notin Marked /\ cur \in Things
  BY Types DEF IInv, PhaseFits, Things
<1>2. Held(cur)
  BY DEF Held
<1>. QED BY <1>1, <1>2, HeldFacts, ChainHasUnmarked

LEMMA NextInChain ==
    ASSUME NEW o \in ToSet(chain), Listed(chain), lost = {}, NEW k, k = PositionOf(chain, o)
    PROVE  NextOf(o) = IF k = Len(chain) THEN Null ELSE chain[k + 1]
<1>1. \A s : s \in lost \cup {chain} <=> s = chain
  OBVIOUS
<1>2. (CHOOSE s \in lost \cup {chain} : o \in ToSet(s)) = chain
  BY <1>1
<1>. QED BY <1>2, Zenon DEF NextOf

LEMMA SweepNextKeeps ==
    ASSUME IInv, EInv, SweepNext
    PROVE  EInv'
<1>1. /\ phase \in {"next", "closeNext"} /\ work = <<>> /\ heap' = Referenced(heap, NextOf(cur))
      /\ cur' = NextOf(cur)
      /\ phase' = (IF phase = "next" THEN "sweep" ELSE "closeSweep")
      /\ UNCHANGED <<weak, stack, open, chain, lost, tchain>>
  BY DEF SweepNext
<1>2. TypeOK /\ heap \in [Obj -> ObjType] /\ Listed(chain) /\ lost = {} /\ ToSet(chain) \subseteq Obj
  BY Types, ChainHasUnmarked, MembersAreObjects DEF IInv, ChainsFit, ListsFit, Lists, EInv, NothingLost
<1>3. \A o \in Obj : heap'[o].slots = heap[o].slots
  BY <1>1, <1>2, ReferencedFacts
<1>4. Reach' = Reach /\ Marked' = Marked
  BY <1>1, <1>3, ReachKept, ReachFacts DEF Marked
<1>5. cur # Null /\ cur \in ToSet(chain)
  BY <1>1, <1>2, CursorInChain DEF IInv, PhaseFits
<1>6. Passed'
  <2>. SUFFICES ASSUME NEW o \in ToSet(chain) PROVE Emptied(o)' \/ Later(o)' \/ AtCursor(o)'
    BY <1>1 DEF Passed
  <2>1. Emptied(o) => Emptied(o)'
    BY <1>2, <1>3 DEF Emptied
  <2>2. AtCursor(o) => Emptied(o)
    <3>. SUFFICES ASSUME AtCursor(o) PROVE Emptied(o)
      OBVIOUS
    <3>1. 1 .. Len(work) = {}
      BY ONLY <1>1
    <3>2. \A i \in Slot : heap[o].slots[i] = Null
      BY <1>1, <3>1 DEF AtCursor, Sweeping
    <3>. QED BY <1>2, <3>2, AllEmpty DEF Emptied
  <2>3. CASE Later(o)
    <3>1. PICK n \in Nat : n = Len(chain)
      BY <1>2, LenProperties DEF Listed
    <3>2. PICK a \in 1 .. n : a = PositionOf(chain, cur)
      BY <1>2, <1>5, <3>1, PositionFacts
    <3>3. PICK b \in 1 .. n : b = PositionOf(chain, o)
      BY <1>2, <3>1, PositionFacts
    <3>4. a < b
      BY <2>3, <3>2, <3>3 DEF Later
    <3>5. a # n /\ a + 1 \in 1 .. n /\ a + 1 <= b
      BY ONLY <3>4, a \in 1 .. n, b \in 1 .. n, n \in Nat
    <3>6. cur' = chain[a + 1]
      BY <1>1, <1>2, <1>5, <3>1, <3>2, <3>5, NextInChain
    <3>7. PICK q : q = chain[a + 1]
      OBVIOUS
    <3>8. q \in ToSet(chain) /\ q # Null
      <4>1. a + 1 \in DOMAIN chain
        BY <1>2, <3>1, <3>5, LenProperties DEF Listed
      <4>2. q \in ToSet(chain)
        BY <3>7, <4>1 DEF ToSet
      <4>. QED BY <1>2, <4>2, GcHeapAssumption
    <3>9. PositionOf(chain, q) = a + 1
      BY <1>2, <3>1, <3>5, <3>7, <3>8, PositionFacts
    <3>10. CASE a + 1 = b
      <4>1. o = q
        BY <1>2, <3>3, <3>7, <3>10, PositionFacts
      <4>. QED BY <1>1, <3>6, <3>7, <4>1 DEF AtCursor, Sweeping
    <3>11. CASE a + 1 # b
      <4>1. a + 1 < b
        BY ONLY <3>5, <3>11, a \in 1 .. n, b \in 1 .. n, n \in Nat
      <4>. QED BY <1>1, <3>3, <3>6, <3>7, <3>8, <3>9, <4>1 DEF Later
    <3>. QED BY <3>10, <3>11
  <2>4. Emptied(o) \/ Later(o) \/ AtCursor(o)
    BY <1>1 DEF EInv, Passed, InSweep
  <2>. QED BY <2>1, <2>2, <2>3, <2>4
<1>7. OpenReached' /\ MarkedReached'
  BY <1>1, <1>4 DEF EInv, OpenReached, MarkedReached, InCollection
<1>8. NothingLost' /\ RootsGone' /\ ClosedEmpty'
  BY <1>1 DEF EInv, NothingLost, RootsGone, ClosedEmpty
<1>. QED BY <1>6, <1>7, <1>8 DEF EInv

----------------------------------------------------------------------------
(* Steps of the destructors.                                               *)

LEMMA EmptySlots ==
    ASSUME NEW f \in [Slot -> Ref], \A i \in Slot : f[i] = Null
    PROVE  f = NoSlots
  BY DEF NoSlots

\* A destructor step may take an object out of the chain and null a slot that
\* it has a task for.
LEMMA DestroyKeeps ==
    ASSUME NEW p \in Seq(Task), IInv, EInv, TypeOK', work # <<>>, work' = p \o Tail(work),
           UNCHANGED <<stack, open, tchain, cur, phase>>, lost' = {},
           \A q \in Marked : heap'[q].slots = heap[q].slots,
           ToSet(chain') \subseteq ToSet(chain),
           \A q \in ToSet(chain') : cur # Null /\ PositionOf(chain, cur) < PositionOf(chain, q)
               => PositionOf(chain', cur) < PositionOf(chain', q),
           \A q \in Obj, i \in Slot :
               heap'[q].slots[i] # Null => heap[q].slots[i] # Null /\ ~ DropAt(1, q, i)
    PROVE  EInv'
<1>1. TypeOK /\ lost = {} /\ ToSet(chain) \subseteq Obj
  BY ChainHasUnmarked, MembersAreObjects DEF IInv, EInv, NothingLost
<1>2. CASE ~ InSweep
  <2>1. phase \in {"run", "close"}
    BY <1>1, <1>2 DEF IInv, PhaseFits, InSweep, TypeOK, Phase
  <2>. QED BY <2>1, QuietStep
<1>3. CASE InSweep
  <2>1. InCollection => Reach' = Reach /\ Marked' = Marked
    <3>. SUFFICES ASSUME InCollection PROVE Reach' = Reach /\ Marked' = Marked
      OBVIOUS
    <3>1. Found = {}
      BY <1>3 DEF InSweep, InCollection, IInv, MarksFit
    <3>2. Reach \subseteq Marked
      BY <1>1, <3>1, ReachMarked
    <3>. QED BY <3>2, ReachKept DEF Marked
  <2>2. OpenReached' /\ MarkedReached'
    <3>1. InCollection' <=> InCollection
      BY DEF InCollection
    <3>. QED BY <2>1, <3>1 DEF EInv, OpenReached, MarkedReached
  <2>3. NothingLost' /\ RootsGone' /\ ClosedEmpty'
    BY <1>3 DEF EInv, NothingLost, RootsGone, ClosedEmpty, InSweep
  <2>4. Passed'
    <3>. SUFFICES ASSUME NEW q \in ToSet(chain') PROVE Emptied(q)' \/ Later(q)' \/ AtCursor(q)'
      BY DEF Passed
    <3>0. q \in ToSet(chain) /\ q \in Obj
      BY <1>1
    <3>1. ASSUME Emptied(q) PROVE Emptied(q)'
      <4>1. \A i \in Slot : heap[q].slots[i] = Null
        BY <3>1, UnusedFacts DEF Emptied
      <4>2. \A i \in Slot : heap'[q].slots[i] = Null
        BY <3>0, <4>1
      <4>3. heap'[q].slots \in [Slot -> Ref]
        BY <3>0, TypesAfter, ObjFields
      <4>4. PICK f \in [Slot -> Ref] : f = heap'[q].slots
        BY <4>3
      <4>5. f = NoSlots
        BY <4>2, <4>4, EmptySlots
      <4>. QED BY <4>4, <4>5 DEF Emptied
    <3>2. ASSUME Later(q) PROVE Later(q)'
      BY <3>2 DEF Later
    <3>3. ASSUME AtCursor(q) PROVE AtCursor(q)'
      <4>1. CASE Sweeping
        BY <3>3, <4>1 DEF AtCursor, Sweeping
      <4>2. CASE ~ Sweeping
        <5>. SUFFICES ASSUME NEW i \in Slot, heap'[q].slots[i] # Null
                      PROVE  \E k \in 1 .. Len(work)' : DropAt(k, q, i)'
          BY <3>3 DEF AtCursor
        <5>1. heap[q].slots[i] # Null /\ ~ DropAt(1, q, i)
          BY <3>0
        <5>2. PICK k \in 1 .. Len(work) : DropAt(k, q, i)
          BY <3>3, <4>2, <5>1 DEF AtCursor
        <5>3. Len(work) \in Nat
          BY <1>1, FirstTask
        <5>4. k \in 2 .. Len(work)
          <6>1. k # 1
            BY <5>1, <5>2
          <6>. QED BY <5>3, <6>1
        <5>5. k + Len(p) - 1 \in 1 .. Len(work)' /\ work'[k + Len(p) - 1] = work[k]
          BY <1>1, <5>4, Moved
        <5>6. PICK j \in 1 .. Len(work)' : j = k + Len(p) - 1
          BY <5>5
        <5>. QED BY <5>2, <5>5, <5>6 DEF DropAt
      <4>. QED BY <4>1, <4>2
    <3>. QED BY <1>3, <3>0, <3>1, <3>2, <3>3 DEF EInv, Passed
  <2>. QED BY <2>2, <2>3, <2>4 DEF EInv
<1>. QED BY <1>2, <1>3

\* What is left of a list keeps its order.
LEMMA WithoutOrder ==
    ASSUME NEW s, Listed(s), NEW o \in ToSet(s), NEW a \in ToSet(s), NEW b \in ToSet(s),
           a # o, b # o, PositionOf(s, a) < PositionOf(s, b)
    PROVE  PositionOf(Without(s, o), a) < PositionOf(Without(s, o), b)
<1>1. PICK n : n = PositionOf(s, o)
  OBVIOUS
<1>2. PICK l \in Nat : l = Len(s)
  BY LenProperties DEF Listed
<1>3. n \in 1 .. l /\ s[n] = o
  BY <1>1, <1>2, PositionFacts
<1>4. PICK t : t = Without(s, o)
  OBVIOUS
<1>5. Len(t) = l - 1 /\ \A k \in 1 .. l - 1 : t[k] = IF k < n THEN s[k] ELSE s[k + 1]
  <2>1. /\ Len(Without(s, o)) = Len(s) - 1
        /\ \A k \in 1 .. Len(s) - 1 : Without(s, o)[k] = IF k < n THEN s[k] ELSE s[k + 1]
    BY <1>1, WithoutIndices
  <2>. QED BY ONLY <1>2, <1>4, <2>1
<1>6. Listed(t) /\ ToSet(t) = ToSet(s) \ {o}
  BY <1>4, WithoutFacts
<1>7. PICK i \in 1 .. l : i = PositionOf(s, a) /\ s[i] = a
  BY <1>2, PositionFacts
<1>8. PICK j \in 1 .. l : j = PositionOf(s, b) /\ s[j] = b
  BY <1>2, PositionFacts
<1>9. i # n /\ j # n /\ i < j
  BY <1>3, <1>7, <1>8
<1>10. \A k \in 1 .. l : k # n =>
           /\ (IF k < n THEN k ELSE k - 1) \in 1 .. l - 1
           /\ t[IF k < n THEN k ELSE k - 1] = s[k]
  <2>. SUFFICES ASSUME NEW k \in 1 .. l, k # n
                PROVE  /\ (IF k < n THEN k ELSE k - 1) \in 1 .. l - 1
                       /\ t[IF k < n THEN k ELSE k - 1] = s[k]
    OBVIOUS
  <2>1. CASE k < n
    <3>1. k \in 1 .. l - 1
      BY ONLY <1>3, <2>1, k \in 1 .. l, n \in 1 .. l, l \in Nat
    <3>. QED BY <1>5, <2>1, <3>1
  <2>2. CASE ~ (k < n)
    <3>1. k - 1 \in 1 .. l - 1 /\ ~ (k - 1 < n) /\ k - 1 + 1 = k
      BY ONLY <1>3, <2>2, k # n, k \in 1 .. l, l \in Nat
    <3>. QED BY <1>5, <2>2, <3>1
  <2>. QED BY <2>1, <2>2
<1>11. PICK x \in 1 .. l - 1 : x = (IF i < n THEN i ELSE i - 1) /\ t[x] = a
  BY <1>7, <1>9, <1>10
<1>12. PICK y \in 1 .. l - 1 : y = (IF j < n THEN j ELSE j - 1) /\ t[y] = b
  BY <1>8, <1>9, <1>10
<1>13. x < y
  BY ONLY <1>3, <1>9, <1>11, <1>12, l \in Nat, i \in 1 .. l, j \in 1 .. l
<1>14. x = PositionOf(t, a) /\ y = PositionOf(t, b)
  BY <1>5, <1>6, <1>11, <1>12, PositionFacts
<1>. QED BY <1>4, <1>13, <1>14

LEMMA ReleaseObjectKeeps ==
    ASSUME IInv, EInv, NEW o \in Obj, work # <<>>, work[1].op = "release", work[1].obj = o,
           ReleaseObject(o), UNCHANGED <<stack, open, tchain, cur, phase>>
    PROVE  EInv' /\ \A q \in Marked : heap'[q].slots = heap[q].slots
<1>0. /\ TypeOK /\ TypeOK' /\ heap \in [Obj -> ObjType] /\ o \in Things /\ lost = {}
      /\ 1 \in 1 .. Len(work) /\ work \in Seq(Task) /\ Listed(chain)
      /\ ToSet(chain) = Unmarked /\ Unmarked \subseteq Obj
  BY ReleaseObjectStep, Types, FirstTask, ChainHasUnmarked, MembersAreObjects
     DEF IInv, Things, EInv, NothingLost, ChainsFit, ListsFit, Lists
<1>1. \A q \in Obj : heap'[q].slots = heap[q].slots
  <2>1. PICK t : t = [heap[o] EXCEPT !.refs = heap[o].refs - 1]
    OBVIOUS
  <2>2. t.slots = heap[o].slots
    BY <1>0, <2>1 DEF ObjType
  <2>3. heap' = [heap EXCEPT ![o] = t]
    BY <2>1 DEF ReleaseObject
  <2>. QED BY <1>0, <2>2, <2>3
<1>2. \A q \in Marked : heap'[q].slots = heap[q].slots
  BY <1>0, <1>1, MembersAreObjects
<1>3. \A q \in Obj, i \in Slot :
          heap'[q].slots[i] # Null => heap[q].slots[i] # Null /\ ~ DropAt(1, q, i)
  BY <1>1 DEF DropAt
<1>4. CASE heap[o].refs = 1 /\ o \notin Marked
  <2>1. PICK p : p = Drops(o) \o FreeTask(o)
    OBVIOUS
  <2>2. p \in Seq(Task)
    BY <2>1, DyingTasks DEF Dying
  <2>3. SetLists(Unchained(Lists, o)) /\ work' = p \o Tail(work)
    BY <1>4, <2>1 DEF ReleaseObject
  <2>4. o \in ToSet(chain)
    <3>1. Held(o)
      BY <1>0 DEF Held
    <3>2. o \in Unmarked \cup Marked
      BY <1>0, <3>1, HeldFacts
    <3>. QED BY <1>0, <1>4, <3>2
  <2>5. chain' = Without(chain, o) /\ lost' = {}
    <3>1. Unchained(Lists, o) = [Lists EXCEPT !.main = Without(@, o)]
      BY <2>4 DEF Unchained, Lists
    <3>2. Unchained(Lists, o).main = Without(chain, o) /\ Unchained(Lists, o).lost = {}
      BY <1>0, <3>1 DEF Lists
    <3>. QED BY <2>3, <3>2 DEF SetLists
  <2>6. ToSet(chain') = ToSet(chain) \ {o}
    BY <1>0, <2>4, <2>5, WithoutFacts
  <2>7. cur # o
    <3>. SUFFICES ASSUME cur = o PROVE FALSE
      OBVIOUS
    <3>1. Pending(work, o) > 0
      <4>1. 1 \in Releases(work, o)
        BY <1>0 DEF Releases
      <4>2. IsFiniteSet(Releases(work, o)) /\ Pending(work, o) \in Nat
        BY <1>0, ReleasesFinite, LenProperties
      <4>. QED BY <4>1, <4>2, FS_EmptySet DEF Pending
    <3>2. Total(o) = 1
      BY <1>0, <1>4 DEF IInv, Exact, RefsOf
    <3>3. /\ InRegisters(o) \in Nat /\ InOpen(o) \in Nat /\ InSlots(o) \in Nat
          /\ Pending(work, o) \in Nat /\ Same(cur, o) = 1
      BY <1>0, TotalType DEF Same
    <3>. QED BY <3>1, <3>2, <3>3 DEF Total
  <2>8. ASSUME NEW q \in ToSet(chain'), cur # Null, PositionOf(chain, cur) < PositionOf(chain, q)
        PROVE  PositionOf(chain', cur) < PositionOf(chain', q)
    <3>1. PICK c \in ToSet(chain) : c = cur
      BY <1>0, <2>8, CursorInChain
    <3>2. q \in ToSet(chain) /\ q # o
      BY <2>6
    <3>3. PICK s : s = chain
      OBVIOUS
    <3>4. PositionOf(Without(s, o), c) < PositionOf(Without(s, o), q)
      BY <1>0, <2>4, <2>7, <2>8, <3>1, <3>2, <3>3, WithoutOrder
    <3>. QED BY <2>5, <3>1, <3>3, <3>4
  <2>. QED BY <1>0, <1>2, <1>3, <2>2, <2>3, <2>5, <2>6, <2>8, DestroyKeeps
<1>5. CASE ~ (heap[o].refs = 1 /\ o \notin Marked)
  <2>1. work' = Tail(work) /\ chain' = chain /\ lost' = lost
    BY <1>5 DEF ReleaseObject
  <2>2. PICK p : p = <<>>
    OBVIOUS
  <2>3. p \in Seq(Task) /\ work' = p \o Tail(work)
    BY <1>0, <2>1, <2>2, HeadTailProperties
  <2>. QED BY <1>0, <1>2, <1>3, <2>1, <2>3, DestroyKeeps
<1>. QED BY <1>2, <1>4, <1>5

\* The other steps leave the chain alone.
LEMMA SlotsGo ==
    ASSUME NEW p \in Seq(Task), IInv, EInv, TypeOK', work # <<>>, work' = p \o Tail(work),
           UNCHANGED <<stack, open, chain, lost, tchain, cur, phase>>,
           \A q \in Marked : heap'[q].slots = heap[q].slots,
           \A q \in Obj, i \in Slot :
               heap'[q].slots[i] # Null => heap[q].slots[i] # Null /\ ~ DropAt(1, q, i)
    PROVE  EInv'
<1>1. lost' = {}
  BY DEF EInv, NothingLost
<1>2. ToSet(chain') \subseteq ToSet(chain)
  OBVIOUS
<1>3. \A q \in ToSet(chain') : cur # Null /\ PositionOf(chain, cur) < PositionOf(chain, q)
          => PositionOf(chain', cur) < PositionOf(chain', q)
  OBVIOUS
<1>. QED BY <1>1, <1>2, <1>3, DestroyKeeps

LEMMA ReleaseWeakKeeps ==
    ASSUME IInv, EInv, NEW w \in Weak, work # <<>>, work[1].op = "release", work[1].obj = w,
           ReleaseWeak(w), UNCHANGED <<stack, open, tchain, cur, phase>>
    PROVE  EInv' /\ \A q \in Marked : heap'[q].slots = heap[q].slots
<1>0. /\ TypeOK /\ TypeOK' /\ heap \in [Obj -> ObjType] /\ weak[w].obj \in Obj \cup {Null}
      /\ work \in Seq(Task) /\ chain' = chain /\ lost' = lost
  BY ReleaseWeakStep, Types DEF IInv, ReleaseWeak, WeakType
<1>1. \A q \in Obj : heap'[q].slots = heap[q].slots
  <2>1. CASE weak[w].refs = 1 /\ weak[w].obj # Null
    <3>1. PICK o \in Obj : o = weak[w].obj
      BY <1>0, <2>1
    <3>2. PICK t : t = [heap[o] EXCEPT !.weak = Null]
      OBVIOUS
    <3>3. t.slots = heap[o].slots
      BY <1>0, <3>2 DEF ObjType
    <3>4. heap' = [heap EXCEPT ![o] = t]
      BY <2>1, <3>1, <3>2 DEF ReleaseWeak
    <3>. QED BY <1>0, <3>3, <3>4
  <2>2. CASE ~ (weak[w].refs = 1 /\ weak[w].obj # Null)
    BY <2>2 DEF ReleaseWeak
  <2>. QED BY <2>1, <2>2
<1>2. \A q \in Marked : heap'[q].slots = heap[q].slots
  BY <1>0, <1>1, MembersAreObjects
<1>3. \A q \in Obj, i \in Slot :
          heap'[q].slots[i] # Null => heap[q].slots[i] # Null /\ ~ DropAt(1, q, i)
  BY <1>1 DEF DropAt
<1>4. PICK p : p = <<>>
  OBVIOUS
<1>5. p \in Seq(Task) /\ work' = p \o Tail(work)
  BY <1>0, <1>4, HeadTailProperties DEF ReleaseWeak
<1>. QED BY <1>0, <1>2, <1>3, <1>5, SlotsGo

\* What loses a slot, and what is freed, is not marked.
LEMMA UnmarkedLoses ==
    ASSUME IInv, NEW o \in Obj, NEW k \in 1 .. Len(work),
           FreeAt(k, o) \/ \E i \in Slot : DropAt(k, o, i)
    PROVE  o \notin Marked
<1>1. ASSUME NEW j \in 1 .. Len(work), FreeAt(j, o)
      PROVE  o \notin Marked
  <2>1. Ending(o)
    BY <1>1 DEF IInv, WorkFits
  <2>. QED BY <2>1 DEF Ending, IInv, ChainsFit
<1>2. ASSUME o \in Finalized
      PROVE  o \notin Marked
  <2>1. cur = o /\ o # Null
    BY <1>2, GcHeapAssumption DEF Finalized
  <2>. QED BY <2>1 DEF IInv, PhaseFits
<1>. QED BY <1>1, <1>2 DEF IInv, WorkFits

LEMMA DropSlotKeeps ==
    ASSUME IInv, EInv, NEW o \in Obj, NEW i \in Slot, work # <<>>,
           work[1].op = "drop", work[1].obj = o, work[1].slot = i,
           DropSlot(o, i), UNCHANGED <<stack, open, tchain, cur, phase>>
    PROVE  EInv' /\ \A q \in Marked : heap'[q].slots = heap[q].slots
<1>0. /\ TypeOK /\ TypeOK' /\ heap \in [Obj -> ObjType] /\ 1 \in 1 .. Len(work) /\ Null \in Ref
      /\ work \in Seq(Task) /\ chain' = chain /\ lost' = lost
  BY DropSlotStep, Types, FirstTask DEF IInv, DropSlot, Ref
<1>1. o \notin Marked
  BY <1>0, UnmarkedLoses DEF DropAt
<1>2. PICK h : h = heap
  OBVIOUS
<1>3. PICK g : g = heap'
  OBVIOUS
<1>4. /\ \A q \in Obj : q # o => g[q].slots = h[q].slots
      /\ g[o].slots[i] = Null
      /\ \A q \in Obj, j \in Slot : q # o \/ j # i => g[q].slots[j] = h[q].slots[j]
  <2>1. g = Stored(h, o, i, Null)
    BY <1>2, <1>3 DEF DropSlot, Stored
  <2>. QED BY <1>0, <1>2, <2>1, SlotSet
<1>5. \A q \in Marked : heap'[q].slots = heap[q].slots
  BY <1>0, <1>1, <1>2, <1>3, <1>4, MembersAreObjects
<1>6. \A q \in Obj, j \in Slot :
          heap'[q].slots[j] # Null => heap[q].slots[j] # Null /\ ~ DropAt(1, q, j)
  BY <1>2, <1>3, <1>4 DEF DropAt
<1>7. PICK p : p = Release(heap[o].slots[i])
  OBVIOUS
<1>8. p \in Seq(Task) /\ work' = p \o Tail(work)
  <2>1. PICK y \in Ref : y = heap[o].slots[i]
    BY <1>0, ObjFields
  <2>. QED BY <1>7, <2>1, ReleaseFacts DEF DropSlot
<1>. QED BY <1>0, <1>5, <1>6, <1>8, SlotsGo

LEMMA FreeKeeps ==
    ASSUME IInv, EInv, NEW o \in Obj, work # <<>>, work[1].op = "free", work[1].obj = o,
           Free(o), UNCHANGED <<stack, open, tchain, cur, phase>>
    PROVE  EInv' /\ \A q \in Marked : heap'[q].slots = heap[q].slots
<1>0. /\ TypeOK /\ TypeOK' /\ heap \in [Obj -> ObjType] /\ 1 \in 1 .. Len(work)
      /\ work \in Seq(Task) /\ chain' = chain /\ lost' = lost
  BY FreeStep, Types, FirstTask DEF IInv, Free
<1>1. o \notin Marked
  BY <1>0, UnmarkedLoses DEF FreeAt
<1>2. heap'[o] = Unused /\ \A q \in Obj : q # o => heap'[q] = heap[q]
  BY <1>0 DEF Free
<1>3. \A q \in Marked : heap'[q].slots = heap[q].slots
  BY <1>0, <1>1, <1>2, MembersAreObjects
<1>4. \A q \in Obj, j \in Slot :
          heap'[q].slots[j] # Null => heap[q].slots[j] # Null /\ ~ DropAt(1, q, j)
  BY <1>2, UnusedFacts DEF DropAt
<1>5. PICK p : p = <<>>
  OBVIOUS
<1>6. p \in Seq(Task) /\ work' = p \o Tail(work)
  BY <1>0, <1>5, HeadTailProperties DEF Free
<1>. QED BY <1>0, <1>3, <1>4, <1>6, SlotsGo

LEMMA DestroyAllKeeps ==
    ASSUME IInv, EInv, Destroy
    PROVE  EInv' /\ \A q \in Marked : heap'[q].slots = heap[q].slots
<1>1. TypeOK /\ work # <<>> /\ UNCHANGED <<stack, open, tchain, cur, phase>>
  BY DEF IInv, Destroy
<1>2. PICK t \in Task : t = work[1] /\ t = Head(work)
  BY <1>1, FirstTask
<1>3. t.op = "drop" => t.obj \in Obj /\ t.slot \in Slot
  BY TaskFacts
<1>4. t.op = "free" => t.obj \in Obj
  BY TaskFacts
<1>5. \/ t.op = "release" /\ t.obj \in Obj /\ ReleaseObject(t.obj)
      \/ t.op = "release" /\ t.obj \in Weak /\ ReleaseWeak(t.obj)
      \/ t.op = "drop" /\ DropSlot(t.obj, t.slot)
      \/ t.op = "free" /\ Free(t.obj)
  BY <1>2 DEF Destroy
<1>6. CASE t.op = "release" /\ t.obj \in Obj /\ ReleaseObject(t.obj)
  BY <1>1, <1>2, <1>6, ReleaseObjectKeeps
<1>7. CASE t.op = "release" /\ t.obj \in Weak /\ ReleaseWeak(t.obj)
  BY <1>1, <1>2, <1>7, ReleaseWeakKeeps
<1>8. CASE t.op = "drop" /\ DropSlot(t.obj, t.slot)
  BY <1>1, <1>2, <1>3, <1>8, DropSlotKeeps
<1>9. CASE t.op = "free" /\ Free(t.obj)
  BY <1>1, <1>2, <1>4, <1>9, FreeKeeps
<1>. QED BY <1>5, <1>6, <1>7, <1>8, <1>9

----------------------------------------------------------------------------
(* The ends of the two loops.                                              *)

\* When the cursor is past the end, every object in the chain is empty.
LEMMA AllPassed ==
    ASSUME IInv, EInv, Sweeping, cur = Null
    PROVE  \A o \in ToSet(chain) : heap[o].slots = NoSlots
<1>1. Null \notin ToSet(chain)
  BY ChainHasUnmarked, MembersAreObjects, GcHeapAssumption DEF IInv, EInv, NothingLost
<1>. QED BY <1>1 DEF EInv, Passed, Emptied, Later, AtCursor, Sweeping, InSweep

\* A collection finds every object that scripts cannot reach, and no other.
LEMMA SweepFindsAll ==
    ASSUME IInv, EInv, phase = "sweep", work = <<>>, cur = Null
    PROVE  chain = <<>> /\ lost = {} /\ Marked = Reach
<1>1. TypeOK /\ Found = {} /\ lost = {} /\ Unmarked = ToSet(chain) /\ Unmarked \cap Marked = {}
  BY ChainHasUnmarked DEF IInv, MarksFit, ChainsFit, EInv, NothingLost
<1>2. Marked = Reach
  BY <1>1, ReachMarked DEF EInv, MarkedReached, InCollection
<1>3. \A p \in Marked : Children(p) \cap ToSet(chain) = {}
  BY <1>1, <1>2, ReachFacts
<1>4. \A r \in Reg : stack[r] \notin ToSet(chain) /\ open[r] \notin ToSet(chain)
  <2>. SUFFICES ASSUME NEW r \in Reg
                PROVE  stack[r] \notin ToSet(chain) /\ open[r] \notin ToSet(chain)
    OBVIOUS
  <2>1. stack[r] \in Obj => stack[r] \in Marked
    BY <1>2, ReachFacts DEF Roots
  <2>2. open[r] \in Marked \cup {Null}
    BY <1>2 DEF EInv, OpenReached, InCollection
  <2>3. ToSet(chain) \subseteq Obj /\ Null \notin Obj
    BY <1>1, MembersAreObjects, GcHeapAssumption
  <2>. QED BY <1>1, <2>1, <2>2, <2>3
<1>5. \A o \in ToSet(chain) : heap[o].slots = NoSlots
  BY AllPassed DEF Sweeping
<1>6. chain = <<>>
  BY <1>1, <1>3, <1>4, <1>5, SweptChain
<1>. QED BY <1>1, <1>2, <1>6

LEMMA EndSweepKeeps ==
    ASSUME IInv, EInv, EndSweep
    PROVE  EInv'
<1>1. /\ phase = "sweep" /\ work = <<>> /\ cur = Null /\ phase' = "run"
      /\ SetLists([main |-> tchain, lost |-> lost \cup {chain}])
  BY DEF EndSweep
<1>2. lost' = {}
  BY <1>1, SweepFindsAll DEF SetLists
<1>. QED BY <1>1, <1>2, QuietStep

LEMMA ClosedKeeps ==
    ASSUME IInv, EInv, Closed
    PROVE  EInv'
<1>1. /\ phase = "closeSweep" /\ work = <<>> /\ cur = Null /\ phase' = "closed"
      /\ UNCHANGED <<heap, weak, stack, open, chain, lost, tchain, work, cur>>
  BY DEF Closed
<1>2. lost = {} /\ Marked = {} /\ \A r \in Reg : stack[r] = Null /\ open[r] = Null
  BY <1>1, EmptyListed DEF EInv, NothingLost, RootsGone, IInv, PhaseFits, InCollection, Marked
<1>3. Null \notin ToSet(chain)
  BY <1>2, ChainHasUnmarked, MembersAreObjects, GcHeapAssumption DEF IInv
<1>4. chain = <<>>
  BY <1>1, <1>2, <1>3, AllPassed, SweptChain DEF Sweeping
<1>. QED BY <1>1, <1>2, <1>4
         DEF EInv, OpenReached, MarkedReached, NothingLost, Passed, RootsGone, ClosedEmpty,
             InCollection, InSweep

----------------------------------------------------------------------------
(* Every step.                                                             *)

\* Scripts cut nothing off the chain.
LEMMA ScriptKeeps ==
    ASSUME EInv, phase' = phase, phase \in {"run", "close"}, lost' = lost
    PROVE  EInv'
  BY QuietStep DEF EInv, NothingLost

LEMMA ResurrectKeeps ==
    ASSUME EInv, NEW r \in Reg, NEW a \in Obj, Resurrect(r, a)
    PROVE  EInv'
<1>1. phase' = "run" /\ lost' = lost \ {<<>>} /\ lost = {}
  BY DEF Resurrect, SetLists, EInv, NothingLost
<1>. QED BY <1>1, QuietStep

LEMMA StutterKeeps ==
    ASSUME EInv, UNCHANGED vars
    PROVE  EInv'
<1>0. /\ heap' = heap /\ stack' = stack /\ open' = open /\ chain' = chain /\ lost' = lost
      /\ tchain' = tchain /\ work' = work /\ cur' = cur /\ phase' = phase
  BY DEF vars
<1>1. Reach' = Reach /\ Marked' = Marked
  BY <1>0, ReachKept DEF Marked
<1>2. \A o : (Emptied(o)' <=> Emptied(o)) /\ (Later(o)' <=> Later(o)) /\ (AtCursor(o)' <=> AtCursor(o))
  BY <1>0 DEF Emptied, Later, AtCursor, Sweeping, DropAt
<1>3. OpenReached' /\ MarkedReached'
  BY <1>0, <1>1 DEF EInv, OpenReached, MarkedReached, InCollection
<1>4. NothingLost' /\ RootsGone' /\ ClosedEmpty'
  BY <1>0 DEF EInv, NothingLost, RootsGone, ClosedEmpty
<1>5. Passed'
  BY <1>0, <1>2 DEF EInv, Passed, InSweep
<1>. QED BY <1>3, <1>4, <1>5 DEF EInv

LEMMA NextKeeps ==
    ASSUME ~ OpenUnmarked, IInv, EInv, [Next]_vars
    PROVE  EInv'
<1>1. CASE UNCHANGED vars
  BY <1>1, StutterKeeps
<1>2. ASSUME NEW r \in Reg, NEW s \in Reg,
             \/ \E o \in Obj : NewTable(r, o) \/ \E c \in Obj : Capture(r, s, c, o)
             \/ \E x \in {stack[s], Real(stack[s]), Null} : Move(r, x)
             \/ \E i \in Slot : GetSlot(r, s, i) \/ SetSlot(s, i, r)
             \/ \E w \in Weak : GetWeakRef(r, s, w)
      PROVE  EInv'
  <2>1. phase' = phase /\ phase = "run" /\ lost' = lost
    BY <1>2 DEF NewTable, Capture, Move, GetSlot, SetSlot, GetWeakRef, Assign, Idle
  <2>. QED BY <2>1, ScriptKeeps
<1>3. ASSUME NEW s \in Reg, EndVariable(s) \/ CloseOuter(s) \/ NullRegister(s)
      PROVE  EInv'
  <2>1. phase' = phase /\ phase \in {"run", "close"} /\ lost' = lost
    BY <1>3 DEF EndVariable, CloseOuter, NullRegister, Idle
  <2>. QED BY <2>1, ScriptKeeps
<1>4. CASE Destroy
  BY <1>4, DestroyAllKeeps
<1>5. CASE StartMark \/ EndMark \/ Collect \/ FinalizeObject \/ SweepNext \/ EndSweep
  BY <1>5, StartMarkKeeps, EndMarkKeeps, CollectKeeps, FinalizeObjectKeeps, SweepNextKeeps, EndSweepKeeps
<1>6. ASSUME NEW o \in Obj, Mark(o) \/ \E r \in Reg : Resurrect(r, o)
      PROVE  EInv'
  BY <1>6, MarkKeeps, ResurrectKeeps
<1>7. CASE Close
  <2>1. phase' = "close" /\ lost' = lost
    BY <1>7 DEF Close
  <2>. QED BY <2>1, QuietStep DEF EInv, NothingLost
<1>8. CASE CloseSweep \/ Closed
  BY <1>8, CloseSweepKeeps, ClosedKeeps
<1>. QED BY <1>1, <1>2, <1>3, <1>4, <1>5, <1>6, <1>7, <1>8 DEF Next

----------------------------------------------------------------------------
(* What the collector promises.                                            *)

\* Nothing is ever cut off the chain, and the sweep leaves nothing behind it
\* (state.cpp:335-455).
THEOREM CollectorInvariance ==
    ASSUME OpenUnmarked = FALSE
    PROVE  Spec => [](IInv /\ EInv)
<1>1. Init => IInv /\ EInv
  BY InitIInv, InitEInv
<1>2. IInv /\ EInv /\ [Next]_vars => (IInv /\ EInv)'
  BY NextStep, NextKeeps
<1>. QED BY <1>1, <1>2, PTL DEF Spec

LEMMA AllChained ==
    ASSUME IInv, EInv
    PROVE  EveryObjectChained
<1>. SUFFICES ASSUME phase = "run", work = <<>>
              PROVE  ToSet(chain) = Alive /\ Len(chain) = Cardinality(Alive)
  BY DEF EveryObjectChained
<1>1. Marked = {}
  BY EmptyListed DEF IInv, PhaseFits, InCollection, Marked
<1>2. Unmarked = ToSet(chain) /\ Unmarked \subseteq Obj /\ Listed(chain) /\ Alive \subseteq Obj
  BY ChainHasUnmarked, MembersAreObjects
     DEF IInv, EInv, NothingLost, ChainsFit, ListsFit, Lists, Alive
<1>3. ToSet(chain) = Alive
  <2>1. \A o \in Obj : o \in Alive <=> o \in Unmarked
    BY ONLY IInv, work = <<>>, <1>1, QuietFacts
  <2>. QED BY <1>2, <2>1
<1>4. Len(chain) = Cardinality(Alive)
  <2>1. PICK n \in Nat : n = Len(chain)
    BY <1>2, LenProperties DEF Listed
  <2>2. chain \in [1 .. n -> ToSet(chain)]
    BY <1>2, <2>1 DEF Listed, ToSet
  <2>3. PICK f \in [1 .. n -> Alive] : f = chain
    BY <1>3, <2>2
  <2>4. \A b \in Alive : \E a \in 1 .. n : f[a] = b
    BY <1>2, <1>3, <2>1, <2>3, PositionFacts
  <2>5. \A a, b \in 1 .. n : f[a] = f[b] => a = b
    BY <1>2, <2>1, <2>3 DEF Listed
  <2>6. IsFiniteSet(1 .. n) /\ Cardinality(1 .. n) = n
    BY FS_Interval
  <2>7. Cardinality(Alive) = Cardinality(1 .. n)
    BY <2>4, <2>5, <2>6, Image
  <2>. QED BY <2>1, <2>6, <2>7
<1>. QED BY <1>3, <1>4

\* Counting and collecting see the same objects: every count is exact, and
\* when no destructor runs the chain leads to every object, once.
THEOREM HeapAlwaysExact ==
    ASSUME OpenUnmarked = FALSE
    PROVE  Spec => []HeapExact
<1>1. IInv /\ EInv => HeapExact
  BY AllChained, ExactIsCountsExact DEF HeapExact, IInv
<1>. QED BY <1>1, CollectorInvariance, PTL

\* lv_close frees every object, those in cycles and those of captured
\* variables too (state.cpp:191-219).
THEOREM CloseNeverLeaks ==
    ASSUME OpenUnmarked = FALSE
    PROVE  Spec => []CloseLeaksNothing
<1>1. ASSUME IInv, EInv PROVE CloseLeaksNothing
  <2>. SUFFICES ASSUME phase = "closed" PROVE Alive = {}
    BY DEF CloseLeaksNothing
  <2>1. work = <<>> /\ tchain = <<>> /\ chain = <<>> /\ lost = {}
    BY <1>1 DEF IInv, PhaseFits, InCollection, EInv, ClosedEmpty, NothingLost
  <2>2. Unmarked = {} /\ Marked = {}
    BY <2>1, ChainHasUnmarked, EmptyListed DEF Marked
  <2>3. work = <<>>
    BY <2>1
  <2>4. \A o \in Obj : o \in Alive <=> o \in Unmarked \cup Marked
    BY ONLY <1>1, <2>3, QuietFacts
  <2>. QED BY <2>2, <2>4 DEF Alive
<1>. QED BY <1>1, CollectorInvariance, PTL

\* What scripts can reach is there.
LEMMA ReachAlive ==
    ASSUME IInv
    PROVE  Reach \subseteq Alive
<1>1. TypeOK /\ Null \notin Obj /\ Alive \subseteq Obj
  BY GcHeapAssumption DEF IInv, Alive
<1>2. \A o \in Obj : Held(o) => o \in Alive
  BY HeldFacts DEF Alive, Things
<1>3. Roots \subseteq Alive
  BY <1>2 DEF Roots, Held
<1>4. \A p \in Alive : Children(p) \subseteq Alive
  BY <1>1, <1>2 DEF Children, Held
<1>5. PICK S \in SUBSET Obj : S = Alive
  BY <1>1
<1>6. PICK R, C : R = Roots /\ C = ChildrenOf(heap)
  OBVIOUS
<1>7. Closed2(S, R, C)
  BY <1>3, <1>4, <1>5, <1>6, ReachIsLeast DEF Closed2
<1>8. LeastOf(R, C) \subseteq S
  BY <1>7, LeastIsLeast
<1>. QED BY <1>5, <1>6, <1>8, ReachIsLeast

LEMMA ResurrectLeavesReach ==
    ASSUME IInv, NEW r \in Reg, NEW a \in Obj, Resurrect(r, a)
    PROVE  \A o \in Reach : heap'[o].slots = heap[o].slots
<1>0. heap \in [Obj -> ObjType] /\ Reach \subseteq Alive /\ Alive \subseteq Obj
  BY Types, ReachAlive DEF IInv, Alive
<1>1. CASE chain = <<>>
  BY <1>1 DEF Resurrect
<1>2. CASE chain # <<>>
  <2>1. a \notin Alive
    BY <1>2 DEF Resurrect
  <2>. DEFINE F == {o \in ToSet(chain) : heap[o].kind # "outer"}
  <2>2. \E S \in [Slot -> F \cup {Null}] :
          /\ F \subseteq {S[i] : i \in Slot}
          /\ \A i, j \in Slot : i < j /\ S[j] # Null =>
                /\ S[i] # Null
                /\ PositionOf(chain, S[i]) < PositionOf(chain, S[j])
          /\ heap' = [o \in Obj |->
                IF o = a THEN [Created("table") EXCEPT !.refs = 1, !.slots = S]
                ELSE IF o \in F THEN [heap[o] EXCEPT !.refs = @ + 1] ELSE heap[o]]
    BY ONLY Resurrect(r, a), <1>2, Zenon DEF Resurrect
  <2>. HIDE DEF F
  <2>. SUFFICES ASSUME NEW o \in Reach PROVE heap'[o].slots = heap[o].slots
    OBVIOUS
  <2>3. o \in Obj /\ o # a
    BY <1>0, <2>1
  <2>4. PICK t : t = [heap[o] EXCEPT !.refs = heap[o].refs + 1]
    OBVIOUS
  <2>5. t.slots = heap[o].slots
    BY <1>0, <2>3, <2>4 DEF ObjType
  <2>6. heap'[o] = t \/ heap'[o] = heap[o]
    BY <2>2, <2>3, <2>4, Zenon
  <2>. QED BY <2>5, <2>6
<1>. QED BY <1>1, <1>2

\* A step of a collection leaves what scripts can reach as it is.
LEMMA CollectionLeavesReach ==
    ASSUME IInv, EInv, Next, InCollection
    PROVE  \A o \in Reach : heap'[o].slots = heap[o].slots
<1>0. heap \in [Obj -> ObjType] /\ Reach \subseteq Obj /\ TypeOK
  BY Types, ReachFacts DEF IInv
<1>1. CASE Destroy
  <2>1. work # <<>>
    BY <1>1 DEF Destroy
  <2>2. Found = {}
    BY <2>1 DEF IInv, PhaseFits, MarksFit, InCollection
  <2>. QED BY <1>0, <1>1, <2>2, ReachMarked, DestroyAllKeeps
<1>2. ASSUME NEW x, heap' = Referenced(heap, x)
      PROVE  \A o \in Reach : heap'[o].slots = heap[o].slots
  BY <1>0, <1>2, ReferencedFacts
<1>3. CASE Collect \/ SweepNext
  BY <1>2, <1>3 DEF Collect, StartSweep, SweepNext
<1>4. CASE EndMark \/ FinalizeObject \/ EndSweep
  BY <1>4 DEF EndMark, FinalizeObject, EndSweep
<1>5. ASSUME NEW o \in Obj, Mark(o)
      PROVE  heap' = heap
  BY <1>5 DEF Mark
<1>6. ASSUME NEW o \in Obj, NEW r \in Reg, Resurrect(r, o)
      PROVE  \A p \in Reach : heap'[p].slots = heap[p].slots
  BY <1>6, ResurrectLeavesReach
<1>7. phase \notin {"run", "close", "closeSweep"}
  BY DEF InCollection
<1>8. ~ (StartMark \/ Close \/ CloseSweep \/ Closed)
  BY <1>7 DEF StartMark, Close, CloseSweep, Closed, Idle
<1>9. ASSUME NEW s \in Reg
      PROVE  ~ (EndVariable(s) \/ CloseOuter(s) \/ NullRegister(s))
  BY <1>7 DEF EndVariable, CloseOuter, NullRegister, Idle
<1>10. ASSUME NEW r \in Reg, NEW s \in Reg,
              \/ \E o \in Obj : NewTable(r, o) \/ \E c \in Obj : Capture(r, s, c, o)
              \/ \E x \in {stack[s], Real(stack[s]), Null} : Move(r, x)
              \/ \E i \in Slot : GetSlot(r, s, i) \/ SetSlot(s, i, r)
              \/ \E w \in Weak : GetWeakRef(r, s, w)
       PROVE  FALSE
  BY <1>7, <1>10 DEF NewTable, Capture, Move, GetSlot, SetSlot, GetWeakRef, Idle
<1>. QED BY <1>1, <1>3, <1>4, <1>5, <1>6, <1>8, <1>9, <1>10 DEF Next

\* A collection ends with exactly the objects that scripts can reach, and
\* leaves them as they were (state.cpp:383-423).
THEOREM CollectionIsExact ==
    ASSUME OpenUnmarked = FALSE
    PROVE  Spec => CollectIsExact
<1>1. ASSUME IInv, EInv, [Next]_vars
      PROVE  [ /\ phase = "sweep" /\ phase' = "run" => Alive = Reach
               /\ phase \in {"mark", "marked", "sweep", "next"} =>
                    \A o \in Reach : heap'[o].slots = heap[o].slots ]_vars
  <2>. SUFFICES ASSUME ~ UNCHANGED vars
                PROVE  /\ phase = "sweep" /\ phase' = "run" => Alive = Reach
                       /\ phase \in {"mark", "marked", "sweep", "next"} =>
                            \A o \in Reach : heap'[o].slots = heap[o].slots
    OBVIOUS
  <2>1. Next
    BY <1>1
  <2>2. ASSUME phase = "sweep", phase' = "run"
        PROVE  Alive = Reach
    <3>1. EndSweep
      <4>1. ~ (StartMark \/ EndMark \/ Collect \/ FinalizeObject \/ SweepNext \/ Close \/ CloseSweep \/ Closed)
        BY <2>2 DEF StartMark, EndMark, Collect, StartSweep, FinalizeObject, SweepNext, Close,
                    CloseSweep, Closed, Idle
      <4>2. ~ Destroy
        BY <2>2 DEF Destroy
      <4>3. \A o \in Obj : ~ Mark(o) /\ \A r \in Reg : ~ Resurrect(r, o)
        BY <2>2 DEF Mark, Resurrect
      <4>4. \A s \in Reg : ~ (EndVariable(s) \/ CloseOuter(s) \/ NullRegister(s))
        BY <2>2 DEF EndVariable, CloseOuter, NullRegister, Idle
      <4>5. ASSUME NEW r \in Reg, NEW s \in Reg,
                   \/ \E o \in Obj : NewTable(r, o) \/ \E c \in Obj : Capture(r, s, c, o)
                   \/ \E x \in {stack[s], Real(stack[s]), Null} : Move(r, x)
                   \/ \E i \in Slot : GetSlot(r, s, i) \/ SetSlot(s, i, r)
                   \/ \E w \in Weak : GetWeakRef(r, s, w)
            PROVE  FALSE
        BY <2>2, <4>5 DEF NewTable, Capture, Move, GetSlot, SetSlot, GetWeakRef, Idle
      <4>. QED BY <2>1, <4>1, <4>2, <4>3, <4>4, <4>5 DEF Next
    <3>2. work = <<>> /\ cur = Null
      BY <3>1 DEF EndSweep
    <3>3. chain = <<>> /\ lost = {} /\ Marked = Reach
      BY <1>1, <2>2, <3>2, SweepFindsAll
    <3>4. Unmarked = {}
      BY <3>3, ChainHasUnmarked, EmptyListed
    <3>5. work = <<>>
      BY <3>2
    <3>6. \A o \in Obj : o \in Alive <=> o \in Unmarked \cup Marked
      BY ONLY <1>1, <3>5, QuietFacts
    <3>. QED BY <3>3, <3>4, <3>6, ReachFacts DEF Alive
  <2>3. ASSUME phase \in {"mark", "marked", "sweep", "next"}
        PROVE  \A o \in Reach : heap'[o].slots = heap[o].slots
    BY <1>1, <2>1, <2>3, CollectionLeavesReach DEF InCollection
  <2>. QED BY <2>2, <2>3
<1>. QED BY <1>1, CollectorInvariance, PTL DEF Spec, CollectIsExact
=============================================================================
