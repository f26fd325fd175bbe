--------------------------- MODULE RefTable_proofs ---------------------------
(***************************************************************************)
(* Proofs about RefTable, for any objects, hash and initial size: every    *)
(* node is in its list through adding, unlinking and doubling, the table   *)
(* counts as HandleCounts promises, and for a host that counts only what   *)
(* it holds the roots are the objects held and no assert fails.            *)
(***************************************************************************)
EXTENDS RefTable, FiniteSetTheorems, SequenceTheorems, TLAPS

----------------------------------------------------------------------------
(* The lists of nodes.                                                     *)

\* No entry is in the sequence twice.
Once(s) == \A i, j \in 1 .. Len(s) : s[i] = s[j] => i = j

\* A function over 1 .. n is a sequence of that length.
LEMMA FunctionIsSeq ==
    ASSUME NEW T, NEW n \in Nat, NEW f \in [1 .. n -> T]
    PROVE  f \in Seq(T) /\ Len(f) = n
  OBVIOUS

\* The node put first, as Add and Release do with a chain and the free list.
LEMMA PutFirst ==
    ASSUME NEW T, NEW s \in Seq(T), NEW n \in T
    PROVE  /\ <<n>> \o s \in Seq(T) /\ Len(<<n>> \o s) = Len(s) + 1
           /\ (<<n>> \o s)[1] = n
           /\ \A i \in 1 .. Len(s) : (<<n>> \o s)[i + 1] = s[i]
           /\ \A i \in 1 .. Len(s) + 1 : i # 1 => i - 1 \in 1 .. Len(s) /\ (<<n>> \o s)[i] = s[i - 1]
<1>1. <<n>> \in Seq(T) /\ Len(<<n>>) = 1 /\ <<n>>[1] = n
  OBVIOUS
<1>2. Len(s) \in Nat
  BY LenProperties
<1>3. /\ <<n>> \o s \in Seq(T) /\ Len(<<n>> \o s) = 1 + Len(s)
      /\ \A i \in 1 .. 1 + Len(s) : (<<n>> \o s)[i] = IF i <= 1 THEN <<n>>[i] ELSE s[i - 1]
  BY <1>1, ConcatProperties
<1>. QED BY <1>1, <1>2, <1>3

LEMMA PutFirstOnce ==
    ASSUME NEW T, NEW s \in Seq(T), NEW n \in T, Once(s), \A i \in 1 .. Len(s) : s[i] # n
    PROVE  Once(<<n>> \o s)
<1>1. Len(s) \in Nat
  BY LenProperties
<1>. SUFFICES ASSUME NEW i \in 1 .. Len(s) + 1, NEW j \in 1 .. Len(s) + 1,
                     (<<n>> \o s)[i] = (<<n>> \o s)[j]
              PROVE  i = j
  BY PutFirst DEF Once
<1>2. CASE i = 1
  BY <1>1, <1>2, PutFirst
<1>3. CASE j = 1
  BY <1>1, <1>3, PutFirst
<1>4. CASE i # 1 /\ j # 1
  <2>1. i - 1 \in 1 .. Len(s) /\ j - 1 \in 1 .. Len(s) /\ s[i - 1] = s[j - 1]
    BY <1>1, <1>4, PutFirst
  <2>. QED BY <1>1, <2>1 DEF Once
<1>. QED BY <1>2, <1>3, <1>4

\* The place of an entry without the entry at n: what Release does with a chain.
LEMMA Unlinked ==
    ASSUME NEW T, NEW s \in Seq(T), NEW n \in 1 .. Len(s)
    PROVE  /\ RemoveAt(s, n) \in Seq(T) /\ Len(RemoveAt(s, n)) = Len(s) - 1
           /\ \A i \in 1 .. Len(s) - 1 : RemoveAt(s, n)[i] = IF i < n THEN s[i] ELSE s[i + 1]
<1>1. Len(s) \in Nat /\ n \in Nat /\ \A i \in 1 .. Len(s) : s[i] \in T
  BY LenProperties
<1>2. PICK a : a = SubSeq(s, 1, n - 1)
  OBVIOUS
<1>3. PICK b : b = SubSeq(s, n + 1, Len(s))
  OBVIOUS
<1>4. a \in Seq(T) /\ Len(a) = n - 1 /\ \A i \in 1 .. n - 1 : a[i] = s[i]
  <2>1. /\ a \in Seq(T) /\ Len(a) = IF 1 <= n - 1 THEN (n - 1) - 1 + 1 ELSE 0
        /\ \A i \in 1 .. (n - 1) - 1 + 1 : a[i] = s[1 + i - 1]
    BY <1>1, <1>2, SubSeqProperties
  <2>. QED BY <1>1, <2>1
<1>5. b \in Seq(T) /\ Len(b) = Len(s) - n /\ \A i \in 1 .. Len(s) - n : b[i] = s[n + i]
  <2>1. /\ b \in Seq(T) /\ Len(b) = IF n + 1 <= Len(s) THEN Len(s) - (n + 1) + 1 ELSE 0
        /\ \A i \in 1 .. Len(s) - (n + 1) + 1 : b[i] = s[(n + 1) + i - 1]
    BY <1>1, <1>3, SubSeqProperties
  <2>. QED BY <1>1, <2>1
<1>6. RemoveAt(s, n) = a \o b
  BY <1>2, <1>3 DEF RemoveAt
<1>7. /\ a \o b \in Seq(T) /\ Len(a \o b) = Len(a) + Len(b)
      /\ \A i \in 1 .. Len(a) + Len(b) : (a \o b)[i] = IF i <= Len(a) THEN a[i] ELSE b[i - Len(a)]
  BY <1>4, <1>5, ConcatProperties
<1>8. ASSUME NEW i \in 1 .. Len(s) - 1
      PROVE  (a \o b)[i] = IF i < n THEN s[i] ELSE s[i + 1]
  <2>1. CASE i < n
    BY <1>1, <1>4, <1>5, <1>7, <2>1
  <2>2. CASE ~(i < n)
    <3>1. (a \o b)[i] = b[i - (n - 1)] /\ i - (n - 1) \in 1 .. Len(s) - n
      BY <1>1, <1>4, <1>5, <1>7, <2>2
    <3>. QED BY <1>1, <1>5, <2>2, <3>1
  <2>. QED BY <2>1, <2>2
<1>. QED BY <1>1, <1>4, <1>5, <1>6, <1>7, <1>8

\* Nothing else is unlinked, and nothing comes twice.
LEMMA UnlinkedRest ==
    ASSUME NEW T, NEW s \in Seq(T), NEW n \in 1 .. Len(s), Once(s)
    PROVE  /\ Once(RemoveAt(s, n))
           /\ \A i \in 1 .. Len(RemoveAt(s, n)) : \E j \in 1 .. Len(s) :
                  j # n /\ RemoveAt(s, n)[i] = s[j]
           /\ \A j \in 1 .. Len(s) : j # n => \E i \in 1 .. Len(RemoveAt(s, n)) : RemoveAt(s, n)[i] = s[j]
<1>1. PICK r : r = RemoveAt(s, n)
  OBVIOUS
<1>2. PICK m : m = Len(s)
  OBVIOUS
<1>3. m \in Nat /\ n \in 1 .. m /\ Len(r) = m - 1
      /\ \A i \in 1 .. m - 1 : r[i] = IF i < n THEN s[i] ELSE s[i + 1]
  BY <1>1, <1>2, Unlinked, LenProperties
<1>4. ASSUME NEW i \in 1 .. m - 1
      PROVE  \E j \in 1 .. m : j # n /\ r[i] = s[j] /\ (i < n => j = i) /\ (~(i < n) => j = i + 1)
  <2>1. CASE i < n
    BY <1>3, <2>1
  <2>2. CASE ~(i < n)
    BY <1>3, <2>2
  <2>. QED BY <2>1, <2>2
<1>5. ASSUME NEW j \in 1 .. m, j # n
      PROVE  \E i \in 1 .. m - 1 : r[i] = s[j]
  <2>1. CASE j < n
    <3>1. j \in 1 .. m - 1 /\ r[j] = s[j]
      BY <1>3, <2>1
    <3>. QED BY <3>1
  <2>2. CASE ~(j < n)
    <3>1. j - 1 \in 1 .. m - 1 /\ r[j - 1] = s[j]
      BY <1>3, <1>5, <2>2
    <3>. QED BY <3>1
  <2>. QED BY <2>1, <2>2
<1>6. ASSUME NEW i \in 1 .. m - 1, NEW k \in 1 .. m - 1, r[i] = r[k]
      PROVE  i = k
  <2>1. PICK x \in 1 .. m : r[i] = s[x] /\ (i < n => x = i) /\ (~(i < n) => x = i + 1)
    BY <1>4
  <2>2. PICK y \in 1 .. m : r[k] = s[y] /\ (k < n => y = k) /\ (~(k < n) => y = k + 1)
    BY <1>4
  <2>3. x = y
    BY <1>2, <1>6, <2>1, <2>2 DEF Once
  <2>. QED BY <1>3, <2>1, <2>2, <2>3
<1>. QED BY <1>1, <1>2, <1>3, <1>4, <1>5, <1>6 DEF Once

LEMMA NodesFinite ==
    ASSUME NEW N \in Nat
    PROVE  IsFiniteSet(0 .. N - 1) /\ Cardinality(0 .. N - 1) = N
<1>1. 0 \in Int /\ N - 1 \in Int
  OBVIOUS
<1>2. /\ IsFiniteSet(0 .. N - 1)
      /\ Cardinality(0 .. N - 1) = IF 0 > N - 1 THEN 0 ELSE N - 1 - 0 + 1
  BY <1>1, FS_Interval
<1>. QED BY <1>2

\* A list without repetition is no longer than there are nodes.
LEMMA OnceIsShort ==
    ASSUME NEW N \in Nat, NEW s \in Seq(0 .. N - 1), Once(s)
    PROVE  Len(s) \in Nat /\ Len(s) <= N
<1>1. PICK l \in Nat : l = Len(s)
  BY LenProperties
<1>2. PICK T : T = 0 .. N - 1
  OBVIOUS
<1>3. PICK I : I = 1 .. l
  OBVIOUS
<1>4. IsFiniteSet(T) /\ Cardinality(T) = N
  BY <1>2, NodesFinite
<1>5. IsFiniteSet(I) /\ Cardinality(I) = l
  <2>1. 1 \in Int /\ l \in Int
    OBVIOUS
  <2>2. IsFiniteSet(1 .. l) /\ Cardinality(1 .. l) = IF 1 > l THEN 0 ELSE l - 1 + 1
    BY <2>1, FS_Interval
  <2>3. (IF 1 > l THEN 0 ELSE l - 1 + 1) = l
    OBVIOUS
  <2>. QED BY <1>3, <2>2, <2>3
<1>6. s \in [I -> T]
  BY <1>1, <1>2, <1>3, LenProperties
<1>7. CASE N < l
  <2>1. Cardinality(T) < Cardinality(I)
    BY <1>4, <1>5, <1>7
  <2>2. PICK i \in I, j \in I : i # j /\ s[i] = s[j]
    BY <1>4, <1>5, <1>6, <2>1, FS_PigeonHole
  <2>. QED BY <1>1, <1>3, <2>2 DEF Once
<1>. QED BY <1>1, <1>7

\* LastFirst lists a set of numbers: everything in it, once.
LEMMA LastFirstLists ==
    ASSUME NEW N \in Nat, NEW S \in SUBSET (0 .. N - 1)
    PROVE  /\ LastFirst(S) \in Seq(S)
           /\ Once(LastFirst(S))
           /\ \A k \in S : \E i \in 1 .. Len(LastFirst(S)) : LastFirst(S)[i] = k
<1>0. S \subseteq Nat
  OBVIOUS
<1>1. IsFiniteSet(S) /\ Cardinality(S) \in Nat
  <2>1. PICK M : M = 0 .. N - 1
    OBVIOUS
  <2>2. IsFiniteSet(M) /\ S \in SUBSET M
    BY <2>1, NodesFinite
  <2>. QED BY <2>2, FS_Subset, FS_CardinalityType
<1>2. PICK n \in Nat : n = Cardinality(S)
  BY <1>1
<1>3. PICK r : r = [k \in S |-> Cardinality({j \in S : j >= k})]
  OBVIOUS
<1>4. ASSUME NEW k \in S
      PROVE  r[k] \in 1 .. n
  <2>1. {j \in S : j >= k} \in SUBSET S /\ k \in {j \in S : j >= k}
    OBVIOUS
  <2>2. PICK U : U = {j \in S : j >= k}
    OBVIOUS
  <2>3. IsFiniteSet(U) /\ Cardinality(U) \in Nat /\ Cardinality(U) <= n
    BY <1>1, <1>2, <2>1, <2>2, FS_Subset, FS_CardinalityType
  <2>4. Cardinality(U) # 0
    BY <2>1, <2>2, <2>3, FS_EmptySet
  <2>5. r[k] = Cardinality(U)
    BY <1>3, <2>2
  <2>. QED BY <2>3, <2>4, <2>5
<1>5. ASSUME NEW k \in S, NEW l \in S, k < l
      PROVE  r[l] < r[k]
  <2>1. PICK U : U = {j \in S : j >= k}
    OBVIOUS
  <2>2. PICK V : V = {j \in S : j >= l}
    OBVIOUS
  <2>3. V \in SUBSET U /\ U \in SUBSET S /\ k \in U /\ k \notin V
    <3>1. k \in Nat /\ l \in Nat /\ \A j \in S : j \in Nat
      BY <1>0
    <3>2. \A j \in V : j \in S /\ j >= l
      BY <2>2
    <3>3. ASSUME NEW j \in V
          PROVE  j \in U
      <4>1. j \in S /\ j >= l
        BY <3>2
      <4>2. j \in Nat /\ k \in Nat /\ l \in Nat
        BY <3>1, <4>1
      <4>3. j >= k
        BY <1>5, <4>1, <4>2
      <4>. QED BY <2>1, <4>1, <4>3
    <3>4. k \in U /\ k \notin V
      BY <1>5, <2>1, <3>1, <3>2
    <3>. QED BY <2>1, <3>3, <3>4
  <2>4. IsFiniteSet(U) /\ Cardinality(U) \in Nat /\ Cardinality(V) <= Cardinality(U)
        /\ Cardinality(U) # Cardinality(V) /\ IsFiniteSet(V) /\ Cardinality(V) \in Nat
    BY <1>1, <2>3, FS_Subset, FS_CardinalityType
  <2>5. r[k] = Cardinality(U) /\ r[l] = Cardinality(V)
    BY <1>3, <2>1, <2>2
  <2>. QED BY <2>4, <2>5
<1>6. ASSUME NEW k \in S, NEW l \in S, r[k] = r[l]
      PROVE  k = l
  <2>1. r[k] \in Nat /\ r[l] \in Nat /\ k \in Nat /\ l \in Nat
    BY <1>4
  <2>. QED BY <1>5, <1>6, <2>1
<1>7. \A i \in 1 .. n : \E k \in S : r[k] = i
  <2>1. r \in Injection(S, 1 .. n)
    BY <1>3, <1>4, <1>6 DEF Injection, IsInjective
  <2>2. IsFiniteSet(1 .. n) /\ Cardinality(1 .. n) = n
    BY FS_Interval
  <2>3. r \in Surjection(S, 1 .. n)
    BY <1>2, <2>1, <2>2, FS_Injection
  <2>. QED BY <2>3 DEF Surjection
<1>8. PICK s : s = LastFirst(S)
  OBVIOUS
<1>9. s = [i \in 1 .. n |-> CHOOSE k \in S : Cardinality({j \in S : j >= k}) = i]
  BY <1>2, <1>8 DEF LastFirst
<1>10. ASSUME NEW i \in 1 .. n
       PROVE  s[i] \in S /\ r[s[i]] = i
  <2>1. \E k \in S : Cardinality({j \in S : j >= k}) = i
    BY <1>3, <1>7
  <2>2. s[i] = CHOOSE k \in S : Cardinality({j \in S : j >= k}) = i
    BY <1>9
  <2>3. s[i] \in S /\ Cardinality({j \in S : j >= s[i]}) = i
    BY <2>1, <2>2
  <2>. QED BY <1>3, <2>3
<1>11. s \in Seq(S) /\ Len(s) = n
  <2>1. s \in [1 .. n -> S]
    BY <1>9, <1>10
  <2>. QED BY <2>1, FunctionIsSeq
<1>12. ASSUME NEW k \in S
       PROVE  \E i \in 1 .. n : s[i] = k
  <2>1. r[k] \in 1 .. n /\ r[s[r[k]]] = r[k] /\ s[r[k]] \in S
    BY <1>4, <1>10
  <2>2. s[r[k]] = k
    BY <1>6, <2>1
  <2>. QED BY <2>1, <2>2
<1>13. Once(s)
  BY <1>10, <1>11 DEF Once
<1>. QED BY <1>8, <1>11, <1>12, <1>13

----------------------------------------------------------------------------
(* What the lists of a table with N slots are.                             *)

Node == [obj : Obj \cup {NullObject}, refs : Nat]

\* A free node counts nothing, and no object has two nodes.
NodesFit(N, nodes) ==
    /\ nodes \in [0 .. N - 1 -> Node]
    /\ \A k \in 0 .. N - 1 : nodes[k].obj = NullObject => nodes[k].refs = 0
    /\ \A k, l \in 0 .. N - 1 : nodes[k].obj # NullObject /\ nodes[k].obj = nodes[l].obj => k = l

\* The free list has the free nodes, each once.
FreeFits(N, nodes, freelist) ==
    /\ freelist \in Seq(0 .. N - 1) /\ Once(freelist)
    /\ \A i \in 1 .. Len(freelist) : nodes[freelist[i]].obj = NullObject
    /\ \A k \in 0 .. N - 1 : nodes[k].obj = NullObject => \E i \in 1 .. Len(freelist) : freelist[i] = k

\* A bucket has the used nodes whose object hashes to it, each once.
BucketsFit(N, nodes, buckets) ==
    /\ buckets \in [0 .. N - 1 -> Seq(0 .. N - 1)]
    /\ \A b \in 0 .. N - 1 : Once(buckets[b])
    /\ \A b \in 0 .. N - 1 : \A i \in 1 .. Len(buckets[b]) :
          nodes[buckets[b][i]].obj # NullObject /\ HashObj[nodes[buckets[b][i]].obj] % N = b
    /\ \A k \in 0 .. N - 1 : nodes[k].obj # NullObject =>
          \E i \in 1 .. Len(buckets[HashObj[nodes[k].obj] % N]) : buckets[HashObj[nodes[k].obj] % N][i] = k

\* A full table is one without free nodes.
UsedFits(N, freelist, slotused) == slotused \in Nat /\ slotused + Len(freelist) = N

Lists(t, N) ==
    /\ t = [nodes |-> t.nodes, buckets |-> t.buckets, freelist |-> t.freelist, slotused |-> t.slotused]
    /\ NodesFit(N, t.nodes) /\ FreeFits(N, t.nodes, t.freelist)
    /\ BucketsFit(N, t.nodes, t.buckets) /\ UsedFits(N, t.freelist, t.slotused)

LEMMA HashFits ==
    ASSUME NEW N \in Nat \ {0}, NEW o \in Obj
    PROVE  HashObj[o] \in Nat /\ HashObj[o] % N \in 0 .. N - 1
<1>1. HashObj[o] \in Nat
  BY RefTableAssumption
<1>2. PICK h \in Nat : h = HashObj[o]
  BY <1>1
<1>3. h % N \in 0 .. N - 1
  OBVIOUS
<1>. QED BY <1>2, <1>3

LEMMA NodeFacts ==
    ASSUME NEW N \in Nat \ {0}, NEW t, Lists(t, N), NEW k \in 0 .. N - 1
    PROVE  /\ t.nodes[k].refs \in Nat /\ t.nodes[k].obj \in Obj \cup {NullObject}
           /\ t.nodes[k] = [obj |-> t.nodes[k].obj, refs |-> t.nodes[k].refs]
           /\ t.nodes[k].obj = NullObject => t.nodes[k].refs = 0
  BY DEF Lists, NodesFit, Node

LEMMA SlotsIs ==
    ASSUME NEW N \in Nat \ {0}, NEW t, Lists(t, N)
    PROVE  NumOfSlots(t) = N /\ Nodes(t) = 0 .. N - 1
<1>1. DOMAIN t.nodes = 0 .. N - 1
  BY DEF Lists, NodesFit
<1>2. Cardinality(0 .. N - 1) = N
  BY NodesFinite
<1>. QED BY <1>1, <1>2 DEF NumOfSlots, Nodes

\* RefTable::Get finds the node of an object, if it has one.
LEMMA GetFinds ==
    ASSUME NEW N \in Nat \ {0}, NEW t, Lists(t, N), NEW o \in Obj,
           NEW k \in 0 .. N - 1, t.nodes[k].obj = o
    PROVE  /\ Places(t, o) # {} /\ NodeOf(t, o) = k
           /\ Place(t, o) \in 1 .. Len(t.buckets[MainPos(t, o)])
           /\ MainPos(t, o) = HashObj[o] % N /\ MainPos(t, o) \in 0 .. N - 1
           /\ t.buckets[MainPos(t, o)] \in Seq(0 .. N - 1)
           /\ t.buckets[MainPos(t, o)][Place(t, o)] = k
           /\ Recorded(t, o) = t.nodes[k].refs
<1>1. MainPos(t, o) = HashObj[o] % N /\ HashObj[o] % N \in 0 .. N - 1
  BY SlotsIs, HashFits DEF MainPos
<1>2. PICK c : c = t.buckets[MainPos(t, o)]
  OBVIOUS
<1>3. c \in Seq(0 .. N - 1) /\ Once(c) /\ DOMAIN c = 1 .. Len(c)
  <2>1. c \in Seq(0 .. N - 1) /\ Once(c)
    BY <1>1, <1>2 DEF Lists, BucketsFit
  <2>. QED BY <2>1, LenProperties
<1>4. o # NullObject
  BY RefTableAssumption
<1>5. PICK i \in 1 .. Len(c) : c[i] = k
  BY <1>1, <1>2, <1>4 DEF Lists, BucketsFit
<1>6. Places(t, o) = {i}
  <2>1. ASSUME NEW j \in 1 .. Len(c), t.nodes[c[j]].obj = o
        PROVE  j = i
    <3>1. c[j] \in 0 .. N - 1
      BY <1>3, ElementOfSeq
    <3>2. c[j] = k
      BY <1>4, <2>1, <3>1 DEF Lists, NodesFit
    <3>. QED BY <1>3, <1>5, <3>2 DEF Once
  <2>. QED BY <1>2, <1>3, <1>5, <2>1 DEF Places
<1>7. Place(t, o) = i
  <2>1. i \in {i} /\ \A j \in {i} : i <= j
    <3>1. Len(c) \in Nat
      BY <1>3, LenProperties
    <3>. QED BY <3>1
  <2>. QED BY <1>6, <2>1 DEF Place
<1>8. NodeOf(t, o) = k
  BY <1>2, <1>5, <1>7 DEF NodeOf
<1>. QED BY <1>1, <1>2, <1>3, <1>5, <1>6, <1>7, <1>8 DEF Recorded

LEMMA RecordIs ==
    ASSUME NEW N \in Nat \ {0}, NEW t, Lists(t, N), NEW o \in Obj,
           NEW k \in 0 .. N - 1, t.nodes[k].obj = o
    PROVE  Recorded(t, o) = t.nodes[k].refs
  BY GetFinds

LEMMA PlaceIs ==
    ASSUME NEW N \in Nat \ {0}, NEW t, Lists(t, N), NEW o \in Obj,
           NEW k \in 0 .. N - 1, t.nodes[k].obj = o
    PROVE  /\ NodeOf(t, o) = k
           /\ Place(t, o) \in 1 .. Len(t.buckets[MainPos(t, o)])
           /\ t.buckets[MainPos(t, o)][Place(t, o)] = k
  BY GetFinds

LEMMA FoundPlaces ==
    ASSUME NEW N \in Nat \ {0}, NEW t, Lists(t, N), NEW o \in Obj,
           NEW k \in 0 .. N - 1, t.nodes[k].obj = o
    PROVE  Places(t, o) # {}
  BY GetFinds

LEMMA MainPosIs ==
    ASSUME NEW N \in Nat \ {0}, NEW t, Lists(t, N), NEW o \in Obj
    PROVE  MainPos(t, o) = HashObj[o] % N /\ MainPos(t, o) \in 0 .. N - 1
  BY SlotsIs, HashFits DEF MainPos

LEMMA GetMisses ==
    ASSUME NEW N \in Nat \ {0}, NEW t, Lists(t, N), NEW o \in Obj,
           \A k \in 0 .. N - 1 : t.nodes[k].obj # o
    PROVE  Places(t, o) = {} /\ Recorded(t, o) = 0
<1>1. MainPos(t, o) \in 0 .. N - 1
  BY SlotsIs, HashFits DEF MainPos
<1>2. t.buckets[MainPos(t, o)] \in Seq(0 .. N - 1)
  BY <1>1 DEF Lists, BucketsFit
<1>3. Places(t, o) = {}
  BY <1>2, LenProperties, ElementOfSeq DEF Places
<1>. QED BY <1>3 DEF Recorded

\* The record of an object depends on its node only.
LEMMA RecordKept ==
    ASSUME NEW N \in Nat \ {0}, NEW t, Lists(t, N), NEW M \in Nat \ {0}, NEW u, Lists(u, M),
           NEW o \in Obj,
           \A k \in 0 .. N - 1 : t.nodes[k].obj = o => k \in 0 .. M - 1 /\ u.nodes[k] = t.nodes[k],
           \A k \in 0 .. M - 1 : u.nodes[k].obj = o /\ u.nodes[k].refs # 0 =>
                k \in 0 .. N - 1 /\ t.nodes[k].obj = o
    PROVE  Recorded(u, o) = Recorded(t, o)
<1>1. CASE \E k \in 0 .. N - 1 : t.nodes[k].obj = o
  <2>1. PICK k \in 0 .. N - 1 : t.nodes[k].obj = o
    BY <1>1
  <2>2. k \in 0 .. M - 1 /\ u.nodes[k] = t.nodes[k]
    BY <2>1
  <2>3. Recorded(t, o) = t.nodes[k].refs
    BY <2>1, RecordIs
  <2>4. Recorded(u, o) = u.nodes[k].refs
    <3>1. u.nodes[k].obj = o
      BY <2>1, <2>2
    <3>. QED BY <2>2, <3>1, RecordIs
  <2>. QED BY <2>2, <2>3, <2>4
<1>2. CASE \A k \in 0 .. N - 1 : t.nodes[k].obj # o
  <2>1. Recorded(t, o) = 0
    BY <1>2, GetMisses
  <2>2. CASE \A k \in 0 .. M - 1 : u.nodes[k].obj # o
    BY <2>1, <2>2, GetMisses
  <2>3. CASE \E k \in 0 .. M - 1 : u.nodes[k].obj = o
    <3>1. PICK k \in 0 .. M - 1 : u.nodes[k].obj = o
      BY <2>3
    <3>2. u.nodes[k].refs = 0
      BY <1>2, <3>1
    <3>3. Recorded(u, o) = u.nodes[k].refs
      BY <3>1, RecordIs
    <3>. QED BY <2>1, <3>2, <3>3
  <2>. QED BY <2>2, <2>3
<1>. QED BY <1>1, <1>2

----------------------------------------------------------------------------
(* The operations on the table.                                            *)

\* AllocNodes: every node is free.
LEMMA AllocLists ==
    ASSUME NEW N \in Nat \ {0}
    PROVE  /\ Lists(AllocNodes(N), N)
           /\ \A k \in 0 .. N - 1 : AllocNodes(N).nodes[k] = EmptyNode
<1>1. PICK t : t = AllocNodes(N)
  OBVIOUS
<1>2. /\ t.nodes = [k \in 0 .. N - 1 |-> EmptyNode]
      /\ t.buckets = [b \in 0 .. N - 1 |-> <<>>]
      /\ t.freelist = [i \in 1 .. N |-> i - 1]
      /\ t.slotused = 0
      /\ t = [nodes |-> t.nodes, buckets |-> t.buckets, freelist |-> t.freelist, slotused |-> t.slotused]
  BY <1>1 DEF AllocNodes
<1>3. NodesFit(N, t.nodes)
  BY <1>2 DEF NodesFit, Node, EmptyNode
<1>4. t.freelist \in Seq(0 .. N - 1) /\ Len(t.freelist) = N
  <2>1. t.freelist \in [1 .. N -> 0 .. N - 1]
    BY <1>2
  <2>. QED BY <2>1, FunctionIsSeq
<1>5. FreeFits(N, t.nodes, t.freelist)
  <2>1. Once(t.freelist)
    BY <1>2, <1>4 DEF Once
  <2>2. \A i \in 1 .. Len(t.freelist) : t.nodes[t.freelist[i]].obj = NullObject
    BY <1>2, <1>4 DEF EmptyNode
  <2>3. ASSUME NEW k \in 0 .. N - 1
        PROVE  \E i \in 1 .. Len(t.freelist) : t.freelist[i] = k
    <3>1. k + 1 \in 1 .. N /\ t.freelist[k + 1] = k
      BY <1>2
    <3>. QED BY <1>4, <3>1
  <2>. QED BY <1>4, <2>1, <2>2, <2>3 DEF FreeFits
<1>6. BucketsFit(N, t.nodes, t.buckets)
  <2>1. \A b \in 0 .. N - 1 : t.buckets[b] = <<>> /\ <<>> \in Seq(0 .. N - 1) /\ Len(<<>>) = 0
    BY <1>2
  <2>2. t.buckets \in [0 .. N - 1 -> Seq(0 .. N - 1)]
    BY <1>2
  <2>3. \A k \in 0 .. N - 1 : t.nodes[k].obj = NullObject
    BY <1>2 DEF EmptyNode
  <2>4. \A b \in 0 .. N - 1 : Once(t.buckets[b])
    BY <2>1 DEF Once
  <2>5. \A b \in 0 .. N - 1 : \A i \in 1 .. Len(t.buckets[b]) : FALSE
    BY <2>1
  <2>. QED BY <2>2, <2>3, <2>4, <2>5 DEF BucketsFit
<1>7. UsedFits(N, t.freelist, t.slotused)
  BY <1>2, <1>4 DEF UsedFits
<1>. QED BY <1>1, <1>2, <1>3, <1>5, <1>6, <1>7 DEF Lists

\* RefTable::Add takes a free node.
LEMMA AddLists ==
    ASSUME NEW N \in Nat \ {0}, NEW t, Lists(t, N), NEW o \in Obj,
           \A k \in 0 .. N - 1 : t.nodes[k].obj # o,
           t.freelist # <<>>
    PROVE  /\ Lists(Add(t, o), N)
           /\ \E n \in 0 .. N - 1 :
                /\ n = Head(t.freelist) /\ t.nodes[n].obj = NullObject
                /\ Add(t, o).nodes[n] = [obj |-> o, refs |-> 0]
                /\ \A k \in 0 .. N - 1 : k # n => Add(t, o).nodes[k] = t.nodes[k]
<1>1. PICK nd, bk, fr : nd = t.nodes /\ bk = t.buckets /\ fr = t.freelist
  OBVIOUS
<1>2. NodesFit(N, nd) /\ FreeFits(N, nd, fr) /\ BucketsFit(N, nd, bk) /\ UsedFits(N, fr, t.slotused)
  BY <1>1 DEF Lists
<1>3. /\ fr \in Seq(0 .. N - 1) /\ fr # <<>> /\ Len(fr) \in Nat \ {0}
      /\ Tail(fr) \in Seq(0 .. N - 1) /\ Len(Tail(fr)) = Len(fr) - 1
      /\ \A i \in 1 .. Len(fr) - 1 : Tail(fr)[i] = fr[i + 1]
      /\ Head(fr) = fr[1]
  <2>1. PICK T : T = 0 .. N - 1
    OBVIOUS
  <2>2. fr \in Seq(T) /\ fr # <<>>
    BY <1>1, <1>2, <2>1 DEF FreeFits
  <2>3. /\ Len(fr) \in Nat \ {0} /\ Tail(fr) \in Seq(T) /\ Len(Tail(fr)) = Len(fr) - 1
        /\ \A i \in 1 .. Len(Tail(fr)) : Tail(fr)[i] = fr[i + 1]
    BY <2>2, HeadTailProperties, EmptySeq
  <2>4. Head(fr) = fr[1]
    BY <2>2
  <2>. QED BY <2>1, <2>2, <2>3, <2>4
<1>4. PICK n \in 0 .. N - 1 : n = Head(fr) /\ n = fr[1]
  <2>1. 1 \in 1 .. Len(fr)
    BY <1>3
  <2>2. fr[1] \in 0 .. N - 1
    BY <1>3, <2>1, ElementOfSeq
  <2>. QED BY <1>3, <2>2
<1>5. nd[n].obj = NullObject /\ nd[n] = [obj |-> NullObject, refs |-> 0] /\ o # NullObject
  <2>1. 1 \in 1 .. Len(fr)
    BY <1>3
  <2>2. nd[n].obj = NullObject
    BY <1>2, <1>4, <2>1 DEF FreeFits
  <2>3. nd[n].refs = 0 /\ nd[n] \in Node
    BY <1>2, <2>2 DEF NodesFit
  <2>. QED BY <2>2, <2>3, RefTableAssumption DEF Node
<1>6. PICK m \in 0 .. N - 1 : m = HashObj[o] % N /\ m = MainPos(t, o)
  BY SlotsIs, HashFits DEF MainPos
<1>7. PICK u : u = Add(t, o)
  OBVIOUS
<1>8. PICK c \in Seq(0 .. N - 1) : c = bk[m]
  BY <1>2 DEF BucketsFit
<1>9. /\ u.nodes = [nd EXCEPT ![n].obj = o]
      /\ u.buckets = [bk EXCEPT ![m] = <<n>> \o c]
      /\ u.freelist = Tail(fr)
      /\ u.slotused = t.slotused + 1
      /\ u = [nodes |-> u.nodes, buckets |-> u.buckets, freelist |-> u.freelist, slotused |-> u.slotused]
  BY <1>1, <1>4, <1>6, <1>7, <1>8 DEF Add
<1>10. /\ u.nodes[n] = [obj |-> o, refs |-> 0]
       /\ \A k \in 0 .. N - 1 : k # n => u.nodes[k] = nd[k]
       /\ u.nodes \in [0 .. N - 1 -> Node]
  <2>1. nd \in [0 .. N - 1 -> Node]
    BY <1>2 DEF NodesFit
  <2>. QED BY <1>5, <1>9, <2>1 DEF Node
<1>11. NodesFit(N, u.nodes)
  <2>1. PICK nu : nu = u.nodes
    OBVIOUS
  <2>2. \A k \in 0 .. N - 1 : nd[k].obj # o
    BY <1>1
  <2>3. ASSUME NEW k \in 0 .. N - 1, NEW l \in 0 .. N - 1, nu[k].obj # NullObject, nu[k].obj = nu[l].obj
        PROVE  k = l
    <3>1. nu[n].obj = o /\ \A j \in 0 .. N - 1 : j # n => nu[j].obj = nd[j].obj /\ nu[j].obj # o
      BY <1>10, <2>1, <2>2
    <3>2. CASE k = n \/ l = n
      BY <2>3, <3>1, <3>2
    <3>3. CASE k # n /\ l # n
      BY <1>2, <2>3, <3>1, <3>3 DEF NodesFit
    <3>. QED BY <3>2, <3>3
  <2>4. \A k \in 0 .. N - 1 : nu[k].obj = NullObject => nu[k].refs = 0
    BY <1>2, <1>5, <1>10, <2>1 DEF NodesFit
  <2>. QED BY <1>10, <2>1, <2>3, <2>4 DEF NodesFit
<1>12. FreeFits(N, u.nodes, u.freelist)
  <2>1. Once(Tail(fr))
    BY <1>2, <1>3 DEF FreeFits, Once
  <2>2. ASSUME NEW i \in 1 .. Len(fr) - 1
        PROVE  Tail(fr)[i] # n /\ u.nodes[Tail(fr)[i]].obj = NullObject
    <3>1. Tail(fr)[i] = fr[i + 1] /\ i + 1 \in 1 .. Len(fr) /\ 1 \in 1 .. Len(fr) /\ i + 1 # 1
      BY <1>3
    <3>2. fr[i + 1] # n /\ fr[i + 1] \in 0 .. N - 1
      BY <1>2, <1>3, <1>4, <3>1, ElementOfSeq DEF FreeFits, Once
    <3>3. nd[fr[i + 1]].obj = NullObject
      BY <1>2, <3>1 DEF FreeFits
    <3>. QED BY <1>10, <3>1, <3>2, <3>3
  <2>3. ASSUME NEW k \in 0 .. N - 1, u.nodes[k].obj = NullObject
        PROVE  \E i \in 1 .. Len(fr) - 1 : Tail(fr)[i] = k
    <3>1. k # n /\ nd[k].obj = NullObject
      BY <1>5, <1>10, <2>3
    <3>2. PICK j \in 1 .. Len(fr) : fr[j] = k
      BY <1>2, <3>1 DEF FreeFits
    <3>3. j # 1 /\ j - 1 \in 1 .. Len(fr) - 1 /\ Tail(fr)[j - 1] = fr[j]
      BY <1>3, <1>4, <3>1, <3>2
    <3>. QED BY <3>2, <3>3
  <2>. QED BY <1>3, <1>9, <2>1, <2>2, <2>3 DEF FreeFits
<1>13. \A i \in 1 .. Len(c) : c[i] \in 0 .. N - 1 /\ c[i] # n
  BY <1>2, <1>5, <1>6, <1>8, ElementOfSeq DEF BucketsFit
<1>14. PICK d : d = <<n>> \o c
  OBVIOUS
<1>15. /\ d \in Seq(0 .. N - 1) /\ Len(d) = Len(c) + 1 /\ Once(d) /\ d[1] = n /\ Len(c) \in Nat
       /\ \A i \in 1 .. Len(c) : d[i + 1] = c[i]
       /\ \A i \in 1 .. Len(c) + 1 : i # 1 => i - 1 \in 1 .. Len(c) /\ d[i] = c[i - 1]
  <2>1. PICK T : T = 0 .. N - 1
    OBVIOUS
  <2>2. c \in Seq(T) /\ n \in T /\ Once(c) /\ \A i \in 1 .. Len(c) : c[i] # n
    BY <1>2, <1>8, <1>13, <2>1 DEF BucketsFit
  <2>3. Len(c) \in Nat /\ Once(d)
    BY <1>14, <2>2, PutFirstOnce, LenProperties
  <2>4. /\ d \in Seq(T) /\ Len(d) = Len(c) + 1 /\ d[1] = n
        /\ \A i \in 1 .. Len(c) : d[i + 1] = c[i]
        /\ \A i \in 1 .. Len(c) + 1 : i # 1 => i - 1 \in 1 .. Len(c) /\ d[i] = c[i - 1]
    BY <1>14, <2>2, PutFirst
  <2>. QED BY <2>1, <2>3, <2>4
<1>16. /\ u.buckets \in [0 .. N - 1 -> Seq(0 .. N - 1)]
       /\ u.buckets[m] = d /\ \A b \in 0 .. N - 1 : b # m => u.buckets[b] = bk[b]
  BY <1>2, <1>9, <1>14, <1>15 DEF BucketsFit
<1>17. BucketsFit(N, u.nodes, u.buckets)
  <2>1. \A b \in 0 .. N - 1 : Once(u.buckets[b])
    BY <1>2, <1>15, <1>16 DEF BucketsFit
  <2>2. ASSUME NEW b \in 0 .. N - 1, NEW i \in 1 .. Len(u.buckets[b])
        PROVE  u.nodes[u.buckets[b][i]].obj # NullObject /\ HashObj[u.nodes[u.buckets[b][i]].obj] % N = b
    <3>1. CASE b # m
      <4>1. u.buckets[b] = bk[b] /\ bk[b] \in Seq(0 .. N - 1)
        BY <1>2, <1>16, <3>1 DEF BucketsFit
      <4>2. bk[b][i] \in 0 .. N - 1 /\ nd[bk[b][i]].obj # NullObject /\ HashObj[nd[bk[b][i]].obj] % N = b
        BY <1>2, <4>1, ElementOfSeq DEF BucketsFit
      <4>3. bk[b][i] # n
        BY <1>5, <4>2
      <4>. QED BY <1>10, <4>1, <4>2, <4>3
    <3>2. CASE b = m /\ i = 1
      <4>1. u.buckets[b][i] = n
        BY <1>15, <1>16, <3>2
      <4>. QED BY <1>5, <1>6, <1>10, <3>2, <4>1
    <3>3. CASE b = m /\ i # 1
      <4>1. i \in 1 .. Len(c) + 1
        BY <1>15, <1>16, <3>3
      <4>2. i - 1 \in 1 .. Len(c) /\ u.buckets[b][i] = c[i - 1]
        BY <1>15, <1>16, <3>3, <4>1
      <4>3. nd[c[i - 1]].obj # NullObject /\ HashObj[nd[c[i - 1]].obj] % N = m
        BY <1>2, <1>8, <4>2 DEF BucketsFit
      <4>. QED BY <1>10, <1>13, <3>3, <4>2, <4>3
    <3>. QED BY <3>1, <3>2, <3>3
  <2>3. ASSUME NEW k \in 0 .. N - 1, u.nodes[k].obj # NullObject
        PROVE  \E i \in 1 .. Len(u.buckets[HashObj[u.nodes[k].obj] % N]) :
                  u.buckets[HashObj[u.nodes[k].obj] % N][i] = k
    <3>1. CASE k = n
      <4>1. HashObj[u.nodes[k].obj] % N = m /\ 1 \in 1 .. Len(d) /\ d[1] = k
        BY <1>6, <1>10, <1>15, <3>1
      <4>. QED BY <1>16, <4>1
    <3>2. CASE k # n
      <4>1. u.nodes[k] = nd[k] /\ nd[k].obj # NullObject
        BY <1>10, <2>3, <3>2
      <4>2. PICK h : h = HashObj[nd[k].obj] % N
        OBVIOUS
      <4>3. PICK i \in 1 .. Len(bk[h]) : bk[h][i] = k
        BY <1>2, <4>1, <4>2 DEF BucketsFit
      <4>4. h \in 0 .. N - 1
        <5>1. nd[k] \in Node
          BY <1>2 DEF NodesFit
        <5>2. nd[k].obj \in Obj
          BY <4>1, <5>1 DEF Node
        <5>. QED BY <4>2, <5>2, HashFits
      <4>5. CASE h = m
        <5>1. i \in 1 .. Len(c) /\ c[i] = k
          BY <1>8, <4>3, <4>5
        <5>2. i + 1 \in 1 .. Len(d) /\ d[i + 1] = k
          BY <1>15, <5>1
        <5>. QED BY <1>16, <4>1, <4>2, <4>5, <5>2
      <4>6. CASE h # m
        BY <1>16, <4>1, <4>2, <4>3, <4>4, <4>6
      <4>. QED BY <4>5, <4>6
    <3>. QED BY <3>1, <3>2
  <2>. QED BY <1>16, <2>1, <2>2, <2>3 DEF BucketsFit
<1>18. UsedFits(N, u.freelist, u.slotused)
  <2>1. t.slotused \in Nat /\ t.slotused + Len(fr) = N
    BY <1>2 DEF UsedFits
  <2>2. u.slotused = t.slotused + 1 /\ Len(u.freelist) = Len(fr) - 1
    BY <1>3, <1>9
  <2>3. PICK a \in Nat, e \in Nat : a = t.slotused /\ e = Len(fr)
    BY <1>3, <2>1
  <2>4. a + 1 \in Nat /\ (a + 1) + (e - 1) = N
    BY <2>1, <2>3
  <2>. QED BY <2>2, <2>3, <2>4 DEF UsedFits
<1>. QED BY <1>1, <1>4, <1>5, <1>7, <1>9, <1>10, <1>11, <1>12, <1>17, <1>18 DEF Lists

\* RefTable::Resize of a table without free nodes.
LEMMA RehashedLists ==
    ASSUME NEW N \in Nat \ {0}, NEW t, Lists(t, N), t.freelist = <<>>, NEW M \in Nat, M > N
    PROVE  /\ Lists(Rehashed(t, M), M)
           /\ \A k \in 0 .. N - 1 : Rehashed(t, M).nodes[k] = t.nodes[k]
           /\ \A k \in N .. M - 1 : Rehashed(t, M).nodes[k] = EmptyNode
           /\ Rehashed(t, M).freelist # <<>>
<1>1. PICK nd : nd = t.nodes
  OBVIOUS
<1>2. /\ NodesFit(N, nd) /\ t.slotused = N /\ NumOfSlots(t) = N
      /\ \A k \in 0 .. N - 1 : nd[k].obj # NullObject /\ nd[k].obj \in Obj
  <2>1. NodesFit(N, nd) /\ FreeFits(N, nd, <<>>) /\ t.slotused \in Nat /\ t.slotused + 0 = N
    BY <1>1 DEF Lists, UsedFits
  <2>2. \A k \in 0 .. N - 1 : nd[k].obj # NullObject
    BY <2>1 DEF FreeFits
  <2>. QED BY <2>1, <2>2, SlotsIs DEF NodesFit, Node
<1>3. PICK u : u = Rehashed(t, M)
  OBVIOUS
<1>4. PICK S : S = [b \in 0 .. M - 1 |-> {k \in 0 .. N - 1 : HashObj[nd[k].obj] % M = b}]
  OBVIOUS
<1>5. /\ u.nodes = [k \in 0 .. M - 1 |-> IF k < N THEN nd[k] ELSE EmptyNode]
      /\ u.freelist = [i \in 1 .. M - N |-> N + i - 1]
      /\ u.slotused = N
      /\ u = [nodes |-> u.nodes, buckets |-> u.buckets, freelist |-> u.freelist, slotused |-> u.slotused]
  BY <1>1, <1>2, <1>3 DEF Rehashed
<1>6. u.buckets = [b \in 0 .. M - 1 |-> LastFirst(S[b])]
  <2>1. ASSUME NEW b \in 0 .. M - 1
        PROVE  {k \in {k \in 0 .. N - 1 : nd[k].obj # NullObject} : HashObj[nd[k].obj] % M = b} = S[b]
    BY <1>2, <1>4
  <2>2. u.buckets = [b \in 0 .. M - 1 |->
            LastFirst({k \in {k \in 0 .. N - 1 : nd[k].obj # NullObject} : HashObj[nd[k].obj] % M = b})]
    BY <1>1, <1>2, <1>3 DEF Rehashed
  <2>. QED BY <2>1, <2>2
<1>7. /\ u.nodes \in [0 .. M - 1 -> Node]
      /\ \A k \in 0 .. N - 1 : k \in 0 .. M - 1 /\ u.nodes[k] = nd[k]
      /\ \A k \in N .. M - 1 : k \in 0 .. M - 1 /\ u.nodes[k] = EmptyNode
      /\ \A k \in 0 .. M - 1 : k \in 0 .. N - 1 \/ k \in N .. M - 1
  <2>1. ASSUME NEW k \in 0 .. M - 1
        PROVE  u.nodes[k] \in Node
    <3>1. CASE k < N
      BY <1>2, <1>5, <3>1 DEF NodesFit
    <3>2. CASE ~(k < N)
      BY <1>5, <3>2 DEF Node, EmptyNode
    <3>. QED BY <3>1, <3>2
  <2>2. u.nodes \in [0 .. M - 1 -> Node]
    BY <1>5, <2>1
  <2>. QED BY <1>5, <2>2
<1>8. /\ \A k \in 0 .. N - 1 : u.nodes[k].obj # NullObject
      /\ \A k \in N .. M - 1 : u.nodes[k].obj = NullObject /\ u.nodes[k].refs = 0
  BY <1>2, <1>7 DEF EmptyNode
<1>9. NodesFit(M, u.nodes)
  <2>1. \A k \in 0 .. M - 1 : u.nodes[k].obj = NullObject => u.nodes[k].refs = 0
    BY <1>7, <1>8
  <2>2. ASSUME NEW k \in 0 .. M - 1, NEW l \in 0 .. M - 1,
               u.nodes[k].obj # NullObject, u.nodes[k].obj = u.nodes[l].obj
        PROVE  k = l
    <3>1. k \in 0 .. N - 1 /\ l \in 0 .. N - 1
      BY <1>7, <1>8, <2>2
    <3>. QED BY <1>2, <1>7, <2>2, <3>1 DEF NodesFit
  <2>. QED BY <1>7, <2>1, <2>2 DEF NodesFit
<1>10. u.freelist \in Seq(0 .. M - 1) /\ Len(u.freelist) = M - N
  <2>1. u.freelist \in [1 .. M - N -> 0 .. M - 1] /\ M - N \in Nat
    BY <1>5
  <2>. QED BY <2>1, FunctionIsSeq
<1>11. FreeFits(M, u.nodes, u.freelist)
  <2>1. Once(u.freelist)
    BY <1>5, <1>10 DEF Once
  <2>2. ASSUME NEW i \in 1 .. M - N
        PROVE  u.nodes[u.freelist[i]].obj = NullObject
    <3>1. u.freelist[i] \in N .. M - 1
      BY <1>5
    <3>. QED BY <1>8, <3>1
  <2>3. ASSUME NEW k \in 0 .. M - 1, u.nodes[k].obj = NullObject
        PROVE  \E i \in 1 .. M - N : u.freelist[i] = k
    <3>1. k \in N .. M - 1
      BY <1>7, <1>8, <2>3
    <3>2. k - N + 1 \in 1 .. M - N /\ u.freelist[k - N + 1] = k
      BY <1>5, <3>1
    <3>. QED BY <3>2
  <2>. QED BY <1>10, <2>1, <2>2, <2>3 DEF FreeFits
<1>12. ASSUME NEW b \in 0 .. M - 1
       PROVE  /\ u.buckets[b] \in Seq(S[b]) /\ u.buckets[b] \in Seq(0 .. M - 1) /\ Once(u.buckets[b])
              /\ \A k \in S[b] : \E i \in 1 .. Len(u.buckets[b]) : u.buckets[b][i] = k
              /\ \A k \in S[b] : k \in 0 .. N - 1 /\ HashObj[nd[k].obj] % M = b
  <2>1. S[b] \in SUBSET (0 .. N - 1) /\ S[b] \subseteq 0 .. M - 1
    BY <1>4
  <2>2. u.buckets[b] = LastFirst(S[b])
    BY <1>6
  <2>3. /\ LastFirst(S[b]) \in Seq(S[b]) /\ Once(LastFirst(S[b]))
        /\ \A k \in S[b] : \E i \in 1 .. Len(LastFirst(S[b])) : LastFirst(S[b])[i] = k
    BY <2>1, LastFirstLists
  <2>4. u.buckets[b] \in Seq(0 .. M - 1)
    BY <2>1, <2>2, <2>3, SeqMonotonic
  <2>5. \A k \in S[b] : k \in 0 .. N - 1 /\ HashObj[nd[k].obj] % M = b
    BY <1>4
  <2>. QED BY <2>2, <2>3, <2>4, <2>5
<1>13. BucketsFit(M, u.nodes, u.buckets)
  <2>1. u.buckets \in [0 .. M - 1 -> Seq(0 .. M - 1)]
    BY <1>6, <1>12
  <2>2. ASSUME NEW b \in 0 .. M - 1, NEW i \in 1 .. Len(u.buckets[b])
        PROVE  u.nodes[u.buckets[b][i]].obj # NullObject /\ HashObj[u.nodes[u.buckets[b][i]].obj] % M = b
    <3>1. u.buckets[b][i] \in S[b]
      BY <1>12, ElementOfSeq
    <3>2. u.buckets[b][i] \in 0 .. N - 1 /\ HashObj[nd[u.buckets[b][i]].obj] % M = b
      BY <1>12, <3>1
    <3>. QED BY <1>7, <1>8, <3>2
  <2>3. ASSUME NEW k \in 0 .. M - 1, u.nodes[k].obj # NullObject
        PROVE  \E i \in 1 .. Len(u.buckets[HashObj[u.nodes[k].obj] % M]) :
                  u.buckets[HashObj[u.nodes[k].obj] % M][i] = k
    <3>1. k \in 0 .. N - 1 /\ u.nodes[k] = nd[k]
      BY <1>7, <1>8, <2>3
    <3>2. PICK h : h = HashObj[nd[k].obj] % M
      OBVIOUS
    <3>3. h \in 0 .. M - 1
      BY <1>2, <3>1, <3>2, HashFits
    <3>4. k \in S[h]
      BY <1>4, <3>1, <3>2, <3>3
    <3>. QED BY <1>12, <3>1, <3>2, <3>3, <3>4
  <2>. QED BY <1>12, <2>1, <2>2, <2>3 DEF BucketsFit
<1>14. UsedFits(M, u.freelist, u.slotused)
  <2>1. N + (M - N) = M
    OBVIOUS
  <2>. QED BY <1>5, <1>10, <2>1 DEF UsedFits
<1>15. u.freelist # <<>>
  <2>1. M - N # 0 /\ Len(<<>>) = 0
    OBVIOUS
  <2>. QED BY <1>10, <2>1
<1>. QED BY <1>1, <1>3, <1>5, <1>7, <1>9, <1>11, <1>13, <1>14, <1>15 DEF Lists

\* Node n with another count.
Counted(t, n, r) == [t EXCEPT !.nodes[n].refs = r]

\* Counting up or down leaves a used node where it is.
LEMMA CountedLists ==
    ASSUME NEW N \in Nat \ {0}, NEW t, Lists(t, N), NEW n \in 0 .. N - 1, t.nodes[n].obj # NullObject,
           NEW r \in Nat, NEW u, u = Counted(t, n, r)
    PROVE  /\ Lists(u, N)
           /\ u.nodes[n] = [obj |-> t.nodes[n].obj, refs |-> r]
           /\ \A k \in 0 .. N - 1 : k # n => u.nodes[k] = t.nodes[k]
<1>1. /\ u.nodes = [t.nodes EXCEPT ![n].refs = r]
      /\ u.buckets = t.buckets /\ u.freelist = t.freelist /\ u.slotused = t.slotused
      /\ u = [nodes |-> u.nodes, buckets |-> u.buckets, freelist |-> u.freelist, slotused |-> u.slotused]
  <2>1. PICK a, b, c, d : t = [nodes |-> a, buckets |-> b, freelist |-> c, slotused |-> d]
    BY DEF Lists
  <2>. QED BY <2>1 DEF Counted
<1>2. t.nodes \in [0 .. N - 1 -> Node]
  BY DEF Lists, NodesFit
<1>3. u.nodes[n] = [obj |-> t.nodes[n].obj, refs |-> r]
  BY <1>1, <1>2 DEF Node
<1>4. \A k \in 0 .. N - 1 : k # n => u.nodes[k] = t.nodes[k]
  BY <1>1, <1>2
<1>5. \A k \in 0 .. N - 1 : u.nodes[k].obj = t.nodes[k].obj
  BY <1>3, <1>4
<1>6. u.nodes \in [0 .. N - 1 -> Node]
  BY <1>1, <1>2 DEF Node
<1>7. NodesFit(N, u.nodes)
  <2>1. \A k \in 0 .. N - 1 : u.nodes[k].obj = NullObject => u.nodes[k].refs = 0
    BY <1>4, <1>5 DEF Lists, NodesFit
  <2>. QED BY <1>5, <1>6, <2>1 DEF Lists, NodesFit
<1>8. FreeFits(N, u.nodes, u.freelist)
  <2>1. \A i \in 1 .. Len(t.freelist) : t.freelist[i] \in 0 .. N - 1
    BY ElementOfSeq DEF Lists, FreeFits
  <2>. QED BY <1>1, <1>5, <2>1 DEF Lists, FreeFits
<1>9. BucketsFit(N, u.nodes, u.buckets)
  <2>1. \A b \in 0 .. N - 1 : \A i \in 1 .. Len(t.buckets[b]) : t.buckets[b][i] \in 0 .. N - 1
    BY ElementOfSeq DEF Lists, BucketsFit
  <2>2. BucketsFit(N, t.nodes, t.buckets)
    BY DEF Lists
  <2>3. ASSUME NEW b \in 0 .. N - 1, NEW i \in 1 .. Len(t.buckets[b])
        PROVE  u.nodes[t.buckets[b][i]].obj # NullObject /\ HashObj[u.nodes[t.buckets[b][i]].obj] % N = b
    <3>1. t.nodes[t.buckets[b][i]].obj # NullObject /\ HashObj[t.nodes[t.buckets[b][i]].obj] % N = b
      BY <2>2 DEF BucketsFit
    <3>2. u.nodes[t.buckets[b][i]].obj = t.nodes[t.buckets[b][i]].obj
      BY <1>5, <2>1
    <3>. QED BY <3>1, <3>2
  <2>4. ASSUME NEW k \in 0 .. N - 1, u.nodes[k].obj # NullObject
        PROVE  \E i \in 1 .. Len(t.buckets[HashObj[u.nodes[k].obj] % N]) :
                  t.buckets[HashObj[u.nodes[k].obj] % N][i] = k
    <3>1. u.nodes[k].obj = t.nodes[k].obj
      BY <1>5
    <3>2. \E i \in 1 .. Len(t.buckets[HashObj[t.nodes[k].obj] % N]) :
             t.buckets[HashObj[t.nodes[k].obj] % N][i] = k
      BY <2>2, <2>4, <3>1 DEF BucketsFit
    <3>. QED BY <3>1, <3>2
  <2>5. t.buckets \in [0 .. N - 1 -> Seq(0 .. N - 1)] /\ \A b \in 0 .. N - 1 : Once(t.buckets[b])
    BY <2>2 DEF BucketsFit
  <2>6. BucketsFit(N, u.nodes, t.buckets)
    BY ONLY <2>3, <2>4, <2>5 DEF BucketsFit
  <2>. QED BY <1>1, <2>6
<1>10. UsedFits(N, u.freelist, u.slotused)
  BY <1>1 DEF Lists, UsedFits
<1>. QED BY <1>1, <1>3, <1>4, <1>7, <1>8, <1>9, <1>10 DEF Lists

\* The last release takes the node out of its chain, wherever it is in it.
LEMMA FreeNodeLists ==
    ASSUME NEW N \in Nat \ {0}, NEW t, Lists(t, N), NEW o \in Obj,
           NEW n \in 0 .. N - 1, t.nodes[n].obj = o
    PROVE  /\ Lists(FreeNode(t, o), N)
           /\ FreeNode(t, o).nodes[n] = EmptyNode
           /\ \A k \in 0 .. N - 1 : k # n => FreeNode(t, o).nodes[k] = t.nodes[k]
<1>1. PICK nd, bk, fr : nd = t.nodes /\ bk = t.buckets /\ fr = t.freelist
  OBVIOUS
<1>2. NodesFit(N, nd) /\ FreeFits(N, nd, fr) /\ BucketsFit(N, nd, bk) /\ UsedFits(N, fr, t.slotused)
  BY <1>1 DEF Lists
<1>3. PICK m \in 0 .. N - 1 : m = MainPos(t, o) /\ m = HashObj[o] % N
  <2>1. MainPos(t, o) = HashObj[o] % N /\ MainPos(t, o) \in 0 .. N - 1
    BY MainPosIs
  <2>. QED BY <2>1
<1>20. PICK p : p = Place(t, o)
  OBVIOUS
<1>4. PICK c : c = bk[m]
  OBVIOUS
<1>5. p \in 1 .. Len(c) /\ c \in Seq(0 .. N - 1) /\ c[p] = n /\ NodeOf(t, o) = n /\ Once(c)
  <2>1. /\ NodeOf(t, o) = n /\ Place(t, o) \in 1 .. Len(t.buckets[MainPos(t, o)])
        /\ t.buckets[MainPos(t, o)][Place(t, o)] = n
    BY PlaceIs
  <2>2. c \in Seq(0 .. N - 1) /\ Once(c)
    BY <1>2, <1>4 DEF BucketsFit
  <2>3. c = t.buckets[MainPos(t, o)]
    BY <1>1, <1>3, <1>4
  <2>. QED BY <1>20, <2>1, <2>2, <2>3
<1>6. o # NullObject /\ nd[n].obj = o
  BY <1>1, RefTableAssumption
<1>7. PICK d : d = RemoveAt(c, p)
  OBVIOUS
<1>8. /\ d \in Seq(0 .. N - 1) /\ Once(d)
      /\ \A i \in 1 .. Len(d) : \E j \in 1 .. Len(c) : j # p /\ d[i] = c[j]
      /\ \A j \in 1 .. Len(c) : j # p => \E i \in 1 .. Len(d) : d[i] = c[j]
  <2>1. PICK T : T = 0 .. N - 1
    OBVIOUS
  <2>2. c \in Seq(T)
    BY <1>5, <2>1
  <2>3. d \in Seq(T)
    BY <1>5, <1>7, <2>2, Unlinked
  <2>4. /\ Once(d)
        /\ \A i \in 1 .. Len(d) : \E j \in 1 .. Len(c) : j # p /\ d[i] = c[j]
        /\ \A j \in 1 .. Len(c) : j # p => \E i \in 1 .. Len(d) : d[i] = c[j]
    <3>1. p \in 1 .. Len(c) /\ Once(c) /\ d = RemoveAt(c, p)
      BY <1>5, <1>7
    <3>2. /\ Once(RemoveAt(c, p))
          /\ \A i \in 1 .. Len(RemoveAt(c, p)) : \E j \in 1 .. Len(c) : j # p /\ RemoveAt(c, p)[i] = c[j]
          /\ \A j \in 1 .. Len(c) : j # p => \E i \in 1 .. Len(RemoveAt(c, p)) : RemoveAt(c, p)[i] = c[j]
      BY <2>2, <3>1, UnlinkedRest
    <3>. QED BY <3>1, <3>2
  <2>. QED BY <2>1, <2>3, <2>4
<1>9. PICK u : u = FreeNode(t, o)
  OBVIOUS
<1>10. /\ u.nodes = [nd EXCEPT ![n] = EmptyNode]
       /\ u.buckets = [bk EXCEPT ![m] = d]
       /\ u.freelist = <<n>> \o fr
       /\ u.slotused = t.slotused - 1
       /\ u = [nodes |-> u.nodes, buckets |-> u.buckets, freelist |-> u.freelist, slotused |-> u.slotused]
  BY <1>1, <1>3, <1>20, <1>4, <1>5, <1>7, <1>9 DEF FreeNode
<1>11. /\ u.nodes[n] = EmptyNode /\ u.nodes[n].obj = NullObject /\ u.nodes[n].refs = 0
       /\ \A k \in 0 .. N - 1 : k # n => u.nodes[k] = nd[k]
       /\ u.nodes \in [0 .. N - 1 -> Node]
  <2>1. nd \in [0 .. N - 1 -> Node] /\ EmptyNode \in Node /\ EmptyNode.obj = NullObject /\ EmptyNode.refs = 0
    BY <1>2 DEF NodesFit, Node, EmptyNode
  <2>. QED BY <1>10, <2>1
<1>12. /\ u.buckets \in [0 .. N - 1 -> Seq(0 .. N - 1)]
       /\ u.buckets[m] = d /\ \A b \in 0 .. N - 1 : b # m => u.buckets[b] = bk[b]
  BY <1>2, <1>8, <1>10 DEF BucketsFit
<1>13. NodesFit(N, u.nodes)
  <2>1. PICK nu : nu = u.nodes
    OBVIOUS
  <2>2. ASSUME NEW k \in 0 .. N - 1, NEW l \in 0 .. N - 1, nu[k].obj # NullObject, nu[k].obj = nu[l].obj
        PROVE  k = l
    <3>1. k # n /\ l # n
      BY <1>11, <2>1, <2>2
    <3>. QED BY <1>2, <1>11, <2>1, <2>2, <3>1 DEF NodesFit
  <2>3. \A k \in 0 .. N - 1 : nu[k].obj = NullObject => nu[k].refs = 0
    BY <1>2, <1>11, <2>1 DEF NodesFit
  <2>. QED BY <1>11, <2>1, <2>2, <2>3 DEF NodesFit
<1>14. PICK e : e = <<n>> \o fr
  OBVIOUS
<1>15. /\ e \in Seq(0 .. N - 1) /\ Len(e) = Len(fr) + 1 /\ Once(e) /\ e[1] = n /\ Len(fr) \in Nat
       /\ \A i \in 1 .. Len(fr) : e[i + 1] = fr[i]
       /\ \A i \in 1 .. Len(fr) + 1 : i # 1 => i - 1 \in 1 .. Len(fr) /\ e[i] = fr[i - 1]
       /\ \A i \in 1 .. Len(fr) : fr[i] # n /\ fr[i] \in 0 .. N - 1
  <2>1. PICK T : T = 0 .. N - 1
    OBVIOUS
  <2>2. fr \in Seq(T) /\ n \in T /\ Once(fr)
    BY <1>2, <2>1 DEF FreeFits
  <2>3. \A i \in 1 .. Len(fr) : fr[i] # n
    BY <1>2, <1>6 DEF FreeFits
  <2>4. Len(fr) \in Nat /\ Once(e)
    BY <1>14, <2>2, <2>3, PutFirstOnce, LenProperties
  <2>5. /\ e \in Seq(T) /\ Len(e) = Len(fr) + 1 /\ e[1] = n
        /\ \A i \in 1 .. Len(fr) : e[i + 1] = fr[i]
        /\ \A i \in 1 .. Len(fr) + 1 : i # 1 => i - 1 \in 1 .. Len(fr) /\ e[i] = fr[i - 1]
    BY <1>14, <2>2, PutFirst
  <2>6. \A i \in 1 .. Len(fr) : fr[i] \in T
    BY <2>2, ElementOfSeq
  <2>. QED BY <2>1, <2>3, <2>4, <2>5, <2>6
<1>16. FreeFits(N, u.nodes, e)
  <2>1. ASSUME NEW i \in 1 .. Len(e)
        PROVE  u.nodes[e[i]].obj = NullObject
    <3>1. CASE i = 1
      BY <1>11, <1>15, <3>1
    <3>2. CASE i # 1
      <4>1. i - 1 \in 1 .. Len(fr) /\ e[i] = fr[i - 1]
        BY <1>15, <3>2
      <4>2. nd[fr[i - 1]].obj = NullObject
        BY <1>2, <4>1 DEF FreeFits
      <4>. QED BY ZenonT(30), <1>11, <1>15, <4>1, <4>2
    <3>. QED BY <3>1, <3>2
  <2>2. ASSUME NEW k \in 0 .. N - 1, u.nodes[k].obj = NullObject
        PROVE  \E i \in 1 .. Len(e) : e[i] = k
    <3>1. CASE k = n
      <4>1. 1 \in 1 .. Len(e)
        BY <1>15
      <4>. QED BY <1>15, <3>1, <4>1
    <3>2. CASE k # n
      <4>1. PICK i \in 1 .. Len(fr) : fr[i] = k
        BY <1>2, <1>11, <2>2, <3>2 DEF FreeFits
      <4>2. i + 1 \in 1 .. Len(e) /\ e[i + 1] = k
        BY <1>15, <4>1
      <4>. QED BY <4>2
    <3>. QED BY <3>1, <3>2
  <2>. QED BY <1>15, <2>1, <2>2 DEF FreeFits
<1>17. \A i \in 1 .. Len(d) : d[i] # n
  BY <1>5, <1>8 DEF Once
<1>18. BucketsFit(N, u.nodes, u.buckets)
  <2>1. \A b \in 0 .. N - 1 : Once(u.buckets[b])
    BY <1>2, <1>8, <1>12 DEF BucketsFit
  <2>2. ASSUME NEW b \in 0 .. N - 1, NEW i \in 1 .. Len(u.buckets[b])
        PROVE  u.nodes[u.buckets[b][i]].obj # NullObject /\ HashObj[u.nodes[u.buckets[b][i]].obj] % N = b
    <3>1. PICK j \in 1 .. Len(bk[b]) : u.buckets[b][i] = bk[b][j]
      <4>1. CASE b = m
        <5>1. i \in 1 .. Len(d) /\ u.buckets[b][i] = d[i] /\ bk[b] = c
          BY <1>4, <1>12, <4>1
        <5>. QED BY ZenonT(30), <1>8, <5>1
      <4>2. CASE b # m
        <5>1. u.buckets[b] = bk[b]
          BY <1>12, <4>2
        <5>. QED BY <5>1
      <4>. QED BY <4>1, <4>2
    <3>2. nd[bk[b][j]].obj # NullObject /\ HashObj[nd[bk[b][j]].obj] % N = b
      BY <1>2 DEF BucketsFit
    <3>3. bk[b][j] \in 0 .. N - 1
      BY <1>2, ElementOfSeq DEF BucketsFit
    <3>4. u.buckets[b][i] # n
      <4>1. CASE b = m
        BY <1>12, <1>17, <4>1
      <4>2. CASE b # m
        BY <1>3, <1>6, <3>1, <3>2, <4>2
      <4>. QED BY <4>1, <4>2
    <3>. QED BY <1>11, <3>1, <3>2, <3>3, <3>4
  <2>3. ASSUME NEW k \in 0 .. N - 1, u.nodes[k].obj # NullObject
        PROVE  \E i \in 1 .. Len(u.buckets[HashObj[u.nodes[k].obj] % N]) :
                  u.buckets[HashObj[u.nodes[k].obj] % N][i] = k
    <3>1. k # n /\ u.nodes[k] = nd[k] /\ nd[k].obj # NullObject
      BY <1>11, <2>3
    <3>2. PICK h : h = HashObj[nd[k].obj] % N
      OBVIOUS
    <3>3. PICK j \in 1 .. Len(bk[h]) : bk[h][j] = k
      BY <1>2, <3>1, <3>2 DEF BucketsFit
    <3>4. h \in 0 .. N - 1
      BY <1>2, <3>1, <3>2, HashFits DEF NodesFit, Node
    <3>5. CASE h = m
      <4>1. j # p
        BY <1>4, <1>5, <3>1, <3>3, <3>5
      <4>2. \E i \in 1 .. Len(d) : d[i] = k
        BY <1>4, <1>8, <3>3, <3>5, <4>1
      <4>. QED BY <1>12, <3>1, <3>2, <3>5, <4>2
    <3>6. CASE h # m
      BY <1>12, <3>1, <3>2, <3>3, <3>4, <3>6
    <3>. QED BY <3>5, <3>6
  <2>. QED BY <1>12, <2>1, <2>2, <2>3 DEF BucketsFit
<1>19. UsedFits(N, e, u.slotused)
  <2>1. Len(e) <= N
    BY <1>15, OnceIsShort
  <2>2. PICK a \in Nat, f \in Nat : a = t.slotused /\ f = Len(fr)
    BY <1>2, <1>15 DEF UsedFits
  <2>3. a + f = N /\ f + 1 <= N /\ Len(e) = f + 1 /\ u.slotused = a - 1
    BY <1>2, <1>10, <1>15, <2>1, <2>2 DEF UsedFits
  <2>4. a - 1 \in Nat /\ (a - 1) + (f + 1) = N
    BY <2>3
  <2>. QED BY <2>3, <2>4 DEF UsedFits
<1>. QED BY <1>1, <1>9, <1>10, <1>11, <1>13, <1>14, <1>16, <1>18, <1>19 DEF Lists

\* RefTable::Get with add = true: the object has a node, a new one if it had
\* none, and every other record is as before.
LEMMA GetOrAddLists ==
    ASSUME NEW N \in Nat \ {0}, NEW t, Lists(t, N), NEW o \in Obj
    PROVE  \E M \in Nat \ {0} : \E n \in 0 .. M - 1 :
              /\ Lists(GetOrAdd(t, o), M) /\ GetOrAdd(t, o).nodes[n].obj = o
              /\ \A p \in Obj : Recorded(GetOrAdd(t, o), p) = Recorded(t, p)
              /\ \A k \in 0 .. M - 1 : k # n /\ GetOrAdd(t, o).nodes[k].obj # NullObject =>
                    k \in 0 .. N - 1 /\ t.nodes[k] = GetOrAdd(t, o).nodes[k]
<1>1. CASE \E k \in 0 .. N - 1 : t.nodes[k].obj = o
  <2>1. PICK n \in 0 .. N - 1 : t.nodes[n].obj = o
    BY <1>1
  <2>2. Places(t, o) # {}
    BY <2>1, FoundPlaces
  <2>3. GetOrAdd(t, o) = t
    BY <2>2 DEF GetOrAdd
  <2>. QED BY <2>1, <2>3
<1>2. CASE \A k \in 0 .. N - 1 : t.nodes[k].obj # o
  <2>1. Places(t, o) = {} /\ NumOfSlots(t) = N
    BY <1>2, GetMisses, SlotsIs
  <2>2. o # NullObject
    BY RefTableAssumption
  \* The table that has room for the node, with the nodes of t.
  <2>3. \E M \in Nat \ {0} : \E u :
          /\ Lists(u, M) /\ u.freelist # <<>> /\ GetOrAdd(t, o) = Add(u, o)
          /\ \A k \in 0 .. M - 1 : u.nodes[k].obj # o
          /\ \A k \in 0 .. N - 1 : k \in 0 .. M - 1 /\ (t.nodes[k].obj # NullObject => u.nodes[k] = t.nodes[k])
          /\ \A k \in 0 .. M - 1 : u.nodes[k].obj # NullObject => k \in 0 .. N - 1 /\ t.nodes[k] = u.nodes[k]
    <3>1. CASE N = t.slotused
      <4>1. t.freelist = <<>>
        <5>1. t.freelist \in Seq(0 .. N - 1) /\ t.slotused + Len(t.freelist) = N
          BY DEF Lists, FreeFits, UsedFits
        <5>2. Len(t.freelist) = 0
          BY <3>1, <5>1, LenProperties
        <5>. QED BY <5>1, <5>2, EmptySeq
      <4>2. PICK u : u = Rehashed(t, 2 * N)
        OBVIOUS
      <4>3. 2 * N \in Nat \ {0} /\ 2 * N > N
        OBVIOUS
      <4>4. /\ Lists(u, 2 * N) /\ u.freelist # <<>>
            /\ \A k \in 0 .. N - 1 : u.nodes[k] = t.nodes[k]
            /\ \A k \in N .. 2 * N - 1 : u.nodes[k] = EmptyNode
        BY <4>1, <4>2, <4>3, RehashedLists
      <4>5. GetOrAdd(t, o) = Add(u, o)
        BY <2>1, <3>1, <4>2 DEF GetOrAdd, MustResize
      <4>6. \A k \in 0 .. 2 * N - 1 : k \in 0 .. N - 1 \/ k \in N .. 2 * N - 1
        OBVIOUS
      <4>7. \A k \in N .. 2 * N - 1 : u.nodes[k].obj = NullObject
        BY <4>4 DEF EmptyNode
      <4>8. \A k \in 0 .. N - 1 : k \in 0 .. 2 * N - 1
        OBVIOUS
      <4>9. PICK M \in Nat \ {0} : M = 2 * N
        BY <4>3
      <4>10. Lists(u, M) /\ u.freelist # <<>> /\ GetOrAdd(t, o) = Add(u, o)
        BY <4>4, <4>5, <4>9
      <4>11. \A k \in 0 .. M - 1 : u.nodes[k].obj # NullObject => k \in 0 .. N - 1 /\ t.nodes[k] = u.nodes[k]
        BY <4>4, <4>6, <4>7, <4>9
      <4>12. \A k \in 0 .. M - 1 : u.nodes[k].obj # o
        BY <1>2, <2>2, <4>11
      <4>13. \A k \in 0 .. N - 1 : k \in 0 .. M - 1 /\ u.nodes[k] = t.nodes[k]
        BY <4>4, <4>8, <4>9
      <4>. QED BY <4>10, <4>11, <4>12, <4>13
    <3>2. CASE N # t.slotused
      <4>1. t.freelist # <<>>
        <5>1. t.slotused \in Nat /\ t.slotused + Len(t.freelist) = N
          BY DEF Lists, UsedFits
        <5>2. CASE t.freelist = <<>>
          BY <3>2, <5>1, <5>2
        <5>. QED BY <5>2
      <4>2. GetOrAdd(t, o) = Add(t, o)
        BY <2>1, <3>2 DEF GetOrAdd, MustResize
      <4>. QED BY <1>2, <4>1, <4>2
    <3>. QED BY <3>1, <3>2
  <2>30. PICK M \in Nat \ {0} : \E u :
          /\ Lists(u, M) /\ u.freelist # <<>> /\ GetOrAdd(t, o) = Add(u, o)
          /\ \A k \in 0 .. M - 1 : u.nodes[k].obj # o
          /\ \A k \in 0 .. N - 1 : k \in 0 .. M - 1 /\ (t.nodes[k].obj # NullObject => u.nodes[k] = t.nodes[k])
          /\ \A k \in 0 .. M - 1 : u.nodes[k].obj # NullObject => k \in 0 .. N - 1 /\ t.nodes[k] = u.nodes[k]
    BY <2>3
  <2>4. PICK u :
          /\ Lists(u, M) /\ u.freelist # <<>> /\ GetOrAdd(t, o) = Add(u, o)
          /\ \A k \in 0 .. M - 1 : u.nodes[k].obj # o
          /\ \A k \in 0 .. N - 1 : k \in 0 .. M - 1 /\ (t.nodes[k].obj # NullObject => u.nodes[k] = t.nodes[k])
          /\ \A k \in 0 .. M - 1 : u.nodes[k].obj # NullObject => k \in 0 .. N - 1 /\ t.nodes[k] = u.nodes[k]
    BY <2>30
  <2>5. PICK v : v = Add(u, o)
    OBVIOUS
  <2>6. Lists(v, M)
    BY <2>4, <2>5, AddLists
  <2>7. PICK n \in 0 .. M - 1 :
          /\ u.nodes[n].obj = NullObject /\ v.nodes[n] = [obj |-> o, refs |-> 0]
          /\ \A k \in 0 .. M - 1 : k # n => v.nodes[k] = u.nodes[k]
    BY <2>4, <2>5, AddLists
  <2>8. ASSUME NEW p \in Obj
        PROVE  Recorded(v, p) = Recorded(t, p)
    <3>1. p # NullObject
      BY RefTableAssumption
    <3>2. ASSUME NEW k \in 0 .. N - 1, t.nodes[k].obj = p
          PROVE  k \in 0 .. M - 1 /\ v.nodes[k] = t.nodes[k]
      <4>1. k \in 0 .. M - 1 /\ u.nodes[k] = t.nodes[k]
        BY <2>4, <3>1, <3>2
      <4>2. k # n
        BY <2>7, <3>1, <3>2, <4>1
      <4>. QED BY <2>7, <4>1, <4>2
    <3>3. ASSUME NEW k \in 0 .. M - 1, v.nodes[k].obj = p, v.nodes[k].refs # 0
          PROVE  k \in 0 .. N - 1 /\ t.nodes[k].obj = p
      <4>1. k # n
        BY <2>7, <3>3
      <4>. QED BY <2>4, <2>7, <3>1, <3>3, <4>1
    <3>. QED BY <2>6, <3>2, <3>3, RecordKept
  <2>9. ASSUME NEW k \in 0 .. M - 1, k # n, v.nodes[k].obj # NullObject
        PROVE  k \in 0 .. N - 1 /\ t.nodes[k] = v.nodes[k]
    BY <2>4, <2>7, <2>9
  <2>10. GetOrAdd(t, o) = v /\ v.nodes[n].obj = o
    BY <2>4, <2>5, <2>7
  <2>. QED BY <2>6, <2>8, <2>9, <2>10
<1>. QED BY <1>1, <1>2

\* With every used node counting something, none of the asserts fails.
LEMMA AssertsHold ==
    ASSUME NEW N \in Nat \ {0}, NEW t, Lists(t, N), NEW o \in Obj,
           \A k \in 0 .. N - 1 : t.nodes[k].obj # NullObject => t.nodes[k].refs # 0
    PROVE  ~ AssertFails(t, o)
<1>1. /\ NumOfSlots(t) = N /\ DOMAIN t.nodes = 0 .. N - 1
      /\ FreeFits(N, t.nodes, t.freelist) /\ UsedFits(N, t.freelist, t.slotused)
  BY SlotsIs DEF Lists, NodesFit
<1>2. t.freelist \in Seq(0 .. N - 1) /\ Len(t.freelist) \in Nat
  BY <1>1, LenProperties DEF FreeFits
<1>3. CASE MustResize(t, o)
  <2>1. Len(t.freelist) = 0
    BY <1>1, <1>2, <1>3 DEF MustResize, UsedFits
  <2>2. t.freelist = <<>>
    BY <1>2, <2>1, EmptySeq
  <2>3. \A k \in 0 .. N - 1 : t.nodes[k].obj # NullObject
    BY <1>1, <2>1 DEF FreeFits
  <2>. QED BY <1>1, <1>3, <2>2, <2>3 DEF AssertFails
<1>4. CASE ~ MustResize(t, o) /\ Places(t, o) = {}
  <2>1. t.freelist # <<>>
    <3>1. CASE t.freelist = <<>>
      BY <1>1, <1>4, <3>1 DEF MustResize, UsedFits
    <3>. QED BY <3>1
  <2>2. Len(t.freelist) # 0
    BY <1>2, <2>1, EmptySeq
  <2>3. 1 \in 1 .. Len(t.freelist) /\ Head(t.freelist) = t.freelist[1]
    BY <1>2, <2>1, <2>2
  <2>4. t.nodes[t.freelist[1]].obj = NullObject /\ t.freelist[1] \in 0 .. N - 1
    BY <1>1, <1>2, <2>3, ElementOfSeq DEF FreeFits
  <2>5. t.nodes[t.freelist[1]].refs = 0
    BY <2>4 DEF Lists, NodesFit
  <2>. QED BY <1>4, <2>3, <2>5 DEF AssertFails
<1>5. CASE ~ MustResize(t, o) /\ Places(t, o) # {}
  BY <1>5 DEF AssertFails
<1>. QED BY <1>3, <1>4, <1>5

----------------------------------------------------------------------------
(* The invariant.                                                          *)

\* The lists are in order, and the record of every object is its holds.
RefInv ==
    /\ \E N \in Nat \ {0} : Lists(reftable, N)
    /\ failed \in BOOLEAN
    /\ holds \in [Obj -> 0 .. MaxHolds]
    /\ \A o \in Obj : Recorded(reftable, o) = holds[o]

\* What holds for a host that counts only what it holds.
UsedAreHeld == \A k \in Nodes(reftable) : reftable.nodes[k].obj # NullObject => reftable.nodes[k].refs # 0
HeldInv == UsedAreHeld /\ ~ failed

LEMMA RefInitInv ==
    ASSUME RefInit
    PROVE  RefInv /\ HeldInv
<1>1. InitSlots \in Nat \ {0} /\ MaxHolds \in Nat
  BY RefTableAssumption
<1>2. /\ reftable = AllocNodes(InitSlots) /\ Lists(reftable, InitSlots)
      /\ \A k \in 0 .. InitSlots - 1 : reftable.nodes[k].obj = NullObject
  BY <1>1, AllocLists DEF RefInit, EmptyNode
<1>3. \A o \in Obj : Recorded(reftable, o) = 0
  BY <1>1, <1>2, GetMisses, RefTableAssumption
<1>4. holds = [o \in Obj |-> 0] /\ failed = FALSE
  BY DEF RefInit
<1>5. UsedAreHeld
  BY <1>1, <1>2, SlotsIs DEF UsedAreHeld
<1>6. holds \in [Obj -> 0 .. MaxHolds] /\ \A o \in Obj : holds[o] = 0
  BY <1>1, <1>4
<1>7. \E N \in Nat \ {0} : Lists(reftable, N)
  BY <1>1, <1>2
<1>. QED BY <1>3, <1>4, <1>5, <1>6, <1>7 DEF RefInv, HeldInv

\* What a table is after a step, for the prime of RefInv and HeldInv.
LEMMA RefInvNext ==
    ASSUME NEW N \in Nat \ {0}, NEW t, Lists(t, N), reftable' = t,
           failed' \in BOOLEAN, holds' \in [Obj -> 0 .. MaxHolds],
           \A o \in Obj : Recorded(t, o) = holds'[o]
    PROVE  RefInv'
  BY DEF RefInv

LEMMA HeldInvNext ==
    ASSUME NEW N \in Nat \ {0}, NEW t, Lists(t, N), reftable' = t, ~ failed',
           \A k \in 0 .. N - 1 : t.nodes[k].obj # NullObject => t.nodes[k].refs # 0
    PROVE  HeldInv'
<1>1. Nodes(t) = 0 .. N - 1
  BY SlotsIs
<1>2. \A k \in Nodes(t) : t.nodes[k].obj # NullObject => t.nodes[k].refs # 0
  BY <1>1
<1>3. UsedAreHeld'
  BY <1>2 DEF UsedAreHeld
<1>. QED BY <1>3 DEF HeldInv

\* HeldInv of a table with N slots.
LEMMA HeldFacts ==
    ASSUME HeldInv, NEW N \in Nat \ {0}, Lists(reftable, N)
    PROVE  ~ failed /\ \A k \in 0 .. N - 1 : reftable.nodes[k].obj # NullObject => reftable.nodes[k].refs # 0
  BY SlotsIs DEF HeldInv, UsedAreHeld

----------------------------------------------------------------------------
(* The calls of the host.                                                  *)

\* An object that is held has a node.
LEMMA HeldHasNode ==
    ASSUME NEW N \in Nat \ {0}, NEW t, Lists(t, N), NEW o \in Obj, Recorded(t, o) # 0
    PROVE  \E k \in 0 .. N - 1 : t.nodes[k].obj = o
  BY GetMisses

LEMMA AddRefKeeps ==
    ASSUME RefInv, NEW o \in Obj, AddRef(o)
    PROVE  RefInv' /\ (HeldInv => HeldInv')
<1>1. PICK N \in Nat \ {0} : Lists(reftable, N)
  BY DEF RefInv
<1>2. PICK s : s = reftable
  OBVIOUS
<1>3. PICK t : t = GetOrAdd(s, o)
  OBVIOUS
<1>30. PICK M \in Nat \ {0} : \E n \in 0 .. M - 1 :
        /\ Lists(t, M) /\ t.nodes[n].obj = o
        /\ \A p \in Obj : Recorded(t, p) = Recorded(s, p)
        /\ \A k \in 0 .. M - 1 : k # n /\ t.nodes[k].obj # NullObject =>
              k \in 0 .. N - 1 /\ s.nodes[k] = t.nodes[k]
  <2>1. Lists(s, N)
    BY <1>1, <1>2
  <2>. QED BY <1>3, <2>1, GetOrAddLists
<1>4. PICK n \in 0 .. M - 1 :
        /\ Lists(t, M) /\ t.nodes[n].obj = o
        /\ \A p \in Obj : Recorded(t, p) = Recorded(s, p)
        /\ \A k \in 0 .. M - 1 : k # n /\ t.nodes[k].obj # NullObject =>
              k \in 0 .. N - 1 /\ s.nodes[k] = t.nodes[k]
  BY <1>30
<1>5. NodeOf(t, o) = n /\ Recorded(t, o) = t.nodes[n].refs /\ t.nodes[n].refs \in Nat /\ o # NullObject
  <2>1. NodeOf(t, o) = n /\ Recorded(t, o) = t.nodes[n].refs
    <3>1. NodeOf(t, o) = n
      BY <1>4, PlaceIs
    <3>2. Recorded(t, o) = t.nodes[n].refs
      BY <1>4, RecordIs
    <3>. QED BY <3>1, <3>2
  <2>2. t.nodes[n].refs \in Nat
    BY <1>4, NodeFacts
  <2>. QED BY <2>1, <2>2, RefTableAssumption
<1>6. PICK r \in Nat : r = t.nodes[n].refs
  BY <1>5
<1>7. PICK u : u = [t EXCEPT !.nodes[n].refs = r + 1]
  OBVIOUS
<1>8. reftable' = u /\ failed' = AssertFails(s, o) /\ holds' = [holds EXCEPT ![o] = @ + 1]
      /\ holds[o] < MaxHolds
  BY <1>2, <1>3, <1>5, <1>6, <1>7 DEF AddRef
<1>9. /\ Lists(u, M) /\ u.nodes[n] = [obj |-> o, refs |-> r + 1]
      /\ \A k \in 0 .. M - 1 : k # n => u.nodes[k] = t.nodes[k]
  <2>1. PICK q \in Nat : q = r + 1
    OBVIOUS
  <2>2. Lists(t, M) /\ t.nodes[n].obj = o /\ t.nodes[n].obj # NullObject /\ u = Counted(t, n, q)
    BY <1>4, <1>5, <1>7, <2>1 DEF Counted
  <2>3. /\ Lists(u, M) /\ u.nodes[n] = [obj |-> t.nodes[n].obj, refs |-> q]
        /\ \A k \in 0 .. M - 1 : k # n => u.nodes[k] = t.nodes[k]
    BY <2>2, CountedLists
  <2>. QED BY <2>1, <2>2, <2>3
<1>10. ASSUME NEW p \in Obj
       PROVE  Recorded(u, p) = IF p = o THEN holds[o] + 1 ELSE holds[p]
  <2>1. \A q \in Obj : Recorded(t, q) = holds[q]
    BY <1>2, <1>4 DEF RefInv
  <2>2. CASE p = o
    <3>1. Recorded(u, o) = u.nodes[n].refs
      BY <1>9, RecordIs
    <3>. QED BY <1>5, <1>6, <1>9, <2>1, <2>2, <3>1
  <2>3. CASE p # o
    <3>1. \A k \in 0 .. M - 1 : t.nodes[k].obj = p => k # n /\ u.nodes[k] = t.nodes[k]
      BY <1>4, <1>9, <2>3
    <3>2. \A k \in 0 .. M - 1 : u.nodes[k].obj = p => k # n /\ t.nodes[k].obj = p
      BY <1>9, <2>3
    <3>3. Recorded(u, p) = Recorded(t, p)
      BY <1>4, <1>9, <3>1, <3>2, RecordKept
    <3>. QED BY <2>1, <2>3, <3>3
  <2>. QED BY <2>2, <2>3
<1>11. holds \in [Obj -> 0 .. MaxHolds] /\ MaxHolds \in Nat
  BY RefTableAssumption DEF RefInv
<1>12. holds' \in [Obj -> 0 .. MaxHolds] /\ \A p \in Obj : Recorded(u, p) = holds'[p]
  BY <1>8, <1>10, <1>11
<1>13. failed' \in BOOLEAN
  BY <1>8 DEF AssertFails
<1>14. RefInv'
  BY <1>8, <1>9, <1>12, <1>13, RefInvNext
<1>15. ASSUME HeldInv
       PROVE  HeldInv'
  <2>1. \A k \in 0 .. N - 1 : s.nodes[k].obj # NullObject => s.nodes[k].refs # 0
    BY <1>1, <1>2, <1>15, HeldFacts
  <2>2. ~ AssertFails(s, o)
    BY <1>1, <1>2, <2>1, AssertsHold
  <2>3. \A k \in 0 .. M - 1 : u.nodes[k].obj # NullObject => u.nodes[k].refs # 0
    <3>1. r + 1 # 0
      OBVIOUS
    <3>. QED BY <1>4, <1>9, <2>1, <3>1
  <2>. QED BY <1>8, <1>9, <2>2, <2>3, HeldInvNext
<1>. QED BY <1>14, <1>15

LEMMA GetRefCountKeeps ==
    ASSUME RefInv, NEW o \in Obj, GetRefCount(o)
    PROVE  /\ RefInv' /\ reply' = <<"count", holds[o]>>
           /\ CountUnheld = FALSE /\ HeldInv => HeldInv'
<1>1. PICK N \in Nat \ {0} : Lists(reftable, N)
  BY DEF RefInv
<1>2. PICK s : s = reftable
  OBVIOUS
<1>3. PICK t : t = GetOrAdd(s, o)
  OBVIOUS
<1>30. PICK M \in Nat \ {0} : \E n \in 0 .. M - 1 :
        /\ Lists(t, M) /\ t.nodes[n].obj = o
        /\ \A p \in Obj : Recorded(t, p) = Recorded(s, p)
        /\ \A k \in 0 .. M - 1 : k # n /\ t.nodes[k].obj # NullObject =>
              k \in 0 .. N - 1 /\ s.nodes[k] = t.nodes[k]
  <2>1. Lists(s, N)
    BY <1>1, <1>2
  <2>. QED BY <1>3, <2>1, GetOrAddLists
<1>4. PICK n \in 0 .. M - 1 :
        /\ Lists(t, M) /\ t.nodes[n].obj = o
        /\ \A p \in Obj : Recorded(t, p) = Recorded(s, p)
        /\ \A k \in 0 .. M - 1 : k # n /\ t.nodes[k].obj # NullObject =>
              k \in 0 .. N - 1 /\ s.nodes[k] = t.nodes[k]
  BY <1>30
<1>5. NodeOf(t, o) = n /\ Recorded(t, o) = t.nodes[n].refs /\ o # NullObject
  <2>1. NodeOf(t, o) = n /\ Recorded(t, o) = t.nodes[n].refs
    <3>1. NodeOf(t, o) = n
      BY <1>4, PlaceIs
    <3>2. Recorded(t, o) = t.nodes[n].refs
      BY <1>4, RecordIs
    <3>. QED BY <3>1, <3>2
  <2>. QED BY <2>1, RefTableAssumption
<1>6. /\ reftable' = t /\ failed' = AssertFails(s, o) /\ holds' = holds
      /\ CountUnheld \/ holds[o] > 0
      /\ reply' = <<"count", t.nodes[n].refs>>
  BY <1>2, <1>3, <1>5 DEF GetRefCount
<1>7. \A p \in Obj : Recorded(t, p) = holds'[p]
  BY <1>2, <1>4, <1>6 DEF RefInv
<1>8. failed' \in BOOLEAN /\ holds' \in [Obj -> 0 .. MaxHolds]
  BY <1>6 DEF AssertFails, RefInv
<1>9. RefInv'
  BY <1>4, <1>6, <1>7, <1>8, RefInvNext
<1>10. reply' = <<"count", holds[o]>>
  BY <1>5, <1>6, <1>7
<1>11. ASSUME CountUnheld = FALSE, HeldInv
       PROVE  HeldInv'
  <2>1. \A k \in 0 .. N - 1 : s.nodes[k].obj # NullObject => s.nodes[k].refs # 0
    BY <1>1, <1>2, <1>11, HeldFacts
  <2>2. ~ AssertFails(s, o)
    BY <1>1, <1>2, <2>1, AssertsHold
  <2>3. t.nodes[n].refs # 0
    <3>1. holds[o] > 0
      BY <1>6, <1>11
    <3>2. holds[o] # 0
      BY <3>1, RefTableAssumption DEF RefInv
    <3>. QED BY <1>5, <1>6, <1>7, <3>2
  <2>4. \A k \in 0 .. M - 1 : t.nodes[k].obj # NullObject => t.nodes[k].refs # 0
    BY <1>4, <2>1, <2>3
  <2>. QED BY <1>4, <1>6, <2>2, <2>4, HeldInvNext
<1>. QED BY <1>9, <1>10, <1>11

LEMMA ReleaseKeeps ==
    ASSUME RefInv, NEW o \in Obj, Release(o)
    PROVE  /\ RefInv' /\ reply' = <<"last", IF holds[o] = 1 THEN 1 ELSE 0>>
           /\ HeldInv => HeldInv'
<1>1. PICK N \in Nat \ {0} : Lists(reftable, N)
  BY DEF RefInv
<1>2. PICK s : s = reftable
  OBVIOUS
<1>3. Lists(s, N) /\ Recorded(s, o) = holds[o] /\ holds[o] > 0 /\ holds[o] \in 0 .. MaxHolds
  BY <1>1, <1>2 DEF RefInv, Release
<1>4. MaxHolds \in Nat /\ holds[o] # 0
  BY <1>3, RefTableAssumption
<1>5. PICK n \in 0 .. N - 1 : s.nodes[n].obj = o
  BY <1>3, <1>4, HeldHasNode
<1>6. NodeOf(s, o) = n /\ s.nodes[n].refs = holds[o] /\ o # NullObject
  <2>1. NodeOf(s, o) = n
    BY <1>3, <1>5, PlaceIs
  <2>2. Recorded(s, o) = s.nodes[n].refs
    BY <1>3, <1>5, RecordIs
  <2>3. o # NullObject
    BY RefTableAssumption
  <2>. QED BY <1>3, <2>1, <2>2, <2>3
<1>7. /\ holds' = [holds EXCEPT ![o] = @ - 1] /\ failed' = failed
      /\ reply' = <<"last", IF holds[o] = 1 THEN 1 ELSE 0>>
      /\ reftable' = IF holds[o] = 1 THEN FreeNode(s, o) ELSE [s EXCEPT !.nodes[n].refs = @ - 1]
  BY <1>2, <1>6 DEF Release
<1>8. PICK q \in Nat : q = holds[o] - 1
  BY <1>3, <1>4
<1>9. holds \in [Obj -> 0 .. MaxHolds] /\ failed \in BOOLEAN /\ \A p \in Obj : Recorded(s, p) = holds[p]
  BY <1>2 DEF RefInv
<1>10. holds' \in [Obj -> 0 .. MaxHolds] /\ \A p \in Obj : holds'[p] = IF p = o THEN q ELSE holds[p]
  BY <1>3, <1>4, <1>7, <1>8, <1>9
\* The table after the step, with an empty node or a smaller count for o.
<1>11. \E u : /\ reftable' = u /\ Lists(u, N)
              /\ \A k \in 0 .. N - 1 : k # n => u.nodes[k] = s.nodes[k]
              /\ \/ q = 0 /\ u.nodes[n].obj = NullObject
                 \/ q # 0 /\ u.nodes[n] = [obj |-> o, refs |-> q]
  <2>1. CASE holds[o] = 1
    <3>1. PICK u : u = FreeNode(s, o)
      OBVIOUS
    <3>2. /\ Lists(u, N) /\ u.nodes[n] = EmptyNode
          /\ \A k \in 0 .. N - 1 : k # n => u.nodes[k] = s.nodes[k]
      BY <1>3, <1>5, <3>1, FreeNodeLists
    <3>3. u.nodes[n].obj = NullObject /\ q = 0
      BY <1>8, <2>1, <3>2 DEF EmptyNode
    <3>. QED BY <1>7, <2>1, <3>1, <3>2, <3>3
  <2>2. CASE holds[o] # 1
    <3>1. PICK u : u = Counted(s, n, q)
      OBVIOUS
    <3>2. /\ Lists(u, N) /\ u.nodes[n] = [obj |-> s.nodes[n].obj, refs |-> q]
          /\ \A k \in 0 .. N - 1 : k # n => u.nodes[k] = s.nodes[k]
      <4>1. s.nodes[n].obj # NullObject
        BY <1>5, <1>6
      <4>. QED BY <1>3, <3>1, <4>1, CountedLists
    <3>3. q # 0
      BY <1>3, <1>4, <1>8, <2>2
    <3>4. reftable' = [s EXCEPT !.nodes[n].refs = q]
      BY <1>6, <1>7, <1>8, <2>2
    <3>. QED BY <1>5, <3>1, <3>2, <3>3, <3>4 DEF Counted
  <2>. QED BY <2>1, <2>2
<1>12. PICK u : /\ reftable' = u /\ Lists(u, N)
                /\ \A k \in 0 .. N - 1 : k # n => u.nodes[k] = s.nodes[k]
                /\ \/ q = 0 /\ u.nodes[n].obj = NullObject
                   \/ q # 0 /\ u.nodes[n] = [obj |-> o, refs |-> q]
  BY <1>11
<1>13. ASSUME NEW p \in Obj
       PROVE  Recorded(u, p) = holds'[p]
  <2>0. p # NullObject
    BY RefTableAssumption
  <2>1. CASE p # o
    <3>1. \A k \in 0 .. N - 1 : s.nodes[k].obj = p => k # n /\ u.nodes[k] = s.nodes[k]
      BY <1>5, <1>12, <2>1
    <3>2. \A k \in 0 .. N - 1 : u.nodes[k].obj = p => k # n /\ s.nodes[k].obj = p
      BY <1>12, <2>0, <2>1
    <3>3. Recorded(u, p) = Recorded(s, p)
      BY <1>3, <1>12, <3>1, <3>2, RecordKept
    <3>. QED BY <1>9, <1>10, <2>1, <3>3
  <2>2. CASE p = o /\ q # 0
    <3>1. u.nodes[n].obj = o /\ u.nodes[n].refs = q
      BY <1>12, <2>2
    <3>2. Recorded(u, o) = q
      BY <1>12, <3>1, RecordIs
    <3>. QED BY <1>10, <2>2, <3>2
  <2>3. CASE p = o /\ q = 0
    <3>1. ASSUME NEW k \in 0 .. N - 1, u.nodes[k].obj = o
          PROVE  FALSE
      <4>1. k # n
        BY <1>6, <1>12, <2>3, <3>1
      <4>2. s.nodes[k].obj = o
        BY <1>12, <3>1, <4>1
      <4>. QED BY <1>3, <1>5, <1>6, <4>1, <4>2 DEF Lists, NodesFit
    <3>2. Recorded(u, o) = 0
      BY <1>12, <3>1, GetMisses
    <3>. QED BY <1>10, <2>3, <3>2
  <2>. QED BY <2>1, <2>2, <2>3
<1>14. RefInv'
  BY <1>7, <1>9, <1>10, <1>12, <1>13, RefInvNext
<1>15. ASSUME HeldInv
       PROVE  HeldInv'
  <2>1. ~ failed /\ \A k \in 0 .. N - 1 : s.nodes[k].obj # NullObject => s.nodes[k].refs # 0
    BY <1>1, <1>2, <1>15, HeldFacts
  <2>2. ASSUME NEW k \in 0 .. N - 1, u.nodes[k].obj # NullObject
        PROVE  u.nodes[k].refs # 0
    <3>1. CASE k = n
      BY <1>12, <2>2, <3>1
    <3>2. CASE k # n
      BY <1>12, <2>1, <2>2, <3>2
    <3>. QED BY <3>1, <3>2
  <2>. QED BY <1>7, <1>12, <2>1, <2>2, HeldInvNext
<1>. QED BY <1>7, <1>14, <1>15

LEMMA RefStutters ==
    ASSUME RefInv, UNCHANGED refVars
    PROVE  RefInv' /\ (HeldInv => HeldInv')
<1>1. reftable' = reftable /\ failed' = failed /\ holds' = holds
  BY DEF refVars
<1>2. RefInv'
  BY <1>1 DEF RefInv
<1>3. HeldInv => HeldInv'
  BY <1>1 DEF HeldInv, UsedAreHeld
<1>. QED BY <1>2, <1>3

----------------------------------------------------------------------------
(* The theorems.                                                           *)

\* The lists stay in order and the records are the holds (state.cpp:456-594).
THEOREM RefInvariance == RefSpec => []RefInv
<1>1. RefInit => RefInv
  BY RefInitInv
<1>2. RefInv /\ [RefNext]_refVars => RefInv'
  BY AddRefKeeps, GetRefCountKeeps, ReleaseKeeps, RefStutters DEF RefNext
<1>. QED BY <1>1, <1>2, PTL DEF RefSpec

\* For a host that counts only what it holds, every used node is held and
\* no assert fails.
THEOREM HeldInvariance ==
    ASSUME CountUnheld = FALSE
    PROVE  RefSpec => []HeldInv
<1>1. RefInit => RefInv /\ HeldInv
  BY RefInitInv
<1>2. RefInv /\ HeldInv /\ [RefNext]_refVars => RefInv' /\ HeldInv'
  BY AddRefKeeps, GetRefCountKeeps, ReleaseKeeps, RefStutters DEF RefNext
<1>. QED BY <1>1, <1>2, PTL DEF RefSpec

\* No assert of the table fails (state.cpp:518, 526, 537, 554) for a host that
\* counts only what it holds.
THEOREM AssertsNeverFail ==
    ASSUME CountUnheld = FALSE
    PROVE  RefSpec => []NoAssertFails
<1>1. HeldInv => NoAssertFails
  BY DEF HeldInv, NoAssertFails
<1>. QED BY <1>1, HeldInvariance, PTL

LEMMA ListsPartition ==
    ASSUME NEW N \in Nat \ {0}, NEW t, Lists(t, N), NEW k \in Nodes(t)
    PROVE  IF t.nodes[k].obj = NullObject
             THEN Occurrences(t, k) = {} /\ Cardinality(FreeAt(t, k)) = 1
             ELSE /\ FreeAt(t, k) = {}
                  /\ Cardinality(Occurrences(t, k)) = 1
                  /\ \A p \in Occurrences(t, k) : p[1] = MainPos(t, t.nodes[k].obj)
<1>1. NumOfSlots(t) = N /\ Nodes(t) = 0 .. N - 1 /\ k \in 0 .. N - 1
  BY SlotsIs
<1>2. /\ NodesFit(N, t.nodes) /\ FreeFits(N, t.nodes, t.freelist)
      /\ BucketsFit(N, t.nodes, t.buckets)
  BY DEF Lists
<1>3. DOMAIN t.freelist = 1 .. Len(t.freelist)
  BY <1>2, LenProperties DEF FreeFits
<1>4. \A b \in 0 .. N - 1 : DOMAIN t.buckets[b] = 1 .. Len(t.buckets[b]) /\ Len(t.buckets[b]) \in Nat
  BY <1>2, LenProperties DEF BucketsFit
<1>5. ASSUME NEW p \in Occurrences(t, k)
      PROVE  /\ p \in (0 .. N - 1) \X (1 .. N) /\ p = <<p[1], p[2]>> /\ p[1] \in 0 .. N - 1
             /\ p[2] \in 1 .. Len(t.buckets[p[1]]) /\ t.buckets[p[1]][p[2]] = k
  BY <1>1, <1>4 DEF Occurrences
<1>6. CASE t.nodes[k].obj = NullObject
  <2>1. Occurrences(t, k) = {}
    <3>1. ASSUME NEW p \in Occurrences(t, k)
          PROVE  FALSE
      <4>1. t.nodes[t.buckets[p[1]][p[2]]].obj # NullObject
        BY <1>2, <1>5 DEF BucketsFit
      <4>. QED BY <1>5, <1>6, <4>1
    <3>. QED BY <3>1
  <2>2. PICK i \in 1 .. Len(t.freelist) : t.freelist[i] = k
    BY <1>1, <1>2, <1>6 DEF FreeFits
  <2>3. FreeAt(t, k) = {i}
    BY <1>2, <1>3, <2>2 DEF FreeAt, FreeFits, Once
  <2>. QED BY <1>6, <2>1, <2>3, FS_Singleton
<1>7. CASE t.nodes[k].obj # NullObject
  <2>1. FreeAt(t, k) = {}
    BY <1>2, <1>3, <1>7 DEF FreeAt, FreeFits
  <2>2. t.nodes[k].obj \in Obj
    <3>1. t.nodes[k] \in Node
      BY <1>1, <1>2 DEF NodesFit
    <3>2. t.nodes[k].obj \in Obj \cup {NullObject}
      BY <3>1 DEF Node
    <3>. QED BY <1>7, <3>2
  <2>3. PICK m \in 0 .. N - 1 : m = HashObj[t.nodes[k].obj] % N /\ m = MainPos(t, t.nodes[k].obj)
    BY <1>1, <2>2, HashFits DEF MainPos
  <2>4. PICK i \in 1 .. Len(t.buckets[m]) : t.buckets[m][i] = k
    BY <1>1, <1>2, <1>7, <2>3 DEF BucketsFit
  <2>5. i \in 1 .. N
    <3>1. PICK c \in Seq(0 .. N - 1) : c = t.buckets[m] /\ Once(c)
      BY <1>2 DEF BucketsFit
    <3>2. Len(c) <= N
      BY <3>1, OnceIsShort
    <3>3. Len(c) \in Nat /\ i \in 1 .. Len(c)
      BY <2>4, <3>1, LenProperties
    <3>. QED BY <3>2, <3>3
  <2>6. <<m, i>> \in Occurrences(t, k)
    BY <1>1, <1>4, <2>3, <2>4, <2>5 DEF Occurrences
  <2>7. ASSUME NEW p \in Occurrences(t, k)
        PROVE  p[1] = m /\ p = <<m, i>>
    <3>1. PICK b \in 0 .. N - 1, j \in 1 .. Len(t.buckets[p[1]]) :
            p = <<b, j>> /\ b = p[1] /\ j = p[2] /\ t.buckets[b][j] = k
      BY <1>5
    <3>2. HashObj[t.nodes[k].obj] % N = b
      BY <1>2, <3>1 DEF BucketsFit
    <3>3. j = i
      <4>1. b = m /\ Once(t.buckets[m])
        BY <1>2, <2>3, <3>2 DEF BucketsFit
      <4>2. j \in 1 .. Len(t.buckets[m]) /\ t.buckets[m][j] = k
        BY <3>1, <4>1
      <4>. QED BY <2>4, <4>1, <4>2 DEF Once
    <3>. QED BY <2>3, <3>1, <3>2, <3>3
  <2>8. Occurrences(t, k) = {<<m, i>>}
    BY <2>6, <2>7
  <2>9. Cardinality(Occurrences(t, k)) = 1
    BY <2>8, FS_Singleton
  <2>. QED BY <1>7, <2>1, <2>3, <2>7, <2>9
<1>. QED BY <1>6, <1>7

\* Every node is in exactly one list, the one its object selects
\* (RefTable::Add, Release, Resize).
THEOREM NodesStayPartitioned == RefSpec => []NodesPartitioned
<1>1. RefInv => NodesPartitioned
  BY ListsPartition DEF RefInv, NodesPartitioned
<1>. QED BY <1>1, RefInvariance, PTL

LEMMA HeldAreRoots ==
    ASSUME RefInv, HeldInv
    PROVE  RefsAreHeld
<1>1. PICK N \in Nat \ {0} : Lists(reftable, N)
  BY DEF RefInv
<1>2. Nodes(reftable) = 0 .. N - 1
  BY <1>1, SlotsIs
<1>3. NodesPartitioned
  BY <1>1, ListsPartition DEF NodesPartitioned
<1>4. \A o \in Obj : holds[o] \in Nat /\ Recorded(reftable, o) = holds[o]
  <2>1. MaxHolds \in Nat
    BY RefTableAssumption
  <2>. QED BY <2>1 DEF RefInv
<1>5. ASSUME NEW o \in Roots
      PROVE  o \in Obj /\ holds[o] > 0
  <2>1. PICK k \in 0 .. N - 1 : o = reftable.nodes[k].obj /\ o # NullObject
    BY <1>2, <1>5 DEF Roots
  <2>2. o \in Obj
    BY <1>1, <2>1, NodeFacts
  <2>3. reftable.nodes[k].refs # 0
    BY <1>1, <2>1, HeldFacts
  <2>4. Recorded(reftable, o) = reftable.nodes[k].refs
    BY <1>1, <2>1, <2>2, RecordIs
  <2>. QED BY <1>4, <2>2, <2>3, <2>4
<1>6. ASSUME NEW o \in Obj, holds[o] > 0
      PROVE  o \in Roots
  <2>1. Recorded(reftable, o) # 0 /\ o # NullObject
    BY <1>4, <1>6, RefTableAssumption
  <2>2. PICK k \in 0 .. N - 1 : reftable.nodes[k].obj = o
    BY <1>1, <2>1, HeldHasNode
  <2>. QED BY <1>2, <2>1, <2>2 DEF Roots
<1>7. Roots = {o \in Obj : holds[o] > 0}
  BY <1>5, <1>6
<1>. QED BY <1>3, <1>7 DEF RefsAreHeld, RootsAreHeld

\* The collector's roots are what the host holds: RefTable::Resize loses none
\* of them and RefTable::Release leaves none behind.
THEOREM RefsAlwaysHeld ==
    ASSUME CountUnheld = FALSE
    PROVE  RefSpec => []RefsAreHeld
BY HeldAreRoots, RefInvariance, HeldInvariance, PTL

LEMMA RecordsAreHolds ==
    ASSUME RefInv
    PROVE  [o \in Obj |-> Recorded(reftable, o)] = holds
BY DEF RefInv

LEMMA RecordsAreHoldsNext ==
    ASSUME RefInv'
    PROVE  [o \in Obj |-> Recorded(reftable', o)] = holds'
BY DEF RefInv

LEMMA RefStepMaps ==
    ASSUME RefInv, RefInv', [RefNext]_refVars
    PROVE  [Holds!Next]_(Holds!vars)
<1>1. CASE UNCHANGED refVars
  BY <1>1, RecordsAreHolds, RecordsAreHoldsNext DEF refVars, Holds!vars
<1>2. ASSUME NEW o \in Obj, AddRef(o)
      PROVE  Holds!Hold(o)
  BY <1>2, RecordsAreHolds, RecordsAreHoldsNext DEF AddRef, Holds!Hold
<1>3. ASSUME NEW o \in Obj, GetRefCount(o)
      PROVE  Holds!Count(o)
  <2>1. holds' = holds /\ reply' = <<"count", holds[o]>>
    BY <1>3, GetRefCountKeeps DEF GetRefCount
  <2>. QED BY <2>1, RecordsAreHolds, RecordsAreHoldsNext DEF Holds!Count
<1>4. ASSUME NEW o \in Obj, Release(o)
      PROVE  Holds!Drop(o)
  <2>1. /\ holds[o] > 0 /\ holds' = [holds EXCEPT ![o] = @ - 1]
        /\ reply' = <<"last", IF holds[o] = 1 THEN 1 ELSE 0>>
    BY <1>4, ReleaseKeeps DEF Release
  <2>. QED BY <2>1, RecordsAreHolds, RecordsAreHoldsNext DEF Holds!Drop
<1>. QED BY <1>1, <1>2, <1>3, <1>4 DEF RefNext, Holds!Next

\* lv_addref, lv_release and lv_getrefcount answer as a plain count of holds
\* per object would (HandleCounts).
THEOREM TableCountsHolds == RefSpec => CountsHolds
<1>1. RefInit => Holds!Init
  <2>. SUFFICES ASSUME RefInit PROVE Holds!Init
    OBVIOUS
  <2>1. [o \in Obj |-> Recorded(reftable, o)] = holds
    BY RefInitInv, RecordsAreHolds
  <2>. QED BY <2>1 DEF RefInit, Holds!Init
<1>2. RefInv /\ RefInv' /\ [RefNext]_refVars => [Holds!Next]_(Holds!vars)
  BY RefStepMaps
<1>. QED BY <1>1, <1>2, RefInvariance, PTL DEF RefSpec, CountsHolds, Holds!Spec

\* The types of the table: slots, lists and counts stay within their bounds.
THEOREM RefTypesOK == RefSpec => []RefTypeOK
<1>1. ASSUME RefInv
      PROVE  RefTypeOK
  <2>1. PICK N \in Nat \ {0} : Lists(reftable, N)
    BY <1>1 DEF RefInv
  <2>2. NumOfSlots(reftable) = N /\ Nodes(reftable) = 0 .. N - 1
    BY <2>1, SlotsIs
  <2>3. /\ reftable.nodes \in [0 .. N - 1 -> [obj : Obj \cup {NullObject}, refs : Nat]]
        /\ reftable.buckets \in [0 .. N - 1 -> Seq(0 .. N - 1)]
        /\ reftable.freelist \in Seq(0 .. N - 1)
    BY <2>1 DEF Lists, NodesFit, Node, FreeFits, BucketsFit
  <2>4. reftable.slotused \in 0 .. N
    <3>1. PICK a \in Nat, f \in Nat : a = reftable.slotused /\ f = Len(reftable.freelist) /\ a + f = N
      BY <2>1, <2>3, LenProperties DEF Lists, UsedFits
    <3>. QED BY <3>1
  <2>. QED BY <1>1, <2>2, <2>3, <2>4 DEF RefTypeOK, RefInv
<1>. QED BY <1>1, RefInvariance, PTL
=============================================================================
