--------------------------- MODULE HashTable_proofs ---------------------------
(***************************************************************************)
(* The lookups of a table find its keys, and a table is a Dictionary, for  *)
(* every set of keys, every hash and every least size: the theorems on     *)
(* HashTable.  At the end, those on StringTable: a string is in it once.   *)
(*                                                                         *)
(* The inductive invariant is about two functions on the nodes, nx and ky: *)
(* the node that comes after a node, and the key in it.  Chains end, which *)
(* is said without a path: every set of nodes has one that leads out of    *)
(* it.  No two nodes are followed by the same one.  A chain leads from one *)
(* node to another when each set that is closed under nx and holds the     *)
(* first holds the second; the chain of its main position leads to each    *)
(* key.                                                                    *)
(***************************************************************************)
EXTENDS HashTable, StringTable, FiniteSetTheorems, SequenceTheorems, TLAPS

Ids(N) == 0 .. N - 1

\* Main, for a number of nodes.
Pos(N, k) == (IF k = Nil THEN 0 ELSE Hash[k]) % N

\* The nodes of a table of N nodes.
Nodes(N) == [Ids(N) -> [key : Key \cup {Nil}, val : Val \cup {Nil},
                        next : Ids(N) \cup {NoNode}]]

Ends(N, nx) == \A S \in SUBSET Ids(N) : S # {} => \E i \in S : nx[i] \notin S

Single(N, nx) == \A i, j \in Ids(N) : nx[i] = nx[j] /\ nx[i] # NoNode => i = j

Closed(nx, S) == \A j \in S : nx[j] # NoNode => nx[j] \in S

Leads(N, nx, h, i) ==
    \A S \in SUBSET Ids(N) : h \in S /\ Closed(nx, S) => i \in S

\* Chains lead to the nodes above the first free one only, and that one is in
\* no chain; the keys below it are in their main positions.
LinksFit(N, nx, g) ==
    /\ nx \in [Ids(N) -> Ids(N) \cup {NoNode}]
    /\ g \in Ids(N)
    /\ Ends(N, nx)
    /\ Single(N, nx)
    /\ \A i \in Ids(N) : nx[i] # NoNode => nx[i] > g
    /\ nx[g] = NoNode

\* A key is there once.  Its chain leads to it, and it is in its main position
\* if any key is that belongs there.
KeysFit(N, nx, ky, g) ==
    /\ ky \in [Ids(N) -> Key \cup {Nil}]
    /\ ky[g] = Nil
    /\ \A i \in Ids(N) : i <= g /\ ky[i] # Nil => Pos(N, ky[i]) = i
    /\ \A i \in Ids(N) : ky[i] # Nil => Leads(N, nx, Pos(N, ky[i]), i)
    /\ \A i, j \in Ids(N) : ky[i] # Nil /\ ky[j] # Nil /\ Pos(N, ky[j]) = i
                               => Pos(N, ky[i]) = i
    /\ \A i, j \in Ids(N) : ky[i] # Nil /\ ky[i] = ky[j] => i = j

----------------------------------------------------------------------------
(* Natural numbers.                                                        *)

\* Induction, from the pigeonhole principle: if n were missing, the successor
\* would map the members up to n one to one into those that are not 0.
LEMMA AllNaturals ==
    ASSUME NEW S \in SUBSET Nat, 0 \in S, \A n \in S : n + 1 \in S
    PROVE  S = Nat
<1>1. SUFFICES ASSUME NEW n \in Nat \ S PROVE FALSE
  OBVIOUS
<1>. DEFINE A == S \cap (0 .. n)
            B == A \ {0}
            f == [k \in A |-> k + 1]
<1>2. IsFiniteSet(A) /\ 0 \in A
  <2>1. IsFiniteSet(0 .. n)
    BY FS_Interval
  <2>2. A \in SUBSET (0 .. n) /\ 0 \in A
    OBVIOUS
  <2>. QED
    BY <2>1, <2>2, FS_Subset
<1>3. f \in [A -> B] /\ \A k \in A : f[k] = k + 1 /\ k \in Nat
  OBVIOUS
<1>. HIDE DEF A, f
<1>4. IsFiniteSet(B) /\ Cardinality(B) < Cardinality(A)
  <2>1. IsFiniteSet(B) /\ Cardinality(B) = Cardinality(A) - 1
    BY <1>2, FS_RemoveElement
  <2>2. Cardinality(A) \in Nat
    BY <1>2, FS_CardinalityType
  <2>. QED
    BY <2>1, <2>2
<1>. HIDE DEF B
<1>5. PICK x \in A, y \in A : x # y /\ f[x] = f[y]
  BY <1>2, <1>3, <1>4, FS_PigeonHole
<1>. QED
  BY <1>3, <1>5

\* A set of naturals that is not empty has a least member.
LEMMA MinIsLeast ==
    ASSUME NEW S \in SUBSET Nat, S # {}
    PROVE  Min(S) \in S /\ \A y \in S : Min(S) <= y
<1>. DEFINE Below == {n \in Nat : \A m \in 0 .. n : m \notin S}
<1>1. \E x \in S : \A y \in S : x <= y
  <2>1. SUFFICES ASSUME \A x \in S : \E y \in S : y < x PROVE FALSE
    OBVIOUS
  <2>2. 0 \in Below
    BY <2>1
  <2>3. \A n \in Below : n + 1 \in Below
    BY <2>1
  <2>4. Below = Nat
    BY <2>2, <2>3, AllNaturals
  <2>5. PICK s \in S : TRUE
    OBVIOUS
  <2>6. s \in Below
    BY <2>4
  <2>. QED
    BY <2>6
<1>. QED
  BY <1>1 DEF Min

\* The same for a greatest member, when there is a bound.
LEMMA MaxIsGreatest ==
    ASSUME NEW b \in Nat, NEW S \in SUBSET (0 .. b), S # {}
    PROVE  Max(S) \in S /\ \A y \in S : Max(S) >= y
<1>. DEFINE T == {n \in Nat : b - n \in S}
<1>1. PICK s \in S : TRUE
  OBVIOUS
<1>2. b - s \in T
  OBVIOUS
<1>3. Min(T) \in T /\ \A y \in T : Min(T) <= y
  BY <1>2, MinIsLeast
<1>4. PICK m \in T : \A y \in T : m <= y
  BY <1>3
<1>5. \A y \in S : b - y \in T
  OBVIOUS
<1>6. b - m \in S /\ \A y \in S : b - m >= y
  BY <1>4, <1>5
<1>. QED
  BY <1>6 DEF Max

----------------------------------------------------------------------------
(* Paths: the nodes a lookup visits.                                       *)

\* What follows a node, or NoNode, on a path.
After(nx, x) == IF x = NoNode THEN NoNode ELSE nx[x]

IsPath(N, nx, h, p) ==
    p = [i \in 1 .. N |-> IF i = 1 THEN h ELSE After(nx, p[i - 1])]

LEMMA PathExists ==
    ASSUME NEW N \in Nat, NEW nx, NEW h
    PROVE  \E p : IsPath(N, nx, h, p)
<1>. DEFINE S == {n \in Nat : \E p : IsPath(n, nx, h, p)}
<1>1. 0 \in S
  <2>. DEFINE p == [i \in 1 .. 0 |-> h]
  <2>1. IsPath(0, nx, h, p)
    BY DEF IsPath
  <2>. QED
    BY <2>1
<1>2. ASSUME NEW n \in S PROVE n + 1 \in S
  <2>1. PICK p : IsPath(n, nx, h, p)
    OBVIOUS
  <2>2. \A i \in 1 .. n : p[i] = IF i = 1 THEN h ELSE After(nx, p[i - 1])
    BY <2>1 DEF IsPath
  <2>. DEFINE q == [i \in 1 .. n + 1 |-> IF i = 1 THEN h
                                         ELSE After(nx, p[i - 1])]
  <2>3. \A i \in 1 .. n : q[i] = p[i]
    BY <2>2
  <2>4. \A i \in 1 .. n + 1 : i # 1 => i - 1 \in 1 .. n
    OBVIOUS
  <2>5. q = [i \in 1 .. n + 1 |-> IF i = 1 THEN h ELSE After(nx, q[i - 1])]
    BY <2>3, <2>4
  <2>6. IsPath(n + 1, nx, h, q)
    BY <2>5 DEF IsPath
  <2>. QED
    BY <2>6
<1>3. S = Nat
  BY <1>1, <1>2, AllNaturals
<1>. QED
  BY <1>3

LEMMA PathSteps ==
    ASSUME NEW N \in Nat \ {0}, NEW nx \in [Ids(N) -> Ids(N) \cup {NoNode}],
           NEW h \in Ids(N), NEW p, IsPath(N, nx, h, p)
    PROVE  /\ p \in [1 .. N -> Ids(N) \cup {NoNode}]
           /\ p[1] = h
           /\ \A i \in 1 .. N : i # N => p[i + 1] = After(nx, p[i])
<1>1. \A i \in 1 .. N : p[i] = IF i = 1 THEN h ELSE After(nx, p[i - 1])
  BY DEF IsPath
<1>2. \A x \in Ids(N) \cup {NoNode} : After(nx, x) \in Ids(N) \cup {NoNode}
  BY DEF After
<1>. DEFINE S == {n \in Nat : n + 1 \in 1 .. N => p[n + 1] \in Ids(N) \cup {NoNode}}
<1>3. 0 \in S
  BY <1>1
<1>4. ASSUME NEW n \in S PROVE n + 1 \in S
  <2>. SUFFICES ASSUME n + 2 \in 1 .. N
                PROVE  p[n + 2] \in Ids(N) \cup {NoNode}
    OBVIOUS
  <2>1. p[n + 2] = After(nx, p[n + 1])
    BY <1>1
  <2>. QED
    BY <1>2, <2>1
<1>5. S = Nat
  BY <1>3, <1>4, AllNaturals
<1>6. \A i \in 1 .. N : p[i] \in Ids(N) \cup {NoNode}
  <2>1. \A i \in 1 .. N : i - 1 \in Nat /\ (i - 1) + 1 = i
    OBVIOUS
  <2>2. \A i \in 1 .. N : i - 1 \in S
    BY <1>5, <2>1
  <2>. QED
    BY <2>1, <2>2
<1>7. p = [i \in 1 .. N |-> p[i]]
  BY DEF IsPath
<1>8. p \in [1 .. N -> Ids(N) \cup {NoNode}]
  BY <1>6, <1>7
<1>9. \A i \in 1 .. N : i # N => i + 1 \in 1 .. N /\ i + 1 # 1 /\ (i + 1) - 1 = i
  OBVIOUS
<1>. QED
  BY <1>1, <1>8, <1>9

\* After NoNode comes nothing else.
LEMMA PathStaysOff ==
    ASSUME NEW N \in Nat \ {0}, NEW nx \in [Ids(N) -> Ids(N) \cup {NoNode}],
           NEW h \in Ids(N), NEW p, IsPath(N, nx, h, p),
           NEW i \in 1 .. N, p[i] = NoNode
    PROVE  p[N] = NoNode
<1>. DEFINE S == {n \in Nat : i + n <= N => p[i + n] = NoNode}
<1>1. \A j \in 1 .. N : j # N => p[j + 1] = After(nx, p[j])
  BY PathSteps
<1>2. 0 \in S
  OBVIOUS
<1>3. ASSUME NEW n \in S PROVE n + 1 \in S
  BY <1>1 DEF After
<1>4. S = Nat
  BY <1>2, <1>3, AllNaturals
<1>5. N - i \in S
  <2>1. N - i \in Nat
    OBVIOUS
  <2>. QED
    BY <1>4, <2>1
<1>. QED
  BY <1>5

\* When chains end, a path does not come back to a node.
LEMMA PathIsSimple ==
    ASSUME NEW N \in Nat \ {0}, NEW nx \in [Ids(N) -> Ids(N) \cup {NoNode}],
           Ends(N, nx), NEW h \in Ids(N), NEW p, IsPath(N, nx, h, p),
           NEW a \in 1 .. N, NEW b \in 1 .. N, a < b, p[b] # NoNode
    PROVE  p[a] # p[b]
<1>. SUFFICES ASSUME p[a] = p[b] PROVE FALSE
  OBVIOUS
<1>1. /\ p \in [1 .. N -> Ids(N) \cup {NoNode}]
      /\ \A j \in 1 .. N : j # N => p[j + 1] = After(nx, p[j])
  BY PathSteps
<1>. DEFINE T == {j \in 1 .. N : a <= j /\ j < b}
            S == {p[j] : j \in T}
<1>2. \A j \in T : p[j] # NoNode
  <2>. DEFINE U == {n \in Nat : n <= b - a => p[b - n] # NoNode}
  <2>1. 0 \in U
    OBVIOUS
  <2>2. ASSUME NEW n \in U PROVE n + 1 \in U
    <3>. SUFFICES ASSUME n + 1 <= b - a PROVE p[b - (n + 1)] # NoNode
      OBVIOUS
    <3>. DEFINE c == b - (n + 1)
    <3>1. c \in 1 .. N /\ c # N /\ c + 1 = b - n
      OBVIOUS
    <3>2. p[c + 1] = After(nx, p[c])
      BY <1>1, <3>1
    <3>. QED
      BY <3>1, <3>2 DEF After
  <2>3. U = Nat
    BY <2>1, <2>2, AllNaturals
  <2>4. ASSUME NEW j \in T PROVE p[j] # NoNode
    <3>1. b - j \in U
      BY <2>3
    <3>. QED
      BY <3>1
  <2>. QED
    BY <2>4
<1>3. a \in T
  OBVIOUS
<1>4. S \in SUBSET Ids(N) /\ S # {}
  BY <1>1, <1>2, <1>3
<1>5. PICK j \in T : nx[p[j]] \notin S
  BY <1>4 DEF Ends
<1>6. p[j + 1] = nx[p[j]]
  BY <1>1, <1>2 DEF After
<1>7. CASE j + 1 < b
  <2>1. j + 1 \in T
    BY <1>7
  <2>. QED
    BY <1>5, <1>6, <2>1
<1>8. CASE j + 1 = b
  <2>1. p[a] \in S
    BY <1>3
  <2>. QED
    BY <1>5, <1>6, <1>8, <2>1
<1>. QED
  BY <1>7, <1>8

\* A path is long enough to end.
LEMMA PathEnds ==
    ASSUME NEW N \in Nat \ {0}, NEW nx \in [Ids(N) -> Ids(N) \cup {NoNode}],
           Ends(N, nx), NEW h \in Ids(N), NEW p, IsPath(N, nx, h, p)
    PROVE  p[N] = NoNode \/ nx[p[N]] = NoNode
<1>. SUFFICES ASSUME p[N] # NoNode, nx[p[N]] # NoNode PROVE FALSE
  OBVIOUS
<1>1. /\ p \in [1 .. N -> Ids(N) \cup {NoNode}]
      /\ \A j \in 1 .. N : j # N => p[j + 1] = After(nx, p[j])
  BY PathSteps
<1>2. \A j \in 1 .. N : p[j] # NoNode
  BY PathStaysOff
<1>3. \A j, l \in 1 .. N : j # l => p[j] # p[l]
  BY <1>2, PathIsSimple
<1>. DEFINE S == {p[j] : j \in 1 .. N}
<1>4. p \in [1 .. N -> Ids(N)]
  BY <1>1, <1>2
<1>5. S = Ids(N)
  <2>1. /\ IsFiniteSet(Ids(N)) /\ Cardinality(Ids(N)) = N
        /\ IsFiniteSet(1 .. N) /\ Cardinality(1 .. N) = N
    BY FS_Interval DEF Ids
  <2>2. p \in Injection(1 .. N, Ids(N))
    BY <1>3, <1>4 DEF Injection, IsInjective
  <2>3. p \in Surjection(1 .. N, Ids(N))
    BY <2>1, <2>2, FS_Injection
  <2>4. \A x \in Ids(N) : \E j \in 1 .. N : p[j] = x
    BY <2>3 DEF Surjection
  <2>. QED
    BY <1>4, <2>4
<1>6. Ids(N) \in SUBSET Ids(N) /\ Ids(N) # {}
  BY DEF Ids
<1>7. PICK i \in Ids(N) : nx[i] \notin Ids(N)
  BY <1>6 DEF Ends
<1>8. PICK j \in 1 .. N : p[j] = i
  BY <1>5
<1>9. CASE j = N
  BY <1>7, <1>8, <1>9
<1>10. CASE j # N
  BY <1>1, <1>2, <1>4, <1>7, <1>8, <1>10 DEF After
<1>. QED
  BY <1>9, <1>10

\* A path visits every node its chain leads to.
LEMMA PathCovers ==
    ASSUME NEW N \in Nat \ {0}, NEW nx \in [Ids(N) -> Ids(N) \cup {NoNode}],
           Ends(N, nx), NEW h \in Ids(N), NEW p, IsPath(N, nx, h, p),
           NEW i \in Ids(N), Leads(N, nx, h, i)
    PROVE  \E j \in 1 .. N : p[j] = i
<1>1. /\ p \in [1 .. N -> Ids(N) \cup {NoNode}]
      /\ p[1] = h
      /\ \A j \in 1 .. N : j # N => p[j + 1] = After(nx, p[j])
  BY PathSteps
<1>2. p[N] = NoNode \/ nx[p[N]] = NoNode
  BY PathEnds
<1>. DEFINE S == {x \in Ids(N) : \E j \in 1 .. N : p[j] = x}
<1>3. h \in S
  BY <1>1
<1>4. Closed(nx, S)
  <2>. SUFFICES ASSUME NEW x \in S, nx[x] # NoNode PROVE nx[x] \in S
    BY DEF Closed
  <2>1. PICK j \in 1 .. N : p[j] = x
    OBVIOUS
  <2>2. x # NoNode
    BY DEF Ids, NoNode
  <2>3. j # N
    BY <1>2, <2>1, <2>2
  <2>4. p[j + 1] = nx[x] /\ j + 1 \in 1 .. N
    BY <1>1, <2>1, <2>2, <2>3 DEF After
  <2>. QED
    BY <2>4
<1>5. i \in S
  BY <1>3, <1>4 DEF Leads
<1>. QED
  BY <1>5

----------------------------------------------------------------------------
(* Lookups.                                                                *)

Nexts(nodes) == [i \in DOMAIN nodes |-> nodes[i].next]
Keys(nodes) == [i \in DOMAIN nodes |-> nodes[i].key]

IsTable(t, N) ==
    /\ N \in Nat /\ N >= 4
    /\ t = [nodes |-> t.nodes, firstfree |-> t.firstfree, used |-> t.used]
    /\ t.nodes \in Nodes(N)

Fits(t, N) ==
    /\ IsTable(t, N)
    /\ LinksFit(N, Nexts(t.nodes), t.firstfree)
    /\ KeysFit(N, Nexts(t.nodes), Keys(t.nodes), t.firstfree)
    /\ t.used = Cardinality(Slots(t))

LEMMA TableNodes ==
    ASSUME NEW N, NEW t, IsTable(t, N)
    PROVE  /\ N \in Nat \ {0}
           /\ DOMAIN t.nodes = Ids(N)
           /\ Size(t) = N
           /\ Nexts(t.nodes) \in [Ids(N) -> Ids(N) \cup {NoNode}]
           /\ Keys(t.nodes) \in [Ids(N) -> Key \cup {Nil}]
           /\ \A i \in Ids(N) : /\ Nexts(t.nodes)[i] = t.nodes[i].next
                                /\ Keys(t.nodes)[i] = t.nodes[i].key
                                /\ t.nodes[i].next \in Ids(N) \cup {NoNode}
                                /\ t.nodes[i].key \in Key \cup {Nil}
                                /\ t.nodes[i].val \in Val \cup {Nil}
<1>1. N \in Nat \ {0} /\ t.nodes \in Nodes(N)
  BY DEF IsTable
<1>2. DOMAIN t.nodes = Ids(N)
  BY <1>1 DEF Nodes
<1>3. Size(t) = N
  BY <1>1, <1>2, FS_Interval DEF Size, Ids
<1>4. \A i \in Ids(N) : /\ t.nodes[i].next \in Ids(N) \cup {NoNode}
                        /\ t.nodes[i].key \in Key \cup {Nil}
                        /\ t.nodes[i].val \in Val \cup {Nil}
  BY <1>1 DEF Nodes
<1>. QED
  BY <1>1, <1>2, <1>3, <1>4 DEF Nexts, Keys

LEMMA PosIsNode ==
    ASSUME NEW N \in Nat \ {0}, NEW k \in Key \cup {Nil}
    PROVE  Pos(N, k) \in Ids(N)
<1>1. PICK a \in Nat : a = IF k = Nil THEN 0 ELSE Hash[k]
  BY HashTableAssumption
<1>2. a % N \in 0 .. N - 1
  OBVIOUS
<1>. QED
  BY <1>1, <1>2 DEF Pos, Ids

LEMMA MainIsPos ==
    ASSUME NEW N, NEW t, IsTable(t, N), NEW k \in Key \cup {Nil}
    PROVE  Main(t, k) = Pos(N, k) /\ Pos(N, k) \in Ids(N)
BY TableNodes, PosIsNode DEF Main, Pos

LEMMA PathOfTable ==
    ASSUME NEW N, NEW t, IsTable(t, N), NEW h \in Ids(N)
    PROVE  IsPath(N, Nexts(t.nodes), h, Path(t, h))
<1>0. N \in Nat \ {0} /\ Size(t) = N
  BY TableNodes
<1>1. PICK p : IsPath(N, Nexts(t.nodes), h, p)
  BY <1>0, PathExists
<1>. DEFINE visits(q) == q = [i \in 1 .. N |->
               IF i = 1 THEN h
               ELSE IF q[i - 1] = NoNode THEN NoNode ELSE t.nodes[q[i - 1]].next]
<1>2. ASSUME NEW q, visits(q) PROVE IsPath(N, Nexts(t.nodes), h, q)
  <2>1. \A i \in 1 .. N : q[i] = IF i = 1 THEN h
               ELSE IF q[i - 1] = NoNode THEN NoNode ELSE t.nodes[q[i - 1]].next
    BY <1>2
  <2>. DEFINE S == {n \in Nat : n + 1 \in 1 .. N => q[n + 1] \in Ids(N) \cup {NoNode}}
  <2>2. 0 \in S
    BY <2>1
  <2>3. ASSUME NEW n \in S PROVE n + 1 \in S
    <3>. SUFFICES ASSUME n + 2 \in 1 .. N
                  PROVE  q[n + 2] \in Ids(N) \cup {NoNode}
      OBVIOUS
    <3>1. q[n + 2] = IF q[n + 1] = NoNode THEN NoNode ELSE t.nodes[q[n + 1]].next
      BY <2>1
    <3>. QED
      BY <3>1, TableNodes
  <2>4. S = Nat
    BY <2>2, <2>3, AllNaturals
  <2>5. \A i \in 1 .. N : i # 1 => i - 2 \in Nat /\ (i - 2) + 1 = i - 1 /\ i - 1 \in 1 .. N
    BY <1>0
  <2>6. \A i \in 1 .. N : i # 1 => q[i - 1] \in Ids(N) \cup {NoNode}
    BY <2>4, <2>5
  <2>7. \A i \in 1 .. N : i # 1 =>
           After(Nexts(t.nodes), q[i - 1]) = IF q[i - 1] = NoNode THEN NoNode
                                       ELSE t.nodes[q[i - 1]].next
    BY <2>6, TableNodes DEF After
  <2>. HIDE DEF S
  <2>8. q = [i \in 1 .. N |-> q[i]]
    BY <1>2
  <2>9. [i \in 1 .. N |-> q[i]]
           = [i \in 1 .. N |-> IF i = 1 THEN h ELSE After(Nexts(t.nodes), q[i - 1])]
    BY <2>1, <2>7
  <2>. QED
    BY <2>8, <2>9 DEF IsPath
<1>3. visits(p)
  <2>1. p \in [1 .. N -> Ids(N) \cup {NoNode}]
    BY <1>0, <1>1, PathSteps, TableNodes
  <2>2. \A i \in 1 .. N : i # 1 => p[i - 1] \in Ids(N) \cup {NoNode}
    BY <1>0, <2>1
  <2>3. \A i \in 1 .. N : i # 1 =>
           After(Nexts(t.nodes), p[i - 1]) = IF p[i - 1] = NoNode THEN NoNode
                                       ELSE t.nodes[p[i - 1]].next
    BY <2>2, TableNodes DEF After
  <2>4. p = [i \in 1 .. N |-> IF i = 1 THEN h ELSE After(Nexts(t.nodes), p[i - 1])]
    BY <1>1 DEF IsPath
  <2>. QED
    BY <2>3, <2>4
<1>4. PICK g : g = CHOOSE q : visits(q)
  OBVIOUS
<1>5. visits(g)
  BY <1>3, <1>4
<1>6. Path(t, h) = g
  BY <1>0, <1>4 DEF Path
<1>. HIDE DEF visits
<1>. QED
  BY <1>2, <1>5, <1>6

\* The nodes of a path.
LEMMA PathNodes ==
    ASSUME NEW N, NEW t, IsTable(t, N), NEW h \in Ids(N)
    PROVE  /\ Path(t, h) \in [1 .. N -> Ids(N) \cup {NoNode}]
           /\ Path(t, h)[1] = h
           /\ \A i \in 1 .. N : i # N => Path(t, h)[i + 1] = After(Nexts(t.nodes), Path(t, h)[i])
BY PathOfTable, PathSteps, TableNodes

LEMMA FirstWithIsHit ==
    ASSUME NEW N, NEW t, IsTable(t, N), NEW h \in Ids(N), NEW k
    PROVE  \/ /\ FirstWith(t, h, k) = NoNode
              /\ \A i \in 1 .. N : Path(t, h)[i] # NoNode => t.nodes[Path(t, h)[i]].key # k
           \/ /\ FirstWith(t, h, k) \in Ids(N)
              /\ t.nodes[FirstWith(t, h, k)].key = k
<1>. DEFINE hits == {i \in 1 .. Size(t) : Path(t, h)[i] # NoNode
                                             /\ t.nodes[Path(t, h)[i]].key = k}
<1>1. FirstWith(t, h, k) = IF hits = {} THEN NoNode ELSE Path(t, h)[Min(hits)]
  BY DEF FirstWith
<1>2. Size(t) = N /\ N \in Nat
  BY TableNodes
<1>3. CASE hits = {}
  BY <1>1, <1>2, <1>3
<1>4. CASE hits # {}
  <2>1. hits \in SUBSET Nat
    BY <1>2
  <2>2. Min(hits) \in hits
    BY <1>4, <2>1, MinIsLeast
  <2>3. PICK m \in 1 .. N : /\ FirstWith(t, h, k) = Path(t, h)[m]
                            /\ Path(t, h)[m] # NoNode
                            /\ t.nodes[Path(t, h)[m]].key = k
    BY <1>1, <1>2, <1>4, <2>2
  <2>4. Path(t, h) \in [1 .. N -> Ids(N) \cup {NoNode}]
    BY PathNodes
  <2>5. Path(t, h)[m] \in Ids(N)
    BY <2>3, <2>4
  <2>6. FirstWith(t, h, k) \in Ids(N) /\ t.nodes[FirstWith(t, h, k)].key = k
    BY <2>3, <2>5
  <2>. QED
    BY <2>6
<1>. QED
  BY <1>3, <1>4

\* A lookup returns a node that has the key, or none.
LEMMA FindIsNode ==
    ASSUME NEW N, NEW t, IsTable(t, N), NEW k \in Key \cup {Nil}
    PROVE  \/ Find(t, k) = NoNode
           \/ Find(t, k) \in Ids(N) /\ t.nodes[Find(t, k)].key = k
BY MainIsPos, FirstWithIsHit DEF Find

\* It finds a key that its chain leads to, if the key is there once.
LEMMA FindLeads ==
    ASSUME NEW N, NEW t, IsTable(t, N), Ends(N, Nexts(t.nodes)),
           NEW i \in Ids(N), NEW k \in Key, t.nodes[i].key = k,
           Leads(N, Nexts(t.nodes), Pos(N, k), i),
           \A j \in Ids(N) : t.nodes[j].key = k => j = i
    PROVE  Find(t, k) = i
<1>1. Main(t, k) = Pos(N, k) /\ Pos(N, k) \in Ids(N)
  BY MainIsPos
<1>2. PICK j \in 1 .. N : Path(t, Pos(N, k))[j] = i
  BY <1>1, PathOfTable, PathCovers, TableNodes
<1>3. i # NoNode
  BY DEF Ids, NoNode
<1>4. FirstWith(t, Pos(N, k), k) \in Ids(N) /\ t.nodes[FirstWith(t, Pos(N, k), k)].key = k
  BY <1>1, <1>2, <1>3, FirstWithIsHit
<1>. QED
  BY <1>1, <1>4 DEF Find

LEMMA FindsKey ==
    ASSUME NEW N, NEW t, Fits(t, N), NEW i \in Slots(t)
    PROVE  Find(t, t.nodes[i].key) = i
<1>1. IsTable(t, N) /\ Ends(N, Nexts(t.nodes)) /\ i \in Ids(N) /\ t.nodes[i].key \in Key
  BY TableNodes DEF Fits, LinksFit, Slots
<1>2. /\ \A j \in Ids(N) : Nexts(t.nodes)[j] = t.nodes[j].next /\ Keys(t.nodes)[j] = t.nodes[j].key
  BY <1>1, TableNodes
<1>3. /\ \A j \in Ids(N) : Keys(t.nodes)[j] # Nil => Leads(N, Nexts(t.nodes), Pos(N, Keys(t.nodes)[j]), j)
      /\ \A j, l \in Ids(N) : Keys(t.nodes)[j] # Nil /\ Keys(t.nodes)[j] = Keys(t.nodes)[l] => j = l
  BY DEF Fits, KeysFit
<1>4. t.nodes[i].key # Nil
  BY DEF Slots
<1>5. Leads(N, Nexts(t.nodes), Pos(N, t.nodes[i].key), i)
  BY <1>1, <1>2, <1>3, <1>4
<1>6. \A j \in Ids(N) : t.nodes[j].key = t.nodes[i].key => j = i
  BY <1>1, <1>2, <1>3, <1>4
<1>. QED
  BY <1>1, <1>5, <1>6, FindLeads

\* A lookup that fails says that the key is not in the table.
LEMMA FindFails ==
    ASSUME NEW N, NEW t, Fits(t, N), NEW k \in Key
    PROVE  Find(t, k) = NoNode <=> k \notin KeysOf(t)
<1>1. IsTable(t, N)
  BY DEF Fits
<1>2. ASSUME k \in KeysOf(t) PROVE Find(t, k) # NoNode
  <2>1. PICK i \in Slots(t) : t.nodes[i].key = k
    BY <1>2 DEF KeysOf
  <2>2. Find(t, k) = i
    BY <2>1, FindsKey
  <2>3. i # NoNode
    BY <1>1, TableNodes DEF Slots, Ids, NoNode
  <2>. QED
    BY <2>2, <2>3
<1>3. ASSUME Find(t, k) # NoNode PROVE k \in KeysOf(t)
  <2>1. Find(t, k) \in Ids(N) /\ t.nodes[Find(t, k)].key = k
    BY <1>1, <1>3, FindIsNode
  <2>2. k # Nil
    BY HashTableAssumption
  <2>. QED
    BY <1>1, <2>1, <2>2, TableNodes DEF KeysOf, Slots
<1>. QED
  BY <1>2, <1>3

\* The node whose next node is the one of a key that is not in its main
\* position.
LEMMA BeforeIsLinked ==
    ASSUME NEW N, NEW t, Fits(t, N), NEW h \in Ids(N),
           t.nodes[h].key # Nil, Pos(N, t.nodes[h].key) # h
    PROVE  Before(t, h) \in Ids(N) /\ t.nodes[Before(t, h)].next = h
<1>. DEFINE m == Pos(N, t.nodes[h].key)
            hits == {i \in 1 .. Size(t) : Path(t, m)[i] # NoNode
                                             /\ t.nodes[Path(t, m)[i]].next = h}
<1>1. IsTable(t, N) /\ Ends(N, Nexts(t.nodes)) /\ t.nodes[h].key \in Key \cup {Nil}
  BY TableNodes DEF Fits, LinksFit
<1>2. /\ Size(t) = N /\ N \in Nat
      /\ \A j \in Ids(N) : Nexts(t.nodes)[j] = t.nodes[j].next /\ Keys(t.nodes)[j] = t.nodes[j].key
  BY <1>1, TableNodes
<1>3. Main(t, t.nodes[h].key) = m /\ m \in Ids(N)
  BY <1>1, MainIsPos
<1>4. Before(t, h) = Path(t, m)[Min(hits)]
  BY <1>3 DEF Before, FirstBefore
<1>5. Leads(N, Nexts(t.nodes), m, h)
  BY <1>2 DEF Fits, KeysFit
<1>6. PICK j \in 1 .. N : Path(t, m)[j] = h
  BY <1>1, <1>3, <1>5, PathOfTable, PathCovers, TableNodes
<1>7. h # NoNode
  BY DEF Ids, NoNode
<1>8. j # 1
  BY <1>1, <1>3, <1>6, PathNodes
<1>9. /\ Path(t, m) \in [1 .. N -> Ids(N) \cup {NoNode}]
       /\ \A i \in 1 .. N : i # N => Path(t, m)[i + 1] = After(Nexts(t.nodes), Path(t, m)[i])
  BY <1>1, <1>3, PathNodes
<1>10. hits # {}
  <2>1. PICK l \in 1 .. N : l # N /\ l + 1 = j
    <3>1. j - 1 \in 1 .. N /\ j - 1 # N /\ (j - 1) + 1 = j
      BY <1>2, <1>8
    <3>. QED
      BY <3>1
  <2>2. h = After(Nexts(t.nodes), Path(t, m)[l]) /\ Path(t, m)[l] \in Ids(N) \cup {NoNode}
    BY <1>6, <1>9, <2>1
  <2>3. Path(t, m)[l] # NoNode /\ t.nodes[Path(t, m)[l]].next = h
    BY <1>2, <1>7, <2>2 DEF After
  <2>. QED
    BY <1>2, <2>1, <2>3
<1>11. hits \in SUBSET Nat
  BY <1>2
<1>12. Min(hits) \in hits
  BY <1>10, <1>11, MinIsLeast
<1>13. PICK l \in 1 .. N : /\ Before(t, h) = Path(t, m)[l]
                           /\ Path(t, m)[l] # NoNode
                           /\ t.nodes[Path(t, m)[l]].next = h
  BY <1>2, <1>4, <1>12
<1>. QED
  BY <1>13, <1>9

----------------------------------------------------------------------------
(* A new key: its node and the chains.                                     *)

\* Node f comes after node h.
LEMMA ChainWithNode ==
    ASSUME NEW N \in Nat \ {0}, NEW nx \in [Ids(N) -> Ids(N) \cup {NoNode}],
           NEW n2 \in [Ids(N) -> Ids(N) \cup {NoNode}],
           NEW f \in Ids(N), NEW h \in Ids(N), f # h,
           Ends(N, nx), Single(N, nx), nx[f] = NoNode,
           \A i \in Ids(N) : nx[i] # f,
           n2[f] = nx[h], n2[h] = f,
           \A i \in Ids(N) : i # f /\ i # h => n2[i] = nx[i]
    PROVE  /\ Ends(N, n2)
           /\ Single(N, n2)
           /\ \A m, i \in Ids(N) : Leads(N, nx, m, i) => Leads(N, n2, m, i)
           /\ Leads(N, n2, h, f)
<1>0. NoNode \notin Ids(N)
  BY DEF Ids, NoNode
<1>1. Ends(N, n2)
  <2>. SUFFICES ASSUME NEW S \in SUBSET Ids(N), S # {}
                PROVE  \E i \in S : n2[i] \notin S
    BY DEF Ends
  <2>1. CASE S = {f}
    BY <2>1
  <2>2. CASE S # {f}
    <3>1. S \ {f} \in SUBSET Ids(N) /\ S \ {f} # {}
      BY <2>2
    <3>2. PICK i \in S \ {f} : nx[i] \notin S \ {f}
      BY <3>1 DEF Ends
    <3>3. nx[i] \notin S
      BY <3>2
    <3>4. CASE i # h
      BY <3>2, <3>3, <3>4
    <3>5. CASE i = h /\ f \in S
      BY <3>3, <3>5
    <3>6. CASE i = h /\ f \notin S
      BY <3>2, <3>6
    <3>. QED
      BY <3>4, <3>5, <3>6
  <2>. QED
    BY <2>1, <2>2
<1>2. Single(N, n2)
  BY DEF Single
<1>3. ASSUME NEW m \in Ids(N), NEW i \in Ids(N), Leads(N, nx, m, i)
      PROVE  Leads(N, n2, m, i)
  <2>. SUFFICES ASSUME NEW S \in SUBSET Ids(N), m \in S, Closed(n2, S)
                PROVE  i \in S
    BY DEF Leads
  <2>1. Closed(nx, S)
    BY <1>0 DEF Closed
  <2>. QED
    BY <1>3, <2>1 DEF Leads
<1>4. Leads(N, n2, h, f)
  BY <1>0 DEF Leads, Closed
<1>. QED
  BY <1>1, <1>2, <1>3, <1>4

\* Node f takes the place of node h after node p.
IsMoved(N, nx, n2, f, h, p) ==
    /\ nx[p] = h
    /\ n2[f] = nx[h] /\ n2[h] = NoNode /\ n2[p] = f
    /\ \A i \in Ids(N) : i # f /\ i # h /\ i # p => n2[i] = nx[i]

LEMMA ChainMoved ==
    ASSUME NEW N \in Nat \ {0}, NEW nx \in [Ids(N) -> Ids(N) \cup {NoNode}],
           NEW n2 \in [Ids(N) -> Ids(N) \cup {NoNode}],
           NEW f \in Ids(N), NEW h \in Ids(N), NEW p \in Ids(N), f # h,
           Ends(N, nx), Single(N, nx), nx[f] = NoNode,
           \A i \in Ids(N) : nx[i] # f,
           IsMoved(N, nx, n2, f, h, p)
    PROVE  /\ Ends(N, n2)
           /\ Single(N, n2)
           /\ \A m, i \in Ids(N) : m # h /\ i # h /\ Leads(N, nx, m, i)
                                      => Leads(N, n2, m, i)
           /\ \A m \in Ids(N) : m # h /\ Leads(N, nx, m, h) => Leads(N, n2, m, f)
<1>. USE DEF IsMoved
<1>0. NoNode \notin Ids(N)
  BY DEF Ids, NoNode
<1>7. p # f
  BY <1>0
<1>8. nx[h] # h
  <2>1. {h} \in SUBSET Ids(N) /\ {h} # {}
    OBVIOUS
  <2>. QED
    BY <2>1 DEF Ends
<1>9. p # h
  BY <1>8
<1>10. \A i \in Ids(N) : nx[i] = h => i = p
  BY <1>0 DEF Single
<1>1. Ends(N, n2)
  <2>. SUFFICES ASSUME NEW S \in SUBSET Ids(N), S # {}
                PROVE  \E i \in S : n2[i] \notin S
    BY DEF Ends
  <2>1. CASE h \in S
    BY <1>0, <2>1
  <2>2. CASE h \notin S
    <3>. DEFINE T == (S \ {f}) \cup {x \in {h} : f \in S}
    <3>1. T \in SUBSET Ids(N) /\ T # {}
      OBVIOUS
    <3>2. PICK i \in T : nx[i] \notin T
      BY <3>1 DEF Ends
    <3>3. nx[i] # f
      BY <3>1, <3>2
    <3>4. nx[i] \notin S
      BY <3>2, <3>3
    <3>5. CASE i = h
      BY <2>2, <3>2, <3>4, <3>5
    <3>6. CASE i = p
      BY <1>7, <1>9, <3>2, <3>6
    <3>7. CASE i # h /\ i # p
      BY <3>2, <3>4, <3>7
    <3>. QED
      BY <3>5, <3>6, <3>7
  <2>. QED
    BY <2>1, <2>2
<1>2. Single(N, n2)
  BY <1>7, <1>9, <1>10 DEF Single
<1>3. ASSUME NEW S \in SUBSET Ids(N), Closed(n2, S)
      PROVE  Closed(nx, (S \ {h}) \cup {x \in {h} : f \in S})
  <2>. DEFINE T == (S \ {h}) \cup {x \in {h} : f \in S}
  <2>. SUFFICES ASSUME NEW j \in T, nx[j] # NoNode PROVE nx[j] \in T
    BY DEF Closed
  <2>1. CASE j = h
    <3>1. f \in S /\ n2[f] = nx[h]
      BY <2>1
    <3>2. nx[h] \in S
      BY <1>3, <2>1, <3>1 DEF Closed
    <3>. QED
      BY <1>8, <2>1, <3>2
  <2>2. CASE j = p
    <3>1. f \in S
      BY <1>0, <1>9, <1>3, <2>2 DEF Closed
    <3>. QED
      BY <2>2, <3>1
  <2>3. CASE j # h /\ j # p
    <3>1. j \in S /\ j # f
      BY <2>3
    <3>2. nx[j] \in S
      BY <1>3, <2>3, <3>1 DEF Closed
    <3>. QED
      BY <1>10, <2>3, <3>2
  <2>. QED
    BY <2>1, <2>2, <2>3
<1>4. ASSUME NEW m \in Ids(N), NEW i \in Ids(N), m # h, Leads(N, nx, m, i),
             NEW S \in SUBSET Ids(N), m \in S, Closed(n2, S)
      PROVE  i \in (S \ {h}) \cup {x \in {h} : f \in S}
  <2>. DEFINE T == (S \ {h}) \cup {x \in {h} : f \in S}
  <2>1. Closed(nx, T)
    BY <1>3, <1>4
  <2>2. T \in SUBSET Ids(N) /\ m \in T
    BY <1>4
  <2>. HIDE DEF T
  <2>3. i \in T
    BY <1>4, <2>1, <2>2 DEF Leads
  <2>. QED
    BY <2>3 DEF T
<1>5. ASSUME NEW m \in Ids(N), NEW i \in Ids(N), m # h, i # h, Leads(N, nx, m, i)
      PROVE  Leads(N, n2, m, i)
  <2>. SUFFICES ASSUME NEW S \in SUBSET Ids(N), m \in S, Closed(n2, S)
                PROVE  i \in S
    BY DEF Leads
  <2>. QED
    BY <1>4, <1>5
<1>6. ASSUME NEW m \in Ids(N), m # h, Leads(N, nx, m, h)
      PROVE  Leads(N, n2, m, f)
  <2>. SUFFICES ASSUME NEW S \in SUBSET Ids(N), m \in S, Closed(n2, S)
                PROVE  f \in S
    BY DEF Leads
  <2>1. h \in (S \ {h}) \cup {x \in {h} : f \in S}
    BY <1>4, <1>6
  <2>. QED
    BY <2>1
<1>. QED
  BY <1>1, <1>2, <1>5, <1>6

KeysDiffer(N, ky) == \A i, j \in Ids(N) : ky[i] # Nil /\ ky[i] = ky[j] => i = j

\* The nodes fit whichever node up to f becomes the first free one.
FitBelow(N, nx, ky, f) ==
    \A g \in 0 .. f : nx[g] = NoNode /\ ky[g] = Nil
                         => LinksFit(N, nx, g) /\ KeysFit(N, nx, ky, g)

NoneHas(N, ky, k) == \A i \in Ids(N) : ky[i] # k

\* Keys k2 are the keys ky, with key k in node n.
WithKey(N, ky, k2, n, k) ==
    k2[n] = k /\ \A i \in Ids(N) : i # n => k2[i] = ky[i]

\* The key goes to its main position, which is free.
LEMMA KeyInMainPosition ==
    ASSUME NEW N \in Nat \ {0}, NEW nx, NEW ky, NEW f, NEW k \in Key, NEW h,
           NEW k2 \in [Ids(N) -> Key \cup {Nil}],
           LinksFit(N, nx, f), KeysFit(N, nx, ky, f),
           NoneHas(N, ky, k),
           h = Pos(N, k), ky[h] = Nil, WithKey(N, ky, k2, h, k)
    PROVE  KeysDiffer(N, k2) /\ FitBelow(N, nx, k2, f)
<1>. USE DEF NoneHas, WithKey
<1>1. h \in Ids(N) /\ f \in Ids(N)
  BY PosIsNode DEF LinksFit
<1>2. KeysDiffer(N, k2)
  <2>1. \A i, j \in Ids(N) : ky[i] # Nil /\ ky[i] = ky[j] => i = j
    BY DEF KeysFit
  <2>. QED
    BY <1>1, <2>1 DEF KeysDiffer
<1>3. ASSUME NEW g \in 0 .. f, nx[g] = NoNode, k2[g] = Nil
      PROVE  LinksFit(N, nx, g) /\ KeysFit(N, nx, k2, g)
  <2>1. g \in Ids(N) /\ g <= f
    BY <1>1, <1>3 DEF Ids
  <2>2. LinksFit(N, nx, g)
    <3>1. \A i \in Ids(N) : nx[i] # NoNode => nx[i] > g
      BY <1>1, <2>1 DEF LinksFit, Ids, NoNode
    <3>. QED
      BY <1>3, <2>1, <3>1 DEF LinksFit
  <2>3. \A i \in Ids(N) : i <= g /\ k2[i] # Nil => Pos(N, k2[i]) = i
    <3>1. \A i \in Ids(N) : i <= g => i <= f
      BY <2>1, <1>1 DEF Ids
    <3>2. \A i \in Ids(N) : i <= f /\ ky[i] # Nil => Pos(N, ky[i]) = i
      BY DEF KeysFit
    <3>. QED
      BY <3>1, <3>2
  <2>4. \A i \in Ids(N) : k2[i] # Nil => Leads(N, nx, Pos(N, k2[i]), i)
    <3>1. \A i \in Ids(N) : ky[i] # Nil => Leads(N, nx, Pos(N, ky[i]), i)
      BY DEF KeysFit
    <3>2. Leads(N, nx, h, h)
      BY DEF Leads
    <3>. QED
      BY <3>1, <3>2
  <2>5. \A i, j \in Ids(N) : k2[i] # Nil /\ k2[j] # Nil /\ Pos(N, k2[j]) = i
                               => Pos(N, k2[i]) = i
    <3>1. \A i, j \in Ids(N) : ky[i] # Nil /\ ky[j] # Nil /\ Pos(N, ky[j]) = i
                               => Pos(N, ky[i]) = i
      BY DEF KeysFit
    <3>. QED
      BY <3>1
  <2>. QED
    BY <1>2, <1>3, <2>1, <2>2, <2>3, <2>4, <2>5 DEF KeysFit, KeysDiffer
<1>. QED
  BY <1>2, <1>3 DEF FitBelow

\* The key goes to the first free node, after the one in its main position.
LEMMA KeyAfterMainPosition ==
    ASSUME NEW N \in Nat \ {0}, NEW nx, NEW ky, NEW f, NEW k \in Key, NEW h,
           NEW n2 \in [Ids(N) -> Ids(N) \cup {NoNode}],
           NEW k2 \in [Ids(N) -> Key \cup {Nil}],
           LinksFit(N, nx, f), KeysFit(N, nx, ky, f),
           NoneHas(N, ky, k),
           h = Pos(N, k), ky[h] # Nil, h <= f \/ Pos(N, ky[h]) = h,
           WithKey(N, ky, k2, f, k),
           n2[f] = nx[h], n2[h] = f,
           \A i \in Ids(N) : i # f /\ i # h => n2[i] = nx[i]
    PROVE  KeysDiffer(N, k2) /\ FitBelow(N, n2, k2, f)
<1>. USE DEF NoneHas, WithKey
<1>1. h \in Ids(N) /\ f \in Ids(N) /\ ky[f] = Nil /\ h # f
  BY PosIsNode DEF LinksFit, KeysFit
<1>2. Pos(N, ky[h]) = h
  BY <1>1 DEF KeysFit
<1>3. /\ nx \in [Ids(N) -> Ids(N) \cup {NoNode}] /\ nx[f] = NoNode
      /\ Ends(N, nx) /\ Single(N, nx)
      /\ \A i \in Ids(N) : nx[i] # NoNode => nx[i] > f
  BY DEF LinksFit
<1>4. \A i \in Ids(N) : nx[i] # f
  <2>1. f \in Nat
    BY <1>1 DEF Ids
  <2>2. f # NoNode /\ ~ (f > f)
    BY <2>1 DEF NoNode
  <2>. QED
    BY <1>3, <2>2
<1>5. /\ Ends(N, n2)
      /\ Single(N, n2)
      /\ \A m, i \in Ids(N) : Leads(N, nx, m, i) => Leads(N, n2, m, i)
      /\ Leads(N, n2, h, f)
  BY <1>1, <1>3, <1>4, ChainWithNode
<1>6. KeysDiffer(N, k2)
  <2>1. \A i, j \in Ids(N) : ky[i] # Nil /\ ky[i] = ky[j] => i = j
    BY DEF KeysFit
  <2>. QED
    BY <1>1, <2>1 DEF KeysDiffer
<1>7. k # Nil
  BY HashTableAssumption
<1>8. ASSUME NEW g \in 0 .. f, n2[g] = NoNode, k2[g] = Nil
      PROVE  LinksFit(N, n2, g) /\ KeysFit(N, n2, k2, g)
  <2>1. g \in Ids(N) /\ g < f
    BY <1>1, <1>7, <1>8 DEF Ids
  <2>2. LinksFit(N, n2, g)
    <3>1. \A i \in Ids(N) : nx[i] # NoNode => nx[i] > g
      BY <1>1, <1>3, <2>1 DEF Ids, NoNode
    <3>2. \A i \in Ids(N) : n2[i] # NoNode => n2[i] > g
      BY <1>1, <2>1, <3>1 DEF Ids
    <3>. QED
      BY <1>5, <1>8, <2>1, <3>2 DEF LinksFit
  <2>3. \A i \in Ids(N) : i <= g /\ k2[i] # Nil => Pos(N, k2[i]) = i
    <3>1. \A i \in Ids(N) : i <= g => i <= f /\ i # f
      BY <2>1, <1>1 DEF Ids
    <3>2. \A i \in Ids(N) : i <= f /\ ky[i] # Nil => Pos(N, ky[i]) = i
      BY DEF KeysFit
    <3>. QED
      BY <3>1, <3>2
  <2>4. \A i \in Ids(N) : k2[i] # Nil => Leads(N, n2, Pos(N, k2[i]), i)
    <3>1. \A i \in Ids(N) : ky[i] # Nil => Leads(N, nx, Pos(N, ky[i]), i)
      BY DEF KeysFit
    <3>2. \A i \in Ids(N) : Pos(N, k2[i]) \in Ids(N)
      BY PosIsNode
    <3>. QED
      BY <1>5, <3>1, <3>2
  <2>5. \A i, j \in Ids(N) : k2[i] # Nil /\ k2[j] # Nil /\ Pos(N, k2[j]) = i
                               => Pos(N, k2[i]) = i
    <3>1. \A i, j \in Ids(N) : ky[i] # Nil /\ ky[j] # Nil /\ Pos(N, ky[j]) = i
                               => Pos(N, ky[i]) = i
      BY DEF KeysFit
    <3>2. \A j \in Ids(N) : ky[j] # Nil => Pos(N, ky[j]) # f
      <4>. SUFFICES ASSUME NEW j \in Ids(N), ky[j] # Nil, Pos(N, ky[j]) = f PROVE FALSE
        OBVIOUS
      <4>1. Leads(N, nx, f, j)
        BY DEF KeysFit
      <4>2. {f} \in SUBSET Ids(N) /\ Closed(nx, {f})
        BY <1>1, <1>3 DEF Closed
      <4>3. j \in {f}
        BY <4>1, <4>2 DEF Leads
      <4>. QED
        BY <1>1, <4>3
    <3>. QED
      BY <1>1, <1>2, <3>1, <3>2
  <2>. QED
    BY <1>6, <1>8, <2>1, <2>2, <2>3, <2>4, <2>5 DEF KeysFit, KeysDiffer
<1>. QED
  BY <1>6, <1>8 DEF FitBelow

\* The key goes to its main position, and the key there, whose main position
\* is another, to the first free node.
KeyMoved(N, ky, k2, f, h, k) ==
    /\ k2[f] = ky[h] /\ k2[h] = k
    /\ \A i \in Ids(N) : i # f /\ i # h => k2[i] = ky[i]

LEMMA KeyForAnother ==
    ASSUME NEW N \in Nat \ {0}, NEW nx, NEW ky, NEW f, NEW k \in Key, NEW h, NEW p,
           NEW n2 \in [Ids(N) -> Ids(N) \cup {NoNode}],
           NEW k2 \in [Ids(N) -> Key \cup {Nil}],
           LinksFit(N, nx, f), KeysFit(N, nx, ky, f),
           NoneHas(N, ky, k),
           h = Pos(N, k), ky[h] # Nil, Pos(N, ky[h]) # h,
           p \in Ids(N), KeyMoved(N, ky, k2, f, h, k),
           IsMoved(N, nx, n2, f, h, p)
    PROVE  KeysDiffer(N, k2) /\ FitBelow(N, n2, k2, f)
<1>. USE DEF NoneHas, KeyMoved
<1>9. /\ nx[p] = h
      /\ n2[f] = nx[h] /\ n2[h] = NoNode /\ n2[p] = f
      /\ \A i \in Ids(N) : i # f /\ i # h /\ i # p => n2[i] = nx[i]
  BY DEF IsMoved
<1>. USE <1>9
<1>1. h \in Ids(N) /\ f \in Ids(N) /\ ky[f] = Nil /\ h # f
  BY PosIsNode DEF LinksFit, KeysFit
<1>2. /\ nx \in [Ids(N) -> Ids(N) \cup {NoNode}] /\ nx[f] = NoNode
      /\ Ends(N, nx) /\ Single(N, nx)
      /\ \A i \in Ids(N) : nx[i] # NoNode => nx[i] > f
  BY DEF LinksFit
<1>3. \A i \in Ids(N) : nx[i] # f
  <2>1. f \in Nat
    BY <1>1 DEF Ids
  <2>2. f # NoNode /\ ~ (f > f)
    BY <2>1 DEF NoNode
  <2>. QED
    BY <1>2, <2>2
<1>4. /\ Ends(N, n2)
      /\ Single(N, n2)
      /\ \A m, i \in Ids(N) : m # h /\ i # h /\ Leads(N, nx, m, i)
                                 => Leads(N, n2, m, i)
      /\ \A m \in Ids(N) : m # h /\ Leads(N, nx, m, h) => Leads(N, n2, m, f)
  BY ONLY N \in Nat \ {0}, p \in Ids(N), n2 \in [Ids(N) -> Ids(N) \cup {NoNode}],
     IsMoved(N, nx, n2, f, h, p), <1>1, <1>2, <1>3, ChainMoved
<1>5. KeysDiffer(N, k2)
  <2>1. \A i, j \in Ids(N) : ky[i] # Nil /\ ky[i] = ky[j] => i = j
    BY DEF KeysFit
  <2>. QED
    BY <1>1, <2>1 DEF KeysDiffer
<1>6. \A j \in Ids(N) : ky[j] # Nil => Pos(N, ky[j]) # h
  BY <1>1 DEF KeysFit
<1>7. \A j \in Ids(N) : ky[j] # Nil => Pos(N, ky[j]) # f
  <2>. SUFFICES ASSUME NEW j \in Ids(N), ky[j] # Nil, Pos(N, ky[j]) = f PROVE FALSE
    OBVIOUS
  <2>1. Leads(N, nx, f, j)
    BY DEF KeysFit
  <2>2. {f} \in SUBSET Ids(N) /\ Closed(nx, {f})
    BY <1>1, <1>2 DEF Closed
  <2>3. j \in {f}
    BY <2>1, <2>2 DEF Leads
  <2>. QED
    BY <1>1, <2>3
<1>8. ASSUME NEW g \in 0 .. f, n2[g] = NoNode, k2[g] = Nil
      PROVE  LinksFit(N, n2, g) /\ KeysFit(N, n2, k2, g)
  <2>1. g \in Ids(N) /\ g < f
    BY <1>1, <1>8 DEF Ids
  <2>2. LinksFit(N, n2, g)
    <3>1. \A i \in Ids(N) : nx[i] # NoNode => nx[i] > g
      BY <1>1, <1>2, <2>1 DEF Ids, NoNode
    <3>2. \A i \in Ids(N) : n2[i] # NoNode => n2[i] > g
      BY <1>1, <2>1, <3>1 DEF Ids
    <3>. QED
      BY <1>4, <1>8, <2>1, <3>2 DEF LinksFit
  <2>3. \A i \in Ids(N) : i <= g /\ k2[i] # Nil => Pos(N, k2[i]) = i
    <3>1. \A i \in Ids(N) : i <= g => i <= f /\ i # f
      BY <2>1, <1>1 DEF Ids
    <3>2. \A i \in Ids(N) : i <= f /\ ky[i] # Nil => Pos(N, ky[i]) = i
      BY DEF KeysFit
    <3>. QED
      BY <3>1, <3>2
  <2>4. \A i \in Ids(N) : k2[i] # Nil => Leads(N, n2, Pos(N, k2[i]), i)
    <3>1. \A i \in Ids(N) : ky[i] # Nil => Leads(N, nx, Pos(N, ky[i]), i)
      BY DEF KeysFit
    <3>2. \A i \in Ids(N) : ky[i] # Nil => Pos(N, ky[i]) \in Ids(N)
      BY PosIsNode DEF KeysFit
    <3>3. Leads(N, n2, h, h)
      BY DEF Leads
    <3>. QED
      BY <1>1, <1>4, <1>6, <3>1, <3>2, <3>3
  <2>5. \A i, j \in Ids(N) : k2[i] # Nil /\ k2[j] # Nil /\ Pos(N, k2[j]) = i
                               => Pos(N, k2[i]) = i
    <3>1. \A i, j \in Ids(N) : ky[i] # Nil /\ ky[j] # Nil /\ Pos(N, ky[j]) = i
                               => Pos(N, ky[i]) = i
      BY DEF KeysFit
    <3>2. \A j \in Ids(N) : k2[j] # Nil => Pos(N, k2[j]) # f
      BY <1>1, <1>7
    <3>3. \A i, j \in Ids(N) : i # h /\ i # f /\ k2[i] # Nil /\ k2[j] # Nil
                                  /\ Pos(N, k2[j]) = i => Pos(N, k2[i]) = i
      <4>1. \A i, j \in Ids(N) : i # h /\ i # f /\ j # f /\ k2[i] # Nil /\ k2[j] # Nil
                                    /\ Pos(N, k2[j]) = i => Pos(N, k2[i]) = i
        BY <3>1
      <4>2. \A i \in Ids(N) : i # h /\ i # f /\ k2[i] # Nil
                                    /\ Pos(N, k2[f]) = i => Pos(N, k2[i]) = i
        BY <1>1, <3>1
      <4>. QED
        BY <4>1, <4>2
    <3>. QED
      BY <3>2, <3>3
  <2>. QED
    BY <1>5, <1>8, <2>1, <2>2, <2>3, <2>4, <2>5 DEF KeysFit, KeysDiffer
<1>. QED
  BY <1>5, <1>8 DEF FitBelow

----------------------------------------------------------------------------
(* NewSlot.                                                                *)

Used(nodes) == {i \in DOMAIN nodes : nodes[i].key # Nil}

\* No key was removed: the nodes that are not used are free.
Fresh(N, nodes, f) ==
    \A i \in Ids(N) : /\ i > f => nodes[i].key # Nil
                      /\ nodes[i].key = Nil => nodes[i].next = NoNode

\* Nodes n2 are those of table t with one key more, k, which is in node m.
HasKeyAt(N, t, k, m, n2) ==
    /\ n2 \in Nodes(N)
    /\ m \in Ids(N) /\ n2[m].key = k
    /\ KeysDiffer(N, Keys(n2))
    /\ FitBelow(N, Nexts(n2), Keys(n2), t.firstfree)
    /\ \E x \in Ids(N) \ Slots(t) : Used(n2) = Slots(t) \cup {x}
    /\ \A i \in Used(n2) : i # m => \E j \in Slots(t) : /\ t.nodes[j].key = n2[i].key
                                                      /\ t.nodes[j].val = n2[i].val
    /\ \A j \in Slots(t) : \E i \in Used(n2) : /\ i # m
                                               /\ t.nodes[j].key = n2[i].key
                                               /\ t.nodes[j].val = n2[i].val
    /\ Fresh(N, t.nodes, t.firstfree) => Fresh(N, n2, t.firstfree)

LEMMA NodeFunctions ==
    ASSUME NEW N, NEW nodes \in Nodes(N)
    PROVE  /\ DOMAIN nodes = Ids(N)
           /\ Nexts(nodes) \in [Ids(N) -> Ids(N) \cup {NoNode}]
           /\ Keys(nodes) \in [Ids(N) -> Key \cup {Nil}]
           /\ \A i \in Ids(N) : /\ Nexts(nodes)[i] = nodes[i].next
                                /\ Keys(nodes)[i] = nodes[i].key
<1>1. DOMAIN nodes = Ids(N)
  BY DEF Nodes
<1>2. \A i \in Ids(N) : /\ nodes[i].next \in Ids(N) \cup {NoNode}
                        /\ nodes[i].key \in Key \cup {Nil}
  BY DEF Nodes
<1>. QED
  BY <1>1, <1>2 DEF Nexts, Keys

LEMMA PlacedInMain ==
    ASSUME NEW N, NEW t, Fits(t, N), NEW k \in Key, k \notin KeysOf(t),
           NEW h, h = Pos(N, k), t.nodes[h].key = Nil,
           NEW n2 \in Nodes(N),
           n2[h].key = k, n2[h].next = t.nodes[h].next,
           \A i \in Ids(N) : i # h => n2[i] = t.nodes[i]
    PROVE  HasKeyAt(N, t, k, h, n2)
<1>1. IsTable(t, N) /\ N \in Nat \ {0}
  BY TableNodes DEF Fits
<1>2. h \in Ids(N) /\ k # Nil
  BY <1>1, PosIsNode, HashTableAssumption
<1>. DEFINE nx == Nexts(t.nodes)
            ky == Keys(t.nodes)
            k2 == Keys(n2)
            f == t.firstfree
<1>3. /\ ky \in [Ids(N) -> Key \cup {Nil}]
      /\ \A i \in Ids(N) : ky[i] = t.nodes[i].key /\ nx[i] = t.nodes[i].next
      /\ nx \in [Ids(N) -> Ids(N) \cup {NoNode}]
      /\ DOMAIN t.nodes = Ids(N)
  BY <1>1, TableNodes
<1>4. /\ k2 \in [Ids(N) -> Key \cup {Nil}]
      /\ \A i \in Ids(N) : k2[i] = n2[i].key /\ Nexts(n2)[i] = n2[i].next
      /\ Nexts(n2) \in [Ids(N) -> Ids(N) \cup {NoNode}]
      /\ DOMAIN n2 = Ids(N)
  BY NodeFunctions
<1>5. Nexts(n2) = nx
  <2>1. \A i \in Ids(N) : Nexts(n2)[i] = nx[i]
    BY <1>3, <1>4
  <2>. QED
    BY <1>3, <1>4, <2>1
<1>6. \A i \in Ids(N) : ky[i] # k
  BY <1>2, <1>3 DEF KeysOf, Slots
<1>7. LinksFit(N, nx, f) /\ KeysFit(N, nx, ky, f)
  BY DEF Fits
<1>8. ky[h] = Nil /\ k2[h] = k /\ \A i \in Ids(N) : i # h => k2[i] = ky[i]
  BY <1>2, <1>3, <1>4
<1>9. KeysDiffer(N, k2) /\ FitBelow(N, nx, k2, f)
  <2>1. NoneHas(N, ky, k) /\ WithKey(N, ky, k2, h, k)
    BY <1>6, <1>8 DEF NoneHas, WithKey
  <2>. HIDE DEF nx, ky, k2, f
  <2>. QED
    BY <1>1, <1>4, <1>7, <1>8, <2>1, KeyInMainPosition
<1>10. h \in Ids(N) \ Slots(t) /\ Used(n2) = Slots(t) \cup {h}
  BY <1>2, <1>3, <1>4 DEF Slots, Used
<1>11. \A i \in Used(n2) : i # h => i \in Slots(t) /\ n2[i] = t.nodes[i]
  BY <1>4, <1>10 DEF Used
<1>12. \A i \in Slots(t) : i # h /\ i \in Used(n2) /\ n2[i] = t.nodes[i]
  BY <1>3, <1>10 DEF Slots
<1>13. Fresh(N, t.nodes, f) => Fresh(N, n2, f)
  BY <1>2 DEF Fresh
<1>. QED
  BY <1>2, <1>5, <1>9, <1>10, <1>11, <1>12, <1>13 DEF HasKeyAt

LEMMA PlacedAfterMain ==
    ASSUME NEW N, NEW t, Fits(t, N), NEW k \in Key, k \notin KeysOf(t),
           NEW h, h = Pos(N, k), t.nodes[h].key # Nil,
           h <= t.firstfree \/ Pos(N, t.nodes[h].key) = h,
           NEW f, f = t.firstfree, NEW n2 \in Nodes(N),
           n2[f].key = k, n2[f].next = t.nodes[h].next,
           n2[h].key = t.nodes[h].key, n2[h].val = t.nodes[h].val, n2[h].next = f,
           \A i \in Ids(N) : i # f /\ i # h => n2[i] = t.nodes[i]
    PROVE  HasKeyAt(N, t, k, f, n2)
<1>1. IsTable(t, N) /\ N \in Nat \ {0}
  BY TableNodes DEF Fits
<1>. DEFINE nx == Nexts(t.nodes)
            ky == Keys(t.nodes)
            x2 == Nexts(n2)
            k2 == Keys(n2)
<1>2. LinksFit(N, nx, f) /\ KeysFit(N, nx, ky, f)
  BY DEF Fits
<1>3. h \in Ids(N) /\ k # Nil /\ f \in Ids(N) /\ ky[f] = Nil
  BY <1>1, <1>2, PosIsNode, HashTableAssumption DEF LinksFit, KeysFit
<1>4. /\ \A i \in Ids(N) : ky[i] = t.nodes[i].key /\ nx[i] = t.nodes[i].next
      /\ DOMAIN t.nodes = Ids(N)
  BY <1>1, TableNodes
<1>5. /\ k2 \in [Ids(N) -> Key \cup {Nil}]
      /\ \A i \in Ids(N) : k2[i] = n2[i].key /\ x2[i] = n2[i].next
      /\ x2 \in [Ids(N) -> Ids(N) \cup {NoNode}]
      /\ DOMAIN n2 = Ids(N)
  BY NodeFunctions
<1>6. \A i \in Ids(N) : ky[i] # k
  BY <1>3, <1>4 DEF KeysOf, Slots
<1>7. h # f /\ ky[h] # Nil /\ (h <= f \/ Pos(N, ky[h]) = h)
  BY <1>3, <1>4
<1>8. /\ k2[f] = k /\ \A i \in Ids(N) : i # f => k2[i] = ky[i]
      /\ x2[f] = nx[h] /\ x2[h] = f
      /\ \A i \in Ids(N) : i # f /\ i # h => x2[i] = nx[i]
  BY <1>3, <1>4, <1>5
<1>9. KeysDiffer(N, k2) /\ FitBelow(N, x2, k2, f)
  <2>1. NoneHas(N, ky, k) /\ WithKey(N, ky, k2, f, k)
    BY <1>6, <1>8 DEF NoneHas, WithKey
  <2>. HIDE DEF nx, ky, k2, x2
  <2>. QED
    BY <1>1, <1>2, <1>5, <1>7, <1>8, <2>1, KeyAfterMainPosition
<1>10. f \in Ids(N) \ Slots(t) /\ Used(n2) = Slots(t) \cup {f}
  BY <1>3, <1>4, <1>5 DEF Slots, Used
<1>11. \A i \in Used(n2) : i # f => /\ i \in Slots(t)
                                   /\ n2[i].key = t.nodes[i].key
                                   /\ n2[i].val = t.nodes[i].val
  BY <1>5, <1>10 DEF Used
<1>12. \A i \in Slots(t) : /\ i # f /\ i \in Used(n2)
                           /\ n2[i].key = t.nodes[i].key
                           /\ n2[i].val = t.nodes[i].val
  BY <1>4, <1>10 DEF Slots
<1>13. Fresh(N, t.nodes, f) => Fresh(N, n2, f)
  <2>. SUFFICES ASSUME Fresh(N, t.nodes, f), NEW i \in Ids(N)
                PROVE  /\ i > f => n2[i].key # Nil
                       /\ n2[i].key = Nil => n2[i].next = NoNode
    BY DEF Fresh
  <2>1. CASE i = f
    BY <1>3, <2>1
  <2>2. CASE i = h
    BY <2>2
  <2>3. CASE i # f /\ i # h
    BY <2>3 DEF Fresh
  <2>. QED
    BY <2>1, <2>2, <2>3
<1>. QED
  BY <1>3, <1>9, <1>10, <1>11, <1>12, <1>13 DEF HasKeyAt

LEMMA PlacedForAnother ==
    ASSUME NEW N, NEW t, Fits(t, N), NEW k \in Key, k \notin KeysOf(t),
           NEW h, h = Pos(N, k), t.nodes[h].key # Nil,
           Pos(N, t.nodes[h].key) # h,
           NEW f, f = t.firstfree,
           NEW p \in Ids(N), t.nodes[p].next = h,
           NEW n2 \in Nodes(N),
           n2[f] = t.nodes[h], n2[h].key = k, n2[h].next = NoNode,
           n2[p].key = t.nodes[p].key, n2[p].val = t.nodes[p].val, n2[p].next = f,
           \A i \in Ids(N) : i # f /\ i # h /\ i # p => n2[i] = t.nodes[i]
    PROVE  HasKeyAt(N, t, k, h, n2)
<1>1. IsTable(t, N) /\ N \in Nat \ {0}
  BY TableNodes DEF Fits
<1>. DEFINE nx == Nexts(t.nodes)
            ky == Keys(t.nodes)
            x2 == Nexts(n2)
            k2 == Keys(n2)
<1>2. LinksFit(N, nx, f) /\ KeysFit(N, nx, ky, f)
  BY DEF Fits
<1>3. h \in Ids(N) /\ k # Nil /\ f \in Ids(N) /\ ky[f] = Nil /\ nx[f] = NoNode
  BY <1>1, <1>2, PosIsNode, HashTableAssumption DEF LinksFit, KeysFit
<1>4. /\ \A i \in Ids(N) : ky[i] = t.nodes[i].key /\ nx[i] = t.nodes[i].next
      /\ DOMAIN t.nodes = Ids(N)
  BY <1>1, TableNodes
<1>5. /\ k2 \in [Ids(N) -> Key \cup {Nil}]
      /\ \A i \in Ids(N) : k2[i] = n2[i].key /\ x2[i] = n2[i].next
      /\ x2 \in [Ids(N) -> Ids(N) \cup {NoNode}]
      /\ DOMAIN n2 = Ids(N)
  BY NodeFunctions
<1>6. \A i \in Ids(N) : ky[i] # k
  BY <1>3, <1>4 DEF KeysOf, Slots
<1>7. h # f /\ ky[h] # Nil /\ Pos(N, ky[h]) # h /\ nx[p] = h /\ p # f
  <2>1. h # NoNode
    BY <1>3 DEF Ids, NoNode
  <2>. QED
    BY <1>3, <1>4, <2>1
<1>8. p # h
  <2>1. {h} \in SUBSET Ids(N) /\ {h} # {}
    BY <1>3
  <2>. QED
    BY <1>2, <1>7, <2>1 DEF LinksFit, Ends
<1>9. /\ k2[f] = ky[h] /\ k2[h] = k /\ \A i \in Ids(N) : i # f /\ i # h => k2[i] = ky[i]
      /\ x2[f] = nx[h] /\ x2[h] = NoNode /\ x2[p] = f
      /\ \A i \in Ids(N) : i # f /\ i # h /\ i # p => x2[i] = nx[i]
  BY <1>3, <1>4, <1>5
<1>10. KeysDiffer(N, k2) /\ FitBelow(N, x2, k2, f)
  <2>1. /\ NoneHas(N, ky, k) /\ KeyMoved(N, ky, k2, f, h, k)
        /\ IsMoved(N, nx, x2, f, h, p)
    BY <1>6, <1>7, <1>9 DEF NoneHas, KeyMoved, IsMoved
  <2>. HIDE DEF nx, ky, k2, x2
  <2>. QED
    BY <1>1, <1>2, <1>5, <1>7, <2>1, KeyForAnother
<1>11. f \in Ids(N) \ Slots(t) /\ Used(n2) = Slots(t) \cup {f}
  BY <1>3, <1>4, <1>5, <1>7, <1>9 DEF Slots, Used
<1>12. \A i \in Ids(N) : i # h /\ i # f => /\ n2[i].key = t.nodes[i].key
                                          /\ n2[i].val = t.nodes[i].val
  OBVIOUS
<1>13. h \in Slots(t) /\ f \in Used(n2) /\ Slots(t) \subseteq Ids(N) /\ Used(n2) \subseteq Ids(N)
  BY <1>3, <1>4, <1>5, <1>7, <1>11 DEF Slots, Used
<1>14. \A i \in Used(n2) : i # h => \E j \in Slots(t) : /\ t.nodes[j].key = n2[i].key
                                                       /\ t.nodes[j].val = n2[i].val
  BY <1>11, <1>12, <1>13
<1>15. \A j \in Slots(t) : \E i \in Used(n2) : /\ i # h
                                               /\ t.nodes[j].key = n2[i].key
                                               /\ t.nodes[j].val = n2[i].val
  BY <1>7, <1>11, <1>12, <1>13
<1>16. Fresh(N, t.nodes, f) => Fresh(N, n2, f)
  <2>. SUFFICES ASSUME Fresh(N, t.nodes, f), NEW i \in Ids(N)
                PROVE  /\ i > f => n2[i].key # Nil
                       /\ n2[i].key = Nil => n2[i].next = NoNode
    BY DEF Fresh
  <2>1. CASE i = f
    BY <1>3, <2>1
  <2>2. CASE i = h
    BY <1>3, <2>2
  <2>3. CASE i # f /\ i # h /\ i # p
    BY <2>3 DEF Fresh
  <2>4. CASE i = p
    <3>1. t.nodes[p].key # Nil
      <4>1. h # NoNode
        BY <1>3 DEF Ids, NoNode
      <4>. QED
        BY <4>1 DEF Fresh
    <3>. QED
      BY <2>4, <3>1
  <2>. QED
    BY <2>1, <2>2, <2>3, <2>4
<1>. QED
  BY <1>3, <1>10, <1>11, <1>14, <1>15, <1>16 DEF HasKeyAt

\* NewSlot puts a new key in a node and keeps all others in their chains.
LEMMA PlacedHasKey ==
    ASSUME NEW N, NEW t, Fits(t, N), NEW k \in Key, k \notin KeysOf(t)
    PROVE  HasKeyAt(N, t, k, Placed(t, k).node, Placed(t, k).nodes)
<1>. DEFINE h == Pos(N, k)
            f == t.firstfree
            mp == t.nodes[h]
<1>1. IsTable(t, N) /\ N \in Nat \ {0} /\ t.nodes \in Nodes(N)
  BY TableNodes DEF Fits, IsTable
<1>2. h \in Ids(N) /\ f \in Ids(N) /\ Main(t, k) = h
  BY <1>1, MainIsPos DEF Fits, LinksFit
<1>3. mp.key \in Key \cup {Nil} /\ Main(t, mp.key) = Pos(N, mp.key)
  BY <1>1, <1>2, MainIsPos, TableNodes
<1>4. t.nodes[f].key = Nil /\ t.nodes[f].next = NoNode
  BY <1>1, <1>2, TableNodes DEF Fits, LinksFit, KeysFit
<1>5. CASE mp.key = Nil
  <2>. DEFINE n2 == [t.nodes EXCEPT ![h].key = k]
  <2>1. n2 \in Nodes(N)
    BY <1>1, <1>2 DEF Nodes
  <2>2. /\ n2[h].key = k /\ n2[h].next = t.nodes[h].next
        /\ \A i \in Ids(N) : i # h => n2[i] = t.nodes[i]
    BY <1>1, <1>2 DEF Nodes
  <2>3. Placed(t, k).node = h /\ Placed(t, k).nodes = n2
    BY <1>2, <1>5 DEF Placed
  <2>. HIDE DEF n2, h, mp
  <2>4. t.nodes[h].key = Nil /\ h = Pos(N, k)
    BY <1>5 DEF mp, h
  <2>5. HasKeyAt(N, t, k, h, n2)
    BY <2>1, <2>2, <2>4, PlacedInMain
  <2>. QED
    BY <2>3, <2>5
<1>6. CASE mp.key # Nil /\ h > f /\ Main(t, mp.key) # h
  <2>1. PICK p \in Ids(N) : p = Before(t, h) /\ t.nodes[p].next = h
    BY <1>2, <1>3, <1>6, BeforeIsLinked
  <2>2. h # f /\ p # f
    BY <1>2, <1>4, <1>6, <2>1 DEF Ids, NoNode
  <2>3. p # h
    <3>1. {h} \in SUBSET Ids(N) /\ {h} # {} /\ Nexts(t.nodes)[p] = h
      BY <1>1, <1>2, <2>1, TableNodes
    <3>. QED
      BY <3>1 DEF Fits, LinksFit, Ends
  <2>. DEFINE n2 == [t.nodes EXCEPT ![p].next = f, ![f] = mp,
                                    ![h] = [Free EXCEPT !.key = k]]
  <2>4. [Free EXCEPT !.key = k] = [key |-> k, val |-> Nil, next |-> NoNode]
    BY DEF Free
  <2>5. n2 \in Nodes(N)
    BY <1>1, <1>2, <2>2, <2>3, <2>4 DEF Nodes
  <2>6. /\ n2[f] = t.nodes[h] /\ n2[h].key = k /\ n2[h].next = NoNode
        /\ n2[p].key = t.nodes[p].key /\ n2[p].val = t.nodes[p].val /\ n2[p].next = f
        /\ \A i \in Ids(N) : i # f /\ i # h /\ i # p => n2[i] = t.nodes[i]
    BY <1>1, <1>2, <2>2, <2>3, <2>4 DEF Nodes
  <2>7. Placed(t, k).node = h /\ Placed(t, k).nodes = n2
    BY <1>2, <1>6, <2>1 DEF Placed
  <2>8. t.nodes[h].key # Nil /\ Pos(N, t.nodes[h].key) # h
    BY <1>3, <1>6
  <2>. HIDE DEF n2
  <2>9. HasKeyAt(N, t, k, h, n2)
    BY <2>1, <2>5, <2>6, <2>8, PlacedForAnother
  <2>. QED
    BY <2>7, <2>9
<1>7. CASE mp.key # Nil /\ ~ (h > f /\ Main(t, mp.key) # h)
  <2>. DEFINE n2 == [t.nodes EXCEPT ![f] = [@ EXCEPT !.key = k, !.next = mp.next],
                                    ![h].next = f]
  <2>1. h # f
    BY <1>4, <1>7
  <2>2. n2 \in Nodes(N)
    BY <1>1, <1>2, <2>1 DEF Nodes
  <2>3. /\ n2[f].key = k /\ n2[f].next = t.nodes[h].next
        /\ n2[h].key = t.nodes[h].key /\ n2[h].val = t.nodes[h].val /\ n2[h].next = f
        /\ \A i \in Ids(N) : i # f /\ i # h => n2[i] = t.nodes[i]
    BY <1>1, <1>2, <2>1 DEF Nodes
  <2>4. Placed(t, k).node = f /\ Placed(t, k).nodes = n2
    BY <1>2, <1>7 DEF Placed
  <2>5. t.nodes[h].key # Nil /\ (h <= f \/ Pos(N, t.nodes[h].key) = h)
    BY <1>2, <1>3, <1>7 DEF Ids
  <2>. HIDE DEF n2
  <2>6. HasKeyAt(N, t, k, f, n2)
    BY <2>2, <2>3, <2>5, PlacedAfterMain
  <2>. QED
    BY <2>4, <2>6
<1>. QED
  BY <1>5, <1>6, <1>7

ValueSet(nodes, n, v) == [nodes EXCEPT ![n].val = v]

\* To set a value changes neither keys nor chains.
LEMMA ValueIsSet ==
    ASSUME NEW N, NEW nodes \in Nodes(N), NEW n \in Ids(N), NEW v \in Val \cup {Nil},
           NEW n2, n2 = ValueSet(nodes, n, v)
    PROVE  /\ n2 \in Nodes(N)
           /\ DOMAIN n2 = DOMAIN nodes
           /\ Nexts(n2) = Nexts(nodes) /\ Keys(n2) = Keys(nodes)
           /\ Used(n2) = Used(nodes)
           /\ \A i \in Ids(N) : /\ n2[i].key = nodes[i].key
                                /\ n2[i].next = nodes[i].next
                                /\ n2[i].val = IF i = n THEN v ELSE nodes[i].val
<1>1. /\ n2 \in Nodes(N)
      /\ DOMAIN n2 = Ids(N) /\ DOMAIN nodes = Ids(N)
      /\ \A i \in Ids(N) : /\ n2[i].key = nodes[i].key
                           /\ n2[i].next = nodes[i].next
                           /\ n2[i].val = IF i = n THEN v ELSE nodes[i].val
  BY DEF Nodes, ValueSet
<1>2. Nexts(n2) = Nexts(nodes) /\ Keys(n2) = Keys(nodes)
  BY <1>1 DEF Nexts, Keys
<1>3. Used(n2) = Used(nodes)
  BY <1>1 DEF Used
<1>. QED
  BY <1>1, <1>2, <1>3

LEMMA ContentsAre ==
    ASSUME NEW N, NEW t, IsTable(t, N), KeysDiffer(N, Keys(t.nodes))
    PROVE  /\ Contents(t) = [k \in KeysOf(t) |-> Contents(t)[k]]
           /\ DOMAIN Contents(t) = KeysOf(t)
           /\ \A i \in Slots(t) : /\ t.nodes[i].key \in KeysOf(t)
                                  /\ Contents(t)[t.nodes[i].key] = t.nodes[i].val
<1>1. /\ DOMAIN t.nodes = Ids(N)
      /\ \A i \in Ids(N) : Keys(t.nodes)[i] = t.nodes[i].key
  BY TableNodes
<1>2. ASSUME NEW i \in Slots(t)
      PROVE  /\ t.nodes[i].key \in KeysOf(t)
             /\ Contents(t)[t.nodes[i].key] = t.nodes[i].val
  <2>1. t.nodes[i].key \in KeysOf(t)
    BY DEF KeysOf
  <2>2. \A j \in Slots(t) : t.nodes[j].key = t.nodes[i].key => j = i
    BY <1>1 DEF KeysDiffer, Slots
  <2>3. (CHOOSE j \in Slots(t) : t.nodes[j].key = t.nodes[i].key) = i
    BY <2>2
  <2>. QED
    BY <2>1, <2>3 DEF Contents
<1>3. DOMAIN Contents(t) = KeysOf(t) /\ Contents(t) = [k \in KeysOf(t) |-> Contents(t)[k]]
  BY DEF Contents
<1>. QED
  BY <1>2, <1>3

\* A function with a slot more, or with another value in a slot.
With(c, k, v) == [j \in DOMAIN c \cup {k} |-> IF j = k THEN v ELSE c[j]]

\* The slots of a table are the function c.
Holds(t, c) ==
    /\ c = [k \in DOMAIN c |-> c[k]]
    /\ \A i \in Slots(t) : /\ t.nodes[i].key \in DOMAIN c
                           /\ c[t.nodes[i].key] = t.nodes[i].val
    /\ \A k \in DOMAIN c : \E i \in Slots(t) : t.nodes[i].key = k

LEMMA SameContents ==
    ASSUME NEW N, NEW t, IsTable(t, N), KeysDiffer(N, Keys(t.nodes)),
           NEW c, Holds(t, c)
    PROVE  Contents(t) = c /\ KeysOf(t) = DOMAIN c
<1>. USE DEF Holds
<1>1. /\ Contents(t) = [k \in KeysOf(t) |-> Contents(t)[k]]
      /\ \A i \in Slots(t) : Contents(t)[t.nodes[i].key] = t.nodes[i].val
  BY ContentsAre
<1>2. KeysOf(t) = DOMAIN c
  BY DEF KeysOf
<1>3. \A k \in DOMAIN c : Contents(t)[k] = c[k]
  BY <1>1
<1>. QED
  BY <1>1, <1>2, <1>3

\* The contents of a table with the key of a new node.
LEMMA ContentsWithKey ==
    ASSUME NEW N, NEW t, Fits(t, N), NEW k \in Key, k \notin KeysOf(t),
           NEW m, NEW n2, HasKeyAt(N, t, k, m, n2), NEW v \in Val \cup {Nil},
           NEW u, IsTable(u, N), KeysDiffer(N, Keys(u.nodes)),
           \A i \in Ids(N) : u.nodes[i].key = n2[i].key,
           \A i \in Ids(N) : u.nodes[i].val = IF i = m THEN v ELSE n2[i].val
    PROVE  /\ Contents(u) = With(Contents(t), k, v)
           /\ KeysOf(u) = KeysOf(t) \cup {k}
<1>. DEFINE c == With(Contents(t), k, v)
<1>1. IsTable(t, N) /\ KeysDiffer(N, Keys(t.nodes))
  <2>1. IsTable(t, N) /\ KeysFit(N, Nexts(t.nodes), Keys(t.nodes), t.firstfree)
    BY DEF Fits
  <2>. QED
    BY <2>1 DEF KeysFit, KeysDiffer
<1>2. /\ DOMAIN Contents(t) = KeysOf(t)
      /\ \A i \in Slots(t) : /\ t.nodes[i].key \in KeysOf(t)
                             /\ Contents(t)[t.nodes[i].key] = t.nodes[i].val
  BY <1>1, ContentsAre
<1>3. /\ DOMAIN c = KeysOf(t) \cup {k} /\ c = [j \in DOMAIN c |-> c[j]]
      /\ c[k] = v /\ \A j \in KeysOf(t) : c[j] = Contents(t)[j]
  BY <1>2 DEF With
<1>4. /\ n2 \in Nodes(N) /\ m \in Ids(N) /\ n2[m].key = k /\ k # Nil
      /\ \A i \in Used(n2) : i # m => \E j \in Slots(t) : /\ t.nodes[j].key = n2[i].key
                                                        /\ t.nodes[j].val = n2[i].val
      /\ \A j \in Slots(t) : \E i \in Used(n2) : /\ i # m
                                                 /\ t.nodes[j].key = n2[i].key
                                                 /\ t.nodes[j].val = n2[i].val
  BY HashTableAssumption DEF HasKeyAt
<1>5. Slots(u) = Used(n2) /\ Used(n2) \subseteq Ids(N) /\ m \in Used(n2)
  BY <1>4, TableNodes, NodeFunctions DEF Slots, Used
<1>. HIDE DEF c
<1>6. ASSUME NEW i \in Slots(u)
      PROVE  u.nodes[i].key \in DOMAIN c /\ c[u.nodes[i].key] = u.nodes[i].val
  <2>1. CASE i = m
    BY <1>3, <1>4, <2>1
  <2>2. CASE i # m
    <3>1. PICK j \in Slots(t) : t.nodes[j].key = n2[i].key /\ t.nodes[j].val = n2[i].val
      BY <1>4, <1>5, <2>2
    <3>2. u.nodes[i].key = n2[i].key /\ u.nodes[i].val = n2[i].val
      BY <1>5, <2>2
    <3>. QED
      BY <1>2, <1>3, <3>1, <3>2
  <2>. QED
    BY <2>1, <2>2
<1>7. ASSUME NEW j \in DOMAIN c PROVE \E i \in Slots(u) : u.nodes[i].key = j
  <2>1. CASE j = k
    BY <1>4, <1>5, <2>1
  <2>2. CASE j # k
    <3>1. PICK l \in Slots(t) : t.nodes[l].key = j
      BY <1>3, <2>2 DEF KeysOf
    <3>. QED
      BY <1>4, <1>5, <3>1
  <2>. QED
    BY <2>1, <2>2
<1>8. Holds(u, c)
  BY <1>3, <1>6, <1>7 DEF Holds
<1>9. Contents(u) = c /\ KeysOf(u) = DOMAIN c
  BY <1>8, SameContents
<1>. QED
  BY <1>3, <1>9 DEF c

LEMMA KeysOfFittingDiffer ==
    ASSUME NEW N, NEW t, Fits(t, N)
    PROVE  IsTable(t, N) /\ KeysDiffer(N, Keys(t.nodes)) /\ Slots(t) = Used(t.nodes)
<1>1. IsTable(t, N) /\ KeysFit(N, Nexts(t.nodes), Keys(t.nodes), t.firstfree)
  BY DEF Fits
<1>2. Slots(t) = Used(t.nodes)
  BY DEF Slots, Used
<1>. QED
  BY <1>1, <1>2 DEF KeysFit, KeysDiffer

\* Set, and NewSlot of a key that is there.
LEMMA SetFits ==
    ASSUME NEW N, NEW t, Fits(t, N), NEW n \in Ids(N), NEW v \in Val \cup {Nil},
           NEW u, u = [t EXCEPT !.nodes[n].val = v]
    PROVE  /\ Fits(u, N)
           /\ Slots(u) = Slots(t)
           /\ \A i \in Ids(N) : u.nodes[i].key = t.nodes[i].key
           /\ n \in Slots(t) => Contents(u) = With(Contents(t), t.nodes[n].key, v)
           /\ n \notin Slots(t) => Contents(u) = Contents(t)
<1>1. IsTable(t, N) /\ KeysDiffer(N, Keys(t.nodes)) /\ Slots(t) = Used(t.nodes)
  BY KeysOfFittingDiffer
<1>2. /\ t = [nodes |-> t.nodes, firstfree |-> t.firstfree, used |-> t.used]
      /\ t.nodes \in Nodes(N) /\ N \in Nat /\ N >= 4
  BY <1>1 DEF IsTable
<1>3. /\ u = [nodes |-> u.nodes, firstfree |-> u.firstfree, used |-> u.used]
      /\ u.nodes = [t.nodes EXCEPT ![n].val = v]
      /\ u.firstfree = t.firstfree /\ u.used = t.used
  BY <1>2
<1>4. /\ u.nodes \in Nodes(N)
      /\ Nexts(u.nodes) = Nexts(t.nodes) /\ Keys(u.nodes) = Keys(t.nodes)
      /\ Used(u.nodes) = Used(t.nodes)
      /\ \A i \in Ids(N) : /\ u.nodes[i].key = t.nodes[i].key
                           /\ u.nodes[i].val = IF i = n THEN v ELSE t.nodes[i].val
  <2>1. PICK n1 \in Nodes(N) : n1 = t.nodes
    BY <1>2
  <2>2. PICK n2 : n2 = u.nodes
    OBVIOUS
  <2>3. n2 = ValueSet(n1, n, v)
    BY <1>3, <2>1, <2>2 DEF ValueSet
  <2>4. /\ n2 \in Nodes(N)
        /\ Nexts(n2) = Nexts(n1) /\ Keys(n2) = Keys(n1)
        /\ Used(n2) = Used(n1)
        /\ \A i \in Ids(N) : /\ n2[i].key = n1[i].key
                             /\ n2[i].val = IF i = n THEN v ELSE n1[i].val
    BY ONLY n \in Ids(N), v \in Val \cup {Nil}, n1 \in Nodes(N), <2>3, ValueIsSet
  <2>. QED
    BY <2>1, <2>2, <2>4
<1>5. Slots(u) = Slots(t)
  BY <1>1, <1>4 DEF Slots, Used
<1>6. IsTable(u, N)
  BY <1>2, <1>3, <1>4 DEF IsTable
<1>7. Fits(u, N)
  BY <1>3, <1>4, <1>5, <1>6 DEF Fits
<1>8. KeysDiffer(N, Keys(u.nodes))
  BY <1>1, <1>4
<1>9. /\ Contents(t) = [k \in KeysOf(t) |-> Contents(t)[k]]
      /\ DOMAIN Contents(t) = KeysOf(t)
      /\ \A i \in Slots(t) : /\ t.nodes[i].key \in KeysOf(t)
                             /\ Contents(t)[t.nodes[i].key] = t.nodes[i].val
  BY <1>1, ContentsAre
<1>10. /\ Slots(t) \subseteq Ids(N)
       /\ \A k \in KeysOf(t) : \E i \in Slots(t) : t.nodes[i].key = k
       /\ \A i, j \in Slots(t) : t.nodes[i].key = t.nodes[j].key => i = j
  <2>1. Slots(t) \subseteq Ids(N) /\ \A i \in Ids(N) : Keys(t.nodes)[i] = t.nodes[i].key
    BY <1>1, TableNodes DEF Slots
  <2>2. \A k \in KeysOf(t) : \E i \in Slots(t) : t.nodes[i].key = k
    BY DEF KeysOf
  <2>3. \A i \in Slots(t) : t.nodes[i].key # Nil
    BY DEF Slots
  <2>. QED
    BY <1>1, <2>1, <2>2, <2>3 DEF KeysDiffer
<1>11. ASSUME n \in Slots(t)
       PROVE  Contents(u) = With(Contents(t), t.nodes[n].key, v)
  <2>. DEFINE c == With(Contents(t), t.nodes[n].key, v)
  <2>1. /\ DOMAIN c = KeysOf(t) /\ c = [j \in DOMAIN c |-> c[j]]
        /\ \A k \in KeysOf(t) : c[k] = IF k = t.nodes[n].key THEN v ELSE Contents(t)[k]
    BY <1>9, <1>11 DEF With
  <2>. HIDE DEF c
  <2>2. \A i \in Slots(u) : u.nodes[i].key \in DOMAIN c /\ c[u.nodes[i].key] = u.nodes[i].val
    BY <1>4, <1>5, <1>9, <1>10, <1>11, <2>1
  <2>3. \A k \in DOMAIN c : \E i \in Slots(u) : u.nodes[i].key = k
    BY <1>4, <1>5, <1>10, <2>1
  <2>4. Holds(u, c)
    BY <2>1, <2>2, <2>3 DEF Holds
  <2>. QED
    BY <1>6, <1>8, <2>4, SameContents DEF c
<1>12. ASSUME n \notin Slots(t) PROVE Contents(u) = Contents(t)
  <2>1. \A i \in Slots(u) : /\ u.nodes[i].key \in DOMAIN Contents(t)
                            /\ Contents(t)[u.nodes[i].key] = u.nodes[i].val
    BY <1>4, <1>5, <1>9, <1>10, <1>12
  <2>2. \A k \in DOMAIN Contents(t) : \E i \in Slots(u) : u.nodes[i].key = k
    BY <1>4, <1>5, <1>9, <1>10
  <2>3. Holds(u, Contents(t))
    BY <1>9, <2>1, <2>2 DEF Holds
  <2>. QED
    BY <1>6, <1>8, <2>3, SameContents
<1>. QED
  BY <1>4, <1>5, <1>7, <1>11, <1>12

\* NewSlot of a key that is there.
LEMMA InsertKnown ==
    ASSUME NEW N, NEW t, Fits(t, N), NEW k \in KeysOf(t), NEW v \in Val \cup {Nil}
    PROVE  /\ ~ Insert(t, k, v).full
           /\ Fits(Insert(t, k, v).table, N)
           /\ Slots(Insert(t, k, v).table) = Slots(t)
           /\ \A i \in Ids(N) : Insert(t, k, v).table.nodes[i].key = t.nodes[i].key
           /\ Contents(Insert(t, k, v).table) = With(Contents(t), k, v)
<1>1. PICK n \in Slots(t) : t.nodes[n].key = k
  BY DEF KeysOf
<1>2. IsTable(t, N)
  BY DEF Fits
<1>3. n \in Ids(N) /\ n # NoNode
  BY <1>2, TableNodes DEF Slots, Ids, NoNode
<1>4. Find(t, k) = n
  BY <1>1, FindsKey
<1>5. Insert(t, k, v) = [full |-> FALSE, table |-> [t EXCEPT !.nodes[n].val = v]]
  BY <1>3, <1>4 DEF Insert
<1>. DEFINE u == [t EXCEPT !.nodes[n].val = v]
<1>6. Insert(t, k, v).full = FALSE /\ Insert(t, k, v).table = u
  BY <1>5
<1>. HIDE DEF u
<1>7. u = [t EXCEPT !.nodes[n].val = v]
  BY DEF u
<1>8. /\ Fits(u, N)
      /\ Slots(u) = Slots(t)
      /\ \A i \in Ids(N) : u.nodes[i].key = t.nodes[i].key
      /\ Contents(u) = With(Contents(t), k, v)
  BY <1>1, <1>3, <1>7, SetFits
<1>. QED
  BY <1>6, <1>8

\* What NewSlot of a new key returns, from the nodes with the key.
LEMMA InsertIs ==
    ASSUME NEW N, NEW t, Fits(t, N), NEW k \in Key, k \notin KeysOf(t), NEW v
    PROVE  \E m, n2 :
              /\ HasKeyAt(N, t, k, m, n2)
              /\ Insert(t, k, v) =
                   IF FreeBelow(n2, t.firstfree) # {}
                     THEN [full |-> FALSE,
                           table |-> [nodes |-> ValueSet(n2, m, v),
                                      firstfree |-> Max(FreeBelow(n2, t.firstfree)),
                                      used |-> t.used + 1]]
                     ELSE [full |-> TRUE,
                           table |-> [nodes |-> n2, firstfree |-> 0, used |-> t.used]]
<1>1. Find(t, k) = NoNode
  BY FindFails
<1>2. HasKeyAt(N, t, k, Placed(t, k).node, Placed(t, k).nodes)
  BY PlacedHasKey
<1>. QED
  BY <1>1, <1>2 DEF Insert, ValueSet

LEMMA SlotsOfKeyed ==
    ASSUME NEW N, NEW t, Fits(t, N), NEW k, NEW m, NEW n2, HasKeyAt(N, t, k, m, n2)
    PROVE  IsFiniteSet(Used(n2)) /\ Cardinality(Used(n2)) = t.used + 1 /\ t.used \in Nat
<1>1. IsTable(t, N) /\ t.used = Cardinality(Slots(t)) /\ N \in Nat
  BY TableNodes DEF Fits
<1>2. Slots(t) \in SUBSET Ids(N)
  BY <1>1, TableNodes DEF Slots
<1>3. IsFiniteSet(Ids(N))
  BY <1>1, FS_Interval DEF Ids
<1>4. IsFiniteSet(Slots(t))
  BY <1>2, <1>3, FS_Subset
<1>5. t.used \in Nat
  BY <1>1, <1>4, FS_CardinalityType
<1>6. PICK x \in Ids(N) \ Slots(t) : Used(n2) = Slots(t) \cup {x}
  BY DEF HasKeyAt
<1>. QED
  BY <1>1, <1>4, <1>5, <1>6, FS_AddElement

\* NewSlot of a new key, when a free node is left.
LEMMA InsertNew ==
    ASSUME NEW N, NEW t, Fits(t, N), NEW k \in Key, k \notin KeysOf(t),
           NEW v \in Val \cup {Nil}, ~ Insert(t, k, v).full
    PROVE  LET u == Insert(t, k, v).table
           IN  /\ Fits(u, N)
               /\ Contents(u) = With(Contents(t), k, v)
               /\ KeysOf(u) = KeysOf(t) \cup {k}
               /\ Fresh(N, t.nodes, t.firstfree) => Fresh(N, u.nodes, u.firstfree)
<1>1. PICK m, n2 :
        /\ HasKeyAt(N, t, k, m, n2)
        /\ Insert(t, k, v) =
             IF FreeBelow(n2, t.firstfree) # {}
               THEN [full |-> FALSE,
                     table |-> [nodes |-> ValueSet(n2, m, v),
                                firstfree |-> Max(FreeBelow(n2, t.firstfree)),
                                used |-> t.used + 1]]
               ELSE [full |-> TRUE,
                     table |-> [nodes |-> n2, firstfree |-> 0, used |-> t.used]]
  BY InsertIs
<1>. DEFINE f == t.firstfree
            free == FreeBelow(n2, f)
            u == Insert(t, k, v).table
<1>2. free # {}
  BY <1>1
<1>3. PICK n3 : n3 = ValueSet(n2, m, v)
  OBVIOUS
<1>4. u.nodes = n3 /\ u.firstfree = Max(free) /\ u.used = t.used + 1
      /\ u = [nodes |-> u.nodes, firstfree |-> u.firstfree, used |-> u.used]
  BY <1>1, <1>2, <1>3
<1>5. IsTable(t, N) /\ N \in Nat /\ N >= 4 /\ f \in Ids(N)
  BY DEF Fits, IsTable, LinksFit
<1>. HIDE DEF u
<1>6. PICK g : g = Max(free) /\ g \in free /\ g \in 0 .. f /\ \A y \in free : g >= y
  <2>1. f \in Nat /\ free \in SUBSET (0 .. f)
    BY <1>5 DEF Ids, FreeBelow
  <2>. QED
    BY <1>2, <2>1, MaxIsGreatest
<1>7. n2 \in Nodes(N) /\ m \in Ids(N) /\ KeysDiffer(N, Keys(n2)) /\ FitBelow(N, Nexts(n2), Keys(n2), f)
  BY <1>1 DEF HasKeyAt
<1>8. /\ n3 \in Nodes(N)
      /\ Nexts(n3) = Nexts(n2) /\ Keys(n3) = Keys(n2) /\ Used(n3) = Used(n2)
      /\ \A i \in Ids(N) : /\ n3[i].key = n2[i].key
                           /\ n3[i].next = n2[i].next
                           /\ n3[i].val = IF i = m THEN v ELSE n2[i].val
  BY <1>3, <1>7, ValueIsSet
<1>9. IsTable(u, N)
  BY <1>4, <1>5, <1>8 DEF IsTable
<1>10. LinksFit(N, Nexts(n3), g) /\ KeysFit(N, Nexts(n3), Keys(n3), g)
  <2>1. g \in Ids(N)
    BY <1>5, <1>6 DEF Ids
  <2>2. Nexts(n2)[g] = NoNode /\ Keys(n2)[g] = Nil
    BY <1>6, <1>7, <2>1, NodeFunctions DEF FreeBelow
  <2>. QED
    BY <1>6, <1>7, <1>8, <2>2 DEF FitBelow
<1>11. u.used = Cardinality(Slots(u))
  <2>1. Slots(u) = Used(n2)
    BY <1>4, <1>8 DEF Slots, Used
  <2>. QED
    BY <1>1, <1>4, <2>1, SlotsOfKeyed
<1>12. Fits(u, N)
  BY <1>4, <1>6, <1>9, <1>10, <1>11 DEF Fits
<1>13. Contents(u) = With(Contents(t), k, v) /\ KeysOf(u) = KeysOf(t) \cup {k}
  <2>1. KeysDiffer(N, Keys(u.nodes))
    BY <1>4, <1>7, <1>8
  <2>2. /\ \A i \in Ids(N) : u.nodes[i].key = n2[i].key
        /\ \A i \in Ids(N) : u.nodes[i].val = IF i = m THEN v ELSE n2[i].val
    BY <1>4, <1>8
  <2>. QED
    BY <1>1, <1>9, <2>1, <2>2, ContentsWithKey
<1>14. ASSUME Fresh(N, t.nodes, t.firstfree) PROVE Fresh(N, u.nodes, u.firstfree)
  <2>1. Fresh(N, n2, f)
    BY <1>1, <1>14 DEF HasKeyAt
  <2>. SUFFICES ASSUME NEW i \in Ids(N)
                PROVE  /\ i > g => n2[i].key # Nil
                       /\ n2[i].key = Nil => n2[i].next = NoNode
    BY <1>4, <1>6, <1>8 DEF Fresh
  <2>2. n2[i].key = Nil => n2[i].next = NoNode
    BY <2>1 DEF Fresh
  <2>3. CASE i > f
    BY <2>1, <2>2, <2>3 DEF Fresh
  <2>4. CASE i <= f
    <3>1. i \in 0 .. f
      BY <1>5, <2>4 DEF Ids
    <3>2. i > g => i \notin free
      BY <1>6, <3>1
    <3>. QED
      BY <2>2, <3>1, <3>2 DEF FreeBelow
  <2>. QED
    BY <1>5, <2>3, <2>4 DEF Ids
<1>. QED
  BY <1>12, <1>13, <1>14 DEF u

\* NewSlot of a new key that makes the table full: the nodes have the key,
\* and it is not counted.
LEMMA InsertFull ==
    ASSUME NEW N, NEW t, Fits(t, N), NEW k \in Key, k \notin KeysOf(t),
           NEW v, Insert(t, k, v).full
    PROVE  LET u == Insert(t, k, v).table
           IN  /\ IsTable(u, N)
               /\ KeysDiffer(N, Keys(u.nodes))
               /\ IsFiniteSet(Slots(u)) /\ Cardinality(Slots(u)) = u.used + 1 /\ u.used \in Nat
               /\ \E w \in Val \cup {Nil} : Contents(u) = With(Contents(t), k, w)
               /\ KeysOf(u) = KeysOf(t) \cup {k}
               /\ Fresh(N, t.nodes, t.firstfree) => Slots(u) = Ids(N)
<1>1. PICK m, n2 :
        /\ HasKeyAt(N, t, k, m, n2)
        /\ Insert(t, k, v) =
             IF FreeBelow(n2, t.firstfree) # {}
               THEN [full |-> FALSE,
                     table |-> [nodes |-> ValueSet(n2, m, v),
                                firstfree |-> Max(FreeBelow(n2, t.firstfree)),
                                used |-> t.used + 1]]
               ELSE [full |-> TRUE,
                     table |-> [nodes |-> n2, firstfree |-> 0, used |-> t.used]]
  BY InsertIs
<1>. DEFINE f == t.firstfree
            free == FreeBelow(n2, f)
            u == Insert(t, k, v).table
<1>2. free = {}
  BY <1>1
<1>3. u.nodes = n2 /\ u.used = t.used
      /\ u = [nodes |-> u.nodes, firstfree |-> u.firstfree, used |-> u.used]
  BY <1>1, <1>2
<1>4. IsTable(t, N) /\ N \in Nat /\ N >= 4 /\ f \in Ids(N)
  BY DEF Fits, IsTable, LinksFit
<1>. HIDE DEF u
<1>5. n2 \in Nodes(N) /\ m \in Ids(N) /\ KeysDiffer(N, Keys(n2))
  BY <1>1 DEF HasKeyAt
<1>6. IsTable(u, N)
  BY <1>3, <1>4, <1>5 DEF IsTable
<1>7. Slots(u) = Used(n2)
  BY <1>3 DEF Slots, Used
<1>8. IsFiniteSet(Slots(u)) /\ Cardinality(Slots(u)) = u.used + 1 /\ u.used \in Nat
  BY <1>1, <1>3, <1>7, SlotsOfKeyed
<1>9. (\E w \in Val \cup {Nil} : Contents(u) = With(Contents(t), k, w))
      /\ KeysOf(u) = KeysOf(t) \cup {k}
  <2>1. n2[m].val \in Val \cup {Nil}
    BY <1>3, <1>5, <1>6, TableNodes
  <2>2. /\ \A i \in Ids(N) : u.nodes[i].key = n2[i].key
        /\ \A i \in Ids(N) : u.nodes[i].val = IF i = m THEN n2[m].val ELSE n2[i].val
    BY <1>3
  <2>3. KeysDiffer(N, Keys(u.nodes))
    BY <1>3, <1>5
  <2>4. Contents(u) = With(Contents(t), k, n2[m].val) /\ KeysOf(u) = KeysOf(t) \cup {k}
    BY <1>1, <1>6, <2>1, <2>2, <2>3, ContentsWithKey
  <2>. QED
    BY <2>1, <2>4
<1>10. ASSUME Fresh(N, t.nodes, t.firstfree) PROVE Slots(u) = Ids(N)
  <2>1. Fresh(N, n2, f)
    BY <1>1, <1>10 DEF HasKeyAt
  <2>2. ASSUME NEW i \in Ids(N) PROVE n2[i].key # Nil
    <3>1. CASE i > f
      BY <2>1, <3>1 DEF Fresh
    <3>2. CASE i <= f
      <4>1. i \in 0 .. f
        BY <1>4, <3>2 DEF Ids
      <4>. QED
        BY <1>2, <2>1, <4>1 DEF Fresh, FreeBelow
    <3>. QED
      BY <1>4, <3>1, <3>2 DEF Ids
  <2>. QED
    BY <1>5, <1>7, <2>2, NodeFunctions DEF Used
<1>. QED
  BY <1>3, <1>5, <1>6, <1>8, <1>9, <1>10 DEF u

----------------------------------------------------------------------------
(* Rehash.                                                                 *)

LEMMA AllocFits ==
    ASSUME NEW N \in Nat, N >= 4
    PROVE  /\ Fits(Alloc(N), N)
           /\ Fresh(N, Alloc(N).nodes, Alloc(N).firstfree)
           /\ KeysOf(Alloc(N)) = {}
<1>. DEFINE t == Alloc(N)
<1>1. /\ t = [nodes |-> t.nodes, firstfree |-> t.firstfree, used |-> t.used]
      /\ t.nodes = [i \in Ids(N) |-> Free] /\ t.firstfree = N - 1 /\ t.used = 0
  BY DEF Alloc, Ids
<1>2. Free.key = Nil /\ Free.next = NoNode
      /\ Free \in [key : Key \cup {Nil}, val : Val \cup {Nil}, next : Ids(N) \cup {NoNode}]
  BY DEF Free
<1>3. t.nodes \in Nodes(N) /\ DOMAIN t.nodes = Ids(N) /\ \A i \in Ids(N) : t.nodes[i] = Free
  BY <1>1, <1>2 DEF Nodes
<1>. HIDE DEF t
<1>4. IsTable(t, N)
  BY <1>1, <1>3 DEF IsTable
<1>5. /\ \A i \in Ids(N) : Nexts(t.nodes)[i] = NoNode /\ Keys(t.nodes)[i] = Nil
      /\ Nexts(t.nodes) \in [Ids(N) -> Ids(N) \cup {NoNode}]
      /\ Keys(t.nodes) \in [Ids(N) -> Key \cup {Nil}]
  BY <1>2, <1>3, NodeFunctions
<1>6. NoNode \notin Ids(N) /\ t.firstfree \in Ids(N)
  BY <1>1 DEF Ids, NoNode
<1>7. LinksFit(N, Nexts(t.nodes), t.firstfree)
  BY <1>5, <1>6 DEF LinksFit, Ends, Single
<1>8. KeysFit(N, Nexts(t.nodes), Keys(t.nodes), t.firstfree)
  BY <1>5, <1>6 DEF KeysFit
<1>9. Slots(t) = {}
  BY <1>2, <1>3 DEF Slots
<1>10. t.used = Cardinality(Slots(t))
  BY <1>1, <1>9, FS_EmptySet
<1>11. KeysOf(t) = {}
  BY <1>9 DEF KeysOf
<1>12. Fresh(N, t.nodes, t.firstfree)
  BY <1>1, <1>2, <1>3 DEF Fresh, Ids
<1>. QED
  BY <1>4, <1>7, <1>8, <1>10, <1>11, <1>12 DEF Fits, t

\* One step of the loop of Rehash.
Added(r, n) ==
    IF n.key = Nil \/ r.full THEN r ELSE Insert(r.table, n.key, n.val)

LEMMA ReinsertedSteps ==
    ASSUME NEW M, NEW t, IsTable(t, M), NEW N
    PROVE  \E q : /\ q[0] = [full |-> FALSE, table |-> Alloc(N)]
                  /\ \A i \in 0 .. M : i # M => q[i + 1] = Added(q[i], t.nodes[i])
                  /\ Reinserted(t, N) = q[M]
<1>1. Size(t) = M /\ M \in Nat
  BY TableNodes
<1>. DEFINE first == [full |-> FALSE, table |-> Alloc(N)]
            steps(m, q) == q = [i \in 0 .. m |-> IF i = 0 THEN first
                                                 ELSE Added(q[i - 1], t.nodes[i - 1])]
            S == {m \in Nat : \E q : steps(m, q)}
<1>2. 0 \in S
  <2>. DEFINE q == [i \in 0 .. 0 |-> first]
  <2>1. q = [i \in 0 .. 0 |-> IF i = 0 THEN first ELSE Added(q[i - 1], t.nodes[i - 1])]
    OBVIOUS
  <2>2. steps(0, q)
    BY <2>1
  <2>. HIDE DEF steps, q
  <2>. QED
    BY <2>2
<1>3. ASSUME NEW m \in S PROVE m + 1 \in S
  <2>1. PICK p : steps(m, p)
    OBVIOUS
  <2>. HIDE DEF first
  <2>2. \A i \in 0 .. m : p[i] = IF i = 0 THEN first ELSE Added(p[i - 1], t.nodes[i - 1])
    BY <2>1
  <2>. DEFINE q == [i \in 0 .. m + 1 |-> IF i = 0 THEN first
                                         ELSE Added(p[i - 1], t.nodes[i - 1])]
  <2>3. \A i \in 0 .. m : q[i] = p[i]
    BY <2>2
  <2>4. \A i \in 0 .. m + 1 : i # 0 => i - 1 \in 0 .. m
    OBVIOUS
  <2>5. q = [i \in 0 .. m + 1 |-> IF i = 0 THEN first ELSE Added(q[i - 1], t.nodes[i - 1])]
    BY <2>3, <2>4
  <2>6. steps(m + 1, q)
    BY <2>5
  <2>. HIDE DEF q, steps
  <2>. QED
    BY <2>6
<1>4. S = Nat
  <2>. HIDE DEF steps
  <2>. QED
    BY <1>2, <1>3, AllNaturals
<1>5. PICK p : steps(M, p)
  BY <1>1, <1>4
<1>6. PICK q : q = CHOOSE r : steps(M, r)
  OBVIOUS
<1>7. steps(M, q)
  BY <1>5, <1>6
<1>8. Reinserted(t, N) = q[M]
  BY <1>1, <1>6 DEF Reinserted, Added
<1>9. \A i \in 0 .. M : q[i] = IF i = 0 THEN first ELSE Added(q[i - 1], t.nodes[i - 1])
  BY <1>7
<1>10. \A i \in 0 .. M : i # M => i + 1 \in 0 .. M /\ i + 1 # 0 /\ (i + 1) - 1 = i
  BY <1>1
<1>11. 0 \in 0 .. M
  BY <1>1
<1>. QED
  BY <1>8, <1>9, <1>10, <1>11

\* A table whose keys are those of N nodes has as many.
LEMMA RoomForKeys ==
    ASSUME NEW M, NEW t, IsTable(t, M), IsFiniteSet(Slots(t)),
           NEW N, NEW u, IsTable(u, N), KeysDiffer(N, Keys(u.nodes)),
           Slots(u) = Ids(N), KeysOf(u) \subseteq KeysOf(t)
    PROVE  Cardinality(Slots(t)) >= N
<1>. SUFFICES ASSUME Cardinality(Slots(t)) < N PROVE FALSE
  BY FS_CardinalityType DEF IsTable
<1>1. N \in Nat /\ N >= 4
  BY DEF IsTable
<1>2. IsFiniteSet(Ids(N)) /\ Cardinality(Ids(N)) = N
  BY <1>1, FS_Interval DEF Ids
<1>. DEFINE g == [x \in Ids(N) |-> CHOOSE j \in Slots(t) : t.nodes[j].key = u.nodes[x].key]
<1>3. ASSUME NEW x \in Ids(N)
      PROVE  g[x] \in Slots(t) /\ t.nodes[g[x]].key = u.nodes[x].key
  <2>1. u.nodes[x].key \in KeysOf(t)
    BY DEF KeysOf
  <2>2. \E j \in Slots(t) : t.nodes[j].key = u.nodes[x].key
    BY <2>1 DEF KeysOf
  <2>. QED
    BY <2>2
<1>4. g \in [Ids(N) -> Slots(t)]
  BY <1>3
<1>. HIDE DEF g
<1>5. PICK x \in Ids(N), y \in Ids(N) : x # y /\ g[x] = g[y]
  BY <1>2, <1>4, FS_PigeonHole
<1>6. u.nodes[x].key = u.nodes[y].key
  BY <1>3, <1>5
<1>7. u.nodes[x].key # Nil
  BY DEF Slots
<1>8. Keys(u.nodes)[x] = u.nodes[x].key /\ Keys(u.nodes)[y] = u.nodes[y].key
  BY TableNodes
<1>. QED
  BY <1>5, <1>6, <1>7, <1>8 DEF KeysDiffer

\* The loop of Rehash has put in the keys of the first i nodes.
Reached(r, N, t, i) ==
    /\ ~ r.full
    /\ Fits(r.table, N)
    /\ Fresh(N, r.table.nodes, r.table.firstfree)
    /\ KeysOf(r.table) = {t.nodes[j].key : j \in {l \in Slots(t) : l < i}}
    /\ \A j \in Slots(t) : j < i => Contents(r.table)[t.nodes[j].key] = t.nodes[j].val

LEMMA AddedReaches ==
    ASSUME NEW M, NEW t, IsTable(t, M), KeysDiffer(M, Keys(t.nodes)),
           IsFiniteSet(Slots(t)),
           NEW N \in Nat, Cardinality(Slots(t)) < N,
           NEW i \in Ids(M), NEW r, Reached(r, N, t, i)
    PROVE  Reached(Added(r, t.nodes[i]), N, t, i + 1)
<1>. DEFINE n == t.nodes[i]
            k == n.key
            u == Insert(r.table, k, n.val).table
<1>1. /\ DOMAIN t.nodes = Ids(M) /\ M \in Nat /\ i \in Nat
      /\ n.key \in Key \cup {Nil} /\ n.val \in Val \cup {Nil}
      /\ \A j \in Ids(M) : Keys(t.nodes)[j] = t.nodes[j].key
  BY TableNodes DEF Ids
<1>2. /\ \A j \in Slots(t) : j \in Nat /\ j \in Ids(M) /\ t.nodes[j].key # Nil
      /\ \A j \in Ids(M) : j \in Slots(t) <=> t.nodes[j].key # Nil
  BY <1>1 DEF Slots, Ids
<1>3. CASE n.key = Nil
  <2>1. \A l \in Slots(t) : l < i + 1 <=> l < i
    BY <1>1, <1>2, <1>3
  <2>2. {l \in Slots(t) : l < i + 1} = {l \in Slots(t) : l < i}
    BY <2>1
  <2>. QED
    BY <1>3, <2>1, <2>2 DEF Added, Reached
<1>4. CASE n.key # Nil
  <2>1. ~ r.full /\ Fits(r.table, N) /\ Fresh(N, r.table.nodes, r.table.firstfree)
    BY DEF Reached
  <2>2. Added(r, n) = Insert(r.table, k, n.val)
    BY <1>4, <2>1 DEF Added
  <2>3. i \in Slots(t) /\ k \in Key
    BY <1>1, <1>2, <1>4
  <2>4. \A j \in Slots(t) : t.nodes[j].key = k => j = i
    BY <1>1, <1>2, <1>4 DEF KeysDiffer
  <2>5. k \notin KeysOf(r.table)
    BY <1>1, <1>2, <2>4 DEF Reached
  <2>6. \A l \in Slots(t) : l < i + 1 <=> l < i \/ l = i
    BY <1>1, <1>2
  <2>7. {t.nodes[j].key : j \in {l \in Slots(t) : l < i + 1}}
           = {t.nodes[j].key : j \in {l \in Slots(t) : l < i}} \cup {k}
    BY <2>3, <2>6
  <2>8. ~ Insert(r.table, k, n.val).full
    <3>. SUFFICES ASSUME Insert(r.table, k, n.val).full PROVE FALSE
      OBVIOUS
    <3>1. /\ IsTable(u, N) /\ KeysDiffer(N, Keys(u.nodes))
          /\ Slots(u) = Ids(N) /\ KeysOf(u) = KeysOf(r.table) \cup {k}
      BY <2>1, <2>3, <2>5, InsertFull
    <3>2. KeysOf(u) \subseteq KeysOf(t)
      <4>1. KeysOf(r.table) \subseteq KeysOf(t) /\ k \in KeysOf(t)
        BY <2>3 DEF Reached, KeysOf
      <4>. QED
        BY <3>1, <4>1
    <3>. HIDE DEF u, k
    <3>3. Cardinality(Slots(t)) >= N
      BY <3>1, <3>2, RoomForKeys
    <3>4. Cardinality(Slots(t)) \in Nat
      BY FS_CardinalityType
    <3>. QED
      BY <3>3, <3>4
  <2>9. /\ Fits(u, N)
        /\ Contents(u) = With(Contents(r.table), k, n.val)
        /\ KeysOf(u) = KeysOf(r.table) \cup {k}
        /\ Fresh(N, u.nodes, u.firstfree)
    BY <1>1, <2>1, <2>3, <2>5, <2>8, InsertNew
  <2>. HIDE DEF u
  <2>10. DOMAIN Contents(r.table) = KeysOf(r.table)
    BY DEF Contents
  <2>11. \A j \in Slots(t) : j < i + 1 => Contents(u)[t.nodes[j].key] = t.nodes[j].val
    <3>. SUFFICES ASSUME NEW j \in Slots(t), j < i + 1
                  PROVE  Contents(u)[t.nodes[j].key] = t.nodes[j].val
      OBVIOUS
    <3>1. CASE j = i
      BY <2>9, <3>1 DEF With
    <3>2. CASE j # i
      <4>1. j < i /\ t.nodes[j].key # k
        BY <2>4, <2>6, <3>2
      <4>2. t.nodes[j].key \in KeysOf(r.table)
        BY <4>1 DEF Reached
      <4>3. Contents(r.table)[t.nodes[j].key] = t.nodes[j].val
        BY <4>1 DEF Reached
      <4>. QED
        BY <2>9, <2>10, <4>1, <4>2, <4>3 DEF With
    <3>. QED
      BY <3>1, <3>2
  <2>12. KeysOf(u) = {t.nodes[j].key : j \in {l \in Slots(t) : l < i + 1}}
    BY <2>7, <2>9 DEF Reached
  <2>. QED
    BY <2>2, <2>8, <2>9, <2>11, <2>12 DEF Reached, u
<1>. QED
  BY <1>3, <1>4

\* Rehash and Clone: there is room for every key, and the slots stay.
LEMMA ReinsertedFits ==
    ASSUME NEW M, NEW t, IsTable(t, M), KeysDiffer(M, Keys(t.nodes)),
           IsFiniteSet(Slots(t)),
           NEW N \in Nat, N >= 4, Cardinality(Slots(t)) < N
    PROVE  /\ ~ Reinserted(t, N).full
           /\ Fits(Reinserted(t, N).table, N)
           /\ Contents(Reinserted(t, N).table) = Contents(t)
           /\ KeysOf(Reinserted(t, N).table) = KeysOf(t)
<1>1. M \in Nat /\ DOMAIN t.nodes = Ids(M)
  BY TableNodes
<1>2. PICK q : /\ q[0] = [full |-> FALSE, table |-> Alloc(N)]
               /\ \A i \in 0 .. M : i # M => q[i + 1] = Added(q[i], t.nodes[i])
               /\ Reinserted(t, N) = q[M]
  BY ReinsertedSteps
<1>. DEFINE S == {m \in Nat : m <= M => Reached(q[m], N, t, m)}
<1>3. 0 \in S
  <2>1. ~ q[0].full /\ q[0].table = Alloc(N)
    BY <1>2
  <2>2. {l \in Slots(t) : l < 0} = {} /\ \A l \in Slots(t) : ~ (l < 0)
    BY <1>1 DEF Slots, Ids
  <2>3. {t.nodes[j].key : j \in {l \in Slots(t) : l < 0}} = {}
    BY <2>2
  <2>4. Reached(q[0], N, t, 0)
    BY <2>1, <2>2, <2>3, AllocFits DEF Reached
  <2>. QED
    BY <2>4
<1>4. ASSUME NEW m \in S PROVE m + 1 \in S
  <2>. SUFFICES ASSUME m + 1 <= M PROVE Reached(q[m + 1], N, t, m + 1)
    OBVIOUS
  <2>1. m \in Ids(M) /\ m \in 0 .. M /\ m # M /\ Reached(q[m], N, t, m)
    BY <1>1 DEF Ids
  <2>2. q[m + 1] = Added(q[m], t.nodes[m])
    BY <1>2, <2>1
  <2>. QED
    BY <2>1, <2>2, AddedReaches
<1>5. S = Nat
  BY <1>3, <1>4, AllNaturals
<1>6. Reached(q[M], N, t, M)
  BY <1>1, <1>5
<1>7. \A l \in Slots(t) : l < M
  BY <1>1 DEF Slots, Ids
<1>8. {l \in Slots(t) : l < M} = Slots(t)
  BY <1>7
<1>. DEFINE u == q[M].table
<1>9. ~ q[M].full /\ Fits(u, N) /\ KeysOf(u) = KeysOf(t)
      /\ \A j \in Slots(t) : Contents(u)[t.nodes[j].key] = t.nodes[j].val
  BY <1>6, <1>7, <1>8 DEF Reached, KeysOf
<1>. HIDE DEF u
<1>10. /\ Contents(u) = [k \in KeysOf(u) |-> Contents(u)[k]]
       /\ DOMAIN Contents(u) = KeysOf(u)
  BY DEF Contents
<1>11. Holds(t, Contents(u))
  BY <1>9, <1>10 DEF Holds, KeysOf
<1>12. Contents(t) = Contents(u)
  BY <1>11, SameContents
<1>. QED
  BY <1>2, <1>9, <1>12 DEF u

\* The sizes a table can have: the least one, and twice every other.
Sizes == {n \in Nat : \A S \in SUBSET Nat :
             MinPower2 \in S /\ (\A m \in S : 2 * m \in S) => n \in S}

LEMMA SizesAre ==
    /\ MinPower2 \in Sizes
    /\ \A n \in Sizes : /\ n \in Nat /\ n >= 4 /\ n >= MinPower2
                        /\ 2 * n \in Sizes
                        /\ n > MinPower2 => n \div 2 \in Sizes /\ n >= 8
<1>1. MinPower2 \in Nat /\ MinPower2 >= 4
  BY HashTableAssumption
<1>2. MinPower2 \in Sizes
  BY <1>1 DEF Sizes
<1>3. \A n \in Sizes : n \in Nat /\ 2 * n \in Sizes
  BY DEF Sizes
<1>4. ASSUME NEW n \in Sizes PROVE n >= MinPower2
  <2>. DEFINE S == {m \in Nat : m >= MinPower2}
  <2>1. S \in SUBSET Nat /\ MinPower2 \in S /\ \A m \in S : 2 * m \in S
    BY <1>1
  <2>. HIDE DEF S
  <2>2. n \in S
    BY <2>1 DEF Sizes
  <2>. QED
    BY <2>2 DEF S
<1>5. ASSUME NEW n \in Sizes, n > MinPower2 PROVE n \div 2 \in Sizes /\ n >= 8
  <2>. DEFINE S == {m \in Sizes : m > MinPower2 => \E l \in Sizes : m = 2 * l}
  <2>1. S \in SUBSET Nat /\ MinPower2 \in S
    <3>1. \A m \in Sizes : m \in Nat
      BY DEF Sizes
    <3>2. ~ (MinPower2 > MinPower2)
      BY <1>1
    <3>. QED
      BY <1>2, <3>1, <3>2
  <2>5. ASSUME NEW m \in S PROVE 2 * m \in S
    <3>1. m \in Sizes /\ 2 * m \in Sizes
      BY <1>3
    <3>. QED
      BY <3>1
  <2>. HIDE DEF S
  <2>2. n \in S
    BY <2>1, <2>5 DEF Sizes
  <2>3. PICK l \in Sizes : n = 2 * l
    BY <1>5, <2>2 DEF S
  <2>4. l \in Nat /\ l >= 4
    BY <1>1, <1>3, <1>4
  <2>. QED
    BY <2>3, <2>4
<1>. QED
  BY <1>1, <1>2, <1>3, <1>4, <1>5

\* The new size leaves room for every key, and for the one that is not
\* counted when the table was full.
LEMMA NewSizeHasRoom ==
    ASSUME NEW N \in Sizes, NEW t, IsTable(t, N), NEW c \in Nat, c <= N,
           t.used \in Nat, c <= t.used + 1
    PROVE  NewSize(t) \in Sizes /\ c < NewSize(t)
<1>1. Size(t) = N
  BY TableNodes
<1>2. /\ N \in Nat /\ N >= 4 /\ 2 * N \in Sizes
      /\ N > MinPower2 => N \div 2 \in Sizes /\ N >= 8
  BY SizesAre
<1>3. MinPower2 \in Nat
  BY HashTableAssumption
<1>4. PICK used \in Nat : used = t.used
  OBVIOUS
<1>5. PICK q \in Nat : q = N \div 4 /\ 4 * q <= N /\ N <= 4 * q + 3
  BY <1>2
<1>6. NewSize(t) = IF used >= N - q THEN N * 2
                   ELSE IF used <= q /\ N > MinPower2 THEN N \div 2
                   ELSE N
  BY <1>1, <1>4, <1>5 DEF NewSize
<1>7. CASE used >= N - q
  BY <1>2, <1>6, <1>7
<1>8. CASE ~ (used >= N - q) /\ used <= q /\ N > MinPower2
  <2>1. NewSize(t) = N \div 2 /\ N \div 2 \in Sizes /\ N >= 8
    BY <1>2, <1>6, <1>8
  <2>2. c <= q + 1
    BY <1>4, <1>8
  <2>3. PICK half \in Nat : half = N \div 2 /\ 2 * half <= N /\ N <= 2 * half + 1
    BY <1>2
  <2>4. q >= 2
    BY <1>2, <1>5, <2>1
  <2>5. q + 1 < half
    BY <1>2, <1>5, <2>3, <2>4
  <2>. QED
    BY <2>1, <2>2, <2>3, <2>5
<1>9. CASE ~ (used >= N - q) /\ ~ (used <= q /\ N > MinPower2)
  <2>1. NewSize(t) = N
    BY <1>6, <1>9
  <2>2. q >= 1
    BY <1>2, <1>5
  <2>. QED
    BY <1>2, <1>4, <1>9, <2>1, <2>2
<1>. QED
  BY <1>7, <1>8, <1>9

\* The slots of a table that is hashed again stay.
LEMMA HashedAgain ==
    ASSUME NEW N \in Sizes, NEW t, IsTable(t, N), KeysDiffer(N, Keys(t.nodes)),
           t.used \in Nat, Cardinality(Slots(t)) <= t.used + 1
    PROVE  /\ NewSize(t) \in Sizes
           /\ ~ Reinserted(t, NewSize(t)).full
           /\ Fits(Reinserted(t, NewSize(t)).table, NewSize(t))
           /\ Contents(Reinserted(t, NewSize(t)).table) = Contents(t)
           /\ KeysOf(Reinserted(t, NewSize(t)).table) = KeysOf(t)
<1>0. N \in Nat /\ N >= 4
  BY SizesAre
<1>1. IsFiniteSet(Ids(N)) /\ Cardinality(Ids(N)) = N
  BY <1>0, FS_Interval DEF Ids
<1>2. Slots(t) \in SUBSET Ids(N)
  BY TableNodes DEF Slots
<1>3. IsFiniteSet(Slots(t)) /\ Cardinality(Slots(t)) <= N
  BY <1>1, <1>2, FS_Subset
<1>4. Cardinality(Slots(t)) \in Nat
  BY <1>3, FS_CardinalityType
<1>5. NewSize(t) \in Sizes /\ Cardinality(Slots(t)) < NewSize(t)
  BY <1>3, <1>4, NewSizeHasRoom
<1>6. NewSize(t) \in Nat /\ NewSize(t) >= 4
  BY <1>5, SizesAre
<1>7. PICK M : M = NewSize(t)
  OBVIOUS
<1>8. /\ ~ Reinserted(t, M).full
      /\ Fits(Reinserted(t, M).table, M)
      /\ Contents(Reinserted(t, M).table) = Contents(t)
      /\ KeysOf(Reinserted(t, M).table) = KeysOf(t)
  BY <1>3, <1>5, <1>6, <1>7, ReinsertedFits
<1>. QED
  BY <1>5, <1>7, <1>8

SizeFits(t) == \E N \in Sizes : Fits(t, N)

LEMMA RehashedFits ==
    ASSUME NEW N \in Sizes, NEW t, IsTable(t, N), KeysDiffer(N, Keys(t.nodes)),
           t.used \in Nat, Cardinality(Slots(t)) <= t.used + 1
    PROVE  /\ SizeFits(Rehash(t, TRUE))
           /\ Contents(Rehash(t, TRUE)) = Contents(t)
           /\ KeysOf(Rehash(t, TRUE)) = KeysOf(t)
BY HashedAgain DEF Rehash, SizeFits

----------------------------------------------------------------------------
(* The operations.                                                         *)

LEMMA UsedIsNatural ==
    ASSUME NEW N, NEW t, Fits(t, N)
    PROVE  /\ t.used \in Nat /\ IsFiniteSet(Slots(t)) /\ t.used = Cardinality(Slots(t))
           /\ Slots(t) \subseteq Ids(N) /\ Cardinality(Slots(t)) < N
<1>1. IsTable(t, N) /\ t.used = Cardinality(Slots(t)) /\ N \in Nat /\ N >= 4
  BY DEF Fits, IsTable
<1>2. Slots(t) \in SUBSET Ids(N) /\ DOMAIN t.nodes = Ids(N)
  BY <1>1, TableNodes DEF Slots
<1>3. IsFiniteSet(Ids(N)) /\ Cardinality(Ids(N)) = N
  BY <1>1, FS_Interval DEF Ids
<1>4. IsFiniteSet(Slots(t)) /\ Cardinality(Slots(t)) <= N
      /\ (Cardinality(Slots(t)) = N => Slots(t) = Ids(N))
  BY <1>2, <1>3, FS_Subset
<1>5. Cardinality(Slots(t)) \in Nat
  BY <1>4, FS_CardinalityType
<1>6. Slots(t) # Ids(N)
  <2>1. t.firstfree \in Ids(N) /\ Keys(t.nodes)[t.firstfree] = Nil
    BY DEF Fits, LinksFit, KeysFit
  <2>2. t.nodes[t.firstfree].key = Nil
    BY <1>1, <2>1, TableNodes
  <2>. QED
    BY <2>1, <2>2 DEF Slots
<1>. QED
  BY <1>1, <1>2, <1>4, <1>5, <1>6

\* NewSlot, with the Rehash and the second call when the table is full.
LEMMA InsertedFits ==
    ASSUME NEW N \in Sizes, NEW t, Fits(t, N), NEW k \in Key, NEW v \in Val
    PROVE  /\ SizeFits(Inserted(t, k, v))
           /\ Contents(Inserted(t, k, v)) = With(Contents(t), k, v)
           /\ k \in KeysOf(t) =>
                 /\ Slots(Inserted(t, k, v)) = Slots(t)
                 /\ \A i \in Ids(N) : Inserted(t, k, v).nodes[i].key = t.nodes[i].key
<1>. DEFINE r == Insert(t, k, v)
<1>0. v \in Val \cup {Nil}
  OBVIOUS
<1>1. CASE k \in KeysOf(t)
  <2>1. /\ ~ r.full
        /\ Fits(r.table, N)
        /\ Slots(r.table) = Slots(t)
        /\ \A i \in Ids(N) : r.table.nodes[i].key = t.nodes[i].key
        /\ Contents(r.table) = With(Contents(t), k, v)
    BY <1>0, <1>1, InsertKnown
  <2>2. Inserted(t, k, v) = r.table
    BY <2>1 DEF Inserted
  <2>. HIDE DEF r
  <2>. QED
    BY <2>1, <2>2 DEF SizeFits
<1>2. CASE k \notin KeysOf(t) /\ ~ r.full
  <2>1. Fits(r.table, N) /\ Contents(r.table) = With(Contents(t), k, v)
    BY <1>0, <1>2, InsertNew
  <2>2. Inserted(t, k, v) = r.table
    BY <1>2 DEF Inserted
  <2>. HIDE DEF r
  <2>. QED
    BY <1>2, <2>1, <2>2 DEF SizeFits
<1>3. CASE k \notin KeysOf(t) /\ r.full
  <2>1. /\ IsTable(r.table, N)
        /\ KeysDiffer(N, Keys(r.table.nodes))
        /\ Cardinality(Slots(r.table)) = r.table.used + 1 /\ r.table.used \in Nat
        /\ \E w \in Val \cup {Nil} : Contents(r.table) = With(Contents(t), k, w)
        /\ KeysOf(r.table) = KeysOf(t) \cup {k}
    BY <1>3, InsertFull
  <2>2. PICK u : u = Rehash(r.table, TRUE)
    OBVIOUS
  <2>3. PICK w : Contents(r.table) = With(Contents(t), k, w)
    BY <2>1
  <2>4. Inserted(t, k, v) = Insert(u, k, v).table
    BY <1>3, <2>2 DEF Inserted
  <2>. HIDE DEF r
  <2>5. Cardinality(Slots(r.table)) <= r.table.used + 1
    BY <2>1
  <2>6. /\ SizeFits(u)
        /\ Contents(u) = With(Contents(t), k, w)
        /\ k \in KeysOf(u)
    BY <2>1, <2>2, <2>3, <2>5, RehashedFits
  <2>7. PICK M \in Sizes : Fits(u, M)
    BY <2>6 DEF SizeFits
  <2>8. /\ Fits(Insert(u, k, v).table, M)
        /\ Contents(Insert(u, k, v).table) = With(Contents(u), k, v)
    BY <1>0, <2>6, <2>7, InsertKnown
  <2>9. With(Contents(u), k, v) = With(Contents(t), k, v)
    BY <2>6 DEF With
  <2>. QED
    BY <1>3, <2>4, <2>7, <2>8, <2>9 DEF SizeFits
<1>. QED
  BY <1>1, <1>2, <1>3

\* A function without a slot.
Without(c, k) == [j \in DOMAIN c \ {k} |-> c[j]]

\* A table whose node n is cleared, before it is hashed again.
WithoutNode(t, n) ==
    [t EXCEPT !.nodes[n].key = Nil, !.nodes[n].val = Nil, !.used = @ - 1]

LEMMA NodeCleared ==
    ASSUME NEW N, NEW t, Fits(t, N), NEW n \in Slots(t), NEW u,
           u = WithoutNode(t, n)
    PROVE  /\ Fits(u, N)
           /\ Slots(u) = Slots(t) \ {n}
           /\ \A i \in Slots(u) : u.nodes[i].key = t.nodes[i].key
           /\ Contents(u) = Without(Contents(t), t.nodes[n].key)
<1>1. IsTable(t, N) /\ KeysDiffer(N, Keys(t.nodes))
  BY KeysOfFittingDiffer
<1>2. /\ t = [nodes |-> t.nodes, firstfree |-> t.firstfree, used |-> t.used]
      /\ t.nodes \in Nodes(N) /\ N \in Nat /\ N >= 4
      /\ DOMAIN t.nodes = Ids(N) /\ n \in Ids(N)
  BY <1>1, TableNodes DEF IsTable, Slots
<1>20. PICK rec : rec = [t.nodes[n] EXCEPT !.key = Nil, !.val = Nil]
  OBVIOUS
<1>21. /\ rec.key = Nil /\ rec.next = t.nodes[n].next
       /\ rec \in [key : Key \cup {Nil}, val : Val \cup {Nil}, next : Ids(N) \cup {NoNode}]
  <2>1. PICK old \in [key : Key \cup {Nil}, val : Val \cup {Nil}, next : Ids(N) \cup {NoNode}] :
          old = t.nodes[n]
    BY <1>2 DEF Nodes
  <2>2. rec = [old EXCEPT !.key = Nil, !.val = Nil]
    BY <1>20, <2>1
  <2>3. /\ rec.key = Nil /\ rec.next = old.next
        /\ rec \in [key : Key \cup {Nil}, val : Val \cup {Nil}, next : Ids(N) \cup {NoNode}]
    BY ONLY <2>2,
       old \in [key : Key \cup {Nil}, val : Val \cup {Nil}, next : Ids(N) \cup {NoNode}]
  <2>. QED
    BY <2>1, <2>3
<1>3. /\ u = [nodes |-> u.nodes, firstfree |-> u.firstfree, used |-> u.used]
      /\ u.firstfree = t.firstfree /\ u.used = t.used - 1
      /\ DOMAIN u.nodes = Ids(N)
      /\ u.nodes[n] = rec
      /\ \A i \in Ids(N) : i # n => u.nodes[i] = t.nodes[i]
      /\ u.nodes = [i \in Ids(N) |-> u.nodes[i]]
  BY <1>2, <1>20 DEF Nodes, WithoutNode
<1>4. u.nodes \in Nodes(N)
  BY ONLY <1>2, <1>3, <1>21 DEF Nodes
<1>5. IsTable(u, N)
  BY <1>2, <1>3, <1>4 DEF IsTable
<1>6. /\ \A i \in Ids(N) : u.nodes[i].next = t.nodes[i].next
      /\ \A i \in Ids(N) : u.nodes[i].key = IF i = n THEN Nil ELSE t.nodes[i].key
      /\ \A i \in Ids(N) : i # n => u.nodes[i].val = t.nodes[i].val
  BY ONLY <1>2, <1>3, <1>21
<1>7. /\ \A i \in Ids(N) : /\ Nexts(t.nodes)[i] = t.nodes[i].next
                           /\ Keys(t.nodes)[i] = t.nodes[i].key
      /\ Nexts(t.nodes) \in [Ids(N) -> Ids(N) \cup {NoNode}]
      /\ \A i \in Ids(N) : /\ Nexts(u.nodes)[i] = u.nodes[i].next
                           /\ Keys(u.nodes)[i] = u.nodes[i].key
      /\ Nexts(u.nodes) \in [Ids(N) -> Ids(N) \cup {NoNode}]
      /\ Keys(u.nodes) \in [Ids(N) -> Key \cup {Nil}]
  BY ONLY <1>1, <1>5, TableNodes
<1>8. Nexts(u.nodes) = Nexts(t.nodes)
  <2>1. PICK x1, x2 : x1 = Nexts(t.nodes) /\ x2 = Nexts(u.nodes)
    OBVIOUS
  <2>2. \A i \in Ids(N) : x2[i] = x1[i]
    BY <1>6, <1>7, <2>1
  <2>3. x1 \in [Ids(N) -> Ids(N) \cup {NoNode}] /\ x2 \in [Ids(N) -> Ids(N) \cup {NoNode}]
    BY <1>7, <2>1
  <2>4. x1 = x2
    BY ONLY <2>2, <2>3
  <2>. QED
    BY <2>1, <2>4
<1>9. \A i \in Ids(N) : Keys(u.nodes)[i] = IF i = n THEN Nil ELSE Keys(t.nodes)[i]
  BY <1>6, <1>7
<1>10. LinksFit(N, Nexts(u.nodes), u.firstfree)
  BY <1>3, <1>8 DEF Fits
<1>11. KeysFit(N, Nexts(u.nodes), Keys(u.nodes), u.firstfree)
  <2>1. KeysFit(N, Nexts(t.nodes), Keys(t.nodes), t.firstfree) /\ t.firstfree \in Ids(N)
    BY DEF Fits, LinksFit
  <2>2. PICK nx, ky, k2, f : /\ nx = Nexts(t.nodes) /\ ky = Keys(t.nodes)
                             /\ k2 = Keys(u.nodes) /\ f = t.firstfree
    OBVIOUS
  <2>3. /\ KeysFit(N, nx, ky, f) /\ f \in Ids(N) /\ k2 \in [Ids(N) -> Key \cup {Nil}]
        /\ \A i \in Ids(N) : k2[i] = IF i = n THEN Nil ELSE ky[i]
    BY <1>7, <1>9, <2>1, <2>2
  <2>4. KeysFit(N, nx, k2, f)
    BY ONLY <2>3 DEF KeysFit
  <2>. QED
    BY <1>3, <1>8, <2>2, <2>4
<1>12. Slots(u) = Slots(t) \ {n}
  BY <1>2, <1>3, <1>6 DEF Slots
<1>13. u.used = Cardinality(Slots(u))
  BY <1>3, <1>12, UsedIsNatural, FS_RemoveElement
<1>14. Fits(u, N)
  BY <1>5, <1>10, <1>11, <1>13 DEF Fits
<1>15. \A i \in Slots(u) : i \in Slots(t) /\ i # n /\ u.nodes[i].key = t.nodes[i].key
                             /\ u.nodes[i].val = t.nodes[i].val
  BY <1>2, <1>6, <1>12 DEF Slots
<1>16. Contents(u) = Without(Contents(t), t.nodes[n].key)
  <2>. DEFINE c == Without(Contents(t), t.nodes[n].key)
  <2>1. /\ DOMAIN Contents(t) = KeysOf(t)
        /\ \A i \in Slots(t) : /\ t.nodes[i].key \in KeysOf(t)
                               /\ Contents(t)[t.nodes[i].key] = t.nodes[i].val
    BY <1>1, ContentsAre
  <2>2. /\ DOMAIN c = KeysOf(t) \ {t.nodes[n].key} /\ c = [j \in DOMAIN c |-> c[j]]
        /\ \A j \in DOMAIN c : c[j] = Contents(t)[j]
    BY <2>1 DEF Without
  <2>3. \A i, j \in Slots(t) : t.nodes[i].key = t.nodes[j].key => i = j
    <3>1. \A i \in Slots(t) : t.nodes[i].key # Nil /\ i \in Ids(N)
      BY <1>2 DEF Slots
    <3>. QED
      BY <1>1, <1>7, <3>1 DEF KeysDiffer
  <2>. HIDE DEF c
  <2>4. \A i \in Slots(u) : u.nodes[i].key \in DOMAIN c /\ c[u.nodes[i].key] = u.nodes[i].val
    BY <1>15, <2>1, <2>2, <2>3
  <2>5. \A j \in DOMAIN c : \E i \in Slots(u) : u.nodes[i].key = j
    <3>. SUFFICES ASSUME NEW j \in DOMAIN c PROVE \E i \in Slots(u) : u.nodes[i].key = j
      OBVIOUS
    <3>1. PICK i \in Slots(t) : t.nodes[i].key = j
      BY <2>2 DEF KeysOf
    <3>2. i \in Slots(u)
      BY <1>12, <2>2, <3>1
    <3>. QED
      BY <1>15, <3>1, <3>2
  <2>6. Holds(u, c)
    BY <2>2, <2>4, <2>5 DEF Holds
  <2>7. KeysDiffer(N, Keys(u.nodes))
    BY <1>14, KeysOfFittingDiffer
  <2>. QED
    BY <1>5, <2>6, <2>7, SameContents DEF c
<1>. QED
  BY <1>12, <1>14, <1>15, <1>16

\* Remove: the table keeps its size and loses the key in its node, or is
\* hashed again without it.
LEMMA RemovedFits ==
    ASSUME NEW N \in Sizes, NEW t, Fits(t, N), NEW n \in Slots(t), NEW k,
           k = t.nodes[n].key
    PROVE  LET u == Removed(t, k)
           IN  /\ SizeFits(u)
               /\ Contents(u) = Without(Contents(t), k)
               /\ Size(u) = N => /\ Slots(u) = Slots(t) \ {n}
                                 /\ \A i \in Slots(u) : u.nodes[i].key = t.nodes[i].key
<1>1. PICK c : c = WithoutNode(t, n)
  OBVIOUS
<1>2. /\ Fits(c, N)
      /\ Slots(c) = Slots(t) \ {n}
      /\ \A i \in Slots(c) : c.nodes[i].key = t.nodes[i].key
      /\ Contents(c) = Without(Contents(t), k)
  BY <1>1, NodeCleared
<1>3. Removed(t, k) = Rehash(c, FALSE)
  BY <1>1, FindsKey DEF Removed, WithoutNode
<1>4. PICK u : u = Removed(t, k)
  OBVIOUS
<1>5. IsTable(c, N) /\ KeysDiffer(N, Keys(c.nodes)) /\ Size(c) = N
  BY <1>2, KeysOfFittingDiffer, TableNodes
<1>6. CASE NewSize(c) = N
  <2>1. u = c
    BY <1>3, <1>4, <1>5, <1>6 DEF Rehash
  <2>. QED
    BY <1>2, <1>4, <2>1 DEF SizeFits
<1>7. CASE NewSize(c) # N
  <2>1. u = Reinserted(c, NewSize(c)).table
    BY <1>3, <1>4, <1>5, <1>7 DEF Rehash
  <2>2. c.used \in Nat /\ Cardinality(Slots(c)) <= c.used + 1
    <3>1. c.used \in Nat /\ Cardinality(Slots(c)) = c.used
      BY <1>2, UsedIsNatural
    <3>. QED
      BY <3>1
  <2>3. /\ NewSize(c) \in Sizes
        /\ Fits(u, NewSize(c))
        /\ Contents(u) = Contents(c)
    BY <1>5, <2>1, <2>2, HashedAgain
  <2>4. Size(u) = NewSize(c)
    BY <2>3, TableNodes DEF Fits
  <2>. QED
    BY <1>2, <1>4, <1>7, <2>3, <2>4 DEF SizeFits
<1>. QED
  BY <1>6, <1>7

LEMMA ClearedFits ==
    ASSUME NEW N \in Sizes, NEW t, Fits(t, N)
    PROVE  SizeFits(Cleared(t)) /\ KeysOf(Cleared(t)) = {}
<1>1. PICK c : c = [t EXCEPT !.used = 0,
                             !.nodes = [i \in DOMAIN @ |-> [@[i] EXCEPT !.key = Nil,
                                                                        !.val = Nil]]]
  OBVIOUS
<1>2. Cleared(t) = Rehash(c, TRUE)
  BY <1>1 DEF Cleared
<1>3. /\ t = [nodes |-> t.nodes, firstfree |-> t.firstfree, used |-> t.used]
      /\ t.nodes \in Nodes(N) /\ N \in Nat /\ N >= 4
  BY DEF Fits, IsTable
<1>4. /\ c = [nodes |-> c.nodes, firstfree |-> c.firstfree, used |-> c.used]
      /\ c.used = 0 /\ DOMAIN c.nodes = Ids(N)
      /\ c.nodes = [i \in Ids(N) |-> [t.nodes[i] EXCEPT !.key = Nil, !.val = Nil]]
  BY <1>1, <1>3 DEF Nodes
<1>5. c.nodes \in Nodes(N) /\ \A i \in Ids(N) : c.nodes[i].key = Nil
  <2>1. PICK old \in Nodes(N), cut \in {c.nodes} : old = t.nodes /\ cut = c.nodes
    BY <1>3
  <2>2. cut = [i \in Ids(N) |-> [old[i] EXCEPT !.key = Nil, !.val = Nil]]
    BY <1>4, <2>1
  <2>3. cut \in Nodes(N) /\ \A i \in Ids(N) : cut[i].key = Nil
    BY ONLY old \in Nodes(N), <2>2 DEF Nodes
  <2>. QED
    BY <2>1, <2>3
<1>6. IsTable(c, N)
  BY <1>3, <1>4, <1>5 DEF IsTable
<1>7. Slots(c) = {}
  BY <1>4, <1>5 DEF Slots
<1>8. Cardinality(Slots(c)) <= c.used + 1 /\ c.used \in Nat
  <2>1. Cardinality(Slots(c)) = 0
    BY <1>7, FS_EmptySet
  <2>2. c.used = 0
    BY <1>4
  <2>. QED
    BY ONLY <2>1, <2>2
<1>9. KeysDiffer(N, Keys(c.nodes))
  <2>1. \A i \in Ids(N) : Keys(c.nodes)[i] = Nil
    BY <1>5, NodeFunctions
  <2>. QED
    BY <2>1 DEF KeysDiffer
<1>10. KeysOf(c) = {}
  BY <1>7 DEF KeysOf
<1>11. SizeFits(Rehash(c, TRUE)) /\ KeysOf(Rehash(c, TRUE)) = KeysOf(c)
  BY <1>6, <1>8, <1>9, RehashedFits
<1>. QED
  BY <1>2, <1>10, <1>11

LEMMA ClonedFits ==
    ASSUME NEW N \in Sizes, NEW t, Fits(t, N)
    PROVE  /\ ~ Reinserted(t, Size(t)).full
           /\ SizeFits(Cloned(t))
           /\ Contents(Cloned(t)) = Contents(t)
<1>1. IsTable(t, N) /\ KeysDiffer(N, Keys(t.nodes)) /\ Size(t) = N
  BY KeysOfFittingDiffer, TableNodes
<1>2. IsFiniteSet(Slots(t)) /\ Cardinality(Slots(t)) < N
  BY UsedIsNatural
<1>3. N \in Nat /\ N >= 4
  BY SizesAre
<1>4. /\ ~ Reinserted(t, N).full
      /\ Fits(Reinserted(t, N).table, N)
      /\ Contents(Reinserted(t, N).table) = Contents(t)
  BY <1>1, <1>2, <1>3, ReinsertedFits
<1>5. Cloned(t) = Reinserted(t, N).table
  BY <1>1 DEF Cloned
<1>. QED
  BY <1>1, <1>4, <1>5 DEF SizeFits

----------------------------------------------------------------------------
(* The invariant.                                                          *)

\* The keys an iteration finds from position c on.
KeysFrom(t, c) == {t.nodes[i].key : i \in {j \in Slots(t) : j >= c}}

\* An iteration that makes a promise has the keys from its position on left.
TodoFits ==
    /\ cursor \in Nat \cup {NoNode}
    /\ todo # NoKeys => cursor # NoNode /\ todo = KeysFrom(table, cursor)

TableInv == SizeFits(table) /\ TodoFits

LEMMA InitFits == TableInit => TableInv
<1>. SUFFICES ASSUME TableInit PROVE TableInv
  OBVIOUS
<1>1. PICK n \in {MinPower2, 2 * MinPower2} : table = Alloc(n)
  BY DEF TableInit
<1>2. n \in Sizes /\ n \in Nat /\ n >= 4
  BY SizesAre
<1>3. SizeFits(table)
  BY <1>1, <1>2, AllocFits DEF SizeFits
<1>. QED
  BY <1>3 DEF TableInit, TableInv, TodoFits

LEMMA NewSlotFits ==
    ASSUME TableInv, NEW k \in Key, NEW v \in Val, NewSlot(k, v)
    PROVE  /\ TableInv'
           /\ Contents(table') = With(Contents(table), k, v)
<1>1. PICK N \in Sizes : Fits(table, N)
  BY DEF TableInv, SizeFits
<1>2. table' = Inserted(table, k, v) /\ cursor' = cursor
      /\ todo' = IF Find(table, k) = NoNode THEN NoKeys ELSE todo
  BY DEF NewSlot
<1>3. /\ SizeFits(table')
      /\ Contents(table') = With(Contents(table), k, v)
      /\ k \in KeysOf(table) =>
            /\ Slots(table') = Slots(table)
            /\ \A i \in Ids(N) : table'.nodes[i].key = table.nodes[i].key
  BY <1>1, <1>2, InsertedFits
<1>4. Find(table, k) = NoNode <=> k \notin KeysOf(table)
  BY <1>1, FindFails
<1>5. CASE k \in KeysOf(table)
  <2>1. Slots(table) \subseteq Ids(N)
    BY <1>1, UsedIsNatural
  <2>2. KeysFrom(table', cursor) = KeysFrom(table, cursor)
    BY <1>3, <1>5, <2>1 DEF KeysFrom
  <2>3. todo' = todo
    BY <1>2, <1>4, <1>5
  <2>. QED
    BY <1>2, <1>3, <2>2, <2>3 DEF TableInv, TodoFits
<1>6. CASE k \notin KeysOf(table)
  BY <1>2, <1>3, <1>4, <1>6 DEF TableInv, TodoFits
<1>. QED
  BY <1>3, <1>5, <1>6

LEMMA SetKeepsFit ==
    ASSUME TableInv, NEW k \in Key \cup {Nil}, NEW v \in Val, Set(k, v)
    PROVE  /\ TableInv'
           /\ k \in Key => /\ k \in KeysOf(table)
                           /\ Contents(table') = With(Contents(table), k, v)
           /\ k = Nil => Contents(table') = Contents(table)
<1>1. PICK N \in Sizes : Fits(table, N)
  BY DEF TableInv, SizeFits
<1>2. PICK n : n = Find(table, k)
  OBVIOUS
<1>3. /\ n # NoNode /\ table' = [table EXCEPT !.nodes[n].val = v]
      /\ cursor' = cursor /\ todo' = todo
  BY <1>2 DEF Set
<1>4. n \in Ids(N) /\ table.nodes[n].key = k
  <2>1. IsTable(table, N)
    BY <1>1 DEF Fits
  <2>. QED
    BY <1>2, <1>3, <2>1, FindIsNode
<1>5. v \in Val \cup {Nil}
  OBVIOUS
<1>6. /\ Fits(table', N)
      /\ Slots(table') = Slots(table)
      /\ \A i \in Ids(N) : table'.nodes[i].key = table.nodes[i].key
      /\ n \in Slots(table) => Contents(table') = With(Contents(table), table.nodes[n].key, v)
      /\ n \notin Slots(table) => Contents(table') = Contents(table)
  BY <1>1, <1>3, <1>4, <1>5, SetFits
<1>7. Slots(table) \subseteq Ids(N) /\ DOMAIN table.nodes = Ids(N)
  BY <1>1, UsedIsNatural, TableNodes DEF Fits
<1>8. KeysFrom(table', cursor) = KeysFrom(table, cursor)
  BY <1>6, <1>7 DEF KeysFrom
<1>9. TableInv'
  BY <1>3, <1>6, <1>8 DEF TableInv, TodoFits, SizeFits
<1>10. ASSUME k \in Key
       PROVE  k \in KeysOf(table) /\ Contents(table') = With(Contents(table), k, v)
  <2>1. k # Nil
    BY <1>10, HashTableAssumption
  <2>2. n \in Slots(table)
    BY <1>4, <1>7, <2>1 DEF Slots
  <2>. QED
    BY <1>4, <1>6, <2>2 DEF KeysOf
<1>11. ASSUME k = Nil PROVE Contents(table') = Contents(table)
  BY <1>4, <1>6, <1>11 DEF Slots
<1>. QED
  BY <1>9, <1>10, <1>11

LEMMA DeleteSlotFits ==
    ASSUME TableInv, NEW k \in Key, DeleteSlot(k)
    PROVE  /\ TableInv'
           /\ k \in KeysOf(table)
           /\ Contents(table') = Without(Contents(table), k)
           /\ \/ todo' = NoKeys
              \/ todo # NoKeys /\ todo' = todo \ {k}
<1>1. PICK N \in Sizes : Fits(table, N)
  BY DEF TableInv, SizeFits
<1>2. /\ Find(table, k) # NoNode /\ table' = Removed(table, k) /\ cursor' = cursor
      /\ todo' = IF Size(table') # Size(table) THEN NoKeys ELSE todo \ {k}
  BY DEF DeleteSlot
<1>3. k \in KeysOf(table) /\ k # Nil
  BY <1>1, <1>2, FindFails, HashTableAssumption
<1>4. PICK n \in Slots(table) : k = table.nodes[n].key
  BY <1>3 DEF KeysOf
<1>5. /\ SizeFits(table')
      /\ Contents(table') = Without(Contents(table), k)
      /\ Size(table') = N => /\ Slots(table') = Slots(table) \ {n}
                             /\ \A i \in Slots(table') : table'.nodes[i].key = table.nodes[i].key
  BY <1>1, <1>2, <1>4, RemovedFits
<1>6. IsTable(table, N) /\ KeysDiffer(N, Keys(table.nodes)) /\ Size(table) = N
  BY <1>1, KeysOfFittingDiffer, TableNodes
<1>7. CASE Size(table') # N
  <2>1. todo' = NoKeys
    BY <1>2, <1>6, <1>7
  <2>. QED
    BY <1>2, <1>3, <1>5, <2>1 DEF TableInv, TodoFits
<1>8. CASE Size(table') = N
  <2>1. todo' = todo \ {k}
    BY <1>2, <1>6, <1>8
  <2>2. \A i \in Slots(table) : table.nodes[i].key = k => i = n
    <3>1. \A i \in Slots(table) : i \in Ids(N) /\ Keys(table.nodes)[i] = table.nodes[i].key
      BY <1>6, TableNodes DEF Slots
    <3>. QED
      BY <1>3, <1>4, <1>6, <3>1 DEF KeysDiffer
  <2>3. KeysFrom(table', cursor) = KeysFrom(table, cursor) \ {k}
    BY <1>4, <1>5, <1>8, <2>2 DEF KeysFrom
  <2>4. CASE todo = NoKeys
    <3>1. todo' = NoKeys
      BY <1>3, <2>1, <2>4 DEF NoKeys
    <3>. QED
      BY <1>2, <1>3, <1>5, <3>1 DEF TableInv, TodoFits
  <2>5. CASE todo # NoKeys
    <3>1. cursor # NoNode /\ todo = KeysFrom(table, cursor)
      BY <2>5 DEF TableInv, TodoFits
    <3>. QED
      BY <1>2, <1>3, <1>5, <2>1, <2>3, <2>5, <3>1 DEF TableInv, TodoFits
  <2>. QED
    BY <2>4, <2>5
<1>. QED
  BY <1>7, <1>8

LEMMA ClearFits ==
    ASSUME TableInv, Clear
    PROVE  TableInv' /\ KeysOf(table') = {}
<1>1. PICK N \in Sizes : Fits(table, N)
  BY DEF TableInv, SizeFits
<1>2. table' = Cleared(table) /\ todo' = NoKeys /\ cursor' = cursor
  BY DEF Clear
<1>3. SizeFits(table') /\ KeysOf(table') = {}
  BY <1>1, <1>2, ClearedFits
<1>. QED
  BY <1>2, <1>3 DEF TableInv, TodoFits

LEMMA CloneFits ==
    ASSUME TableInv, Clone
    PROVE  TableInv' /\ Contents(table') = Contents(table)
<1>1. PICK N \in Sizes : Fits(table, N)
  BY DEF TableInv, SizeFits
<1>2. table' = Cloned(table) /\ todo' = NoKeys /\ cursor' = NoNode
  BY DEF Clone
<1>3. SizeFits(table') /\ Contents(table') = Contents(table)
  BY <1>1, <1>2, ClonedFits
<1>. QED
  BY <1>2, <1>3 DEF TableInv, TodoFits

LEMMA BeginFits ==
    ASSUME TableInv, Begin
    PROVE  TableInv'
<1>1. PICK N \in Sizes : Fits(table, N)
  BY DEF TableInv, SizeFits
<1>2. table' = table /\ todo' = KeysOf(table) /\ cursor' = 0
  BY DEF Begin
<1>3. \A j \in Slots(table) : j >= 0
  BY <1>1, UsedIsNatural DEF Ids
<1>4. KeysFrom(table, 0) = KeysOf(table)
  BY <1>3 DEF KeysFrom, KeysOf
<1>5. 0 # NoNode
  BY DEF NoNode
<1>. QED
  BY <1>2, <1>4, <1>5 DEF TableInv, TodoFits

\* Next returns the first key from its position on, or ends when there is
\* none.
LEMMA IterateFits ==
    ASSUME TableInv, Iterate
    PROVE  /\ TableInv'
           /\ \/ \E k \in KeysOf(table) :
                    /\ todo # NoKeys => k \in todo
                    /\ todo' = IF todo = NoKeys THEN NoKeys ELSE todo \ {k}
                    /\ last' = <<k, Contents(table)[k]>>
              \/ todo \in {NoKeys, {}} /\ todo' = NoKeys /\ last' = <<>>
<1>1. PICK N \in Sizes : Fits(table, N)
  BY DEF TableInv, SizeFits
<1>2. /\ IsTable(table, N) /\ KeysDiffer(N, Keys(table.nodes))
      /\ Slots(table) \subseteq Ids(N) /\ DOMAIN table.nodes = Ids(N)
      /\ \A i \in Ids(N) : Keys(table.nodes)[i] = table.nodes[i].key
  BY <1>1, KeysOfFittingDiffer, UsedIsNatural, TableNodes
<1>3. /\ cursor \in Nat /\ table' = table
      /\ todo # NoKeys => todo = KeysFrom(table, cursor)
  BY DEF Iterate, TableInv, TodoFits
<1>. DEFINE rest == {i \in Slots(table) : i >= cursor}
            n == table.nodes[Min(rest)]
<1>4. \/ /\ rest # {} /\ cursor' = Min(rest) + 1 /\ todo' = todo \ {n.key}
         /\ last' = <<n.key, n.val>>
      \/ rest = {} /\ cursor' = NoNode /\ todo' = NoKeys /\ last' = <<>>
  BY DEF Iterate
<1>5. CASE rest = {}
  <2>1. cursor' = NoNode /\ todo' = NoKeys /\ last' = <<>>
    BY <1>4, <1>5
  <2>2. KeysFrom(table, cursor) = {}
    BY <1>5 DEF KeysFrom
  <2>. QED
    BY <1>3, <2>1, <2>2 DEF TableInv, TodoFits
<1>6. CASE rest # {}
  <2>1. rest \in SUBSET Nat
    BY <1>2 DEF Ids
  <2>2. PICK m \in rest : m = Min(rest) /\ \A y \in rest : m <= y
    BY <1>6, <2>1, MinIsLeast
  <2>3. /\ cursor' = m + 1 /\ todo' = todo \ {table.nodes[m].key}
        /\ last' = <<table.nodes[m].key, table.nodes[m].val>>
        /\ m \in Slots(table) /\ m \in Nat /\ m >= cursor
    BY <1>4, <1>6, <2>1, <2>2
  <2>4. \A i \in Slots(table) : i \in Nat /\ (i >= cursor => m <= i)
    BY <1>2, <2>2 DEF Ids
  <2>. HIDE DEF rest
  <2>5. PICK k : k = table.nodes[m].key
    OBVIOUS
  <2>6. /\ k \in KeysOf(table) /\ k # Nil
        /\ Contents(table)[k] = table.nodes[m].val
    BY <1>2, <2>3, <2>5, ContentsAre DEF Slots
  <2>7. \A i \in Slots(table) : table.nodes[i].key = k => i = m
    BY <1>2, <2>3, <2>5, <2>6 DEF KeysDiffer
  <2>8. \A i \in Slots(table) : i >= m + 1 <=> i >= cursor /\ i # m
    BY <1>3, <2>3, <2>4
  <2>9. KeysFrom(table, m + 1) = KeysFrom(table, cursor) \ {k}
    BY <2>5, <2>7, <2>8 DEF KeysFrom
  <2>10. k \in KeysFrom(table, cursor)
    BY <2>3, <2>5 DEF KeysFrom
  <2>11. m + 1 \in Nat /\ m + 1 # NoNode
    BY <2>3 DEF NoNode
  <2>12. CASE todo = NoKeys
    <3>1. todo' = NoKeys
      BY <2>3, <2>5, <2>6, <2>12 DEF NoKeys
    <3>2. TableInv'
      BY <1>3, <2>3, <2>11, <3>1 DEF TableInv, TodoFits
    <3>. QED
      BY <2>3, <2>5, <2>6, <2>12, <3>1, <3>2
  <2>13. CASE todo # NoKeys
    <3>1. todo = KeysFrom(table, cursor) /\ todo' = KeysFrom(table, m + 1)
      BY <1>3, <2>3, <2>5, <2>9, <2>13
    <3>2. TableInv'
      BY <1>3, <2>3, <2>11, <3>1 DEF TableInv, TodoFits
    <3>. QED
      BY <2>3, <2>5, <2>6, <2>10, <2>13, <3>1, <3>2
  <2>. QED
    BY <2>12, <2>13
<1>. QED
  BY <1>5, <1>6

LEMMA StepFits == TableInv /\ [TableNext]_tableVars => TableInv'
<1>. SUFFICES ASSUME TableInv, [TableNext]_tableVars PROVE TableInv'
  OBVIOUS
<1>1. CASE UNCHANGED tableVars
  BY <1>1 DEF tableVars, TableInv, TodoFits
<1>2. ASSUME NEW k \in Key, NEW v \in Val, NewSlot(k, v) PROVE TableInv'
  BY <1>2, NewSlotFits
<1>3. ASSUME NEW k \in Key \cup {Nil}, NEW v \in Val, Set(k, v) PROVE TableInv'
  BY <1>3, SetKeepsFit
<1>4. ASSUME NEW k \in Key, DeleteSlot(k) PROVE TableInv'
  BY <1>4, DeleteSlotFits
<1>5. CASE Clear
  BY <1>5, ClearFits
<1>6. CASE Clone
  BY <1>6, CloneFits
<1>7. CASE Begin
  BY <1>7, BeginFits
<1>8. CASE Iterate
  BY <1>8, IterateFits
<1>. QED
  BY <1>1, <1>2, <1>3, <1>4, <1>5, <1>6, <1>7, <1>8 DEF TableNext

LEMMA TableInvariance == TableSpec => []TableInv
BY InitFits, StepFits, PTL DEF TableSpec

\* What the invariant says of the lookups, NewSlot and Rehash.
LEMMA FitsIsFound ==
    ASSUME TableInv
    PROVE  KeysAreFound
<1>1. PICK N \in Sizes : Fits(table, N)
  BY DEF TableInv, SizeFits
<1>2. /\ IsTable(table, N) /\ DOMAIN table.nodes = Ids(N) /\ Size(table) = N
      /\ N \in Nat \ {0}
      /\ \A i \in Ids(N) : /\ Nexts(table.nodes)[i] = table.nodes[i].next
                           /\ Keys(table.nodes)[i] = table.nodes[i].key
  BY <1>1, TableNodes DEF Fits
<1>3. LookupsFind
  <2>1. ASSUME NEW h \in Ids(N)
        PROVE  \/ Path(table, h)[N] = NoNode
               \/ table.nodes[Path(table, h)[N]].next = NoNode
    <3>1. Path(table, h)[N] = NoNode \/ Nexts(table.nodes)[Path(table, h)[N]] = NoNode
      BY <1>1, <1>2, PathOfTable, PathEnds, TableNodes DEF Fits, LinksFit
    <3>2. Path(table, h)[N] \in Ids(N) \cup {NoNode}
      BY <1>2, PathNodes
    <3>. QED
      BY <1>2, <3>1, <3>2
  <2>. QED
    BY <1>1, <1>2, <2>1, FindsKey DEF LookupsFind, ChainsEnd
<1>4. FirstFreeIsFree
  <2>1. /\ table.firstfree \in Ids(N)
        /\ Nexts(table.nodes)[table.firstfree] = NoNode
        /\ Keys(table.nodes)[table.firstfree] = Nil
        /\ \A i \in Ids(N) : Nexts(table.nodes)[i] # NoNode
                               => Nexts(table.nodes)[i] > table.firstfree
    BY <1>1 DEF Fits, LinksFit, KeysFit
  <2>2. table.firstfree # NoNode /\ ~ (table.firstfree > table.firstfree)
    BY <2>1 DEF Ids, NoNode
  <2>. QED
    BY <1>2, <2>1, <2>2 DEF FirstFreeIsFree
<1>5. UsedCountsKeys
  BY <1>1 DEF Fits, UsedCountsKeys
<1>6. RehashFits
  <2>1. ~ Reinserted(table, Size(table)).full
    BY <1>1, ClonedFits
  <2>2. ASSUME NEW k \in Key \ KeysOf(table), Insert(table, k, Nil).full
        PROVE  LET u == Insert(table, k, Nil).table
               IN  ~ Reinserted(u, NewSize(u)).full
    <3>1. PICK u : u = Insert(table, k, Nil).table
      OBVIOUS
    <3>2. /\ IsTable(u, N)
          /\ KeysDiffer(N, Keys(u.nodes))
          /\ Cardinality(Slots(u)) = u.used + 1 /\ u.used \in Nat
      BY <1>1, <2>2, <3>1, InsertFull
    <3>3. Cardinality(Slots(u)) <= u.used + 1
      BY <3>2
    <3>4. ~ Reinserted(u, NewSize(u)).full
      BY <3>2, <3>3, HashedAgain
    <3>. QED
      BY <3>1, <3>4
  <2>. QED
    BY <2>1, <2>2 DEF RehashFits
<1>. QED
  BY <1>3, <1>4, <1>5, <1>6 DEF KeysAreFound

\* Whatever keys NewSlot moved, Remove took out and Rehash put in again, _Get
\* ends and finds each key where it is; _firstfree is free, _usednodes counts
\* the keys, and Rehash and Clone have room for them.
THEOREM TableFindsKeys == TableSpec => []KeysAreFound
<1>1. TableInv => KeysAreFound
  BY FitsIsFound
<1>. QED
  BY <1>1, TableInvariance, PTL

\* The types of the table and of its iteration.
THEOREM TableTypesOK == TableSpec => []TableTypeOK
<1>1. ASSUME TableInv
      PROVE  TableTypeOK
  <2>1. PICK N \in Sizes : Fits(table, N)
    BY <1>1 DEF TableInv, SizeFits
  <2>2. table.nodes \in Nodes(N) /\ DOMAIN table.nodes = Ids(N)
    BY <2>1, TableNodes DEF Fits, IsTable
  <2>3. table.firstfree \in Ids(N) /\ table.used \in Nat
    BY <2>1, UsedIsNatural DEF Fits, LinksFit
  <2>4. todo \subseteq Key \cup {Nil}
    <3>1. KeysFrom(table, cursor) \subseteq Key \cup {Nil}
      BY <2>2 DEF KeysFrom, Slots, Nodes
    <3>. QED
      BY <1>1, <3>1 DEF TableInv, TodoFits, NoKeys
  <2>. QED
    BY <1>1, <2>2, <2>3, <2>4 DEF TableTypeOK, TableInv, TodoFits, Nodes
<1>. QED
  BY <1>1, TableInvariance, PTL

----------------------------------------------------------------------------
(* The table as a Dictionary.                                              *)

LEMMA EmptyContents ==
    ASSUME NEW t, KeysOf(t) = {}
    PROVE  Contents(t) = Dict!Empty
BY DEF Contents, Dict!Empty

LEMMA StepMaps ==
    ASSUME TableInv, [TableNext]_tableVars
    PROVE  [Dict!Next]_(Dict!vars)
<1>. DEFINE dict == Contents(table)
<1>0. DOMAIN dict = KeysOf(table) /\ dict = [j \in DOMAIN dict |-> dict[j]]
  BY DEF Contents
<1>9. PICK N \in Sizes : Fits(table, N)
  BY DEF TableInv, SizeFits
<1>1. CASE UNCHANGED tableVars
  BY <1>1 DEF tableVars, Dict!vars
<1>2. ASSUME NEW k \in Key, NEW v \in Val, NewSlot(k, v)
      PROVE  Dict!NewSlot(k, v)
  <2>1. Contents(table') = With(dict, k, v)
    BY <1>2, NewSlotFits
  <2>2. /\ todo' = IF Find(table, k) = NoNode THEN NoKeys ELSE todo
        /\ last' = <<>>
    BY <1>2 DEF NewSlot
  <2>3. Find(table, k) = NoNode <=> k \notin KeysOf(table)
    BY <1>9, FindFails
  <2>. QED
    BY <1>0, <2>1, <2>2, <2>3 DEF Dict!NewSlot, With
<1>3. ASSUME NEW k \in Key, NEW v \in Val, Set(k, v)
      PROVE  Dict!Set(k, v)
  <2>1. k \in KeysOf(table) /\ Contents(table') = With(dict, k, v)
    BY <1>3, SetKeepsFit
  <2>2. With(dict, k, v) = [dict EXCEPT ![k] = v]
    BY <1>0, <2>1 DEF With
  <2>3. last' = <<>> /\ todo' = todo
    BY <1>3 DEF Set
  <2>. QED
    BY <1>0, <2>1, <2>2, <2>3 DEF Dict!Set
<1>4. ASSUME NEW v \in Val, Set(Nil, v)
      PROVE  Dict!SetNull
  <2>1. Contents(table') = dict
    BY <1>4, SetKeepsFit
  <2>2. last' = <<>> /\ todo' = todo
    BY <1>4 DEF Set
  <2>. QED
    BY <2>1, <2>2 DEF Dict!SetNull
<1>5. ASSUME NEW k \in Key, DeleteSlot(k)
      PROVE  Dict!DeleteSlot(k)
  <2>1. /\ k \in KeysOf(table)
        /\ Contents(table') = Without(dict, k)
        /\ \/ todo' = NoKeys
           \/ todo # NoKeys /\ todo' = todo \ {k}
    BY <1>5, DeleteSlotFits
  <2>2. last' = <<>>
    BY <1>5 DEF DeleteSlot
  <2>. QED
    BY <1>0, <2>1, <2>2 DEF Dict!DeleteSlot, Without
<1>6. ASSUME Clear PROVE Dict!Clear
  <2>1. Contents(table') = Dict!Empty
    BY <1>6, ClearFits, EmptyContents
  <2>. QED
    BY <1>6, <2>1 DEF Clear, Dict!Clear
<1>7. ASSUME Clone PROVE Dict!Clone
  <2>1. Contents(table') = dict
    BY <1>7, CloneFits
  <2>. QED
    BY <1>7, <2>1 DEF Clone, Dict!Clone
<1>8. ASSUME Begin PROVE Dict!Begin
  BY <1>0, <1>8 DEF Begin, Dict!Begin
<1>10. ASSUME Iterate PROVE Dict!Iterate \/ Dict!End
  <2>1. \/ \E k \in KeysOf(table) :
               /\ todo # NoKeys => k \in todo
               /\ todo' = IF todo = NoKeys THEN NoKeys ELSE todo \ {k}
               /\ last' = <<k, dict[k]>>
        \/ todo \in {NoKeys, {}} /\ todo' = NoKeys /\ last' = <<>>
    BY <1>10, IterateFits
  <2>2. table' = table
    BY <1>10 DEF Iterate
  <2>. QED
    BY <1>0, <2>1, <2>2 DEF Dict!Iterate, Dict!End
<1>. QED
  BY <1>1, <1>2, <1>3, <1>4, <1>5, <1>6, <1>7, <1>8, <1>10 DEF TableNext, Dict!Next

\* To a script a table is a map: what NewSlot, Set, DeleteSlot, Clear and
\* Clone do to its nodes is what they do to the map, and an iteration returns
\* each key once.
THEOREM TableIsDictionary == TableSpec => IsDictionary
<1>1. TableInit => Dict!Init
  <2>. SUFFICES ASSUME TableInit PROVE Dict!Init
    OBVIOUS
  <2>1. PICK n \in {MinPower2, 2 * MinPower2} : table = Alloc(n)
    BY DEF TableInit
  <2>2. n \in Nat /\ n >= 4
    BY SizesAre
  <2>3. Contents(table) = Dict!Empty
    BY <2>1, <2>2, AllocFits, EmptyContents
  <2>. QED
    BY <2>3 DEF TableInit, Dict!Init
<1>2. TableInv /\ [TableNext]_tableVars => [Dict!Next]_(Dict!vars)
  BY StepMaps
<1>. QED
  BY <1>1, <1>2, TableInvariance, PTL DEF TableSpec, IsDictionary, Dict!Spec

----------------------------------------------------------------------------
(* The string table.  Its lists hold each string once, in the slot of its  *)
(* hash; the two loops of Resize are functions by recursion, so what they  *)
(* have done after each step is shown by induction.                        *)

\* The strings in the lists of tab, and the lists of n slots as they should
\* be.
InLists(tab) == {s \in String : \E h \in DOMAIN tab : Contains(tab[h], s)}

ListsFit(tab, n) ==
    /\ n \in Nat \ {0}
    /\ tab \in [0 .. n - 1 -> Seq(String)]
    /\ \A h \in 0 .. n - 1 : IsInjective(tab[h])
    /\ \A h \in 0 .. n - 1 : \A i \in 1 .. Len(tab[h]) : Slot(tab[h][i], n) = h

LEMMA SlotIsThere ==
    ASSUME NEW n \in Nat \ {0}, NEW s \in String
    PROVE  Slot(s, n) \in 0 .. n - 1
<1>1. HashStr[s] \in Nat
  BY StringTableAssumption
<1>. QED
  BY <1>1 DEF Slot

LEMMA ConsFacts ==
    ASSUME NEW list \in Seq(String), NEW s \in String
    PROVE  /\ <<s>> \o list \in Seq(String)
           /\ Len(<<s>> \o list) = Len(list) + 1
           /\ \A i \in 1 .. Len(list) + 1 :
                 (<<s>> \o list)[i] = IF i = 1 THEN s ELSE list[i - 1]
OBVIOUS

\* A string that is not in a list can become its first.
LEMMA ConsInjective ==
    ASSUME NEW list \in Seq(String), NEW s \in String,
           IsInjective(list), ~ Contains(list, s)
    PROVE  IsInjective(<<s>> \o list)
<1>. DEFINE more == <<s>> \o list
<1>1. SUFFICES ASSUME NEW a \in 1 .. Len(list) + 1, NEW b \in 1 .. Len(list) + 1,
                      more[a] = more[b], a < b
               PROVE  FALSE
  BY ConsFacts DEF IsInjective
<1>2. more[b] = list[b - 1] /\ b - 1 \in 1 .. Len(list)
  BY <1>1, ConsFacts
<1>3. CASE a = 1
  BY <1>1, <1>2, <1>3, ConsFacts DEF Contains
<1>4. CASE a # 1
  <2>1. more[a] = list[a - 1] /\ a - 1 \in 1 .. Len(list)
    BY <1>1, <1>4, ConsFacts
  <2>. QED
    BY <1>1, <1>2, <2>1 DEF IsInjective
<1>. QED
  BY <1>3, <1>4

LEMMA ConsContains ==
    ASSUME NEW list \in Seq(String), NEW s \in String, NEW t
    PROVE  Contains(<<s>> \o list, t) <=> t = s \/ Contains(list, t)
<1>1. ASSUME Contains(<<s>> \o list, t) PROVE t = s \/ Contains(list, t)
  BY <1>1, ConsFacts DEF Contains
<1>2. ASSUME t = s PROVE Contains(<<s>> \o list, t)
  BY <1>2, ConsFacts DEF Contains
<1>3. ASSUME Contains(list, t) PROVE Contains(<<s>> \o list, t)
  <2>1. PICK i \in 1 .. Len(list) : list[i] = t
    BY <1>3 DEF Contains
  <2>2. PICK j \in 1 .. Len(list) + 1 : j # 1 /\ j - 1 = i
    OBVIOUS
  <2>3. (<<s>> \o list)[j] = t
    BY <2>1, <2>2, ConsFacts
  <2>4. Len(<<s>> \o list) = Len(list) + 1
    BY ConsFacts
  <2>. QED
    BY <2>3, <2>4 DEF Contains
<1>. QED
  BY <1>1, <1>2, <1>3

\* Linking a string that is in no list.
LEMMA LinkedFits ==
    ASSUME NEW n, NEW tab, ListsFit(tab, n), NEW s \in String, s \notin InLists(tab)
    PROVE  /\ ListsFit(Linked(tab, s, n), n)
           /\ InLists(Linked(tab, s, n)) = InLists(tab) \cup {s}
<1>1. PICK h : h = Slot(s, n)
  OBVIOUS
<1>2. PICK u : u = Linked(tab, s, n)
  OBVIOUS
<1>3. /\ n \in Nat \ {0} /\ tab \in [0 .. n - 1 -> Seq(String)]
      /\ h \in 0 .. n - 1
  BY <1>1, SlotIsThere DEF ListsFit
<1>4. u = [tab EXCEPT ![h] = <<s>> \o tab[h]]
  BY <1>1, <1>2 DEF Linked
<1>5. PICK list \in Seq(String) : list = tab[h]
  BY <1>3
<1>6. /\ DOMAIN u = 0 .. n - 1
      /\ u[h] = <<s>> \o list
      /\ \A g \in 0 .. n - 1 : g # h => u[g] = tab[g]
  BY <1>3, <1>4, <1>5
<1>7. <<s>> \o list \in Seq(String)
  BY ConsFacts
<1>8. u \in [0 .. n - 1 -> Seq(String)]
  BY <1>3, <1>4, <1>5, <1>7
<1>9. ~ Contains(list, s)
  BY <1>3, <1>5 DEF InLists
<1>10. ASSUME NEW g \in 0 .. n - 1
       PROVE  /\ IsInjective(u[g])
              /\ \A i \in 1 .. Len(u[g]) : Slot(u[g][i], n) = g
  <2>1. CASE g # h
    BY <1>6, <2>1 DEF ListsFit
  <2>2. CASE g = h
    <3>1. IsInjective(u[g])
      BY <1>5, <1>6, <1>9, <2>2, ConsInjective DEF ListsFit
    <3>2. ASSUME NEW i \in 1 .. Len(u[g]) PROVE Slot(u[g][i], n) = g
      <4>1. i \in 1 .. Len(list) + 1 /\ u[g][i] = IF i = 1 THEN s ELSE list[i - 1]
        BY <1>6, <2>2, <3>2, ConsFacts
      <4>2. i # 1 => i - 1 \in 1 .. Len(list)
        BY <4>1
      <4>3. \A j \in 1 .. Len(list) : Slot(list[j], n) = h
        BY <1>3, <1>5 DEF ListsFit
      <4>. QED
        BY <1>1, <2>2, <4>1, <4>2, <4>3
    <3>. QED
      BY <3>1, <3>2
  <2>. QED
    BY <2>1, <2>2
<1>11. ListsFit(u, n)
  BY <1>3, <1>8, <1>10 DEF ListsFit
<1>12. ASSUME NEW t \in String PROVE t \in InLists(u) <=> t \in InLists(tab) \/ t = s
  <2>1. Contains(u[h], t) <=> t = s \/ Contains(tab[h], t)
    BY <1>5, <1>6, ConsContains
  <2>2. \A g \in 0 .. n - 1 : g # h => (Contains(u[g], t) <=> Contains(tab[g], t))
    BY <1>6
  <2>3. DOMAIN u = 0 .. n - 1 /\ DOMAIN tab = 0 .. n - 1
    BY <1>3, <1>6
  <2>. QED
    BY <1>3, <2>1, <2>2, <2>3 DEF InLists
<1>. QED
  BY <1>2, <1>11, <1>12 DEF InLists

\* The loop of Resize over one list, step by step.
LEMMA AllLinkedSteps ==
    ASSUME NEW tab, NEW list \in Seq(String), NEW n
    PROVE  \E q : /\ q[0] = tab
                  /\ \A i \in 1 .. Len(list) : q[i] = Linked(q[i - 1], list[i], n)
                  /\ AllLinked(tab, list, n) = q[Len(list)]
<1>. DEFINE steps(m, q) == q = [i \in 0 .. m |-> IF i = 0 THEN tab
                                                 ELSE Linked(q[i - 1], list[i], n)]
            S == {m \in Nat : \E q : steps(m, q)}
<1>1. 0 \in S
  <2>. DEFINE q == [i \in 0 .. 0 |-> tab]
  <2>1. q = [i \in 0 .. 0 |-> IF i = 0 THEN tab ELSE Linked(q[i - 1], list[i], n)]
    OBVIOUS
  <2>2. steps(0, q)
    BY <2>1
  <2>. HIDE DEF steps, q
  <2>. QED
    BY <2>2
<1>2. ASSUME NEW m \in S PROVE m + 1 \in S
  <2>1. PICK p : steps(m, p)
    OBVIOUS
  <2>2. \A i \in 0 .. m : p[i] = IF i = 0 THEN tab ELSE Linked(p[i - 1], list[i], n)
    BY <2>1
  <2>. DEFINE q == [i \in 0 .. m + 1 |-> IF i = 0 THEN tab
                                         ELSE Linked(p[i - 1], list[i], n)]
  <2>3. \A i \in 0 .. m : q[i] = p[i]
    BY <2>2
  <2>4. \A i \in 0 .. m + 1 : i # 0 => i - 1 \in 0 .. m
    OBVIOUS
  <2>5. q = [i \in 0 .. m + 1 |-> IF i = 0 THEN tab ELSE Linked(q[i - 1], list[i], n)]
    BY <2>3, <2>4
  <2>6. steps(m + 1, q)
    BY <2>5
  <2>. HIDE DEF q, steps
  <2>. QED
    BY <2>6
<1>3. S = Nat
  <2>. HIDE DEF steps
  <2>. QED
    BY <1>1, <1>2, AllNaturals
<1>4. PICK p : steps(Len(list), p)
  BY <1>3
<1>5. PICK q : q = CHOOSE r : steps(Len(list), r)
  OBVIOUS
<1>6. steps(Len(list), q)
  BY <1>4, <1>5
<1>7. AllLinked(tab, list, n) = q[Len(list)]
  BY <1>5 DEF AllLinked
<1>8. \A i \in 0 .. Len(list) : q[i] = IF i = 0 THEN tab ELSE Linked(q[i - 1], list[i], n)
  BY <1>6
<1>9. q[0] = tab /\ \A i \in 1 .. Len(list) : q[i] = Linked(q[i - 1], list[i], n)
  BY <1>8
<1>. QED
  BY <1>7, <1>9

\* One list is linked: its strings are in tab, if none was before.
LEMMA AllLinkedFits ==
    ASSUME NEW n, NEW tab, ListsFit(tab, n), NEW list \in Seq(String), IsInjective(list),
           \A i \in 1 .. Len(list) : list[i] \notin InLists(tab)
    PROVE  /\ ListsFit(AllLinked(tab, list, n), n)
           /\ InLists(AllLinked(tab, list, n))
                = InLists(tab) \cup {list[i] : i \in 1 .. Len(list)}
<1>1. PICK q : /\ q[0] = tab
               /\ \A i \in 1 .. Len(list) : q[i] = Linked(q[i - 1], list[i], n)
               /\ AllLinked(tab, list, n) = q[Len(list)]
  BY SMTT(30), AllLinkedSteps
<1>. DEFINE Done(m) == /\ ListsFit(q[m], n)
                       /\ InLists(q[m]) = InLists(tab) \cup {list[i] : i \in 1 .. m}
            S == {m \in Nat : m <= Len(list) => Done(m)}
<1>2. 0 \in S
  BY <1>1
<1>3. ASSUME NEW m \in S PROVE m + 1 \in S
  <2>1. SUFFICES ASSUME m + 1 <= Len(list) PROVE Done(m + 1)
    OBVIOUS
  <2>2. PICK k \in 1 .. Len(list) : k = m + 1 /\ k - 1 = m
    BY <2>1
  <2>3. Done(m)
    BY <2>1
  <2>4. list[k] \in String
    OBVIOUS
  <2>5. \A i \in 1 .. m : list[i] # list[k]
    BY <2>2 DEF IsInjective
  <2>6. list[k] \notin InLists(q[m])
    BY <2>3, <2>5
  <2>7. PICK u : u = q[m]
    OBVIOUS
  <2>8. q[k] = Linked(u, list[k], n)
    BY <1>1, <2>2, <2>7
  <2>9. ListsFit(q[k], n) /\ InLists(q[k]) = InLists(u) \cup {list[k]}
    BY <2>3, <2>4, <2>6, <2>7, <2>8, LinkedFits
  <2>10. {list[i] : i \in 1 .. k} = {list[i] : i \in 1 .. m} \cup {list[k]}
    BY <2>2
  <2>11. InLists(q[k]) = InLists(tab) \cup {list[i] : i \in 1 .. k}
    BY <2>3, <2>7, <2>9, <2>10
  <2>. QED
    BY <2>2, <2>9, <2>11
<1>4. S = Nat
  <2>. HIDE DEF Done
  <2>. QED
    BY <1>2, <1>3, AllNaturals
<1>5. Done(Len(list))
  BY <1>4
<1>. QED
  BY <1>1, <1>5

\* The loop of Resize over the slots.
LEMMA RelinkedSteps ==
    ASSUME NEW n, NEW M, NEW tab, ListsFit(tab, M)
    PROVE  \E q : /\ q[0] = NoStrings(n)
                  /\ \A h \in 1 .. M : q[h] = AllLinked(q[h - 1], tab[h - 1], n)
                  /\ Relinked(tab, n) = q[M]
<1>0. M \in Nat /\ SlotsOf(tab) = M
  <2>1. M \in Nat /\ DOMAIN tab = 0 .. M - 1
    BY DEF ListsFit
  <2>2. Cardinality(0 .. M - 1) = M
    BY <2>1, FS_Interval
  <2>. QED
    BY <2>1, <2>2 DEF SlotsOf
<1>. DEFINE steps(m, q) == q = [h \in 0 .. m |-> IF h = 0 THEN NoStrings(n)
                                                 ELSE AllLinked(q[h - 1], tab[h - 1], n)]
            S == {m \in Nat : \E q : steps(m, q)}
<1>1. 0 \in S
  <2>. DEFINE q == [h \in 0 .. 0 |-> NoStrings(n)]
  <2>1. q = [h \in 0 .. 0 |-> IF h = 0 THEN NoStrings(n) ELSE AllLinked(q[h - 1], tab[h - 1], n)]
    OBVIOUS
  <2>2. steps(0, q)
    BY <2>1
  <2>. HIDE DEF steps, q
  <2>. QED
    BY <2>2
<1>2. ASSUME NEW m \in S PROVE m + 1 \in S
  <2>1. PICK p : steps(m, p)
    OBVIOUS
  <2>2. \A h \in 0 .. m : p[h] = IF h = 0 THEN NoStrings(n)
                                 ELSE AllLinked(p[h - 1], tab[h - 1], n)
    BY <2>1
  <2>. DEFINE q == [h \in 0 .. m + 1 |-> IF h = 0 THEN NoStrings(n)
                                         ELSE AllLinked(p[h - 1], tab[h - 1], n)]
  <2>3. \A h \in 0 .. m : q[h] = p[h]
    BY <2>2
  <2>4. \A h \in 0 .. m + 1 : h # 0 => h - 1 \in 0 .. m
    OBVIOUS
  <2>5. q = [h \in 0 .. m + 1 |-> IF h = 0 THEN NoStrings(n)
                                  ELSE AllLinked(q[h - 1], tab[h - 1], n)]
    BY <2>3, <2>4
  <2>6. steps(m + 1, q)
    BY <2>5
  <2>. HIDE DEF q, steps
  <2>. QED
    BY <2>6
<1>3. S = Nat
  <2>. HIDE DEF steps
  <2>. QED
    BY <1>1, <1>2, AllNaturals
<1>4. PICK p : steps(M, p)
  BY <1>0, <1>3
<1>5. PICK q : q = CHOOSE r : steps(M, r)
  OBVIOUS
<1>6. steps(M, q)
  BY <1>4, <1>5
<1>7. Relinked(tab, n) = q[M]
  BY <1>0, <1>5 DEF Relinked
<1>8. \A h \in 0 .. M : q[h] = IF h = 0 THEN NoStrings(n)
                               ELSE AllLinked(q[h - 1], tab[h - 1], n)
  BY <1>6
<1>9. q[0] = NoStrings(n) /\ \A h \in 1 .. M : q[h] = AllLinked(q[h - 1], tab[h - 1], n)
  BY <1>0, <1>8
<1>. QED
  BY <1>7, <1>9

LEMMA NoStringsFit ==
    ASSUME NEW n \in Nat \ {0}
    PROVE  ListsFit(NoStrings(n), n) /\ InLists(NoStrings(n)) = {}
<1>1. /\ DOMAIN NoStrings(n) = 0 .. n - 1
      /\ \A h \in 0 .. n - 1 : NoStrings(n)[h] = <<>>
      /\ NoStrings(n) = [h \in 0 .. n - 1 |-> NoStrings(n)[h]]
  BY DEF NoStrings
<1>2. <<>> \in Seq(String) /\ Len(<<>>) = 0 /\ IsInjective(<<>>)
  BY DEF IsInjective
<1>3. NoStrings(n) \in [0 .. n - 1 -> Seq(String)]
  BY <1>1, <1>2
<1>. QED
  BY <1>1, <1>2, <1>3 DEF ListsFit, InLists, Contains

\* A resized table has the strings it had, each in its new slot.
LEMMA RelinkedFits ==
    ASSUME NEW M, NEW tab, ListsFit(tab, M), NEW n \in Nat \ {0}
    PROVE  /\ ListsFit(Relinked(tab, n), n)
           /\ InLists(Relinked(tab, n)) = InLists(tab)
<1>0. /\ M \in Nat /\ tab \in [0 .. M - 1 -> Seq(String)]
      /\ \A h \in 0 .. M - 1 : IsInjective(tab[h])
      /\ \A h \in 0 .. M - 1 : \A i \in 1 .. Len(tab[h]) : Slot(tab[h][i], M) = h
  BY DEF ListsFit
<1>1. PICK q : /\ q[0] = NoStrings(n)
               /\ \A h \in 1 .. M : q[h] = AllLinked(q[h - 1], tab[h - 1], n)
               /\ Relinked(tab, n) = q[M]
  BY RelinkedSteps
<1>. DEFINE Upto(m) == {s \in String : \E h \in 0 .. m - 1 : Contains(tab[h], s)}
            Done(m) == ListsFit(q[m], n) /\ InLists(q[m]) = Upto(m)
            S == {m \in Nat : m <= M => Done(m)}
<1>2. 0 \in S
  BY <1>1, NoStringsFit
<1>3. ASSUME NEW m \in S PROVE m + 1 \in S
  <2>1. SUFFICES ASSUME m + 1 <= M PROVE Done(m + 1)
    OBVIOUS
  <2>2. m \in 0 .. M - 1 /\ m + 1 \in 1 .. M /\ (m + 1) - 1 = m /\ m <= M
    BY <1>0, <2>1
  <2>3. Done(m)
    BY <2>2
  <2>4. PICK list \in Seq(String) : list = tab[m]
    BY <1>0, <2>2
  <2>5. PICK u : u = q[m]
    OBVIOUS
  <2>6. q[m + 1] = AllLinked(u, list, n)
    <3>1. q[m + 1] = AllLinked(q[(m + 1) - 1], tab[(m + 1) - 1], n)
      BY <1>1, <2>2
    <3>. QED
      BY <2>2, <2>4, <2>5, <3>1
  <2>7. IsInjective(list)
    BY <1>0, <2>2, <2>4
  <2>8. ASSUME NEW i \in 1 .. Len(list) PROVE list[i] \notin InLists(u)
    <3>1. SUFFICES ASSUME list[i] \in InLists(u) PROVE FALSE
      OBVIOUS
    <3>2. PICK h \in 0 .. m - 1 : Contains(tab[h], list[i])
      BY <2>3, <2>5, <3>1
    <3>3. h \in 0 .. M - 1 /\ h # m
      BY ONLY <1>0, <2>2, m \in Nat, h \in 0 .. m - 1
    <3>4. PICK j \in 1 .. Len(tab[h]) : tab[h][j] = list[i]
      BY <3>2 DEF Contains
    <3>5. Slot(list[i], M) = h
      BY <1>0, <3>3, <3>4
    <3>6. Slot(list[i], M) = m
      BY <1>0, <2>2, <2>4
    <3>. QED
      BY <3>3, <3>5, <3>6
  <2>9. /\ ListsFit(q[m + 1], n)
        /\ InLists(q[m + 1]) = InLists(u) \cup {list[i] : i \in 1 .. Len(list)}
    BY <2>3, <2>5, <2>6, <2>7, <2>8, AllLinkedFits
  <2>10. ASSUME NEW s \in String
         PROVE  s \in Upto(m + 1) <=> s \in Upto(m) \/ \E i \in 1 .. Len(list) : list[i] = s
    <3>1. Contains(tab[m], s) <=> \E i \in 1 .. Len(list) : list[i] = s
      BY <2>4 DEF Contains
    <3>2. \A h \in 0 .. (m + 1) - 1 : h \in 0 .. m - 1 \/ h = m
      BY <2>2
    <3>3. m \in 0 .. (m + 1) - 1 /\ \A h \in 0 .. m - 1 : h \in 0 .. (m + 1) - 1
      BY <2>2
    <3>. QED
      BY <3>1, <3>2, <3>3
  <2>11. Upto(m + 1) = Upto(m) \cup {list[i] : i \in 1 .. Len(list)}
    <3>1. \A i \in 1 .. Len(list) : list[i] \in String
      OBVIOUS
    <3>. HIDE DEF Done
    <3>2. Upto(m + 1) \subseteq String /\ Upto(m) \subseteq String
      OBVIOUS
    <3>. HIDE DEF Upto
    <3>. QED
      BY <2>10, <3>1, <3>2
  <2>. HIDE DEF Upto
  <2>. QED
    BY <2>3, <2>5, <2>9, <2>11
<1>4. S = Nat
  <2>. HIDE DEF Done
  <2>. QED
    BY <1>2, <1>3, AllNaturals
<1>5. Done(M)
  <2>. HIDE DEF Done
  <2>. QED
    BY <1>0, <1>4
<1>6. Upto(M) = InLists(tab)
  BY <1>0 DEF InLists
<1>. QED
  BY <1>1, <1>5, <1>6

\* The count is that of the strings, and the lists are not crowded.
StringInv ==
    \E n \in Nat : /\ ListsFit(strings, n)
                   /\ IsFiniteSet(InLists(strings))
                   /\ slotused = Cardinality(InLists(strings))
                   /\ slotused <= n

LEMMA SlotsAre ==
    ASSUME NEW n, NEW tab, ListsFit(tab, n)
    PROVE  n \in Nat \ {0} /\ DOMAIN tab = 0 .. n - 1 /\ SlotsOf(tab) = n
<1>1. n \in Nat \ {0} /\ DOMAIN tab = 0 .. n - 1
  BY DEF ListsFit
<1>2. Cardinality(0 .. n - 1) = n
  BY <1>1, FS_Interval
<1>. QED
  BY <1>1, <1>2 DEF SlotsOf

\* A list that has a string only in its slot: Add's search is a search of the
\* whole table.
LEMMA FoundIsThere ==
    ASSUME NEW n, ListsFit(strings, n), NEW s \in String
    PROVE  Found(s) <=> s \in InLists(strings)
<1>1. n \in Nat \ {0} /\ DOMAIN strings = 0 .. n - 1 /\ SlotsOf(strings) = n
  BY SlotsAre
<1>2. Slot(s, n) \in 0 .. n - 1
  BY <1>1, SlotIsThere
<1>3. ASSUME NEW h \in 0 .. n - 1, Contains(strings[h], s) PROVE h = Slot(s, n)
  BY <1>3 DEF Contains, ListsFit
<1>. QED
  BY <1>1, <1>2, <1>3 DEF Found, InLists

LEMMA AddFits ==
    ASSUME StringInv, NEW s \in String, AddString(s)
    PROVE  StringInv'
<1>1. PICK n \in Nat : /\ ListsFit(strings, n)
                       /\ IsFiniteSet(InLists(strings))
                       /\ slotused = Cardinality(InLists(strings))
                       /\ slotused <= n
  BY DEF StringInv
<1>2. n \in Nat \ {0} /\ SlotsOf(strings) = n
  BY <1>1, SlotsAre
<1>3. CASE Found(s)
  BY <1>3 DEF AddString, stringVars, StringInv, InLists
<1>4. CASE ~ Found(s)
  <2>1. PICK tab : tab = Linked(strings, s, n)
    OBVIOUS
  <2>2. /\ strings' = IF slotused + 1 > n THEN Relinked(tab, 2 * n) ELSE tab
        /\ slotused' = slotused + 1
    BY <1>2, <1>4, <2>1 DEF AddString
  <2>3. s \notin InLists(strings)
    BY <1>1, <1>4, FoundIsThere
  <2>4. ListsFit(tab, n) /\ InLists(tab) = InLists(strings) \cup {s}
    BY <1>1, <2>1, <2>3, LinkedFits
  <2>5. /\ IsFiniteSet(InLists(tab))
        /\ Cardinality(InLists(tab)) = slotused + 1
    BY <1>1, <2>3, <2>4, FS_AddElement
  <2>6. slotused \in Nat
    BY <1>1, FS_CardinalityType
  <2>7. CASE slotused + 1 > n
    <3>1. 2 * n \in Nat \ {0} /\ slotused + 1 <= 2 * n
      BY <1>1, <1>2, <2>6
    <3>2. ListsFit(strings', 2 * n) /\ InLists(strings') = InLists(tab)
      BY <2>2, <2>4, <2>7, <3>1, RelinkedFits
    <3>. QED
      BY <2>2, <2>5, <3>1, <3>2 DEF StringInv, InLists
  <2>8. CASE ~ slotused + 1 > n
    <3>1. slotused + 1 <= n
      BY <2>6, <2>8
    <3>. QED
      BY <2>2, <2>4, <2>5, <2>8, <3>1 DEF StringInv, InLists
  <2>. QED
    BY <2>7, <2>8
<1>. QED
  BY <1>3, <1>4

\* What is left of a list without its i-th string.
LEMMA WithoutFacts ==
    ASSUME NEW list \in Seq(String), NEW i \in 1 .. Len(list)
    PROVE  /\ RemoveAt(list, i) \in Seq(String)
           /\ Len(RemoveAt(list, i)) = Len(list) - 1
           /\ \A j \in 1 .. Len(list) - 1 :
                 RemoveAt(list, i)[j] = IF j < i THEN list[j] ELSE list[j + 1]
<1>1. PICK L \in Nat : L = Len(list) /\ i \in 1 .. L /\ \A j \in 1 .. L : list[j] \in String
  OBVIOUS
<1>2. PICK a \in Seq(String) : /\ a = SubSeq(list, 1, i - 1) /\ Len(a) = i - 1
                               /\ \A j \in 1 .. i - 1 : a[j] = list[j]
  <2>1. 1 \in Int /\ i - 1 \in Int /\ \A j \in 1 .. i - 1 : list[j] \in String
    BY <1>1
  <2>2. /\ SubSeq(list, 1, i - 1) \in Seq(String)
        /\ Len(SubSeq(list, 1, i - 1)) = i - 1
        /\ \A j \in 1 .. i - 1 : SubSeq(list, 1, i - 1)[j] = list[j]
    BY <2>1, SubSeqProperties
  <2>. QED
    BY <2>2
<1>3. PICK b \in Seq(String) : /\ b = SubSeq(list, i + 1, L) /\ Len(b) = L - i
                               /\ \A j \in 1 .. L - i : b[j] = list[i + j]
  <2>1. i + 1 \in Int /\ L \in Int /\ \A j \in i + 1 .. L : list[j] \in String
    BY <1>1
  <2>2. /\ SubSeq(list, i + 1, L) \in Seq(String)
        /\ Len(SubSeq(list, i + 1, L)) = IF i + 1 <= L THEN L - (i + 1) + 1 ELSE 0
        /\ \A j \in 1 .. L - (i + 1) + 1 : SubSeq(list, i + 1, L)[j] = list[i + 1 + j - 1]
    BY <2>1, SubSeqProperties
  <2>3. (IF i + 1 <= L THEN L - (i + 1) + 1 ELSE 0) = L - i
    BY <1>1
  <2>4. ASSUME NEW j \in 1 .. L - i PROVE SubSeq(list, i + 1, L)[j] = list[i + j]
    <3>1. j \in 1 .. L - (i + 1) + 1 /\ i + 1 + j - 1 = i + j
      BY <1>1
    <3>. QED
      BY <2>2, <3>1
  <2>. QED
    BY <2>2, <2>3, <2>4
<1>4. RemoveAt(list, i) = a \o b
  BY <1>1, <1>2, <1>3 DEF RemoveAt
<1>5. /\ a \o b \in Seq(String)
      /\ Len(a \o b) = (i - 1) + (L - i)
      /\ \A j \in 1 .. (i - 1) + (L - i) :
            (a \o b)[j] = IF j <= i - 1 THEN a[j] ELSE b[j - (i - 1)]
  <2>1. /\ a \o b \in Seq(String)
        /\ Len(a \o b) = Len(a) + Len(b)
        /\ \A j \in 1 .. Len(a) + Len(b) :
              (a \o b)[j] = IF j <= Len(a) THEN a[j] ELSE b[j - Len(a)]
    BY ConcatProperties
  <2>2. Len(a) = i - 1 /\ Len(b) = L - i
    BY <1>2, <1>3
  <2>. QED
    BY <2>1, <2>2
<1>6. ASSUME NEW j \in 1 .. L - 1
      PROVE  (a \o b)[j] = IF j < i THEN list[j] ELSE list[j + 1]
  <2>1. (a \o b)[j] = IF j <= i - 1 THEN a[j] ELSE b[j - (i - 1)]
    BY SMTT(30), <1>1, <1>5
  <2>2. CASE j < i
    BY <1>1, <1>2, <2>1, <2>2
  <2>3. CASE ~ j < i
    <3>1. j - (i - 1) \in 1 .. L - i /\ i + (j - (i - 1)) = j + 1 /\ ~ j <= i - 1
      BY <1>1, <2>3
    <3>. QED
      BY <1>3, <2>1, <2>3, <3>1
  <2>. QED
    BY <2>2, <2>3
<1>7. (i - 1) + (L - i) = L - 1
  BY <1>1
<1>. QED
  BY <1>1, <1>4, <1>5, <1>6, <1>7

\* If it was there once, the list has all the others, each once.
LEMMA WithoutString ==
    ASSUME NEW list \in Seq(String), IsInjective(list), NEW i \in 1 .. Len(list)
    PROVE  /\ IsInjective(RemoveAt(list, i))
           /\ \A t : Contains(RemoveAt(list, i), t) <=> Contains(list, t) /\ t # list[i]
<1>1. PICK r \in Seq(String) :
           /\ r = RemoveAt(list, i)
           /\ Len(r) = Len(list) - 1
           /\ \A j \in 1 .. Len(list) - 1 : r[j] = IF j < i THEN list[j] ELSE list[j + 1]
  BY WithoutFacts
<1>2. PICK L \in Nat : L = Len(list) /\ i \in 1 .. L
  OBVIOUS
<1>. DEFINE old(j) == IF j < i THEN j ELSE j + 1
<1>3. /\ \A j \in 1 .. L - 1 : old(j) \in 1 .. L /\ old(j) # i /\ r[j] = list[old(j)]
      /\ \A j, k \in 1 .. L - 1 : old(j) = old(k) => j = k
      /\ \A k \in 1 .. L : k # i => \E j \in 1 .. L - 1 : old(j) = k
  <2>1. \A j \in 1 .. L - 1 : old(j) \in 1 .. L /\ old(j) # i /\ r[j] = list[old(j)]
    BY <1>1, <1>2
  <2>2. \A j, k \in 1 .. L - 1 : old(j) = old(k) => j = k
    BY <1>2
  <2>3. ASSUME NEW k \in 1 .. L, k # i PROVE \E j \in 1 .. L - 1 : old(j) = k
    <3>1. CASE k < i
      BY <1>2, <2>3, <3>1
    <3>2. CASE ~ k < i
      <4>1. k - 1 \in 1 .. L - 1 /\ old(k - 1) = k
        BY <1>2, <2>3, <3>2
      <4>. QED
        BY <4>1
    <3>. QED
      BY <3>1, <3>2
  <2>. QED
    BY <2>1, <2>2, <2>3
<1>4. \A j, k \in 1 .. L : list[j] = list[k] => j = k
  BY <1>2 DEF IsInjective
<1>. HIDE DEF old
<1>5. \A j, k \in 1 .. L - 1 : r[j] = r[k] => j = k
  BY <1>3, <1>4
<1>6. DOMAIN r = 1 .. L - 1 /\ Len(r) = L - 1
  BY <1>1, <1>2
<1>7. IsInjective(r)
  BY <1>5, <1>6 DEF IsInjective
<1>8. ASSUME NEW t PROVE Contains(r, t) <=> Contains(list, t) /\ t # list[i]
  <2>1. Contains(r, t) <=> \E j \in 1 .. L - 1 : r[j] = t
    BY <1>6 DEF Contains
  <2>2. Contains(list, t) <=> \E j \in 1 .. L : list[j] = t
    BY <1>2 DEF Contains
  <2>3. ASSUME Contains(r, t) PROVE Contains(list, t) /\ t # list[i]
    <3>1. PICK j \in 1 .. L - 1 : r[j] = t
      BY <2>1, <2>3
    <3>2. old(j) \in 1 .. L /\ old(j) # i /\ list[old(j)] = t
      BY <1>3, <3>1
    <3>. QED
      BY <1>2, <1>4, <2>2, <3>2
  <2>4. ASSUME Contains(list, t), t # list[i] PROVE Contains(r, t)
    <3>1. PICK k \in 1 .. L : list[k] = t
      BY <2>2, <2>4
    <3>2. PICK j \in 1 .. L - 1 : old(j) = k
      BY <1>3, <2>4, <3>1
    <3>. QED
      BY <1>3, <2>1, <3>1, <3>2
  <2>. QED
    BY <2>3, <2>4
<1>. QED
  BY <1>1, <1>7, <1>8

LEMMA RemoveFits ==
    ASSUME StringInv, NEW s \in String, RemoveString(s)
    PROVE  StringInv'
<1>1. PICK n \in Nat : /\ ListsFit(strings, n)
                       /\ IsFiniteSet(InLists(strings))
                       /\ slotused = Cardinality(InLists(strings))
                       /\ slotused <= n
  BY DEF StringInv
<1>2. /\ n \in Nat \ {0} /\ SlotsOf(strings) = n
      /\ strings \in [0 .. n - 1 -> Seq(String)]
  BY <1>1, SlotsAre DEF ListsFit
<1>3. PICK h \in 0 .. n - 1 : h = Slot(s, n)
  BY <1>2, SlotIsThere
<1>4. PICK list \in Seq(String) : list = strings[h]
  BY <1>2
<1>5. PICK i \in 1 .. Len(list) :
           /\ list[i] = s
           /\ strings' = [strings EXCEPT ![h] = RemoveAt(list, i)]
  <2>1. \E i \in DOMAIN strings[h] :
           /\ strings[h][i] = s
           /\ strings' = [strings EXCEPT ![h] = RemoveAt(strings[h], i)]
    BY <1>2, <1>3 DEF RemoveString
  <2>2. DOMAIN list = 1 .. Len(list)
    OBVIOUS
  <2>. QED
    BY <1>4, <2>1, <2>2
<1>6. IsInjective(list)
  BY <1>1, <1>4 DEF ListsFit
<1>7. PICK r \in Seq(String) :
           /\ r = RemoveAt(list, i)
           /\ Len(r) = Len(list) - 1
           /\ \A j \in 1 .. Len(list) - 1 : r[j] = IF j < i THEN list[j] ELSE list[j + 1]
  BY WithoutFacts
<1>8. IsInjective(r) /\ \A t : Contains(r, t) <=> Contains(list, t) /\ t # s
  BY <1>5, <1>6, <1>7, WithoutString
<1>9. /\ strings' \in [0 .. n - 1 -> Seq(String)]
      /\ strings'[h] = r
      /\ \A g \in 0 .. n - 1 : g # h => strings'[g] = strings[g]
  BY <1>2, <1>5, <1>7
<1>10. ASSUME NEW g \in 0 .. n - 1
       PROVE  /\ IsInjective(strings'[g])
              /\ \A j \in 1 .. Len(strings'[g]) : Slot(strings'[g][j], n) = g
  <2>1. CASE g # h
    BY <1>1, <1>9, <2>1 DEF ListsFit
  <2>2. CASE g = h
    <3>1. \A j \in 1 .. Len(list) : Slot(list[j], n) = h
      BY <1>1, <1>4 DEF ListsFit
    <3>2. ASSUME NEW j \in 1 .. Len(r) PROVE Slot(r[j], n) = h
      <4>1. j \in 1 .. Len(list) - 1 /\ j \in 1 .. Len(list) /\ j + 1 \in 1 .. Len(list)
        BY <1>7
      <4>. QED
        BY <1>7, <3>1, <4>1
    <3>. QED
      BY <1>8, <1>9, <2>2, <3>2
  <2>. QED
    BY <2>1, <2>2
<1>11. ListsFit(strings', n)
  BY <1>2, <1>9, <1>10 DEF ListsFit
<1>12. ASSUME NEW t \in String
       PROVE  t \in InLists(strings') <=> t \in InLists(strings) /\ t # s
  <2>1. DOMAIN strings = 0 .. n - 1 /\ DOMAIN strings' = 0 .. n - 1
    BY <1>2, <1>9
  <2>2. Contains(strings'[h], t) <=> Contains(strings[h], t) /\ t # s
    BY <1>4, <1>8, <1>9
  <2>3. \A g \in 0 .. n - 1 : g # h => ~ Contains(strings[g], s)
    <3>1. SUFFICES ASSUME NEW g \in 0 .. n - 1, Contains(strings[g], s) PROVE g = h
      OBVIOUS
    <3>. QED
      BY <1>1, <1>3, <3>1 DEF Contains, ListsFit
  <2>4. \A g \in 0 .. n - 1 : g # h => (Contains(strings'[g], t) <=> Contains(strings[g], t))
    BY <1>9
  <2>. QED
    BY <2>1, <2>2, <2>3, <2>4 DEF InLists
<1>13. InLists(strings') = InLists(strings) \ {s}
  BY <1>12 DEF InLists
<1>14. s \in InLists(strings)
  BY <1>2, <1>4, <1>5 DEF InLists, Contains
<1>15. /\ IsFiniteSet(InLists(strings'))
       /\ Cardinality(InLists(strings')) = slotused - 1
  BY <1>1, <1>13, <1>14, FS_RemoveElement
<1>16. slotused' = slotused - 1 /\ slotused \in Nat
  BY <1>1, FS_CardinalityType DEF RemoveString
<1>17. slotused' <= n
  BY <1>1, <1>16
<1>. QED
  BY <1>11, <1>15, <1>16, <1>17 DEF StringInv, InLists

LEMMA StringInvariance == StringSpec => []StringInv
<1>1. StringInit => StringInv
  <2>. SUFFICES ASSUME StringInit PROVE StringInv
    OBVIOUS
  <2>1. /\ FirstSlots \in Nat \ {0}
        /\ ListsFit(strings, FirstSlots) /\ InLists(strings) = {} /\ slotused = 0
    BY StringTableAssumption, NoStringsFit DEF StringInit
  <2>2. IsFiniteSet({}) /\ Cardinality({}) = 0
    BY FS_EmptySet
  <2>. QED
    BY <2>1, <2>2 DEF StringInv
<1>2. StringInv /\ [StringNext]_stringVars => StringInv'
  <2>1. ASSUME StringInv, UNCHANGED stringVars PROVE StringInv'
    BY <2>1 DEF StringInv, stringVars, InLists
  <2>. QED
    BY <2>1, AddFits, RemoveFits DEF StringNext
<1>. QED
  BY <1>1, <1>2, PTL DEF StringSpec

\* A string is in the table once, in the slot where LVStringTable::Add and
\* Remove look, however often Resize has moved it, and _slotused counts the
\* strings.
THEOREM StringsStayInterned == StringSpec => []StringsInterned
<1>1. StringInv => StringsInterned
  <2>. SUFFICES ASSUME StringInv PROVE StringsInterned
    OBVIOUS
  <2>1. PICK n \in Nat : /\ ListsFit(strings, n)
                         /\ slotused = Cardinality(InLists(strings))
                         /\ slotused <= n
    BY DEF StringInv
  <2>2. DOMAIN strings = 0 .. n - 1 /\ SlotsOf(strings) = n
    BY <2>1, SlotsAre
  <2>3. \A h \in 0 .. n - 1 : DOMAIN strings[h] = 1 .. Len(strings[h])
    BY <2>1 DEF ListsFit
  <2>. QED
    BY <2>1, <2>2, <2>3 DEF StringsInterned, ListsFit, Interned, InLists
<1>. QED
  BY <1>1, StringInvariance, PTL
=============================================================================
