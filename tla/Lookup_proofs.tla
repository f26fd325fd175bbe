---------------------------- MODULE Lookup_proofs ----------------------------
(***************************************************************************)
(* Proofs about Lookup, for every set of tables and every bound:           *)
(*   - SetDelegate's walk up from the new delegate is enough, whatever     *)
(*     metamethods do between the steps of a lookup, and Clone, which      *)
(*     copies a delegate without any test, is safe too;                    *)
(*   - every way out of every operation leaves the stack as it found it,   *)
(*     but for the three values of a cleanly failing _set;                 *)
(*   - a Get after a Set of the same object and name reads what that       *)
(*     wrote, as far as metamethods and the two root tables allow.         *)
(***************************************************************************)
EXTENDS Lookup, FiniteSetTheorems, SequenceTheorems, TLAPS

----------------------------------------------------------------------------
(* Chains.  The definitions of Lookup, for any function of delegates, so   *)
(* that one lemma serves the state before a step and the one after it.     *)

Delegates == [Table -> Table \cup {None}]

ClosedIn(f, S) == \A u \in S : f[u] \in S \cup {None}
AboveIn(f, t) == {d \in Table : \A S \in SUBSET Table : t \in S /\ ClosedIn(f, S) => d \in S}
AcyclicIn(f) == \A t \in Table : f[t] # None => t \notin AboveIn(f, f[t])

\* The chain of t is the least closed set that has t.
LEMMA AboveIsLeast ==
    ASSUME NEW f \in Delegates, NEW t \in Table
    PROVE  /\ AboveIn(f, t) \subseteq Table
           /\ t \in AboveIn(f, t)
           /\ ClosedIn(f, AboveIn(f, t))
           /\ \A S \in SUBSET Table : t \in S /\ ClosedIn(f, S) => AboveIn(f, t) \subseteq S
<1>1. AboveIn(f, t) \subseteq Table /\ t \in AboveIn(f, t)
  BY DEF AboveIn
<1>2. \A S \in SUBSET Table : t \in S /\ ClosedIn(f, S) => AboveIn(f, t) \subseteq S
  BY DEF AboveIn
<1>3. ASSUME NEW u \in AboveIn(f, t), f[u] # None
      PROVE  f[u] \in AboveIn(f, t)
  <2>1. u \in Table /\ f[u] \in Table
    BY <1>1, <1>3 DEF Delegates
  <2>2. ASSUME NEW S \in SUBSET Table, t \in S, ClosedIn(f, S)
        PROVE  f[u] \in S
    BY <1>2, <1>3, <2>2 DEF ClosedIn
  <2>. QED
    BY <2>1, <2>2 DEF AboveIn
<1>. QED
  BY <1>1, <1>2, <1>3 DEF ClosedIn

\* A closed set that has d and not t keeps t out of the chain of d.
LEMMA NotAbove ==
    ASSUME NEW f \in Delegates, NEW t, NEW d \in Table, NEW S \in SUBSET Table,
           d \in S, ClosedIn(f, S), t \notin S
    PROVE  t \notin AboveIn(f, d)
  BY AboveIsLeast

\* LVDelegable::SetDelegate: when t is not in the chain of d, hanging t below d
\* closes no chain.  For another table u, its chain either misses t and stays
\* what it is, or is now what it was together with the chain of d, which cannot
\* have u: it would have t as well.
LEMMA SetDelegateKeeps ==
    ASSUME NEW f \in Delegates, AcyclicIn(f), NEW t \in Table, NEW d \in Table \cup {None},
           d # None => t \notin AboveIn(f, d)
    PROVE  AcyclicIn([f EXCEPT ![t] = d])
<1>. DEFINE g == [f EXCEPT ![t] = d]
            C == IF d = None THEN {} ELSE AboveIn(f, d)
<1>1. g \in Delegates /\ g[t] = d /\ \A u \in Table : u # t => g[u] = f[u]
  BY DEF Delegates
<1>2. /\ C \subseteq Table /\ t \notin C /\ ClosedIn(f, C)
      /\ d \in C \cup {None}
  <2>1. CASE d = None
    BY <2>1 DEF ClosedIn
  <2>2. CASE d # None
    BY <2>2, AboveIsLeast
  <2>. QED
    BY <2>1, <2>2
<1>. HIDE DEF g, C
<1>3. SUFFICES ASSUME NEW u \in Table, g[u] # None
               PROVE  u \notin AboveIn(g, g[u])
  BY DEF AcyclicIn, g
<1>4. CASE u = t
  <2>1. ClosedIn(g, C)
    BY <1>1, <1>2 DEF ClosedIn
  <2>2. g[u] \in C /\ g[u] \in Table /\ u \notin C
    BY <1>1, <1>2, <1>3, <1>4
  <2>. QED
    BY <1>1, <1>2, <2>1, <2>2, NotAbove
<1>5. CASE u # t
  <2>. DEFINE e == f[u]
              A == AboveIn(f, e)
  <2>1. g[u] = e /\ e \in Table /\ e # None /\ u \notin A
    BY <1>1, <1>3, <1>5 DEF AcyclicIn, Delegates
  <2>2. A \subseteq Table /\ e \in A /\ ClosedIn(f, A)
    BY <2>1, AboveIsLeast
  <2>. HIDE DEF e, A
  <2>3. CASE t \notin A
    <3>1. ClosedIn(g, A)
      BY <1>1, <2>2, <2>3 DEF ClosedIn
    <3>. QED
      BY <1>1, <2>1, <2>2, <3>1, NotAbove
  <2>4. CASE t \in A
    <3>1. ClosedIn(g, A \cup C)
      BY <1>1, <1>2, <2>2 DEF ClosedIn
    <3>2. u \notin C
      <4>1. SUFFICES ASSUME u \in C PROVE FALSE
        OBVIOUS
      <4>2. e \in C
        BY <1>2, <2>1, <4>1 DEF ClosedIn, e
      <4>3. A \subseteq C
        BY <1>2, <2>1, <4>2, AboveIsLeast DEF A
      <4>. QED
        BY <1>2, <2>4, <4>3
    <3>3. A \cup C \in SUBSET Table /\ g[u] \in A \cup C /\ u \notin A \cup C
      BY <1>2, <2>1, <2>2, <3>2
    <3>. QED
      BY <1>1, <2>1, <3>1, <3>3, NotAbove
  <2>. QED
    BY <2>3, <2>4
<1>. QED
  BY <1>4, <1>5

\* LVTable::Clone: a new table u takes the delegate of another.  It is in no
\* chain, since no table there is has it as its delegate.
LEMMA CloneKeeps ==
    ASSUME NEW f \in Delegates, AcyclicIn(f), NEW E \in SUBSET Table,
           \A w \in Table : f[w] \in E \cup {None},
           NEW u \in Table \ E, NEW d \in E \cup {None}
    PROVE  AcyclicIn([f EXCEPT ![u] = d])
<1>1. CASE d = None
  BY <1>1, SetDelegateKeeps
<1>2. CASE d # None
  <2>1. ClosedIn(f, E) /\ d \in E /\ d \in Table /\ u \notin E
    BY <1>2 DEF ClosedIn
  <2>2. u \notin AboveIn(f, d)
    BY <2>1, NotAbove
  <2>. QED
    BY <2>2, SetDelegateKeeps
<1>. QED
  BY <1>1, <1>2

----------------------------------------------------------------------------
(* The invariant: a delegate is a table there is, which Clone counts on,   *)
(* and no chain closes.                                                    *)

DelegInv ==
    /\ exists \subseteq Table
    /\ delegate \in [Table -> exists \cup {None}]
    /\ Acyclic

\* The definitions of Lookup are those above, of the delegates there are.
LEMMA AcyclicNow == Acyclic <=> AcyclicIn(delegate)
  BY DEF Acyclic, AcyclicIn, Above, AboveIn, Closed, ClosedIn

LEMMA AcyclicNext == Acyclic' <=> AcyclicIn(delegate')
  BY DEF Acyclic, AcyclicIn, Above, AboveIn, Closed, ClosedIn

LEMMA InitDeleg ==
    ASSUME Init
    PROVE  DelegInv
<1>1. exists \subseteq Table
  BY DEF Init
<1>. QED
  BY <1>1 DEF Init, DelegInv

LEMMA SetDelegateDeleg ==
    ASSUME DelegInv, NEW t \in exists, NEW d \in exists \cup {None}, SetDelegate(t, d)
    PROVE  DelegInv'
<1>1. /\ exists' = exists /\ delegate' = [delegate EXCEPT ![t] = d]
      /\ d # None => t \notin Above(d)
  BY DEF SetDelegate, Refused
<1>2. delegate \in Delegates /\ AcyclicIn(delegate) /\ t \in Table /\ d \in Table \cup {None}
  BY AcyclicNow DEF DelegInv, Delegates
<1>3. d # None => t \notin AboveIn(delegate, d)
  BY <1>1 DEF Above, AboveIn, Closed, ClosedIn
<1>4. AcyclicIn(delegate')
  BY <1>1, <1>2, <1>3, SetDelegateKeeps
<1>5. delegate' \in [Table -> exists' \cup {None}]
  BY <1>1 DEF DelegInv
<1>. QED
  BY <1>1, <1>4, <1>5, AcyclicNext DEF DelegInv

LEMMA CloneDeleg ==
    ASSUME DelegInv, NEW u \in Table, Clone(u)
    PROVE  DelegInv'
<1>. DEFINE s == Innermost.self
<1>1. /\ s \in Table /\ u \notin exists /\ exists' = exists \cup {u}
      /\ delegate' = [delegate EXCEPT ![u] = delegate[s]]
  BY DEF Clone
<1>. HIDE DEF s
<1>2. /\ delegate \in Delegates /\ AcyclicIn(delegate) /\ exists \in SUBSET Table
      /\ \A w \in Table : delegate[w] \in exists \cup {None}
  BY AcyclicNow DEF DelegInv, Delegates
<1>3. AcyclicIn(delegate')
  BY <1>1, <1>2, CloneKeeps
<1>4. exists' \subseteq Table /\ delegate' \in [Table -> exists' \cup {None}]
  BY <1>1, <1>2 DEF DelegInv
<1>. QED
  BY <1>3, <1>4, AcyclicNext DEF DelegInv

\* Every other action leaves the tables and their delegates.
LEMMA FrameDeleg ==
    ASSUME DelegInv, UNCHANGED <<exists, delegate>>
    PROVE  DelegInv'
<1>1. Acyclic'
  BY AcyclicNow, AcyclicNext DEF DelegInv
<1>. QED
  BY <1>1 DEF DelegInv

LEMMA NextDeleg ==
    ASSUME DelegInv, [Next]_vars
    PROVE  DelegInv'
<1>1. CASE Start
  <2>1. ASSUME NEW o, NEW op, NEW k, NEW root, Begin(op, o, k, root)
        PROVE  DelegInv'
    BY <2>1, FrameDeleg DEF Begin, heap
  <2>2. ASSUME NEW t \in exists, NEW d \in exists \cup {None}, SetDelegate(t, d)
        PROVE  DelegInv'
    BY <2>2, SetDelegateDeleg
  <2>3. ASSUME NEW t, NEW k, NEW there, RawSlot(t, k, there)
        PROVE  DelegInv'
    BY <2>3, FrameDeleg DEF RawSlot
  <2>4. ASSUME NEW t, SetRootTable(t)
        PROVE  DelegInv'
    BY <2>4, FrameDeleg DEF SetRootTable
  <2>5. ASSUME NEW W, NEW t, SetRoot(W, t)
        PROVE  DelegInv'
    BY <2>5, FrameDeleg DEF SetRoot, heap
  <2>. QED
    BY <1>1, <2>1, <2>2, <2>3, <2>4, <2>5 DEF Start
<1>2. CASE Step
  <2>1. CASE Own
    BY <2>1, FrameDeleg DEF Own, heap
  <2>2. CASE Returned
    BY <2>2, FrameDeleg DEF Returned, heap
  <2>3. CASE NoMeta
    BY <2>3, FrameDeleg DEF NoMeta, heap
  <2>4. CASE DefaultDelegate
    BY <2>4, FrameDeleg DEF DefaultDelegate, heap
  <2>5. CASE RootTable
    BY <2>5, FrameDeleg DEF RootTable, heap
  <2>6. CASE NewSlot
    BY <2>6, FrameDeleg DEF NewSlot
  <2>7. CASE DeleteSlot
    BY <2>7, FrameDeleg DEF DeleteSlot
  <2>8. CASE \E u \in Table : Clone(u)
    BY <2>8, CloneDeleg
  <2>. QED
    BY <1>2, <2>1, <2>2, <2>3, <2>4, <2>5, <2>6, <2>7, <2>8 DEF Step
<1>3. CASE Meta
  BY <1>3, FrameDeleg DEF Meta, CallMeta, MetaReturns, MetaFails, MetaMisses, heap
<1>4. CASE UNCHANGED vars
  BY <1>4, FrameDeleg DEF vars
<1>. QED
  BY <1>1, <1>2, <1>3, <1>4 DEF Next

\* Whatever metamethods do between two steps of a lookup, no chain of delegates
\* closes on itself, so the walk of a lookup up the chain ends: SetDelegate
\* (object.cpp:126) refuses every cycle and Clone makes none.
THEOREM DelegatesStayAcyclic == Spec => []DelegatesAcyclic
<1>1. Init => DelegInv
  BY InitDeleg
<1>2. DelegInv /\ [Next]_vars => DelegInv'
  BY NextDeleg
<1>3. DelegInv => DelegatesAcyclic
  BY DEF DelegInv, DelegatesAcyclic
<1>. QED
  BY <1>1, <1>2, <1>3, PTL DEF Spec

----------------------------------------------------------------------------
(* The C++ stack: what the calls are made of, and what each way to change  *)
(* it leaves alone.                                                        *)

Pc == {"own", "down", "up", "meta", "call", "default", "root"}

Calls == [op : Op, self : Object, key : Key, root : Table \cup {None}, pc : Pc]

CallsFit == pending \in Seq(Calls)

LEMMA CallFields ==
    ASSUME NEW c \in Calls
    PROVE  /\ c.op \in Op /\ c.self \in Object /\ c.key \in Key
           /\ c.root \in Table \cup {None} /\ c.pc \in Pc
  BY DEF Calls

\* A call that goes on to another step is still a call, the same but for that.
LEMMA MovedCall ==
    ASSUME NEW c \in Calls, NEW pc \in Pc
    PROVE  /\ [c EXCEPT !.pc = pc] \in Calls
           /\ [c EXCEPT !.pc = pc].pc = pc
           /\ [c EXCEPT !.pc = pc].op = c.op
           /\ [c EXCEPT !.pc = pc].self = c.self
           /\ [c EXCEPT !.pc = pc].key = c.key
           /\ [c EXCEPT !.pc = pc].root = c.root
  BY DEF Calls

LEMMA NewCall ==
    ASSUME NEW op \in Op, NEW o \in Object, NEW k \in Key, NEW root \in Table \cup {None}
    PROVE  /\ Call(op, o, k, root) \in Calls
           /\ Call(op, o, k, root).op = op
           /\ Call(op, o, k, root).self = o
           /\ Call(op, o, k, root).key = k
           /\ Call(op, o, k, root).root = root
           /\ Call(op, o, k, root).pc = "own"
  BY DEF Call, Calls, Pc

LEMMA InnermostCall ==
    ASSUME CallsFit, Waiting
    PROVE  /\ Len(pending) \in Nat /\ Len(pending) > 0
           /\ Innermost = pending[Len(pending)] /\ Innermost \in Calls
  BY DEF CallsFit, Waiting, Innermost

\* q is p without its last call.
Popped(p, q) ==
    /\ q \in Seq(Calls) /\ Len(q) + 1 = Len(p)
    /\ \A i \in 1 .. Len(q) : q[i] = p[i]

\* q is p with c for its last call.
Moved(p, q, c) ==
    /\ q \in Seq(Calls) /\ Len(q) = Len(p) /\ q[Len(p)] = c
    /\ \A i \in 1 .. Len(p) - 1 : q[i] = p[i]

\* q is p with the call c on top.
Pushes(p, q, c) ==
    /\ q \in Seq(Calls) /\ Len(q) = Len(p) + 1 /\ q[Len(q)] = c
    /\ \A i \in 1 .. Len(p) : q[i] = p[i]

LEMMA PrefixPops ==
    ASSUME NEW p \in Seq(Calls), NEW n \in Nat, Len(p) = n + 1
    PROVE  Popped(p, SubSeq(p, 1, n))
<1>. DEFINE q == SubSeq(p, 1, n)
<1>1. \A i \in 1 .. n : p[i] \in Calls
  OBVIOUS
<1>2. /\ q \in Seq(Calls)
      /\ Len(q) = IF 1 <= n THEN n - 1 + 1 ELSE 0
      /\ \A i \in 1 .. n - 1 + 1 : q[i] = p[1 + i - 1]
  BY <1>1, SubSeqProperties
<1>. HIDE DEF q
<1>3. Len(q) = n
  BY <1>2
<1>4. ASSUME NEW i \in 1 .. n
      PROVE  q[i] = p[i]
  BY <1>2
<1>5. Popped(p, q)
  BY <1>2, <1>3, <1>4 DEF Popped
<1>. QED
  BY <1>5 DEF q

LEMMA ReturnPops ==
    ASSUME CallsFit, Waiting, NEW how, NEW in, Return(how, in)
    PROVE  Popped(pending, pending')
<1>1. /\ pending \in Seq(Calls) /\ Len(pending) - 1 \in Nat
      /\ Len(pending) = (Len(pending) - 1) + 1
  BY InnermostCall DEF CallsFit
<1>2. Popped(pending, SubSeq(pending, 1, Len(pending) - 1))
  BY ONLY <1>1, PrefixPops
<1>. QED
  BY <1>2 DEF Return

LEMMA ReplaceMoves ==
    ASSUME CallsFit, Waiting, NEW c \in Calls,
           pending' = [pending EXCEPT ![Len(pending)] = c]
    PROVE  Moved(pending, pending', c)
  BY InnermostCall DEF Moved, CallsFit

LEMMA GotoMoves ==
    ASSUME CallsFit, Waiting, NEW pc \in Pc, Goto(pc)
    PROVE  Moved(pending, pending', [Innermost EXCEPT !.pc = pc])
<1>1. [Innermost EXCEPT !.pc = pc] \in Calls
  BY InnermostCall, MovedCall
<1>2. pending' = [pending EXCEPT ![Len(pending)] = [Innermost EXCEPT !.pc = pc]]
  BY DEF Goto, Innermost
<1>. QED
  BY ONLY <1>1, <1>2, ReplaceMoves, CallsFit, Waiting

LEMMA AppendPushes ==
    ASSUME NEW p \in Seq(Calls), NEW c \in Calls
    PROVE  Pushes(p, Append(p, c), c)
  BY DEF Pushes

\* Nest is a Goto, then a call on top.
LEMMA NestMovesAndPushes ==
    ASSUME CallsFit, Waiting, NEW pc \in Pc, NEW c \in Calls, Nest(pc, c)
    PROVE  \E q : /\ Moved(pending, q, [Innermost EXCEPT !.pc = pc])
                  /\ Pushes(q, pending', c)
<1>. DEFINE q == [pending EXCEPT ![Len(pending)] = [Innermost EXCEPT !.pc = pc]]
<1>1. [Innermost EXCEPT !.pc = pc] \in Calls
  BY InnermostCall, MovedCall
<1>2. pending' = Append(q, c)
  BY DEF Nest, Innermost
<1>3. Moved(pending, q, [Innermost EXCEPT !.pc = pc])
  BY <1>1, InnermostCall DEF Moved, CallsFit
<1>4. Pushes(q, pending', c)
  BY <1>2, <1>3, AppendPushes DEF Moved
<1>. QED
  BY <1>3, <1>4

----------------------------------------------------------------------------
(* What the calls in a metamethod have pushed, call by call.               *)

ArgOf(c) == IF c.pc = "call" THEN Pushed(c.op) ELSE 0

MetaIn(p, n, m) == {i \in 1 .. n : p[i].pc = "call" /\ Pushed(p[i].op) = m}
ArgsIn(p, n) == 2 * Cardinality(MetaIn(p, n, 2)) + 3 * Cardinality(MetaIn(p, n, 3))

LEMMA MetaIsFinite ==
    ASSUME NEW p, NEW n \in Nat, NEW m
    PROVE  IsFiniteSet(MetaIn(p, n, m)) /\ Cardinality(MetaIn(p, n, m)) \in Nat
<1>1. IsFiniteSet(1 .. n)
  BY FS_Interval
<1>2. MetaIn(p, n, m) \in SUBSET (1 .. n)
  BY DEF MetaIn
<1>3. IsFiniteSet(MetaIn(p, n, m))
  BY <1>1, <1>2, FS_Subset
<1>. QED
  BY <1>3, FS_CardinalityType

LEMMA ArgsAreNatural ==
    ASSUME NEW p, NEW n \in Nat
    PROVE  ArgsIn(p, n) \in Nat
<1>1. Cardinality(MetaIn(p, n, 2)) \in Nat /\ Cardinality(MetaIn(p, n, 3)) \in Nat
  BY MetaIsFinite
<1>. QED
  BY <1>1 DEF ArgsIn

\* One more call with m arguments, or with another number.
LEMMA MetaGrows ==
    ASSUME NEW p, NEW n \in Nat, NEW m
    PROVE  Cardinality(MetaIn(p, n + 1, m)) =
             Cardinality(MetaIn(p, n, m))
               + IF p[n + 1].pc = "call" /\ Pushed(p[n + 1].op) = m THEN 1 ELSE 0
<1>1. /\ IsFiniteSet(MetaIn(p, n, m)) /\ Cardinality(MetaIn(p, n, m)) \in Nat
      /\ n + 1 \notin MetaIn(p, n, m)
  <2>1. n + 1 \notin MetaIn(p, n, m)
    BY DEF MetaIn
  <2>. QED
    BY <2>1, MetaIsFinite
<1>2. CASE p[n + 1].pc = "call" /\ Pushed(p[n + 1].op) = m
  <2>1. MetaIn(p, n + 1, m) = MetaIn(p, n, m) \cup {n + 1}
    BY <1>2 DEF MetaIn
  <2>. QED
    BY <1>1, <1>2, <2>1, FS_AddElement
<1>3. CASE ~(p[n + 1].pc = "call" /\ Pushed(p[n + 1].op) = m)
  <2>1. MetaIn(p, n + 1, m) = MetaIn(p, n, m)
    BY <1>3 DEF MetaIn
  <2>. QED
    BY <1>1, <1>3, <2>1
<1>. QED
  BY <1>2, <1>3

LEMMA ArgsGrow ==
    ASSUME NEW p, NEW n \in Nat
    PROVE  ArgsIn(p, n + 1) = ArgsIn(p, n) + ArgOf(p[n + 1])
<1>. DEFINE two == Cardinality(MetaIn(p, n, 2))
            three == Cardinality(MetaIn(p, n, 3))
<1>1. two \in Nat /\ three \in Nat
  BY MetaIsFinite
<1>2. /\ Cardinality(MetaIn(p, n + 1, 2)) =
           two + IF p[n + 1].pc = "call" /\ Pushed(p[n + 1].op) = 2 THEN 1 ELSE 0
      /\ Cardinality(MetaIn(p, n + 1, 3)) =
           three + IF p[n + 1].pc = "call" /\ Pushed(p[n + 1].op) = 3 THEN 1 ELSE 0
  BY MetaGrows
<1>3. ArgsIn(p, n) = 2 * two + 3 * three
  BY DEF ArgsIn
<1>4. Pushed(p[n + 1].op) \in {2, 3}
  BY DEF Pushed
<1>. HIDE DEF two, three
<1>. QED
  BY <1>1, <1>2, <1>3, <1>4 DEF ArgsIn, ArgOf

LEMMA ArgsSame ==
    ASSUME NEW p, NEW q, NEW n \in Nat, \A i \in 1 .. n : p[i] = q[i]
    PROVE  ArgsIn(p, n) = ArgsIn(q, n)
<1>1. MetaIn(p, n, 2) = MetaIn(q, n, 2) /\ MetaIn(p, n, 3) = MetaIn(q, n, 3)
  BY DEF MetaIn
<1>. QED
  BY <1>1 DEF ArgsIn

LEMMA ArgsPopped ==
    ASSUME NEW p \in Seq(Calls), NEW q, Popped(p, q)
    PROVE  ArgsIn(q, Len(q)) = ArgsIn(p, Len(p)) - ArgOf(p[Len(p)])
<1>. DEFINE n == Len(q)
<1>1. n \in Nat /\ Len(p) = n + 1 /\ \A i \in 1 .. n : q[i] = p[i]
  BY DEF Popped
<1>. HIDE DEF n
<1>2. ArgsIn(q, n) = ArgsIn(p, n) /\ ArgsIn(p, n + 1) = ArgsIn(p, n) + ArgOf(p[n + 1])
  BY <1>1, ArgsSame, ArgsGrow
<1>3. ArgsIn(p, n) \in Nat /\ ArgOf(p[n + 1]) \in Nat
  BY <1>1, ArgsAreNatural DEF ArgOf, Pushed
<1>4. ArgsIn(q, n) = ArgsIn(p, Len(p)) - ArgOf(p[Len(p)])
  BY <1>1, <1>2, <1>3
<1>. QED
  BY <1>4 DEF n

LEMMA ArgsMoved ==
    ASSUME NEW p \in Seq(Calls), Len(p) > 0, NEW q, NEW c, Moved(p, q, c)
    PROVE  ArgsIn(q, Len(q)) = ArgsIn(p, Len(p)) - ArgOf(p[Len(p)]) + ArgOf(c)
<1>. DEFINE n == Len(p) - 1
<1>1. n \in Nat /\ Len(p) = n + 1 /\ Len(q) = n + 1 /\ q[n + 1] = c
      /\ \A i \in 1 .. n : q[i] = p[i]
  BY DEF Moved
<1>. HIDE DEF n
<1>2. /\ ArgsIn(q, n) = ArgsIn(p, n)
      /\ ArgsIn(p, n + 1) = ArgsIn(p, n) + ArgOf(p[n + 1])
      /\ ArgsIn(q, n + 1) = ArgsIn(q, n) + ArgOf(q[n + 1])
  BY <1>1, ArgsSame, ArgsGrow
<1>3. ArgsIn(p, n) \in Nat /\ ArgOf(p[n + 1]) \in Nat /\ ArgOf(c) \in Nat
  BY <1>1, ArgsAreNatural DEF ArgOf, Pushed
<1>. QED
  BY <1>1, <1>2, <1>3

LEMMA ArgsPushed ==
    ASSUME NEW p \in Seq(Calls), NEW q, NEW c, Pushes(p, q, c)
    PROVE  ArgsIn(q, Len(q)) = ArgsIn(p, Len(p)) + ArgOf(c)
<1>. DEFINE n == Len(p)
<1>1. n \in Nat /\ Len(q) = n + 1 /\ q[n + 1] = c /\ \A i \in 1 .. n : q[i] = p[i]
  BY DEF Pushes
<1>. HIDE DEF n
<1>2. ArgsIn(q, n) = ArgsIn(p, n) /\ ArgsIn(q, n + 1) = ArgsIn(q, n) + ArgOf(c)
  BY <1>1, ArgsSame, ArgsGrow
<1>3. ArgsIn(q, Len(q)) = ArgsIn(p, n) + ArgOf(c)
  BY <1>1, <1>2
<1>. QED
  BY <1>3 DEF n

----------------------------------------------------------------------------
(* The invariant of the stacks.  Besides the height it says what the calls *)
(* are made of, and with DelegInv that an object they are for is there.    *)

StackInv ==
    /\ DelegInv /\ CallsFit
    /\ leaks \in Nat /\ top \in Nat
    /\ top = ArgsIn(pending, Len(pending)) + 3 * leaks

LEMMA ArgumentsNow == Arguments = ArgsIn(pending, Len(pending))
  BY DEF Arguments, ArgsIn, InMeta, MetaIn

LEMMA InitStack ==
    ASSUME Init
    PROVE  StackInv
<1>1. DelegInv
  BY InitDeleg
<1>2. pending = << >> /\ top = 0 /\ leaks = 0
  BY DEF Init
<1>3. CallsFit
  BY <1>2 DEF CallsFit
<1>4. MetaIn(pending, 0, 2) = {} /\ MetaIn(pending, 0, 3) = {}
  BY DEF MetaIn
<1>5. ArgsIn(pending, 0) = 0
  BY <1>4, FS_EmptySet DEF ArgsIn
<1>. QED
  BY <1>1, <1>2, <1>3, <1>5 DEF StackInv

\* A step that leaves the C++ stack, the height and the history alone.
LEMMA FrameStack ==
    ASSUME StackInv, DelegInv', UNCHANGED <<pending, top, leaks>>
    PROVE  StackInv'
<1>1. ArgsIn(pending, Len(pending))' = ArgsIn(pending, Len(pending))
  BY DEF ArgsIn, MetaIn
<1>. QED
  BY <1>1 DEF StackInv, CallsFit

\* The three kinds of step: the height follows what the calls have pushed.
LEMMA PoppedStack ==
    ASSUME StackInv, DelegInv', Waiting, Popped(pending, pending'), leaks' = leaks,
           top' = top - ArgOf(Innermost)
    PROVE  StackInv'
<1>1. pending \in Seq(Calls) /\ Innermost = pending[Len(pending)] /\ CallsFit'
  BY InnermostCall DEF StackInv, CallsFit, Popped
<1>2. ArgsIn(pending', Len(pending')) = ArgsIn(pending, Len(pending)) - ArgOf(Innermost)
  BY <1>1, ArgsPopped
<1>3. /\ ArgsIn(pending, Len(pending)) \in Nat /\ ArgsIn(pending', Len(pending')) \in Nat
      /\ ArgOf(Innermost) \in Nat
  <2>1. Len(pending) \in Nat /\ Len(pending') \in Nat
    BY <1>1 DEF CallsFit
  <2>. QED
    BY <2>1, ArgsAreNatural DEF ArgOf, Pushed
<1>. QED
  BY <1>1, <1>2, <1>3 DEF StackInv

LEMMA MovedStack ==
    ASSUME StackInv, DelegInv', Waiting, NEW c, Moved(pending, pending', c),
           leaks' \in Nat,
           top' = top - ArgOf(Innermost) + ArgOf(c) + 3 * (leaks' - leaks)
    PROVE  StackInv'
<1>1. /\ pending \in Seq(Calls) /\ Innermost = pending[Len(pending)] /\ CallsFit'
      /\ Len(pending) > 0
  BY InnermostCall DEF StackInv, CallsFit, Moved
<1>2. ArgsIn(pending', Len(pending')) =
        ArgsIn(pending, Len(pending)) - ArgOf(Innermost) + ArgOf(c)
  BY <1>1, ArgsMoved
<1>3. /\ ArgsIn(pending, Len(pending)) \in Nat /\ ArgsIn(pending', Len(pending')) \in Nat
      /\ ArgOf(Innermost) \in Nat /\ ArgOf(c) \in Nat
  <2>1. Len(pending) \in Nat /\ Len(pending') \in Nat
    BY <1>1 DEF CallsFit
  <2>. QED
    BY <2>1, ArgsAreNatural DEF ArgOf, Pushed
<1>4. leaks \in Nat /\ top = ArgsIn(pending, Len(pending)) + 3 * leaks
  BY DEF StackInv
<1>5. top' = ArgsIn(pending', Len(pending')) + 3 * leaks'
  <2>1. PICK A \in Nat : A = ArgsIn(pending, Len(pending))
    BY <1>3
  <2>2. PICK B \in Nat : B = ArgsIn(pending', Len(pending'))
    BY <1>3
  <2>3. PICK x \in Nat : x = ArgOf(Innermost)
    BY <1>3
  <2>4. PICK y \in Nat : y = ArgOf(c)
    BY <1>3
  <2>5. B = A - x + y /\ top = A + 3 * leaks /\ top' = top - x + y + 3 * (leaks' - leaks)
    BY <1>2, <1>4, <2>1, <2>2, <2>3, <2>4
  <2>6. leaks \in Nat /\ leaks' \in Nat
    BY <1>4
  <2>7. top' = B + 3 * leaks'
    BY ONLY <2>5, <2>6, A \in Nat, B \in Nat, x \in Nat, y \in Nat
  <2>. QED
    BY ONLY <2>2, <2>7
<1>6. top' \in Nat
  BY ONLY <1>3, <1>5, leaks' \in Nat
<1>. QED
  BY <1>1, <1>5, <1>6 DEF StackInv

LEMMA PushedStack ==
    ASSUME StackInv, DelegInv', NEW q \in Seq(Calls), NEW c,
           ArgsIn(q, Len(q)) = ArgsIn(pending, Len(pending)),
           Pushes(q, pending', c), ArgOf(c) = 0, UNCHANGED <<top, leaks>>
    PROVE  StackInv'
<1>1. ArgsIn(pending', Len(pending')) = ArgsIn(q, Len(q)) + ArgOf(c) /\ CallsFit'
  BY ArgsPushed DEF CallsFit, Pushes
<1>2. ArgsIn(pending, Len(pending)) \in Nat
  BY ArgsAreNatural DEF StackInv, CallsFit
<1>. QED
  BY <1>1, <1>2 DEF StackInv

LEMMA ReturnStack ==
    ASSUME StackInv, DelegInv', Waiting, NEW how, NEW in, Return(how, in), leaks' = leaks,
           top' = top - ArgOf(Innermost)
    PROVE  StackInv'
<1>1. Popped(pending, pending')
  BY ReturnPops DEF StackInv
<1>. QED
  BY <1>1, PoppedStack

LEMMA GotoStack ==
    ASSUME StackInv, DelegInv', Waiting, NEW pc \in Pc, Goto(pc), leaks' \in Nat,
           top' = top - ArgOf(Innermost) + (IF pc = "call" THEN Pushed(Innermost.op) ELSE 0)
                    + 3 * (leaks' - leaks)
    PROVE  StackInv'
<1>. DEFINE c == [Innermost EXCEPT !.pc = pc]
<1>1. Moved(pending, pending', c)
  BY GotoMoves DEF StackInv
<1>2. Innermost \in Calls
  BY InnermostCall DEF StackInv
<1>3. c.pc = pc /\ c.op = Innermost.op
  BY <1>2, MovedCall
<1>. HIDE DEF c
<1>4. ArgOf(c) = IF pc = "call" THEN Pushed(Innermost.op) ELSE 0
  BY <1>3 DEF ArgOf
<1>5. top' = top - ArgOf(Innermost) + ArgOf(c) + 3 * (leaks' - leaks)
  BY <1>4
<1>. QED
  BY <1>1, <1>5, MovedStack

\* A Goto between two steps that have pushed nothing.
LEMMA QuietGotoStack ==
    ASSUME StackInv, DelegInv', Waiting, NEW pc \in Pc \ {"call"}, Goto(pc),
           Innermost.pc # "call", UNCHANGED <<top, leaks>>
    PROVE  StackInv'
<1>1. leaks \in Nat /\ top \in Nat /\ ArgOf(Innermost) = 0
  BY DEF StackInv, ArgOf
<1>2. top' = top - ArgOf(Innermost) + (IF pc = "call" THEN Pushed(Innermost.op) ELSE 0)
               + 3 * (leaks' - leaks)
  BY <1>1
<1>3. pc \in Pc /\ leaks' \in Nat
  BY <1>1
<1>. QED
  BY <1>2, <1>3, GotoStack

LEMMA QuietReturnStack ==
    ASSUME StackInv, DelegInv', Waiting, NEW how, NEW in, Return(how, in),
           Innermost.pc # "call", UNCHANGED <<top, leaks>>
    PROVE  StackInv'
<1>1. top' = top - ArgOf(Innermost) /\ leaks' = leaks
  BY DEF StackInv, ArgOf
<1>. QED
  BY <1>1, ReturnStack

LEMMA NestStack ==
    ASSUME StackInv, DelegInv', Waiting, NEW pc \in Pc \ {"call"}, NEW c \in Calls,
           Nest(pc, c), Innermost.pc # "call", c.pc # "call", UNCHANGED <<top, leaks>>
    PROVE  StackInv'
<1>. DEFINE m == [Innermost EXCEPT !.pc = pc]
<1>1. /\ CallsFit /\ pending \in Seq(Calls) /\ Innermost = pending[Len(pending)]
      /\ Len(pending) \in Nat /\ Len(pending) > 0 /\ Innermost \in Calls
  BY InnermostCall DEF StackInv, CallsFit
<1>2. m.pc = pc
  BY <1>1, MovedCall
<1>3. PICK q : Moved(pending, q, m) /\ Pushes(q, pending', c)
  BY <1>1, NestMovesAndPushes
<1>. HIDE DEF m
<1>4. q \in Seq(Calls)
  BY <1>3 DEF Moved
<1>5. ArgOf(Innermost) = 0 /\ ArgOf(m) = 0 /\ ArgOf(c) = 0
  BY <1>2 DEF ArgOf
<1>6. ArgsIn(q, Len(q)) = ArgsIn(pending, Len(pending)) - ArgOf(Innermost) + ArgOf(m)
  BY <1>1, <1>3, ArgsMoved
<1>7. ArgsIn(pending, Len(pending)) \in Nat
  BY <1>1, ArgsAreNatural
<1>8. ArgsIn(q, Len(q)) = ArgsIn(pending, Len(pending))
  BY <1>5, <1>6, <1>7
<1>. QED
  BY <1>3, <1>4, <1>5, <1>8, PushedStack

LEMMA BeginStack ==
    ASSUME StackInv, DelegInv', NEW o \in exists \cup Inst, NEW op \in Op, NEW k \in Name,
           NEW root \in exists \cup {None}, Begin(op, o, k, root)
    PROVE  StackInv'
<1>. DEFINE c == Call(op, o, k, root)
<1>1. /\ o \in Object /\ k \in Key /\ pending \in Seq(Calls)
      /\ root \in Table \cup {None}
  BY LookupAssumption DEF StackInv, DelegInv, Object, CallsFit
<1>2. c \in Calls /\ c.pc = "own"
  BY <1>1, NewCall
<1>3. pending' = Append(pending, c) /\ UNCHANGED <<top, leaks>>
  BY DEF Begin
<1>. HIDE DEF c
<1>4. Pushes(pending, pending', c)
  BY <1>1, <1>2, <1>3, AppendPushes
<1>5. ArgOf(c) = 0
  BY <1>2 DEF ArgOf
<1>. QED
  BY <1>1, <1>3, <1>4, <1>5, PushedStack

LEMMA OwnStack ==
    ASSUME StackInv, DelegInv', Own
    PROVE  StackInv'
<1>. DEFINE f == Innermost
            c == Call(f.op, delegate[f.self], f.key, None)
<1>1. /\ Waiting /\ f.pc = "own" /\ f.pc # "call" /\ UNCHANGED <<top, leaks>>
      /\ f \in Calls
  BY InnermostCall DEF Own, AtPc, StackInv, history
<1>2. CASE Has(f.self, f.key)
  <2>1. Return("found", f.self)
    BY <1>2 DEF Own
  <2>. QED
    BY <1>1, <2>1, QuietReturnStack
<1>3. CASE ~Has(f.self, f.key) /\ AfterOwn(f.op, f.self) = "down"
  <2>1. Nest("down", c)
    BY <1>3 DEF Own
  <2>2. f.self \in Table /\ delegate[f.self] # None
    BY <1>3 DEF AfterOwn
  <2>3. delegate[f.self] \in Object
    BY <2>2 DEF StackInv, DelegInv, Object
  <2>4. f.op \in Op /\ f.key \in Key
    BY <1>1, CallFields
  <2>5. c \in Calls /\ c.pc = "own"
    BY ONLY <2>3, <2>4 DEF c, Call, Calls, Pc
  <2>6. c.pc # "call" /\ "down" \in Pc \ {"call"}
    BY <2>5 DEF Pc
  <2>. HIDE DEF f, c
  <2>7. Innermost.pc # "call"
    BY <1>1 DEF f
  <2>. QED
    BY <1>1, <2>1, <2>5, <2>6, <2>7, NestStack
<1>4. CASE ~Has(f.self, f.key) /\ AfterOwn(f.op, f.self) # "down"
  <2>1. Goto(AfterOwn(f.op, f.self))
    BY <1>4 DEF Own
  <2>2. AfterOwn(f.op, f.self) \in Pc \ {"call"}
    BY DEF AfterOwn, Pc
  <2>. QED
    BY <1>1, <2>1, <2>2, QuietGotoStack
<1>. QED
  BY <1>2, <1>3, <1>4

LEMMA RootTableStack ==
    ASSUME StackInv, DelegInv', RootTable
    PROVE  StackInv'
<1>. DEFINE f == Innermost
            c == Call("get", f.root, f.key, None)
<1>1. /\ Waiting /\ f.pc = "root" /\ f.pc # "call" /\ UNCHANGED <<top, leaks>>
      /\ f \in Calls
  BY InnermostCall DEF RootTable, AtPc, StackInv, history
<1>2. ASSUME NEW how, NEW in, Return(how, in)
      PROVE  StackInv'
  BY <1>1, <1>2, QuietReturnStack
<1>3. CASE f.root # None /\ Nest("up", c)
  <2>1. f.key \in Key /\ f.root \in Object /\ "get" \in Op
    BY <1>1, <1>3, CallFields DEF Object, Op
  <2>2. c \in Calls /\ c.pc = "own"
    BY ONLY <2>1 DEF c, Call, Calls, Pc
  <2>3. c.pc # "call" /\ "up" \in Pc \ {"call"}
    BY <2>2 DEF Pc
  <2>. HIDE DEF f, c
  <2>4. Innermost.pc # "call"
    BY <1>1 DEF f
  <2>. QED
    BY <1>1, <1>3, <2>2, <2>3, <2>4, NestStack
<1>. QED
  BY <1>2, <1>3 DEF RootTable

LEMMA CloneStack ==
    ASSUME StackInv, DelegInv', NEW u \in Table, Clone(u)
    PROVE  StackInv'
<1>. DEFINE c == [Call("clone", u, Innermost.key, None) EXCEPT !.pc = "meta"]
<1>1. Waiting /\ Innermost.pc = "own" /\ Innermost.pc # "call" /\ UNCHANGED <<top, leaks>>
  BY DEF Clone, AtPc, history
<1>2. CASE HasMeta(Innermost.self, "clone")
  <2>1. pending' = [pending EXCEPT ![Len(pending)] = c]
    BY <1>2 DEF Clone, Innermost
  <2>2. Innermost.key \in Key /\ u \in Object
    BY <1>1, InnermostCall, CallFields DEF StackInv, Object
  <2>3. c \in Calls /\ c.pc = "meta"
    BY <2>2 DEF Call, Calls, Pc, Op
  <2>4. CallsFit /\ leaks \in Nat /\ top \in Nat
    BY DEF StackInv
  <2>. HIDE DEF c
  <2>5. Moved(pending, pending', c)
    BY ONLY <1>1, <2>1, <2>3, <2>4, ReplaceMoves
  <2>6. ArgOf(c) = 0 /\ ArgOf(Innermost) = 0
    BY <1>1, <2>3 DEF ArgOf
  <2>7. leaks' \in Nat /\ top' = top - ArgOf(Innermost) + ArgOf(c) + 3 * (leaks' - leaks)
    BY <1>1, <2>4, <2>6
  <2>. QED
    BY <1>1, <2>5, <2>7, MovedStack
<1>3. CASE ~HasMeta(Innermost.self, "clone")
  <2>1. Return("found", u)
    BY <1>3 DEF Clone
  <2>. QED
    BY <1>1, <2>1, QuietReturnStack
<1>. QED
  BY <1>2, <1>3

LEMMA MetaStack ==
    ASSUME StackInv, DelegInv', Meta
    PROVE  StackInv'
<1>1. Waiting /\ Innermost \in Calls /\ leaks \in Nat /\ top \in Nat
  BY InnermostCall DEF Meta, CallMeta, MetaReturns, MetaFails, MetaMisses, AtPc, StackInv
<1>2. Pushed(Innermost.op) \in Nat
  BY DEF Pushed
<1>3. CASE CallMeta
  <2>1. Goto("call") /\ "call" \in Pc
    BY <1>3 DEF CallMeta, Pc
  <2>2. ArgOf(Innermost) = 0 /\ top' = top + Pushed(Innermost.op) /\ leaks' = leaks
    BY <1>3 DEF CallMeta, ArgOf, history
  <2>3. top' = top - ArgOf(Innermost) + Pushed(Innermost.op) + 3 * (leaks' - leaks)
    BY <1>1, <1>2, <2>2
  <2>4. leaks' \in Nat
    BY <1>1, <2>2
  <2>. QED
    BY <1>1, <2>1, <2>3, <2>4, GotoStack
<1>4. CASE MetaReturns
  <2>1. PICK in : Return("answered", in)
    BY <1>4 DEF MetaReturns
  <2>2. top' = top - ArgOf(Innermost) /\ leaks' = leaks
    BY <1>4 DEF MetaReturns, ArgOf, history
  <2>. QED
    BY <1>1, <2>1, <2>2, ReturnStack
<1>5. CASE MetaFails
  <2>1. Return("failed", None)
    BY <1>5 DEF MetaFails
  <2>2. top' = top - ArgOf(Innermost) /\ leaks' = leaks
    BY <1>5 DEF MetaFails, ArgOf, history
  <2>. QED
    BY <1>1, <2>1, <2>2, ReturnStack
<1>6. CASE MetaMisses
  <2>1. PICK pc \in Pc \ {"call"} : Goto(pc)
    BY <1>6 DEF MetaMisses, Pc
  <2>2. /\ ArgOf(Innermost) = Pushed(Innermost.op)
        /\ top' = top - Pushed(Innermost.op) + Kept(Innermost.op)
        /\ leaks' = IF Innermost.op = "set" THEN leaks + 1 ELSE leaks
    BY <1>6 DEF MetaMisses, ArgOf, AtPc
  <2>3. leaks' \in Nat /\ Kept(Innermost.op) = 3 * (leaks' - leaks)
    BY <1>1, <2>2 DEF Kept
  <2>4. top' = top - ArgOf(Innermost) + 0 + 3 * (leaks' - leaks)
    BY <1>1, <1>2, <2>2, <2>3
  <2>. QED
    BY <1>1, <2>1, <2>3, <2>4, GotoStack
<1>. QED
  BY <1>3, <1>4, <1>5, <1>6 DEF Meta

\* The setroot of a closure: some calls get another root and nothing else.
LEMMA SetRootStack ==
    ASSUME StackInv, DelegInv', NEW W, NEW t \in exists, SetRoot(W, t)
    PROVE  StackInv'
<1>. DEFINE n == Len(pending)
<1>1. pending \in Seq(Calls) /\ n \in Nat /\ t \in Table
  BY DEF StackInv, CallsFit, DelegInv
<1>2. /\ pending' = [i \in 1 .. n |->
                       IF i \in W THEN [pending[i] EXCEPT !.root = t] ELSE pending[i]]
      /\ UNCHANGED <<top, leaks>>
  BY DEF SetRoot
<1>. HIDE DEF n
<1>3. ASSUME NEW i \in 1 .. n
      PROVE  /\ pending'[i] \in Calls /\ pending'[i].pc = pending[i].pc
             /\ pending'[i].op = pending[i].op
  <2>1. pending[i] \in Calls
    BY <1>1 DEF n
  <2>. QED
    BY <1>1, <1>2, <2>1 DEF Calls
<1>4. pending' \in [1 .. n -> Calls]
  BY ONLY <1>2, <1>3
<1>5. pending' \in Seq(Calls) /\ Len(pending') = n
  BY ONLY <1>1, <1>4
<1>6. MetaIn(pending', n, 2) = MetaIn(pending, n, 2) /\ MetaIn(pending', n, 3) = MetaIn(pending, n, 3)
  BY <1>3 DEF MetaIn
<1>7. ArgsIn(pending', n) = ArgsIn(pending, n)
  BY <1>6 DEF ArgsIn
<1>8. ArgsIn(pending', Len(pending')) = ArgsIn(pending, Len(pending))
  BY <1>5, <1>7 DEF n
<1>. QED
  BY <1>2, <1>5, <1>8 DEF StackInv, CallsFit

LEMMA NextStack ==
    ASSUME StackInv, [Next]_vars
    PROVE  StackInv'
<1>0. DelegInv'
  BY NextDeleg DEF StackInv
<1>1. CASE Start
  <2>1. ASSUME NEW o \in exists \cup Inst, NEW op \in Op, NEW k \in Name,
               NEW root \in exists \cup {None}, Begin(op, o, k, root)
        PROVE  StackInv'
    BY <1>0, <2>1, BeginStack
  <2>2. ASSUME NEW t, NEW d, SetDelegate(t, d)
        PROVE  StackInv'
    BY <1>0, <2>2, FrameStack DEF SetDelegate
  <2>3. ASSUME NEW t, NEW k, NEW there, RawSlot(t, k, there)
        PROVE  StackInv'
    BY <1>0, <2>3, FrameStack DEF RawSlot
  <2>4. ASSUME NEW t, SetRootTable(t)
        PROVE  StackInv'
    BY <1>0, <2>4, FrameStack DEF SetRootTable
  <2>5. ASSUME NEW W, NEW t \in exists, SetRoot(W, t)
        PROVE  StackInv'
    BY <1>0, <2>5, SetRootStack
  <2>. QED
    BY <1>1, <2>1, <2>2, <2>3, <2>4, <2>5 DEF Start
<1>2. CASE Step
  <2>1. ASSUME Waiting, NEW how, NEW in, Return(how, in), Innermost.pc # "call",
               UNCHANGED <<top, leaks>>
        PROVE  StackInv'
    BY <1>0, <2>1, QuietReturnStack
  <2>2. ASSUME Waiting, NEW pc \in Pc \ {"call"}, Goto(pc), Innermost.pc # "call",
               UNCHANGED <<top, leaks>>
        PROVE  StackInv'
    BY <1>0, <2>2, QuietGotoStack
  <2>3. CASE Own
    BY <1>0, <2>3, OwnStack
  <2>4. CASE Returned
    BY <2>1, <2>2, <2>4 DEF Returned, Pc, history
  <2>5. CASE NoMeta
    BY <2>2, <2>5 DEF NoMeta, AtPc, Pc, history
  <2>6. CASE DefaultDelegate
    BY <2>1, <2>2, <2>6 DEF DefaultDelegate, AtPc, Pc, history
  <2>7. CASE RootTable
    BY <1>0, <2>7, RootTableStack
  <2>8. CASE NewSlot
    BY <2>1, <2>2, <2>8 DEF NewSlot, AtPc, Pc, history
  <2>9. CASE DeleteSlot
    BY <2>1, <2>2, <2>9 DEF DeleteSlot, AtPc, Pc, history
  <2>10. CASE \E u \in Table : Clone(u)
    BY <1>0, <2>10, CloneStack
  <2>. QED
    BY <1>2, <2>3, <2>4, <2>5, <2>6, <2>7, <2>8, <2>9, <2>10 DEF Step
<1>3. CASE Meta
  BY <1>0, <1>3, MetaStack
<1>4. CASE UNCHANGED vars
  BY <1>0, <1>4, FrameStack DEF vars
<1>. QED
  BY <1>1, <1>2, <1>3, <1>4 DEF Next

\* Every way out of every operation takes its arguments off the stack again,
\* however deep metamethods nest and however they end, but for the three that a
\* cleanly failing _set leaves (vm.cpp:1666).
THEOREM StackAlwaysBalanced == Spec => []StackBalanced
<1>1. Init => StackInv
  BY InitStack
<1>2. StackInv /\ [Next]_vars => StackInv'
  BY NextStack
<1>3. StackInv => StackBalanced
  BY ArgumentsNow DEF StackInv, StackBalanced
<1>. QED
  BY <1>1, <1>2, <1>3, PTL DEF Spec

----------------------------------------------------------------------------
(* The search along the delegates, for any slots and delegates.            *)

HasIn(s, o, k) == IF o \in Table THEN k \in s[o] ELSE k \in Fields
StopsIn(s, f, k, S) == \A u \in S \cap Table : k \in s[u] \/ f[u] \in S \cup {None}
SearchedIn(s, f, o, k) ==
    {x \in Object : \A S \in SUBSET Object : o \in S /\ StopsIn(s, f, k, S) => x \in S}
NearestIn(s, f, o, k) == {x \in SearchedIn(s, f, o, k) : HasIn(s, x, k)}

LEMMA NearestNow ==
    ASSUME NEW o, NEW k
    PROVE  Nearest(o, k) = NearestIn(slots, delegate, o, k)
  BY DEF Nearest, Searched, Has, NearestIn, SearchedIn, StopsIn, HasIn

\* What is searched is the least set of its kind.
LEMMA SearchedIsLeast ==
    ASSUME NEW s, NEW f \in Delegates, NEW k, NEW o \in Object
    PROVE  /\ SearchedIn(s, f, o, k) \in SUBSET Object
           /\ o \in SearchedIn(s, f, o, k)
           /\ StopsIn(s, f, k, SearchedIn(s, f, o, k))
           /\ \A S \in SUBSET Object :
                  o \in S /\ StopsIn(s, f, k, S) => SearchedIn(s, f, o, k) \subseteq S
<1>1. SearchedIn(s, f, o, k) \in SUBSET Object /\ o \in SearchedIn(s, f, o, k)
  BY DEF SearchedIn
<1>2. \A S \in SUBSET Object :
         o \in S /\ StopsIn(s, f, k, S) => SearchedIn(s, f, o, k) \subseteq S
  BY DEF SearchedIn
<1>3. ASSUME NEW u \in SearchedIn(s, f, o, k), u \in Table, k \notin s[u], f[u] # None
      PROVE  f[u] \in SearchedIn(s, f, o, k)
  <2>1. f[u] \in Object
    BY <1>3 DEF Delegates, Object
  <2>2. ASSUME NEW S \in SUBSET Object, o \in S, StopsIn(s, f, k, S)
        PROVE  f[u] \in S
    BY <1>2, <1>3, <2>2 DEF StopsIn
  <2>. QED
    BY <2>1, <2>2 DEF SearchedIn
<1>. QED
  BY <1>1, <1>2, <1>3 DEF StopsIn

\* The search ends at an object that has the slot, or has no delegate to ask.
LEMMA SearchEnds ==
    ASSUME NEW s, NEW f \in Delegates, NEW k, NEW o \in Object,
           HasIn(s, o, k) \/ o \in Inst \/ f[o] = None
    PROVE  NearestIn(s, f, o, k) = IF HasIn(s, o, k) THEN {o} ELSE {}
<1>1. {o} \in SUBSET Object /\ StopsIn(s, f, k, {o})
  BY LookupAssumption DEF StopsIn, HasIn, Object
<1>2. SearchedIn(s, f, o, k) = {o}
  BY <1>1, SearchedIsLeast
<1>. QED
  BY <1>2 DEF NearestIn

\* Otherwise it goes on as the search of the delegate would.
LEMMA SearchGoesDown ==
    ASSUME NEW s, NEW f \in Delegates, NEW k, NEW o \in Table, k \notin s[o],
           NEW d \in Table, f[o] = d
    PROVE  NearestIn(s, f, o, k) = NearestIn(s, f, d, k)
<1>. DEFINE A == SearchedIn(s, f, o, k)
            B == SearchedIn(s, f, d, k)
<1>1. o \in Object /\ d \in Object /\ d # None
  BY LookupAssumption DEF Object
<1>2. /\ A \in SUBSET Object /\ o \in A /\ StopsIn(s, f, k, A)
      /\ \A S \in SUBSET Object : o \in S /\ StopsIn(s, f, k, S) => A \subseteq S
  BY <1>1, SearchedIsLeast
<1>3. /\ B \in SUBSET Object /\ d \in B /\ StopsIn(s, f, k, B)
      /\ \A S \in SUBSET Object : d \in S /\ StopsIn(s, f, k, S) => B \subseteq S
  BY <1>1, SearchedIsLeast
<1>. HIDE DEF A, B
<1>4. d \in A
  BY <1>1, <1>2 DEF StopsIn
<1>5. B \subseteq A
  BY <1>2, <1>3, <1>4
<1>6. StopsIn(s, f, k, B \cup {o})
  BY <1>3 DEF StopsIn
<1>7. A \subseteq B \cup {o}
  BY <1>1, <1>2, <1>3, <1>6
<1>8. ~HasIn(s, o, k)
  BY DEF HasIn
<1>9. {x \in A : HasIn(s, x, k)} = {x \in B : HasIn(s, x, k)}
  BY <1>5, <1>7, <1>8
<1>. QED
  BY <1>9 DEF NearestIn, A, B

----------------------------------------------------------------------------
(* The invariant of the quiet after a Set of the script: what the waiting  *)
(* calls know of the slot, call by call, and what their answers say.       *)

Near(o, k) == NearestIn(slots, delegate, o, k)

\* What a Get or Set may be doing: below its own slots it is for a table that
\* has not the slot, and past the delegates none of them has it.
Looks(c) ==
    /\ c.op \in {"get", "set"}
    /\ c.pc = "down" => c.self \in Table /\ c.key \notin slots[c.self] /\ delegate[c.self] # None
    /\ c.pc \in {"meta", "call", "default", "root", "up"} => Near(c.self, c.key) = {}
    /\ c.pc = "up" => c.op = "get" /\ c.root # None

\* The object that a call has asked, and the call it made for that.
Asked(c) == IF c.pc = "down" THEN delegate[c.self] ELSE c.root
Continues(c, d) ==
    c.pc \in {"down", "up"} =>
        d.op = c.op /\ d.self = Asked(c) /\ d.key = c.key /\ d.root = None

Chained(p) ==
    /\ \A i \in 1 .. Len(p) : Looks(p[i])
    /\ \A i \in 1 .. Len(p) - 1 : Continues(p[i], p[i + 1])

\* What an answer says of where the slot is.
Tells(how, in, op, o, k, root) ==
    /\ how \in {"found", "answered", "missing", "failed"}
    /\ how = "found" =>
           \/ Near(o, k) = {in}
           \/ /\ Near(o, k) = {} /\ root # None
              /\ IF op = "set" THEN in = roottable /\ k \in slots[roottable]
                 ELSE Near(root, k) = {in}
    /\ how # "found" => Near(o, k) = {}
    /\ how = "missing" /\ op = "get" => root = None \/ Near(root, k) = {}

\* What came back to a call that had asked another object.
Heard ==
    Waiting /\ Innermost.pc \in {"down", "up"} =>
        Tells(ret.how, ret.in, Innermost.op, Asked(Innermost), Innermost.key, None)

\* What came back to the script.
Told ==
    ~Waiting /\ ret.op \in {"get", "set"} =>
        Tells(ret.how, ret.in, ret.op, ret.self, ret.key, ret.root)

\* What the Set before this Get wrote.
WroteFor(o, k) ==
    \/ Near(o, k) = {wrote}
    \/ Near(o, k) = {} /\ wrote = roottable /\ k \in slots[roottable]
Wrote ==
    wrote # None =>
        IF Waiting THEN pending[1].op = "get" /\ WroteFor(pending[1].self, pending[1].key)
        ELSE ret.op = "get" /\ WroteFor(ret.self, ret.key)

SeenQuiet == Chained(pending) /\ Heard /\ Told /\ Wrote

SeenInv ==
    /\ StackInv /\ roottable \in Table /\ quiet \in BOOLEAN
    /\ quiet => SeenQuiet
    /\ ~quiet => wrote = None

LEMMA ChainPopped ==
    ASSUME NEW p \in Seq(Calls), NEW q, Chained(p), Popped(p, q)
    PROVE  Chained(q)
  BY DEF Chained, Popped

LEMMA ChainMoved ==
    ASSUME NEW p \in Seq(Calls), Len(p) > 0, NEW q, NEW c, Chained(p), Moved(p, q, c),
           c.op = p[Len(p)].op, c.self = p[Len(p)].self, c.key = p[Len(p)].key,
           c.root = p[Len(p)].root, Looks(c)
    PROVE  Chained(q)
<1>. DEFINE n == Len(p)
<1>1. /\ n \in Nat /\ n > 0 /\ Len(q) = n /\ q[n] = c
      /\ \A i \in 1 .. n - 1 : q[i] = p[i]
  BY DEF Moved
<1>2. ASSUME NEW i \in 1 .. n
      PROVE  Looks(q[i])
  <2>1. CASE i = n
    BY <1>1, <2>1
  <2>2. CASE i # n
    BY <1>1, <2>2 DEF Chained
  <2>. QED
    BY <2>1, <2>2
<1>3. ASSUME NEW i \in 1 .. n - 1
      PROVE  Continues(q[i], q[i + 1])
  <2>1. q[i] = p[i] /\ Continues(p[i], p[i + 1])
    BY <1>1 DEF Chained
  <2>2. CASE i + 1 = n
    <3>1. q[i + 1] = c /\ p[i + 1] = p[n]
      BY <1>1, <2>2
    <3>. QED
      BY <2>1, <3>1 DEF Continues
  <2>3. CASE i + 1 # n
    BY <1>1, <2>1, <2>3
  <2>. QED
    BY <2>2, <2>3
<1>. QED
  BY <1>1, <1>2, <1>3 DEF Chained

LEMMA ChainPushed ==
    ASSUME NEW p \in Seq(Calls), NEW q, NEW c, Chained(p), Pushes(p, q, c), Looks(c),
           Len(p) > 0 => Continues(p[Len(p)], c)
    PROVE  Chained(q)
<1>. DEFINE n == Len(p)
<1>1. /\ n \in Nat /\ Len(q) = n + 1 /\ q[n + 1] = c
      /\ \A i \in 1 .. n : q[i] = p[i]
  BY DEF Pushes
<1>2. ASSUME NEW i \in 1 .. n + 1
      PROVE  Looks(q[i])
  <2>1. CASE i = n + 1
    BY <1>1, <2>1
  <2>2. CASE i # n + 1
    BY <1>1, <2>2 DEF Chained
  <2>. QED
    BY <2>1, <2>2
<1>3. ASSUME NEW i \in 1 .. n
      PROVE  Continues(q[i], q[i + 1])
  <2>1. CASE i = n
    <3>1. q[i] = p[n] /\ q[i + 1] = c /\ n > 0
      BY <1>1, <2>1
    <3>. QED
      BY <3>1
  <2>2. CASE i # n
    <3>1. q[i] = p[i] /\ q[i + 1] = p[i + 1] /\ i \in 1 .. n - 1
      BY <1>1, <2>2
    <3>. QED
      BY <3>1 DEF Chained
  <2>. QED
    BY <2>1, <2>2
<1>. QED
  BY <1>1, <1>2, <1>3 DEF Chained

\* A step of Get or Set leaves the heap and the history of the quiet alone.
Still == UNCHANGED <<slots, delegate, roottable, quiet, wrote>>

LEMMA SameMeaning ==
    ASSUME Still
    PROVE  /\ \A o, k : Near(o, k)' = Near(o, k)
           /\ Chained(pending') => Chained(pending)'
           /\ \A how, in, op, o, k, root :
                  Tells(how, in, op, o, k, root)' <=> Tells(how, in, op, o, k, root)
           /\ \A o, k : WroteFor(o, k)' <=> WroteFor(o, k)
           /\ \A c : Asked(c)' = Asked(c)
<1>1. \A o, k : Near(o, k)' = Near(o, k)
  BY DEF Near, Still
<1>2. Chained(pending') => Chained(pending)'
  BY DEF Chained, Looks, Continues, Asked, Near, Still
<1>3. \A how, in, op, o, k, root :
          Tells(how, in, op, o, k, root)' <=> Tells(how, in, op, o, k, root)
  BY DEF Tells, Near, Still
<1>4. \A o, k : WroteFor(o, k)' <=> WroteFor(o, k)
  BY DEF WroteFor, Near, Still
<1>5. \A c : Asked(c)' = Asked(c)
  BY DEF Asked, Still
<1>. QED
  BY <1>1, <1>2, <1>3, <1>4, <1>5

\* What the quiet says of the innermost call.
LEMMA QuietFacts ==
    ASSUME SeenInv, quiet, Waiting
    PROVE  /\ CallsFit /\ pending \in Seq(Calls) /\ Len(pending) \in Nat /\ Len(pending) > 0
           /\ Innermost = pending[Len(pending)] /\ Innermost \in Calls
           /\ Chained(pending) /\ Looks(Innermost) /\ delegate \in Delegates
           /\ Innermost.self \in Object /\ Innermost.key \in Key /\ roottable \in Table
<1>1. /\ CallsFit /\ pending \in Seq(Calls) /\ Len(pending) \in Nat /\ Len(pending) > 0
      /\ Innermost = pending[Len(pending)] /\ Innermost \in Calls /\ Chained(pending)
  BY InnermostCall DEF SeenInv, SeenQuiet, StackInv, CallsFit
<1>2. Looks(Innermost)
  BY <1>1 DEF Chained
<1>3. delegate \in Delegates
  BY DEF SeenInv, StackInv, DelegInv, Delegates
<1>. QED
  BY <1>1, <1>2, <1>3, CallFields DEF SeenInv

\* The call returns with an answer that tells where the slot is.
LEMMA QuietReturns ==
    ASSUME SeenInv, quiet, Waiting, StackInv', Still, NEW how, NEW in, Return(how, in),
           Tells(how, in, Innermost.op, Innermost.self, Innermost.key, Innermost.root)
    PROVE  SeenInv'
<1>. DEFINE n == Len(pending)
<1>1. /\ CallsFit /\ pending \in Seq(Calls) /\ n \in Nat /\ n > 0 /\ Innermost = pending[n]
      /\ Chained(pending)
  BY QuietFacts
<1>2. Popped(pending, pending')
  BY <1>1, ReturnPops
<1>3. /\ pending' \in Seq(Calls) /\ Len(pending') = n - 1
      /\ \A i \in 1 .. n - 1 : pending'[i] = pending[i]
  BY <1>1, <1>2 DEF Popped
<1>4. Chained(pending)'
  BY <1>1, <1>2, ChainPopped, SameMeaning
<1>5. ret' = Answer(Innermost, how, in, n = 1)
  BY DEF Return
<1>6. ret'.how = how /\ ret'.in = in /\ ret'.op = Innermost.op /\ ret'.key = Innermost.key
  BY <1>5 DEF Answer
<1>7. ASSUME n = 1
      PROVE  ret'.self = Innermost.self /\ ret'.root = Innermost.root
  BY <1>5, <1>7 DEF Answer
<1>8. Waiting' <=> n # 1
  BY <1>1, <1>3 DEF Waiting
<1>. HIDE DEF n
<1>9. Heard'
  <2>1. SUFFICES ASSUME Waiting', Innermost'.pc \in {"down", "up"}
                 PROVE  Tells(ret.how, ret.in, Innermost.op, Asked(Innermost), Innermost.key,
                              None)'
    BY DEF Heard
  <2>2. n - 1 \in 1 .. n - 1 /\ (n - 1) + 1 = n
    BY <1>1, <1>8, <2>1
  <2>3. Innermost' = pending[n - 1]
    BY <1>3, <2>2 DEF Innermost
  <2>4. Continues(pending[n - 1], pending[n])
    BY <1>1, <2>2 DEF Chained, n
  <2>5. PICK c : c = pending[n - 1]
    OBVIOUS
  <2>6. /\ Innermost.op = c.op /\ Innermost.self = Asked(c) /\ Innermost.key = c.key
        /\ Innermost.root = None /\ Innermost' = c
    BY <1>1, <2>1, <2>3, <2>4, <2>5 DEF Continues
  <2>7. Tells(how, in, c.op, Asked(c), c.key, None)
    BY <2>6
  <2>8. Tells(how, in, c.op, Asked(c), c.key, None)'
    BY <2>7, SameMeaning
  <2>. QED
    BY <1>6, <2>6, <2>8
<1>10. Told'
  <2>1. SUFFICES ASSUME ~Waiting'
                 PROVE  Tells(ret.how, ret.in, ret.op, ret.self, ret.key, ret.root)'
    BY DEF Told
  <2>2. PICK r : r = ret'
    OBVIOUS
  <2>3. Tells(r.how, r.in, r.op, r.self, r.key, r.root)
    BY <1>6, <1>7, <1>8, <2>1, <2>2
  <2>. QED
    BY <2>2, <2>3, SameMeaning
<1>11. Wrote'
  <2>1. SUFFICES ASSUME wrote # None
                 PROVE  IF Waiting' THEN pending'[1].op = "get"
                                         /\ WroteFor(pending'[1].self, pending'[1].key)
                        ELSE ret'.op = "get" /\ WroteFor(ret'.self, ret'.key)
    BY SameMeaning DEF Wrote, Still
  <2>2. pending[1].op = "get" /\ WroteFor(pending[1].self, pending[1].key)
    BY <2>1 DEF SeenInv, SeenQuiet, Wrote
  <2>3. CASE n = 1
    BY <1>1, <1>6, <1>7, <1>8, <2>2, <2>3
  <2>4. CASE n # 1
    BY <1>1, <1>3, <1>8, <2>2, <2>4
  <2>. QED
    BY <2>3, <2>4
<1>. QED
  BY <1>4, <1>9, <1>10, <1>11 DEF SeenInv, SeenQuiet, Still

\* After a step that leaves a call waiting which has asked nobody, only the
\* chain of calls and the outermost of them matter.
LEMMA QuietGoesOn ==
    ASSUME SeenInv, quiet, StackInv', Still, Chained(pending'),
           NEW n \in Nat, Len(pending') = n, n > 0, pending'[n].pc \notin {"down", "up"},
           Waiting, pending'[1].op = pending[1].op, pending'[1].self = pending[1].self,
           pending'[1].key = pending[1].key
    PROVE  SeenInv'
<1>1. Waiting' /\ Innermost' = pending'[n]
  BY DEF Waiting, Innermost, StackInv, CallsFit
<1>2. Heard' /\ Told'
  BY <1>1 DEF Heard, Told
<1>3. Wrote'
  <2>1. wrote # None => pending[1].op = "get" /\ WroteFor(pending[1].self, pending[1].key)
    BY DEF SeenInv, SeenQuiet, Wrote
  <2>2. PICK o, k : o = pending[1].self /\ k = pending[1].key
    OBVIOUS
  <2>3. wrote' # None => pending'[1].op = "get" /\ WroteFor(o, k)'
    BY <2>1, <2>2, SameMeaning DEF Still
  <2>. QED
    BY <1>1, <2>2, <2>3 DEF Wrote
<1>. QED
  BY <1>2, <1>3, SameMeaning DEF SeenInv, SeenQuiet, Still

\* The call goes on, past its delegates.
LEMMA QuietMoves ==
    ASSUME SeenInv, quiet, Waiting, StackInv', Still,
           NEW pc \in {"meta", "call", "default", "root"}, Goto(pc),
           Near(Innermost.self, Innermost.key) = {}
    PROVE  SeenInv'
<1>. DEFINE c == [Innermost EXCEPT !.pc = pc]
            n == Len(pending)
<1>1. /\ CallsFit /\ pending \in Seq(Calls) /\ n \in Nat /\ n > 0 /\ Innermost = pending[n]
      /\ Innermost \in Calls /\ Chained(pending) /\ Looks(Innermost)
  BY QuietFacts
<1>2. pc \in Pc
  BY DEF Pc
<1>3. /\ c.pc = pc /\ c.op = Innermost.op /\ c.self = Innermost.self
      /\ c.key = Innermost.key /\ c.root = Innermost.root
  BY <1>1, <1>2, MovedCall
<1>4. Moved(pending, pending', c)
  BY <1>1, <1>2, GotoMoves
<1>. HIDE DEF c
<1>5. Looks(c)
  BY <1>1, <1>3 DEF Looks
<1>6. Chained(pending')
  BY <1>1, <1>3, <1>4, <1>5, ChainMoved
<1>7. Len(pending') = n /\ pending'[n] = c /\ \A i \in 1 .. n - 1 : pending'[i] = pending[i]
  BY <1>4 DEF Moved
<1>. HIDE DEF n
<1>8. /\ pending'[1].op = pending[1].op /\ pending'[1].self = pending[1].self
      /\ pending'[1].key = pending[1].key
  <2>1. CASE n = 1
    BY <1>1, <1>3, <1>7, <2>1
  <2>2. CASE n # 1
    BY <1>1, <1>7, <2>2
  <2>. QED
    BY <2>1, <2>2
<1>9. pending'[n].pc \notin {"down", "up"}
  BY <1>3, <1>7
<1>. QED
  BY <1>1, <1>6, <1>7, <1>8, <1>9, QuietGoesOn

\* The call asks another object, and waits.
LEMMA QuietNests ==
    ASSUME SeenInv, quiet, Waiting, StackInv', Still, NEW pc \in {"down", "up"}, NEW o,
           NEW m \in Calls, m = [Innermost EXCEPT !.pc = pc], Looks(m), o = Asked(m),
           o \in Object, Nest(pc, Call(Innermost.op, o, Innermost.key, None))
    PROVE  SeenInv'
<1>0. PICK c : c = Call(Innermost.op, o, Innermost.key, None)
  OBVIOUS
<1>1. /\ CallsFit /\ pending \in Seq(Calls) /\ Len(pending) \in Nat /\ Len(pending) > 0
      /\ Innermost = pending[Len(pending)] /\ Innermost \in Calls /\ Chained(pending)
      /\ Looks(Innermost)
  BY QuietFacts
<1>2. pc \in Pc
  BY DEF Pc
<1>3. /\ m.pc = pc /\ m.op = Innermost.op /\ m.self = Innermost.self
      /\ m.key = Innermost.key /\ m.root = Innermost.root
  BY <1>1, <1>2, MovedCall
<1>4. /\ c \in Calls /\ c.op = Innermost.op /\ c.self = o /\ c.key = Innermost.key
      /\ c.root = None /\ c.pc = "own"
  <2>1. Innermost.op \in Op /\ Innermost.key \in Key
    BY <1>1, CallFields
  <2>. QED
    BY <1>0, <2>1, NewCall
<1>5. Nest(pc, c)
  BY <1>0
<1>6. PICK q : Moved(pending, q, m) /\ Pushes(q, pending', c)
  BY <1>1, <1>2, <1>4, <1>5, NestMovesAndPushes
<1>7. PICK n \in Nat : n = Len(pending) /\ n > 0
  BY <1>1
<1>8. /\ q \in Seq(Calls) /\ Len(q) = n /\ q[n] = m
      /\ \A i \in 1 .. n - 1 : q[i] = pending[i]
  BY <1>6, <1>7 DEF Moved
<1>9. Chained(q)
  BY <1>1, <1>3, <1>6, ChainMoved
<1>10. Looks(c)
  BY <1>1, <1>4 DEF Looks
<1>11. Continues(m, c)
  BY <1>3, <1>4 DEF Continues
<1>12. Chained(pending')
  BY <1>6, <1>8, <1>9, <1>10, <1>11, ChainPushed
<1>13. /\ Len(pending') = n + 1 /\ pending'[n + 1] = c
       /\ \A i \in 1 .. n : pending'[i] = q[i]
  BY <1>6, <1>8 DEF Pushes
<1>14. /\ pending'[1].op = pending[1].op /\ pending'[1].self = pending[1].self
       /\ pending'[1].key = pending[1].key
  <2>1. CASE n = 1
    <3>1. pending'[1] = m
      BY <1>8, <1>13, <2>1
    <3>2. pending[1] = Innermost
      BY <1>1, <1>7, <2>1
    <3>. QED
      BY ONLY <1>3, <3>1, <3>2
  <2>2. CASE n # 1
    BY <1>7, <1>8, <1>13, <2>2
  <2>. QED
    BY <2>1, <2>2
<1>15. n + 1 \in Nat /\ n + 1 > 0 /\ pending'[n + 1].pc \notin {"down", "up"}
  BY <1>4, <1>13
<1>. QED
  BY <1>12, <1>13, <1>14, <1>15, QuietGoesOn

LEMMA HasNow ==
    ASSUME NEW o, NEW k
    PROVE  Has(o, k) <=> HasIn(slots, o, k)
  BY DEF Has, HasIn

LEMMA OwnQuiet ==
    ASSUME SeenInv, quiet, StackInv', Still, Own
    PROVE  SeenInv'
<1>0. PICK op, o, k, root :
          op = Innermost.op /\ o = Innermost.self /\ k = Innermost.key /\ root = Innermost.root
  OBVIOUS
<1>1. Waiting /\ Innermost.pc = "own" /\ op \in {"get", "set"}
  BY <1>0 DEF Own, AtPc
<1>2. Innermost \in Calls /\ o \in Object /\ delegate \in Delegates
  BY <1>0, <1>1, QuietFacts
<1>3. CASE Has(o, k)
  <2>1. Return("found", o)
    BY <1>0, <1>3 DEF Own
  <2>2. Near(o, k) = {o}
    BY <1>2, <1>3, SearchEnds, HasNow DEF Near
  <2>3. Tells("found", o, op, o, k, root)
    BY <2>2 DEF Tells
  <2>. QED
    BY <1>0, <1>1, <2>1, <2>3, QuietReturns
<1>4. CASE ~Has(o, k) /\ o \in Table /\ delegate[o] # None
  <2>1. AfterOwn(op, o) = "down"
    BY <1>4 DEF AfterOwn
  <2>2. Nest("down", Call(op, delegate[o], k, None))
    BY <1>0, <1>4, <2>1 DEF Own
  <2>3. k \notin slots[o] /\ delegate[o] \in Object
    BY <1>2, <1>4 DEF Has, Delegates, Object
  <2>4. PICK m : m = [Innermost EXCEPT !.pc = "down"]
    OBVIOUS
  <2>5. /\ m \in Calls /\ m.pc = "down" /\ m.op = op /\ m.self = o /\ m.key = k
    <3>1. "down" \in Pc
      BY DEF Pc
    <3>. QED
      BY <1>0, <1>2, <2>4, <3>1, MovedCall
  <2>6. Looks(m) /\ Asked(m) = delegate[o]
    BY <1>1, <1>4, <2>3, <2>5 DEF Looks, Asked
  <2>. QED
    BY <1>0, <1>1, <2>2, <2>3, <2>4, <2>5, <2>6, QuietNests
<1>5. CASE ~Has(o, k) /\ (o \notin Table \/ delegate[o] = None)
  <2>1. AfterOwn(op, o) \in {"meta", "default"}
    BY <1>5 DEF AfterOwn
  <2>2. Goto(AfterOwn(op, o))
    BY <1>0, <1>5, <2>1 DEF Own
  <2>3. o \in Inst \/ delegate[o] = None
    BY <1>2, <1>5 DEF Object
  <2>4. Near(o, k) = {}
    BY <1>2, <1>5, <2>3, SearchEnds, HasNow DEF Near
  <2>5. PICK pc : pc = AfterOwn(op, o)
    OBVIOUS
  <2>6. pc \in {"meta", "call", "default", "root"} /\ Goto(pc)
    BY <2>1, <2>2, <2>5
  <2>. QED
    BY <1>0, <1>1, <2>4, <2>6, QuietMoves
<1>. QED
  BY <1>3, <1>4, <1>5

LEMMA ReturnedQuiet ==
    ASSUME SeenInv, quiet, StackInv', Still, Returned
    PROVE  SeenInv'
<1>0. PICK op, o, k, root :
          op = Innermost.op /\ o = Innermost.self /\ k = Innermost.key /\ root = Innermost.root
  OBVIOUS
<1>1. Waiting /\ Innermost.pc \in {"down", "up"}
  BY DEF Returned
<1>2. Looks(Innermost) /\ delegate \in Delegates
  BY <1>1, QuietFacts
<1>3. Tells(ret.how, ret.in, op, Asked(Innermost), k, None)
  BY <1>0, <1>1 DEF SeenInv, SeenQuiet, Heard
<1>4. CASE Innermost.pc = "down"
  <2>1. /\ o \in Table /\ k \notin slots[o] /\ delegate[o] # None /\ op \in {"get", "set"}
    BY <1>0, <1>2, <1>4 DEF Looks
  <2>2. PICK d \in Table : d = delegate[o]
    BY <1>2, <2>1 DEF Delegates
  <2>3. Near(o, k) = Near(d, k)
    <3>1. o \in Object
      BY <2>1 DEF Object
    <3>. QED
      BY <1>2, <2>1, <2>2, <3>1, SearchGoesDown DEF Near
  <2>4. Tells(ret.how, ret.in, op, d, k, None)
    BY <1>0, <1>3, <1>4, <2>2 DEF Asked
  <2>5. CASE Succeeded
    <3>1. PICK how, in : how = ret.how /\ in = ret.in
      OBVIOUS
    <3>2. Return(how, in)
      BY <2>5, <3>1 DEF Returned
    <3>3. Tells(how, in, op, o, k, root)
      BY <2>3, <2>4, <2>5, <3>1 DEF Tells, Succeeded
    <3>. QED
      BY <1>0, <1>1, <3>2, <3>3, QuietReturns
  <2>6. CASE ~Succeeded
    <3>1. Goto("meta")
      BY <1>4, <2>6 DEF Returned
    <3>2. Near(o, k) = {}
      BY <2>3, <2>4, <2>6 DEF Tells, Succeeded
    <3>. QED
      BY <1>0, <1>1, <3>1, <3>2, QuietMoves
  <2>. QED
    BY <2>5, <2>6
<1>5. CASE Innermost.pc = "up"
  <2>1. Near(o, k) = {} /\ op = "get" /\ root # None /\ Tells(ret.how, ret.in, op, root, k, None)
    BY <1>0, <1>2, <1>3, <1>5 DEF Looks, Asked
  <2>2. CASE Succeeded
    <3>1. PICK how, in : how = ret.how /\ in = ret.in
      OBVIOUS
    <3>2. Return(how, in)
      BY <2>2, <3>1 DEF Returned
    <3>3. Tells(how, in, op, o, k, root)
      BY <2>1, <2>2, <3>1 DEF Tells, Succeeded
    <3>. QED
      BY <1>0, <1>1, <3>2, <3>3, QuietReturns
  <2>3. CASE ~Succeeded
    <3>1. Return("missing", None)
      BY <1>5, <2>3 DEF Returned
    <3>2. Near(root, k) = {}
      BY <2>1, <2>3 DEF Tells, Succeeded
    <3>3. Tells("missing", None, op, o, k, root)
      BY <2>1, <3>2 DEF Tells
    <3>. QED
      BY <1>0, <1>1, <3>1, <3>3, QuietReturns
  <2>. QED
    BY <2>2, <2>3
<1>. QED
  BY <1>1, <1>4, <1>5

LEMMA RootTableQuiet ==
    ASSUME SeenInv, quiet, StackInv', Still, RootTable
    PROVE  SeenInv'
<1>0. PICK op, o, k, root :
          op = Innermost.op /\ o = Innermost.self /\ k = Innermost.key /\ root = Innermost.root
  OBVIOUS
<1>1. Waiting /\ Innermost.pc = "root" /\ op \in {"get", "set"}
  BY <1>0 DEF RootTable, AtPc
<1>2. Innermost \in Calls /\ Near(o, k) = {}
  BY <1>0, <1>1, QuietFacts DEF Looks
<1>3. CASE root = None \/ (op = "set" /\ k \notin slots[roottable])
  <2>1. Return("missing", None)
    BY <1>0, <1>3 DEF RootTable
  <2>2. Tells("missing", None, op, o, k, root)
    BY <1>2, <1>3 DEF Tells
  <2>. QED
    BY <1>0, <1>1, <2>1, <2>2, QuietReturns
<1>4. CASE root # None /\ op = "set" /\ k \in slots[roottable]
  <2>1. Return("found", roottable)
    BY <1>0, <1>4 DEF RootTable
  <2>2. Tells("found", roottable, op, o, k, root)
    BY <1>2, <1>4 DEF Tells
  <2>. QED
    BY <1>0, <1>1, <2>1, <2>2, QuietReturns
<1>5. CASE root # None /\ op = "get"
  <2>1. Nest("up", Call(op, root, k, None))
    BY <1>0, <1>5 DEF RootTable
  <2>2. root \in Object
    BY <1>0, <1>2, <1>5, CallFields DEF Object
  <2>3. PICK m : m = [Innermost EXCEPT !.pc = "up"]
    OBVIOUS
  <2>4. /\ m \in Calls /\ m.pc = "up" /\ m.op = op /\ m.self = o /\ m.key = k /\ m.root = root
    <3>1. "up" \in Pc
      BY DEF Pc
    <3>. QED
      BY <1>0, <1>2, <2>3, <3>1, MovedCall
  <2>5. Looks(m) /\ Asked(m) = root
    BY <1>2, <1>5, <2>4 DEF Looks, Asked
  <2>. QED
    BY <1>0, <1>1, <2>1, <2>2, <2>3, <2>4, <2>5, QuietNests
<1>. QED
  BY <1>1, <1>3, <1>4, <1>5

\* The metamethods and the default delegates, asked past the delegates.
LEMMA MetaQuiet ==
    ASSUME SeenInv, quiet, StackInv', Still, NoMeta \/ DefaultDelegate \/ Meta
    PROVE  SeenInv'
<1>0. PICK op, o, k, root :
          op = Innermost.op /\ o = Innermost.self /\ k = Innermost.key /\ root = Innermost.root
  OBVIOUS
<1>1. Waiting /\ Innermost.pc \in {"meta", "call", "default"}
  BY DEF NoMeta, DefaultDelegate, Meta, CallMeta, MetaReturns, MetaFails, MetaMisses, AtPc
<1>2. Near(o, k) = {}
  BY <1>0, <1>1, QuietFacts DEF Looks
<1>3. ASSUME NEW pc \in {"meta", "call", "default", "root"}, Goto(pc)
      PROVE  SeenInv'
  BY <1>0, <1>1, <1>2, <1>3, QuietMoves
<1>4. ASSUME NEW how \in {"answered", "failed"}, NEW in, Return(how, in)
      PROVE  SeenInv'
  <2>1. Tells(how, in, op, o, k, root)
    BY <1>2 DEF Tells
  <2>. QED
    BY <1>0, <1>1, <1>4, <2>1, QuietReturns
<1>5. CASE NoMeta
  BY <1>3, <1>5 DEF NoMeta
<1>6. CASE DefaultDelegate
  BY <1>3, <1>4, <1>6 DEF DefaultDelegate
<1>7. CASE CallMeta
  BY <1>3, <1>7 DEF CallMeta
<1>8. CASE MetaReturns
  BY <1>4, <1>8 DEF MetaReturns
<1>9. CASE MetaFails
  BY <1>4, <1>9 DEF MetaFails
<1>10. CASE MetaMisses
  BY <1>3, <1>10 DEF MetaMisses
<1>. QED
  BY <1>5, <1>6, <1>7, <1>8, <1>9, <1>10 DEF Meta

\* The script begins an operation: a Get or Set in a metamethod of the quiet,
\* the Set that begins a quiet, or the Get that follows it.
LEMMA BeginSeen ==
    ASSUME SeenInv, StackInv', NEW o \in exists \cup Inst, NEW op \in Op, NEW k \in Name,
           NEW root \in exists \cup {None}, Begin(op, o, k, root)
    PROVE  SeenInv'
<1>. DEFINE still == op \in {"get", "set"} /\ (quiet \/ (~Waiting /\ op = "set"))
            same == ret.op = "set" /\ ret.how = "found" /\ ret.self = o /\ ret.key = k
<1>1. /\ UNCHANGED <<slots, delegate, roottable>> /\ quiet' = still
      /\ wrote' = IF still /\ Waiting THEN wrote
                  ELSE IF still /\ op = "get" /\ same THEN ret.in ELSE None
  BY DEF Begin, LookUp, heap
<1>2. roottable' \in Table /\ quiet' \in BOOLEAN
  BY <1>1 DEF SeenInv
<1>3. PICK c : c = Call(op, o, k, root)
  OBVIOUS
<1>4. /\ c \in Calls /\ c.op = op /\ c.self = o /\ c.key = k /\ c.pc = "own"
      /\ pending \in Seq(Calls)
  <2>1. o \in Object /\ k \in Key /\ root \in Table \cup {None} /\ pending \in Seq(Calls)
    BY LookupAssumption DEF SeenInv, StackInv, DelegInv, Object, CallsFit
  <2>. QED
    BY <1>3, <2>1, NewCall
<1>5. Pushes(pending, pending', c)
  <2>1. pending' = Append(pending, c)
    BY <1>3 DEF Begin
  <2>. QED
    BY <1>4, <2>1, AppendPushes
<1>6. /\ Len(pending') = Len(pending) + 1 /\ pending'[Len(pending) + 1] = c
      /\ \A i \in 1 .. Len(pending) : pending'[i] = pending[i]
  BY <1>5 DEF Pushes
<1>7. CASE ~still
  BY <1>1, <1>2, <1>7 DEF SeenInv
<1>8. CASE still /\ Waiting
  <2>1. quiet /\ Still
    <3>1. quiet
      BY <1>8
    <3>2. quiet' = quiet
      BY <1>1, <1>8, <3>1 DEF SeenInv
    <3>. QED
      BY <1>1, <1>8, <3>1, <3>2 DEF Still
  <2>2. /\ Chained(pending) /\ Len(pending) \in Nat /\ Len(pending) > 0
        /\ Innermost = pending[Len(pending)]
    BY <1>8, <2>1, QuietFacts
  <2>3. Innermost.pc = "call"
    BY <1>8 DEF Begin, Script, Running
  <2>4. Looks(c) /\ Continues(pending[Len(pending)], c)
    BY <1>4, <1>8, <2>2, <2>3 DEF Looks, Continues
  <2>5. Chained(pending')
    BY <1>4, <1>5, <2>2, <2>4, ChainPushed
  <2>6. pending'[1] = pending[1]
    BY <1>6, <2>2
  <2>7. PICK n \in Nat : n = Len(pending') /\ n > 0 /\ pending'[n] = c
    BY <1>6, <2>2
  <2>8. pending'[n].pc \notin {"down", "up"}
    BY <1>4, <2>7
  <2>. QED
    BY <1>8, <2>1, <2>5, <2>6, <2>7, <2>8, QuietGoesOn
<1>9. CASE still /\ ~Waiting
  <2>1. Len(pending') = 1 /\ pending'[1] = c
    <3>1. Len(pending) = 0
      BY <1>9 DEF Waiting
    <3>. QED
      BY <1>6, <3>1
  <2>2. Looks(c)'
    BY <1>4, <1>9 DEF Looks
  <2>3. Chained(pending)'
    BY <2>1, <2>2 DEF Chained
  <2>4. Waiting' /\ Innermost' = c
    BY <2>1 DEF Waiting, Innermost
  <2>5. Heard' /\ Told'
    BY <1>4, <2>4 DEF Heard, Told
  <2>6. Wrote'
    <3>1. SUFFICES ASSUME wrote' # None
                   PROVE  c.op = "get" /\ WroteFor(c.self, c.key)'
      BY <2>1, <2>4 DEF Wrote
    <3>2. op = "get" /\ quiet /\ same /\ wrote' = ret.in
      BY <1>1, <1>9, <3>1
    <3>3. Tells(ret.how, ret.in, ret.op, ret.self, ret.key, ret.root)
      BY <1>9, <3>2 DEF SeenInv, SeenQuiet, Told
    <3>4. \/ Near(o, k) = {wrote'}
          \/ Near(o, k) = {} /\ wrote' = roottable /\ k \in slots[roottable]
      BY <3>2, <3>3 DEF Tells
    <3>5. WroteFor(o, k)'
      BY <1>1, <3>4 DEF WroteFor, Near
    <3>. QED
      BY <1>4, <3>2, <3>5
  <2>7. quiet'
    BY <1>1, <1>9
  <2>. QED
    BY <1>2, <2>3, <2>5, <2>6, <2>7 DEF SeenInv, SeenQuiet
<1>. QED
  BY <1>7, <1>8, <1>9

LEMMA NextSeen ==
    ASSUME SeenInv, [Next]_vars
    PROVE  SeenInv'
<1>0. StackInv'
  BY NextStack DEF SeenInv
<1>1. ASSUME Disturb, roottable' \in Table
      PROVE  SeenInv'
  BY <1>0, <1>1 DEF Disturb, SeenInv
<1>2. CASE Start
  <2>0. exists \subseteq Table /\ roottable \in Table
    BY DEF SeenInv, StackInv, DelegInv
  <2>1. ASSUME NEW o \in exists \cup Inst, NEW op \in Op, NEW k \in Name,
               NEW root \in exists \cup {None}, Begin(op, o, k, root)
        PROVE  SeenInv'
    BY <1>0, <2>1, BeginSeen
  <2>2. ASSUME NEW t, NEW d, SetDelegate(t, d)
        PROVE  SeenInv'
    BY <1>1, <2>0, <2>2 DEF SetDelegate
  <2>3. ASSUME NEW t, NEW k, NEW there, RawSlot(t, k, there)
        PROVE  SeenInv'
    BY <1>1, <2>0, <2>3 DEF RawSlot
  <2>4. ASSUME NEW t \in exists, SetRootTable(t)
        PROVE  SeenInv'
    BY <1>1, <2>0, <2>4 DEF SetRootTable
  <2>5. ASSUME NEW W, NEW t, SetRoot(W, t)
        PROVE  SeenInv'
    BY <1>1, <2>0, <2>5 DEF SetRoot, heap
  <2>. QED
    BY <1>2, <2>1, <2>2, <2>3, <2>4, <2>5 DEF Start
<1>3. CASE Step \/ Meta
  <2>1. UNCHANGED <<roottable, quiet, wrote>>
    BY <1>3 DEF Step, Own, Returned, NoMeta, DefaultDelegate, RootTable, NewSlot, DeleteSlot,
           Clone, Meta, CallMeta, MetaReturns, MetaFails, MetaMisses, heap, history
  <2>2. CASE ~quiet
    BY <1>0, <2>1, <2>2 DEF SeenInv
  <2>3. CASE quiet
    <3>1. ~NewSlot /\ ~DeleteSlot /\ ~ \E u \in Table : Clone(u)
      <4>1. SUFFICES ASSUME Waiting PROVE Innermost.op \in {"get", "set"}
        BY DEF NewSlot, DeleteSlot, Clone, AtPc
      <4>. QED
        BY <2>3, <4>1, QuietFacts DEF Looks
    <3>2. Own \/ Returned \/ NoMeta \/ DefaultDelegate \/ RootTable \/ Meta
      BY <1>3, <3>1 DEF Step
    <3>3. Still
      <4>1. UNCHANGED <<slots, delegate>>
        BY <3>2 DEF Own, Returned, NoMeta, DefaultDelegate, RootTable,
               Meta, CallMeta, MetaReturns, MetaFails, MetaMisses, heap
      <4>. QED
        BY <2>1, <4>1 DEF Still
    <3>. QED
      BY <1>0, <2>3, <3>2, <3>3, OwnQuiet, ReturnedQuiet, RootTableQuiet, MetaQuiet
  <2>. QED
    BY <2>2, <2>3 DEF SeenInv
<1>4. CASE UNCHANGED vars
  <2>1. Still /\ UNCHANGED <<pending, ret>>
    BY <1>4 DEF vars, Still
  <2>2. Chained(pending) => Chained(pending)'
    BY <2>1, SameMeaning
  <2>3. SeenQuiet => SeenQuiet'
    BY <2>1, <2>2 DEF SeenQuiet, Heard, Told, Wrote, Waiting, Innermost, Tells, Asked, WroteFor,
           Near, Still
  <2>. QED
    BY <1>0, <2>1, <2>3 DEF SeenInv, Still
<1>. QED
  BY <1>2, <1>3, <1>4 DEF Next

\* A Get after a Set of the same object and name, with nothing else called in
\* between, by metamethods neither: it reads the slot that Set wrote when the
\* object or a delegate has it, whatever _get metamethods there are, and, from
\* a closure whose root is the root table that Set wrote, it reads that too
\* unless a metamethod or a default delegate comes before it.
THEOREM GetAlwaysSeesSet == Spec => []GetSeesSet
<1>1. Init => SeenInv
  <2>1. SUFFICES ASSUME Init PROVE SeenInv
    OBVIOUS
  <2>2. StackInv
    BY <2>1, InitStack
  <2>3. roottable \in Table /\ quiet = FALSE /\ wrote = None
    BY <2>1, LookupAssumption DEF Init
  <2>. QED
    BY <2>2, <2>3 DEF SeenInv
<1>2. SeenInv /\ [Next]_vars => SeenInv'
  BY NextSeen
<1>3. SeenInv => GetSeesSet
  <2>1. SUFFICES ASSUME SeenInv, ~Waiting, wrote # None
                 PROVE  IF Nearest(ret.self, ret.key) # {}
                        THEN ret.how = "found" /\ ret.in = wrote
                        ELSE ret.root = roottable =>
                               \/ ret.how = "found" /\ ret.in = wrote
                               \/ ret.how \in {"answered", "failed"}
    BY DEF GetSeesSet
  <2>2. PICK how, in, o, k, root :
            how = ret.how /\ in = ret.in /\ o = ret.self /\ k = ret.key /\ root = ret.root
    OBVIOUS
  <2>3. WroteFor(o, k) /\ Tells(how, in, "get", o, k, root)
    BY <2>1, <2>2 DEF SeenInv, SeenQuiet, Wrote, Told
  <2>4. Nearest(o, k) = Near(o, k)
    BY NearestNow DEF Near
  <2>5. CASE Near(o, k) # {}
    <3>1. how = "found" /\ Near(o, k) = {in} /\ Near(o, k) = {wrote}
      BY <2>3, <2>5 DEF Tells, WroteFor
    <3>2. in = wrote
      BY ONLY <3>1
    <3>. QED
      BY <2>2, <2>4, <2>5, <3>1, <3>2
  <2>6. CASE Near(o, k) = {} /\ root = roottable
    <3>1. /\ wrote = roottable /\ k \in slots[roottable] /\ roottable \in Table
          /\ delegate \in Delegates
      BY <2>1, <2>3, <2>6 DEF WroteFor, SeenInv, StackInv, DelegInv, Delegates
    <3>2. Near(roottable, k) = {roottable} /\ roottable # None
      <4>1. roottable \in Object /\ HasIn(slots, roottable, k)
        BY <3>1 DEF Object, HasIn
      <4>. QED
        BY <3>1, <4>1, SearchEnds, LookupAssumption DEF Near
    <3>3. how # "missing"
      BY <2>3, <2>6, <3>2 DEF Tells
    <3>4. how = "found" => in = wrote
      <4>1. how = "found" => {in} = {roottable}
        BY <2>3, <2>6, <3>2 DEF Tells
      <4>. QED
        BY <3>1, <4>1
    <3>5. how \in {"found", "answered", "missing", "failed"}
      BY <2>3 DEF Tells
    <3>. QED
      BY <2>2, <2>4, <2>6, <3>3, <3>4, <3>5
  <2>. QED
    BY <2>2, <2>4, <2>5, <2>6
<1>. QED
  BY <1>1, <1>2, <1>3, PTL DEF Spec
=============================================================================
