--------------------------- MODULE OuterCells_proofs ---------------------------
(***************************************************************************)
(* Proofs about OuterCells, for every set of variables and outers and      *)
(* every nesting of frames and blocks: as long as no error, jump, yield or  *)
(* lv_reservestack passes a captured variable by (the four findings that    *)
(* the flags stand for), closures share their variables.                    *)
(***************************************************************************)
EXTENDS OuterCells, FiniteSetTheorems, SequenceTheorems, TLAPS

Disciplined == ~CatchCaptured /\ ~JumpCaptured /\ ~YieldCaptured /\ ~ReserveCaptured

----------------------------------------------------------------------------
(* The invariant.                                                          *)

\* Blocks begin where those around them have begun, and below n.
Rises(bs, n) ==
    /\ \A b \in 1 .. Len(bs) : bs[b].start <= n
    /\ \A b, c \in 1 .. Len(bs) : b <= c => bs[b].start <= bs[c].start

BlocksInv ==
    /\ Len(blocks) >= 1
    /\ blocks[1] = [kind |-> "frame", start |-> 0]
    /\ Rises(blocks, Len(locals))
    /\ Rises(saved.blocks, Len(saved.vars))

Distinct(s) == \A i, j \in 1 .. Len(s) : s[i] = s[j] => i = j

\* A variable is in one place.
VarsInv ==
    /\ Distinct(locals) /\ Distinct(saved.vars)
    /\ \A i \in 1 .. Len(locals), j \in 1 .. Len(saved.vars) : locals[i] # saved.vars[j]

\* The list of open outers has those that point into the stack, in order.
OpenInv ==
    /\ OpenOutersDescend
    /\ \A i \in 1 .. Len(open) : outers[open[i]].idx \in 1 .. Len(locals)
    /\ \A o \in Outer : /\ outers[o].at # "old stack"
                        /\ outers[o].at = "stack" <=> o \in Elements(open)

\* A closure knows variable c[1] by outer c[2].
Knows(c) ==
    LET outer == outers[c[2]]
    IN  \/ /\ outer.at = "stack"
           /\ locals[outer.idx] = c[1]
        \/ /\ outer.at = "value"
           /\ outer.var = c[1]
           /\ c[1] \notin Alive

CapturesInv ==
    /\ \A c \in captured : Knows(c)
    /\ \A c, d \in captured : c[1] = d[1] => c[2] = d[2]

IInv == TypeOK /\ BlocksInv /\ VarsInv /\ OpenInv /\ CapturesInv

----------------------------------------------------------------------------
(* What the list of open outers is cut by.                                 *)

\* A set of positions that has all positions below each of its own.
LEMMA PrefixSet ==
    ASSUME NEW L \in Nat, NEW P \in SUBSET (1 .. L),
           \A i \in P : \A j \in 1 .. i : j \in P
    PROVE  Cardinality(P) \in 0 .. L /\ P = 1 .. Cardinality(P)
<1>. DEFINE c == Cardinality(P)
<1>1. IsFiniteSet(1 .. L) /\ Cardinality(1 .. L) = L
  BY FS_Interval
<1>2. IsFiniteSet(P) /\ c <= L /\ c \in Nat
  BY ZenonT(30), <1>1, FS_Subset, FS_CardinalityType
<1>3. ASSUME NEW i \in P
      PROVE  i <= c
  <2>1. 1 .. i \in SUBSET P
    BY <1>3
  <2>2. Cardinality(1 .. i) <= c
    BY <1>2, <2>1, FS_Subset
  <2>3. Cardinality(1 .. i) = i
    BY FS_Interval
  <2>. QED
    BY <2>2, <2>3
<1>4. IsFiniteSet(1 .. c) /\ Cardinality(1 .. c) = c
  BY <1>2, FS_Interval
<1>5. P \in SUBSET (1 .. c)
  BY <1>2, <1>3
<1>. HIDE DEF c
<1>6. c = Cardinality(P) => 1 .. c = P
  BY <1>4, <1>5, FS_Subset
<1>. QED
  BY <1>2, <1>6 DEF c

\* FindOuter and CloseOuters stop at the first outer below register n, and need
\* not look further.
LEMMA AboveSplits ==
    ASSUME TypeOK, OpenInv, NEW n \in Nat
    PROVE  /\ Above(n) \in 0 .. Len(open)
           /\ \A i \in 1 .. Len(open) : i <= Above(n) <=> outers[open[i]].idx >= n
<1>. DEFINE P == {i \in 1 .. Len(open) : \A j \in 1 .. i : outers[open[j]].idx >= n}
<1>1. /\ Len(open) \in Nat
      /\ \A i \in 1 .. Len(open) : open[i] \in Outer /\ outers[open[i]].idx \in Nat
  <2>1. open \in Seq(Outer) /\ outers \in [Outer -> LVOuter]
    BY DEF TypeOK
  <2>2. \A o \in Outer : outers[o].idx \in Nat
    BY <2>1 DEF LVOuter
  <2>. QED
    BY <2>1, <2>2
<1>2. \A i \in P : \A j \in 1 .. i : j \in P
  BY <1>1
<1>3. Cardinality(P) \in 0 .. Len(open) /\ P = 1 .. Cardinality(P)
  BY <1>1, <1>2, PrefixSet
<1>4. Above(n) = Cardinality(P)
  BY DEF Above
<1>5. ASSUME NEW i \in 1 .. Len(open)
      PROVE  i \in P <=> outers[open[i]].idx >= n
  <2>1. ASSUME outers[open[i]].idx >= n, NEW j \in 1 .. i
        PROVE  outers[open[j]].idx >= n
    <3>1. j \in 1 .. Len(open) /\ (j = i \/ j < i)
      BY <1>1
    <3>2. j = i \/ outers[open[j]].idx > outers[open[i]].idx
      BY <3>1 DEF OpenInv, OpenOutersDescend
    <3>. QED
      BY <1>1, <2>1, <3>1, <3>2
  <2>2. i \in 1 .. i
    BY <1>1
  <2>. QED
    BY <2>1, <2>2
<1>. QED
  BY <1>1, <1>3, <1>4, <1>5

\* The frame that runs is the last one.
LEMMA FrameFound ==
    ASSUME TypeOK, BlocksInv
    PROVE  /\ LastFrame \in Frames /\ LastFrame \in 1 .. Len(blocks)
           /\ \A f \in Frames : f <= LastFrame
           /\ stackbase \in 0 .. Len(locals)
<1>. DEFINE P == {i \in 1 .. Len(blocks) : \E f \in Frames : i <= f}
<1>1. Len(blocks) \in Nat /\ Frames \in SUBSET (1 .. Len(blocks)) /\ 1 \in Frames
  BY DEF TypeOK, BlocksInv, Frames
<1>2. 1 \in P /\ \A i \in P : \A j \in 1 .. i : j \in P
  BY <1>1
<1>3. Cardinality(P) \in 0 .. Len(blocks) /\ P = 1 .. Cardinality(P)
  BY <1>1, <1>2, PrefixSet
<1>4. PICK f \in Frames : Cardinality(P) <= f
  <2>1. Cardinality(P) \in P
    <3>. HIDE DEF P
    <3>. QED
      BY <1>2, <1>3
  <2>. QED
    BY <2>1
<1>5. ASSUME NEW g \in Frames
      PROVE  g <= f
  <2>1. g \in P
    BY <1>1
  <2>2. g \in 1 .. Cardinality(P)
    BY <1>3, <2>1
  <2>. QED
    BY <1>1, <1>3, <1>4, <2>2
<1>6. LastFrame \in Frames /\ \A g \in Frames : g <= LastFrame
  BY <1>5 DEF LastFrame
<1>7. blocks[LastFrame].start \in 0 .. Len(locals)
  <2>1. LastFrame \in 1 .. Len(blocks)
    BY <1>1, <1>6
  <2>2. blocks[LastFrame] \in Block /\ Len(locals) \in Nat
    BY <2>1 DEF TypeOK
  <2>3. blocks[LastFrame].start <= Len(locals)
    BY <2>1 DEF BlocksInv, Rises
  <2>. QED
    BY <2>2, <2>3 DEF Block
<1>. QED
  BY <1>1, <1>6, <1>7 DEF stackbase

----------------------------------------------------------------------------
(* A step, seen from the outers: the first k of the open ones are closed    *)
(* with the values their registers had, or freed; the others stay open.    *)

Released(o) == outers'[o] = NoOuter /\ ~HeldIn(captured', o)

ClosedNow(o) ==
    \/ Released(o)
    \/ outers'[o].at = "value" /\ outers'[o].var = locals[outers[o].idx]

Evolves(k) ==
    /\ k \in 0 .. Len(open)
    /\ open' = SubSeq(open, k + 1, Len(open))
    /\ captured' \subseteq captured
    /\ outers' \in [Outer -> LVOuter]
    /\ \A i \in 1 .. Len(open) : IF i <= k THEN ClosedNow(open[i])
                                             ELSE outers'[open[i]] = outers[open[i]]
    /\ \A o \in Outer \ Elements(open) : outers'[o] = outers[o] \/ Released(o)

\* Seen from the variables: those of the open outers stay where they are, those
\* of the closed ones go, and the ones that come are new.
Stays(k) ==
    /\ \A i \in 1 .. Len(open) : IF i <= k THEN locals[outers[open[i]].idx] \notin Alive'
                                             ELSE outers[open[i]].idx <= Len(locals')
    /\ \A i \in 1 .. Len(locals) : i <= Len(locals') => locals'[i] = locals[i]
    /\ Alive' \subseteq Alive \cup Fresh

\* The outers that are still open, in terms of the list before.
LEMMA RestOfOpen ==
    ASSUME TypeOK, NEW k \in 0 .. Len(open), open' = SubSeq(open, k + 1, Len(open))
    PROVE  /\ open' \in Seq(Outer) /\ Len(open') = Len(open) - k
           /\ \A i \in 1 .. Len(open') : k + i \in 1 .. Len(open) /\ open'[i] = open[k + i]
           /\ Elements(open') = {open[i] : i \in k + 1 .. Len(open)}
<1>1. open \in Seq(Outer) /\ Len(open) \in Nat /\ \A i \in 1 .. Len(open) : open[i] \in Outer
  BY DEF TypeOK
<1>2. /\ open' \in Seq(Outer) /\ Len(open') = Len(open) - k
      /\ \A i \in 1 .. Len(open') : open'[i] = open[k + i]
  BY <1>1
<1>3. \A i \in 1 .. Len(open') : k + i \in 1 .. Len(open) /\ k + i \in k + 1 .. Len(open)
  BY <1>1, <1>2
<1>4. Elements(open') \subseteq {open[i] : i \in k + 1 .. Len(open)}
  BY <1>2, <1>3 DEF Elements
<1>5. ASSUME NEW i \in k + 1 .. Len(open)
      PROVE  open[i] \in Elements(open')
  <2>1. i - k \in 1 .. Len(open') /\ open'[i - k] = open[i]
    BY <1>1, <1>2
  <2>. QED
    BY <2>1 DEF Elements
<1>. QED
  BY <1>2, <1>3, <1>4, <1>5

LEMMA OpenTransfer ==
    ASSUME IInv, locals' \in Seq(Var), NEW k, Evolves(k), Stays(k)
    PROVE  OpenInv'
<1>1. /\ k \in 0 .. Len(open) /\ open' = SubSeq(open, k + 1, Len(open))
      /\ Len(locals') \in Nat /\ TypeOK /\ OpenInv
  BY DEF Evolves, IInv
<1>2. /\ open \in Seq(Outer) /\ Len(open) \in Nat
      /\ \A i \in 1 .. Len(open) : open[i] \in Outer
  BY <1>1 DEF TypeOK
<1>3. /\ Len(open') = Len(open) - k
      /\ \A i \in 1 .. Len(open') : k + i \in 1 .. Len(open) /\ open'[i] = open[k + i]
      /\ Elements(open') = {open[i] : i \in k + 1 .. Len(open)}
  BY <1>1, RestOfOpen
<1>4. \A i \in 1 .. Len(open') : /\ k + i \in 1 .. Len(open) /\ open'[i] = open[k + i]
                                 /\ outers'[open'[i]] = outers[open[k + i]]
                                 /\ outers[open[k + i]].idx <= Len(locals')
  BY <1>1, <1>2, <1>3 DEF Evolves, Stays
<1>5. OpenOutersDescend'
  <2>1. SUFFICES ASSUME NEW i \in 1 .. Len(open'), NEW j \in 1 .. Len(open'), i < j
                 PROVE  outers'[open'[i]].idx > outers'[open'[j]].idx
    BY DEF OpenOutersDescend
  <2>2. k + i \in 1 .. Len(open) /\ k + j \in 1 .. Len(open) /\ k + i < k + j
    BY <1>1, <1>4, <2>1
  <2>3. outers[open[k + i]].idx > outers[open[k + j]].idx
    BY <1>1, <2>2 DEF OpenInv, OpenOutersDescend
  <2>. QED
    BY <1>4, <2>3
<1>6. \A i \in 1 .. Len(open') : outers'[open'[i]].idx \in 1 .. Len(locals')
  <2>1. Len(locals) \in Nat
    BY <1>1 DEF TypeOK
  <2>2. \A i \in 1 .. Len(open) : outers[open[i]].idx \in 1 .. Len(locals)
    BY <1>1 DEF OpenInv
  <2>3. ASSUME NEW i \in 1 .. Len(open')
        PROVE  outers'[open'[i]].idx \in 1 .. Len(locals')
    <3>1. PICK d : d = outers[open[k + i]].idx
      OBVIOUS
    <3>2. outers'[open'[i]].idx = d /\ d <= Len(locals') /\ k + i \in 1 .. Len(open)
      BY <1>4, <3>1
    <3>3. d \in 1 .. Len(locals)
      BY <2>2, <3>1, <3>2
    <3>4. d \in 1 .. Len(locals')
      BY <1>1, <2>1, <3>2, <3>3
    <3>. QED
      BY <3>2, <3>4
  <2>. QED
    BY <2>3
<1>7. ASSUME NEW o \in Outer
      PROVE  outers'[o].at # "old stack" /\ (outers'[o].at = "stack" <=> o \in Elements(open'))
  <2>1. CASE o \notin Elements(open)
    <3>1. o \notin Elements(open')
      BY <1>1, <1>3, <2>1 DEF Elements
    <3>2. outers'[o] = outers[o] \/ outers'[o] = NoOuter
      BY <2>1 DEF Evolves, Released
    <3>3. NoOuter.at = "none"
      BY DEF NoOuter
    <3>4. outers[o].at # "old stack" /\ outers[o].at # "stack"
      BY <1>1, <2>1 DEF OpenInv
    <3>5. outers'[o].at # "old stack" /\ outers'[o].at # "stack"
      BY <3>2, <3>3, <3>4
    <3>. QED
      BY <3>1, <3>5
  <2>2. CASE o \in Elements(open)
    <3>1. PICK i \in 1 .. Len(open) : o = open[i]
      BY <2>2 DEF Elements
    <3>2. CASE i <= k
      <4>1. outers'[o].at \in {"none", "value"}
        BY <3>1, <3>2 DEF Evolves, ClosedNow, Released, NoOuter
      <4>2. o \notin Elements(open')
        <5>1. SUFFICES ASSUME NEW j \in k + 1 .. Len(open), o = open[j]
                       PROVE  FALSE
          BY <1>3
        <5>2. j \in 1 .. Len(open) /\ i < j
          BY <1>1, <3>2
        <5>3. outers[open[i]].idx > outers[open[j]].idx
          BY <1>1, <5>2 DEF OpenInv, OpenOutersDescend
        <5>4. outers[o].idx \in Nat
          BY <1>1 DEF TypeOK, LVOuter
        <5>. QED
          BY <3>1, <5>1, <5>3, <5>4
      <4>. QED
        BY <4>1, <4>2
    <3>3. CASE ~(i <= k)
      <4>1. outers'[o] = outers[o] /\ i \in k + 1 .. Len(open)
        BY <1>1, <3>1, <3>3 DEF Evolves
      <4>. QED
        BY <1>1, <1>3, <2>2, <3>1, <4>1 DEF OpenInv
    <3>. QED
      BY <3>2, <3>3
  <2>. QED
    BY <2>1, <2>2
<1>. QED
  BY <1>5, <1>6, <1>7 DEF OpenInv

LEMMA CapturesTransfer ==
    ASSUME IInv, NEW k, Evolves(k), Stays(k)
    PROVE  CapturesInv'
<1>1. /\ captured' \subseteq captured /\ k \in 0 .. Len(open)
      /\ captured \subseteq Var \X Outer
  BY DEF Evolves, IInv, TypeOK
<1>2. \A c, d \in captured' : c[1] = d[1] => c[2] = d[2]
  BY <1>1 DEF IInv, CapturesInv
<1>3. ASSUME NEW c \in captured'
      PROVE  Knows(c)'
  <2>. DEFINE o == c[2]
  <2>1. c \in captured /\ Knows(c) /\ o \in Outer /\ c[1] \in Var /\ ~Released(o)
    BY <1>1 DEF IInv, CapturesInv, Released, HeldIn
  <2>2. CASE outers[o].at = "stack"
    <3>1. PICK i \in 1 .. Len(open) : o = open[i]
      BY <2>1, <2>2 DEF IInv, OpenInv, Elements
    <3>2. outers[o].idx \in 1 .. Len(locals) /\ locals[outers[o].idx] = c[1]
      BY <2>1, <2>2, <3>1 DEF IInv, OpenInv, Knows
    <3>3. CASE i <= k
      BY <2>1, <3>1, <3>2, <3>3 DEF Evolves, Stays, ClosedNow, Knows
    <3>4. CASE ~(i <= k)
      <4>1. outers'[o] = outers[o] /\ outers[o].idx <= Len(locals')
        BY <3>1, <3>4 DEF Evolves, Stays
      <4>2. locals'[outers[o].idx] = locals[outers[o].idx]
        BY <3>2, <4>1 DEF Stays
      <4>. QED
        BY <2>2, <3>2, <4>1, <4>2 DEF Knows
    <3>. QED
      BY <3>3, <3>4
  <2>3. CASE outers[o].at # "stack"
    <3>1. outers[o].at = "value" /\ outers[o].var = c[1] /\ c[1] \notin Alive
      BY <2>1, <2>3 DEF Knows
    <3>2. o \notin Elements(open)
      BY <2>1, <2>3 DEF IInv, OpenInv
    <3>3. outers'[o] = outers[o]
      BY <2>1, <3>2 DEF Evolves
    <3>4. c[1] \notin Fresh
      BY <2>1 DEF Fresh
    <3>5. c[1] \notin Alive'
      BY <3>1, <3>4 DEF Stays
    <3>. QED
      BY <3>1, <3>3, <3>5 DEF Knows
  <2>. QED
    BY <2>2, <2>3
<1>. QED
  BY <1>2, <1>3 DEF CapturesInv
----------------------------------------------------------------------------
(* The operations on the list.                                             *)

\* An outer is in the list once.
LEMMA OpenOnce ==
    ASSUME TypeOK, OpenInv, NEW i \in 1 .. Len(open), NEW j \in 1 .. Len(open),
           open[i] = open[j]
    PROVE  i = j
<1>1. i \in Nat /\ j \in Nat /\ outers[open[i]].idx \in Nat
  <2>1. open \in Seq(Outer) /\ Len(open) \in Nat /\ outers \in [Outer -> LVOuter]
    BY DEF TypeOK
  <2>2. \A o \in Outer : outers[o].idx \in Nat
    BY <2>1 DEF LVOuter
  <2>3. open[i] \in Outer
    BY <2>1
  <2>4. i \in Nat /\ j \in Nat
    BY <2>1
  <2>. QED
    BY <2>2, <2>3, <2>4
<1>2. i < j => outers[open[i]].idx > outers[open[j]].idx
  BY DEF OpenInv, OpenOutersDescend
<1>3. j < i => outers[open[j]].idx > outers[open[i]].idx
  BY DEF OpenInv, OpenOutersDescend
<1>. QED
  BY <1>1, <1>2, <1>3

\* CloseOuters closes the outers of the registers from n on, and only those.
LEMMA Closes ==
    ASSUME IInv, NEW n \in Nat, CloseOuters(n, locals)
    PROVE  Evolves(Above(n))
<1>. DEFINE k == Above(n)
            first == SubSeq(open, 1, k)
            rest == SubSeq(open, k + 1, Len(open))
            value(o) == [at |-> "value", idx |-> outers[o].idx,
                         var |-> IF outers[o].idx \in DOMAIN locals
                                   THEN locals[outers[o].idx] ELSE NoVar]
            closed == [o \in Outer |-> IF o \in Elements(first) THEN value(o) ELSE outers[o]]
<1>1. open' = rest /\ outers' = Collected(closed, rest, captured) /\ captured' = captured
  BY DEF CloseOuters
<1>2. k \in 0 .. Len(open)
  BY AboveSplits DEF IInv
<1>3. /\ open \in Seq(Outer) /\ Len(open) \in Nat /\ locals \in Seq(Var) /\ Len(locals) \in Nat
      /\ outers \in [Outer -> LVOuter] /\ \A i \in 1 .. Len(open) : open[i] \in Outer
      /\ DOMAIN locals = 1 .. Len(locals)
  BY DEF IInv, TypeOK
<1>4. \A i \in 1 .. Len(open) : outers[open[i]].idx \in 1 .. Len(locals)
  BY DEF IInv, OpenInv
<1>. HIDE DEF k
<1>5. Elements(rest) = {open[i] : i \in k + 1 .. Len(open)}
  BY <1>1, <1>2, RestOfOpen DEF IInv
<1>6. Elements(first) = {open[i] : i \in 1 .. k}
  <2>1. Len(first) = k /\ \A i \in 1 .. k : first[i] = open[i]
    BY <1>2, <1>3
  <2>. QED
    BY <2>1 DEF Elements
<1>. HIDE DEF first, rest
<1>7. \A o \in Outer : outers'[o] = IF o \in Elements(rest) \/ HeldIn(captured, o)
                                     THEN closed[o] ELSE NoOuter
  BY <1>1 DEF Collected
<1>8. ASSUME NEW o \in Outer
      PROVE  value(o) \in LVOuter /\ NoOuter \in LVOuter
  <2>1. outers[o].idx \in Nat
    BY <1>3 DEF LVOuter
  <2>2. outers[o].idx \in DOMAIN locals => locals[outers[o].idx] \in Var
    BY <1>3
  <2>. QED
    BY <2>1, <2>2 DEF LVOuter, NoOuter
<1>9. outers' \in [Outer -> LVOuter]
  <2>1. \A o \in Outer : outers'[o] \in LVOuter
    BY <1>3, <1>7, <1>8
  <2>2. outers' = [o \in Outer |-> outers'[o]]
    BY <1>1 DEF Collected
  <2>. QED
    BY <2>1, <2>2
<1>10. ASSUME NEW i \in 1 .. Len(open)
       PROVE  IF i <= k THEN ClosedNow(open[i]) ELSE outers'[open[i]] = outers[open[i]]
  <2>1. CASE i <= k
    <3>1. open[i] \in Elements(first) /\ open[i] \in Outer
      BY <1>2, <1>3, <1>6, <2>1
    <3>2. closed[open[i]] = value(open[i])
      BY <3>1
    <3>3. value(open[i]).at = "value" /\ value(open[i]).var = locals[outers[open[i]].idx]
      BY <1>3, <1>4
    <3>4. outers'[open[i]] = value(open[i]) \/ Released(open[i])
      BY <1>1, <1>7, <3>1, <3>2 DEF Released
    <3>. QED
      BY <2>1, <3>3, <3>4 DEF ClosedNow
  <2>2. CASE ~(i <= k)
    <3>1. open[i] \in Elements(rest) /\ open[i] \in Outer
      BY <1>2, <1>3, <1>5, <2>2
    <3>2. open[i] \notin Elements(first)
      <4>1. SUFFICES ASSUME NEW j \in 1 .. k, open[i] = open[j]
                     PROVE  FALSE
        BY <1>6
      <4>2. j \in 1 .. Len(open)
        BY <1>2, <1>3
      <4>3. i = j
        BY <4>1, <4>2, OpenOnce DEF IInv
      <4>. QED
        BY <1>2, <2>2, <4>3
    <3>3. closed[open[i]] = outers[open[i]]
      BY <3>1, <3>2
    <3>. QED
      BY <1>7, <2>2, <3>1, <3>3
  <2>. QED
    BY <2>1, <2>2
<1>11. ASSUME NEW o \in Outer \ Elements(open)
       PROVE  outers'[o] = outers[o] \/ Released(o)
  <2>1. o \notin Elements(first) /\ o \notin Elements(rest)
    <3>1. \A i \in 1 .. Len(open) : o # open[i]
      BY DEF Elements
    <3>2. 1 .. k \subseteq 1 .. Len(open) /\ k + 1 .. Len(open) \subseteq 1 .. Len(open)
      BY <1>2, <1>3
    <3>. QED
      BY <1>5, <1>6, <3>1, <3>2
  <2>2. closed[o] = outers[o]
    BY <2>1
  <2>. QED
    BY <1>1, <1>7, <2>1, <2>2 DEF Released
<1>. QED
  BY <1>1, <1>2, <1>9, <1>10, <1>11 DEF Evolves, rest, k

\* Nothing happens to the outers.
LEMMA NothingCloses ==
    ASSUME IInv, UNCHANGED <<outers, open, captured>>
    PROVE  Evolves(0)
<1>1. open \in Seq(Outer) /\ Len(open) \in Nat /\ outers \in [Outer -> LVOuter]
  BY DEF IInv, TypeOK
<1>2. SubSeq(open, 0 + 1, Len(open)) = open
  BY <1>1, SubSeqFull
<1>3. \A i \in 1 .. Len(open) : ~(i <= 0)
  BY <1>1
<1>. QED
  BY <1>1, <1>2, <1>3 DEF Evolves

\* A new stack and then RelocateOuters leave every outer as it was: those in
\* the list are all that point into the stack.
LEMMA GrowKeeps ==
    ASSUME IInv, Grow
    PROVE  outers' = outers
<1>1. outers \in [Outer -> LVOuter]
  BY DEF IInv, TypeOK
<1>2. ASSUME NEW o \in Outer
      PROVE  Relocated(Moved(outers))[o] = outers[o]
  <2>1. outers[o].at = "stack" <=> o \in Elements(open)
    BY DEF IInv, OpenInv
  <2>2. CASE o \in Elements(open)
    <3>1. Moved(outers)[o] = [outers[o] EXCEPT !.at = "old stack"]
      BY <2>1, <2>2 DEF Moved
    <3>2. Relocated(Moved(outers))[o] = [Moved(outers)[o] EXCEPT !.at = "stack"]
      BY <2>2 DEF Relocated
    <3>. QED
      BY <1>1, <2>1, <2>2, <3>1, <3>2 DEF LVOuter
  <2>3. CASE o \notin Elements(open)
    BY <2>1, <2>3 DEF Moved, Relocated
  <2>. QED
    BY <2>2, <2>3
<1>3. Relocated(Moved(outers)) = [o \in Outer |-> Relocated(Moved(outers))[o]]
  BY DEF Relocated
<1>4. Relocated(Moved(outers)) = outers
  BY <1>1, <1>2, <1>3
<1>. QED
  BY <1>4 DEF Grow
----------------------------------------------------------------------------
(* Two kinds of steps: the stack is cut back to m registers, or it grows.  *)

LEMMA Transfer ==
    ASSUME IInv, NEW k, Evolves(k), Stays(k), locals' \in Seq(Var), blocks' \in Seq(Block),
           saved' \in Saved, BlocksInv', VarsInv'
    PROVE  IInv'
<1>1. OpenInv' /\ CapturesInv'
  BY OpenTransfer, CapturesTransfer
<1>2. open' \in Seq(Outer) /\ outers' \in [Outer -> LVOuter] /\ captured' \subseteq Var \X Outer
  BY RestOfOpen DEF Evolves, IInv, TypeOK
<1>. QED
  BY <1>1, <1>2 DEF IInv, TypeOK

LEMMA AliveWhere ==
    ASSUME NEW x
    PROVE  /\ x \in Alive <=> \/ \E i \in 1 .. Len(locals) : x = locals[i]
                              \/ \E i \in 1 .. Len(saved.vars) : x = saved.vars[i]
           /\ x \in Alive' <=> \/ \E i \in 1 .. Len(locals') : x = locals'[i]
                               \/ \E i \in 1 .. Len(saved'.vars) : x = saved'.vars[i]
  BY DEF Alive, Elements

LEMMA SavedType ==
    ASSUME saved \in Saved
    PROVE  /\ saved.vars \in Seq(Var) /\ saved.blocks \in Seq(Block)
           /\ NoGen \in Saved /\ NoGen.vars = <<>> /\ NoGen.blocks = <<>>
           /\ Running \in Saved /\ Running.vars = <<>> /\ Running.blocks = <<>>
<1>1. saved.vars \in Seq(Var) /\ saved.blocks \in Seq(Block)
  BY DEF Saved
<1>2. <<>> \in Seq(Var) /\ <<>> \in Seq(Block)
  BY EmptySeq
<1>3. Running = [state |-> "running", vars |-> <<>>, blocks |-> <<>>]
  BY DEF Running, NoGen
<1>. QED
  BY <1>1, <1>2, <1>3 DEF Saved, NoGen

\* A frame or blocks are left: the outers above the registers that stay are
\* closed, and no others.
LEMMA Cut ==
    ASSUME IInv, NEW k, Evolves(k),
           NEW m \in 0 .. Len(locals), locals' = SubSeq(locals, 1, m),
           \A i \in 1 .. Len(open) : IF i <= k THEN outers[open[i]].idx > m
                                               ELSE outers[open[i]].idx <= m,
           saved' \in {saved, NoGen},
           NEW c \in 1 .. Len(blocks), blocks' = SubSeq(blocks, 1, c),
           \A b \in 1 .. c : blocks[b].start <= m
    PROVE  IInv'
<1>1. /\ locals \in Seq(Var) /\ Len(locals) \in Nat /\ blocks \in Seq(Block)
      /\ Len(blocks) \in Nat /\ saved \in Saved
      /\ \A i \in 1 .. Len(open) : outers[open[i]].idx \in 1 .. Len(locals)
  <2>1. \A i \in 1 .. Len(open) : outers[open[i]].idx \in 1 .. Len(locals)
    BY DEF IInv, OpenInv
  <2>. QED
    BY <2>1 DEF IInv, TypeOK
<1>2. /\ locals' \in Seq(Var) /\ Len(locals') = m
      /\ \A i \in 1 .. m : i \in 1 .. Len(locals) /\ locals'[i] = locals[i]
  BY <1>1
<1>3. /\ blocks' \in Seq(Block) /\ Len(blocks') = c
      /\ \A b \in 1 .. c : b \in 1 .. Len(blocks) /\ blocks'[b] = blocks[b]
  BY <1>1
<1>4. /\ saved' \in Saved /\ saved'.vars \in {saved.vars, <<>>}
      /\ saved'.blocks \in {saved.blocks, <<>>}
      /\ Len(<<>>) = 0
  BY <1>1, SavedType
<1>5. VarsInv'
  <2>1. Distinct(locals)' /\ Distinct(saved.vars)'
    BY <1>2, <1>4 DEF IInv, VarsInv, Distinct
  <2>2. ASSUME NEW i \in 1 .. Len(locals'), NEW j \in 1 .. Len(saved'.vars)
        PROVE  locals'[i] # saved'.vars[j]
    <3>1. i \in 1 .. Len(locals) /\ locals'[i] = locals[i]
      BY <1>2
    <3>2. saved'.vars = saved.vars
      <4>1. CASE saved'.vars = <<>>
        BY <1>4, <4>1
      <4>. QED
        BY <1>4, <4>1
    <3>. QED
      BY <3>1, <3>2 DEF IInv, VarsInv
  <2>. QED
    BY <2>1, <2>2 DEF VarsInv
<1>6. BlocksInv'
  <2>1. Rises(blocks, Len(locals))'
    BY <1>2, <1>3 DEF IInv, BlocksInv, Rises
  <2>2. Rises(saved.blocks, Len(saved.vars))'
    <3>1. CASE saved' = saved
      BY <3>1 DEF IInv, BlocksInv, Rises
    <3>2. CASE saved' = NoGen
      BY <3>2 DEF NoGen, Rises
    <3>. QED
      BY <3>1, <3>2
  <2>. QED
    BY <1>1, <1>3, <2>1, <2>2 DEF IInv, BlocksInv
<1>7. Stays(k)
  <2>1. Alive' \subseteq Alive
    BY <1>2, <1>4, AliveWhere
  <2>2. ASSUME NEW i \in 1 .. Len(open), i <= k
        PROVE  locals[outers[open[i]].idx] \notin Alive'
    <3>1. outers[open[i]].idx \in 1 .. Len(locals) /\ outers[open[i]].idx > m
      BY <1>1, <2>2
    <3>2. \A j \in 1 .. m : locals'[j] # locals[outers[open[i]].idx]
      BY <1>1, <1>2, <3>1 DEF IInv, VarsInv, Distinct
    <3>3. \A j \in 1 .. Len(saved'.vars) : saved'.vars[j] # locals[outers[open[i]].idx]
      BY SMTT(30), <1>4, <3>1 DEF IInv, VarsInv
    <3>. QED
      BY <1>2, <3>2, <3>3, AliveWhere
  <2>. QED
    BY <1>2, <2>1, <2>2 DEF Stays
<1>. QED
  BY <1>2, <1>3, <1>4, <1>5, <1>6, <1>7, Transfer

\* Registers are added above those there are, for variables that no closure
\* knows or that were saved with a generator.
LEMMA Extend ==
    ASSUME IInv, UNCHANGED <<outers, open, captured>>,
           locals' \in Seq(Var), Len(locals) <= Len(locals'),
           \A i \in 1 .. Len(locals) : locals'[i] = locals[i],
           Alive' \subseteq Alive \cup Fresh,
           blocks' \in Seq(Block), saved' \in Saved, BlocksInv', VarsInv'
    PROVE  IInv'
<1>1. Evolves(0)
  BY NothingCloses
<1>2. \A i \in 1 .. Len(open) : ~(i <= 0) /\ outers[open[i]].idx <= Len(locals')
  <2>1. Len(locals) \in Nat /\ Len(locals') \in Nat /\ Len(open) \in Nat
    BY DEF IInv, TypeOK
  <2>2. \A i \in 1 .. Len(open) : outers[open[i]].idx \in 1 .. Len(locals)
    BY DEF IInv, OpenInv
  <2>. QED
    BY <2>1, <2>2
<1>3. Stays(0)
  BY <1>2 DEF Stays
<1>. QED
  BY <1>1, <1>3, Transfer

\* A variable is declared.
LEMMA OneMore ==
    ASSUME IInv, NEW v \in Fresh, locals' = Append(locals, v), saved' = saved
    PROVE  /\ locals' \in Seq(Var) /\ Len(locals') = Len(locals) + 1
           /\ \A i \in 1 .. Len(locals) : locals'[i] = locals[i]
           /\ Alive' \subseteq Alive \cup Fresh
           /\ VarsInv'
<1>1. /\ locals \in Seq(Var) /\ Len(locals) \in Nat /\ v \in Var /\ v \notin Alive
  BY DEF IInv, TypeOK, Fresh
<1>2. /\ locals' \in Seq(Var) /\ Len(locals') = Len(locals) + 1
      /\ \A i \in 1 .. Len(locals') : locals'[i] = IF i <= Len(locals) THEN locals[i] ELSE v
      /\ \A i \in 1 .. Len(locals) : i \in 1 .. Len(locals')
  BY <1>1
<1>3. /\ \A i \in 1 .. Len(locals) : locals[i] # v
      /\ \A j \in 1 .. Len(saved.vars) : saved.vars[j] # v
  BY <1>1, AliveWhere
<1>4. Distinct(locals)'
  BY <1>1, <1>2, <1>3 DEF IInv, VarsInv, Distinct
<1>5. VarsInv'
  BY <1>1, <1>2, <1>3, <1>4 DEF IInv, VarsInv, Distinct
<1>6. ASSUME NEW x \in Alive'
      PROVE  x \in Alive \cup Fresh
  <2>1. CASE \E i \in 1 .. Len(locals') : x = locals'[i]
    BY <1>1, <1>2, <2>1, AliveWhere
  <2>2. CASE \E i \in 1 .. Len(saved'.vars) : x = saved'.vars[i]
    BY <2>2, AliveWhere
  <2>. QED
    BY <2>1, <2>2, AliveWhere
<1>. QED
  BY <1>2, <1>5, <1>6
----------------------------------------------------------------------------
(* Leaving frames and blocks.                                              *)

LEMMA Shape ==
    ASSUME IInv
    PROVE  /\ TypeOK /\ BlocksInv /\ OpenInv
           /\ locals \in Seq(Var) /\ Len(locals) \in Nat /\ saved \in Saved
           /\ blocks \in Seq(Block) /\ Len(blocks) \in Nat
           /\ \A b \in 1 .. Len(blocks) : blocks[b] \in Block /\ blocks[b].start \in 0 .. Len(locals)
           /\ \A b, c \in 1 .. Len(blocks) : b <= c => blocks[b].start <= blocks[c].start
           /\ Len(open) \in Nat
           /\ \A i \in 1 .. Len(open) : outers[open[i]].idx \in 1 .. Len(locals)
<1>1. locals \in Seq(Var) /\ blocks \in Seq(Block) /\ open \in Seq(Outer) /\ saved \in Saved
  BY DEF IInv, TypeOK
<1>2. /\ \A b \in 1 .. Len(blocks) : blocks[b].start <= Len(locals)
      /\ \A b, c \in 1 .. Len(blocks) : b <= c => blocks[b].start <= blocks[c].start
  BY DEF IInv, BlocksInv, Rises
<1>3. \A i \in 1 .. Len(open) : outers[open[i]].idx \in 1 .. Len(locals)
  BY DEF IInv, OpenInv
<1>4. \A b \in 1 .. Len(blocks) : blocks[b] \in Block /\ blocks[b].start \in Nat
  <2>1. \A b \in 1 .. Len(blocks) : blocks[b] \in Block
    BY <1>1
  <2>. QED
    BY <2>1 DEF Block
<1>. QED
  BY <1>1, <1>2, <1>3, <1>4 DEF IInv

\* The outers from register n on are closed and the registers above m go; no
\* captured variable is between the two.
LEMMA CutAt ==
    ASSUME IInv, NEW n \in Nat, CloseOuters(n, locals),
           NEW m \in 0 .. Len(locals), m < n, locals' = SubSeq(locals, 1, m),
           \A i \in 1 .. Len(open) : outers[open[i]].idx >= n \/ outers[open[i]].idx <= m,
           saved' \in {saved, NoGen},
           NEW c \in 1 .. Len(blocks), blocks' = SubSeq(blocks, 1, c),
           \A b \in 1 .. c : blocks[b].start <= m
    PROVE  IInv'
<1>. DEFINE k == Above(n)
<1>1. Evolves(k)
  BY Closes
<1>2. /\ k \in 0 .. Len(open)
      /\ \A i \in 1 .. Len(open) : i <= k <=> outers[open[i]].idx >= n
  BY Shape, AboveSplits
<1>. HIDE DEF k
<1>3. \A i \in 1 .. Len(open) : IF i <= k THEN outers[open[i]].idx > m
                                         ELSE outers[open[i]].idx <= m
  BY <1>2, Shape
<1>. QED
  BY <1>1, <1>3, Cut

\* A frame that is not the only one is not the first.
LEMMA NotTheFirst ==
    ASSUME IInv, Cardinality(Frames) > 1 \/ blocks[LastFrame].kind = "generator"
    PROVE  LastFrame \in 2 .. Len(blocks)
<1>1. /\ LastFrame \in Frames /\ LastFrame \in 1 .. Len(blocks)
      /\ \A f \in Frames : f <= LastFrame
  BY Shape, FrameFound
<1>2. CASE blocks[LastFrame].kind = "generator"
  BY <1>1, <1>2, Shape DEF BlocksInv
<1>3. CASE Cardinality(Frames) > 1
  <2>1. SUFFICES ASSUME LastFrame = 1 PROVE FALSE
    BY <1>1, Shape
  <2>2. Frames \in SUBSET (1 .. 1)
    BY <1>1, <2>1, Shape DEF Frames
  <2>3. Cardinality(1 .. 1) = 1 /\ IsFiniteSet(1 .. 1)
    <3>1. 1 \in Int /\ ~(1 > 1) /\ 1 - 1 + 1 = 1
      OBVIOUS
    <3>. QED
      BY <3>1, FS_Interval
  <2>4. Cardinality(Frames) <= 1 /\ Cardinality(Frames) \in Nat
    BY <2>2, <2>3, FS_Subset, FS_CardinalityType
  <2>. QED
    BY <1>3, <2>4
<1>. QED
  BY <1>2, <1>3

\* The frame that runs, its registers and blocks.
LEMMA FrameShape ==
    ASSUME IInv
    PROVE  /\ LastFrame \in 1 .. Len(blocks)
           /\ stackbase = blocks[LastFrame].start /\ stackbase \in 0 .. Len(locals)
           /\ \A b \in 1 .. LastFrame : b \in 1 .. Len(blocks) /\ blocks[b].start <= stackbase
  BY Shape, FrameFound DEF stackbase

\* LeaveFrame, for _OP_RETURN.
LEMMA ReturnKeeps ==
    ASSUME IInv, Return
    PROVE  IInv'
<1>1. LastFrame \in 2 .. Len(blocks)
  BY NotTheFirst DEF Return
<1>2. /\ stackbase + 1 \in Nat /\ stackbase \in 0 .. Len(locals) /\ stackbase < stackbase + 1
      /\ LastFrame - 1 \in 1 .. Len(blocks)
      /\ \A b \in 1 .. LastFrame - 1 : blocks[b].start <= stackbase
      /\ \A i \in 1 .. Len(open) : outers[open[i]].idx >= stackbase + 1
                                   \/ outers[open[i]].idx <= stackbase
  BY <1>1, Shape, FrameShape
<1>. HIDE DEF stackbase, LastFrame
<1>. QED
  BY <1>2, CutAt DEF Return

\* _OP_TAILCALL
LEMMA TailCallKeeps ==
    ASSUME IInv, TailCall
    PROVE  IInv'
<1>1. /\ stackbase + 1 \in Nat /\ stackbase \in 0 .. Len(locals) /\ stackbase < stackbase + 1
      /\ LastFrame \in 1 .. Len(blocks)
      /\ \A b \in 1 .. LastFrame : blocks[b].start <= stackbase
      /\ \A i \in 1 .. Len(open) : outers[open[i]].idx >= stackbase + 1
                                   \/ outers[open[i]].idx <= stackbase
  BY Shape, FrameShape
<1>. QED
  BY <1>1, CutAt DEF TailCall

\* END_SCOPE
LEMMA EndScopeKeeps ==
    ASSUME IInv, EndScope
    PROVE  IInv'
<1>. DEFINE start == blocks[Len(blocks)].start
<1>1. /\ CloseOuters(start + 1, locals) /\ locals' = SubSeq(locals, 1, start)
      /\ blocks' = SubSeq(blocks, 1, Len(blocks) - 1) /\ saved' = saved
      /\ Len(blocks) > LastFrame
  BY DEF EndScope, InBlock
<1>2. /\ Len(blocks) - 1 \in 1 .. Len(blocks) /\ Len(blocks) \in 1 .. Len(blocks)
  BY <1>1, Shape, FrameShape
<1>3. /\ start \in 0 .. Len(locals)
      /\ \A b \in 1 .. Len(blocks) - 1 : blocks[b].start <= start
  BY <1>2, Shape
<1>4. \A i \in 1 .. Len(open) : outers[open[i]].idx >= start + 1 \/ outers[open[i]].idx <= start
  BY <1>3, Shape
<1>. HIDE DEF start
<1>5. start + 1 \in Nat /\ start < start + 1
  BY <1>3
<1>. QED
  BY <1>1, <1>2, <1>3, <1>4, <1>5, CutAt

\* break and continue: what the innermost block has captured is closed, and the
\* blocks between it and the loop have captured nothing.
LEMMA JumpKeeps ==
    ASSUME Disciplined, IInv, NEW b, Jump(b)
    PROVE  IInv'
<1>. DEFINE n == blocks[Len(blocks)].start + 1
            m == blocks[b].start
            k == Above(n)
<1>1. /\ CloseOuters(n, locals) /\ locals' = SubSeq(locals, 1, m)
      /\ blocks' = SubSeq(blocks, 1, b - 1) /\ saved' = saved
      /\ \A i \in 1 .. Len(open') : outers'[open'[i]].idx <= m
      /\ b \in LastFrame + 1 .. Len(blocks)
  BY DEF Jump, Disciplined
<1>2. b \in 1 .. Len(blocks) /\ b - 1 \in 1 .. Len(blocks) /\ Len(blocks) \in 1 .. Len(blocks)
  BY <1>1, Shape, FrameShape
<1>3. /\ n \in Nat /\ m \in 0 .. Len(locals) /\ m < n
      /\ \A c \in 1 .. b - 1 : blocks[c].start <= m
  BY <1>2, Shape
<1>. HIDE DEF n, m
<1>4. /\ k \in 0 .. Len(open)
      /\ \A i \in 1 .. Len(open) : i <= k <=> outers[open[i]].idx >= n
  BY <1>3, Shape, AboveSplits
<1>5. Evolves(k)
  BY <1>1, <1>3, Closes
<1>. HIDE DEF k
<1>6. ASSUME NEW i \in 1 .. Len(open), ~(i <= k)
      PROVE  outers[open[i]].idx <= m
  <2>1. /\ Len(open') = Len(open) - k
        /\ \A j \in 1 .. Len(open') : open'[j] = open[k + j]
    BY <1>4, <1>5, RestOfOpen, Shape DEF Evolves
  <2>2. i - k \in 1 .. Len(open') /\ k + (i - k) = i
    BY <1>4, <1>6, <2>1, Shape
  <2>3. open'[i - k] = open[i]
    BY <2>1, <2>2
  <2>4. outers'[open[i]] = outers[open[i]]
    BY <1>5, <1>6 DEF Evolves
  <2>. QED
    BY <1>1, <2>2, <2>3, <2>4
<1>7. \A i \in 1 .. Len(open) : IF i <= k THEN outers[open[i]].idx > m
                                         ELSE outers[open[i]].idx <= m
  BY <1>3, <1>4, <1>6, Shape
<1>. QED
  BY <1>1, <1>2, <1>3, <1>5, <1>7, Cut

\* exception_trap: an error that a try block catches.
LEMMA CatchErrorKeeps ==
    ASSUME Disciplined, IInv, NEW b \in 1 .. Len(blocks), CatchError(b)
    PROVE  IInv'
<1>. DEFINE m == blocks[b].start
            left == {f \in Frames : f > b}
<1>1. /\ blocks[b].kind = "try" /\ locals' = SubSeq(locals, 1, m)
      /\ blocks' = SubSeq(blocks, 1, b - 1)
  BY DEF CatchError
<1>2. /\ b - 1 \in 1 .. Len(blocks) /\ m \in 0 .. Len(locals)
      /\ \A c \in 1 .. b - 1 : blocks[c].start <= m
  <2>1. b # 1
    BY <1>1, Shape DEF BlocksInv
  <2>. QED
    BY SMTT(30), <2>1, Shape
<1>3. CASE /\ left = {} /\ NoneCaptured(m) /\ UNCHANGED <<outers, open, captured, saved>>
  <2>1. Evolves(0)
    BY <1>3, NothingCloses
  <2>2. \A i \in 1 .. Len(open) : IF i <= 0 THEN outers[open[i]].idx > m
                                           ELSE outers[open[i]].idx <= m
    BY <1>3, Shape DEF NoneCaptured
  <2>. HIDE DEF m
  <2>. QED
    BY <1>1, <1>2, <1>3, <2>1, <2>2, Cut
<1>4. CASE \E f \in left :
              /\ \A i \in 1 .. Len(open) : outers[open[i]].idx \notin m + 1 .. blocks[f].start
              /\ CloseOuters(blocks[f].start + 1, locals)
              /\ saved' \in {saved, NoGen}
  <2>1. PICK f \in left :
              /\ \A i \in 1 .. Len(open) : outers[open[i]].idx \notin m + 1 .. blocks[f].start
              /\ CloseOuters(blocks[f].start + 1, locals)
              /\ saved' \in {saved, NoGen}
    BY <1>4
  <2>2. f \in 1 .. Len(blocks) /\ b <= f
    BY DEF Frames
  <2>. DEFINE n == blocks[f].start + 1
  <2>3. n \in Nat /\ m < n
    BY <2>2, Shape
  <2>4. ASSUME NEW i \in 1 .. Len(open)
        PROVE  outers[open[i]].idx >= n \/ outers[open[i]].idx <= m
    <3>1. outers[open[i]].idx \in Nat /\ blocks[f].start \in Nat
      BY <2>2, Shape
    <3>2. outers[open[i]].idx \notin m + 1 .. blocks[f].start
      BY <2>1
    <3>. HIDE DEF m
    <3>. QED
      BY <1>2, <3>1, <3>2
  <2>. HIDE DEF n, m
  <2>5. CloseOuters(n, locals)
    BY <2>1 DEF n
  <2>. QED
    BY <1>1, <1>2, <2>1, <2>3, <2>4, <2>5, CutAt
<1>. QED
  BY <1>3, <1>4 DEF CatchError, Disciplined

\* An error that nobody catches.
LEMMA UncaughtErrorKeeps ==
    ASSUME IInv, UncaughtError
    PROVE  IInv'
<1>1. /\ CloseOuters(1, locals) /\ locals' = <<>> /\ blocks' = SubSeq(blocks, 1, 1)
      /\ saved' \in {saved, NoGen}
  BY DEF UncaughtError
<1>2. locals' = SubSeq(locals, 1, 0)
  BY <1>1, SubSeqEmpty
<1>3. /\ 0 \in 0 .. Len(locals) /\ 1 \in 1 .. Len(blocks) /\ 1 \in Nat /\ 0 < 1
      /\ \A b \in 1 .. 1 : blocks[b].start <= 0
      /\ \A i \in 1 .. Len(open) : outers[open[i]].idx >= 1 \/ outers[open[i]].idx <= 0
  BY Shape DEF BlocksInv
<1>. QED
  BY <1>1, <1>2, <1>3, CutAt
----------------------------------------------------------------------------
(* Entering frames and blocks.                                             *)

\* The blocks there are still rise below more registers.
LEMMA SameBlocks ==
    ASSUME IInv, UNCHANGED blocks, locals' \in Seq(Var), Len(locals) <= Len(locals'),
           Rises(saved.blocks, Len(saved.vars))'
    PROVE  blocks' \in Seq(Block) /\ BlocksInv'
<1>1. Len(locals') \in Nat
  OBVIOUS
<1>2. Rises(blocks, Len(locals))'
  BY <1>1, Shape DEF Rises
<1>. QED
  BY <1>2, Shape DEF BlocksInv

LEMMA OpenBlocks ==
    ASSUME IInv, NEW kind \in {"frame", "generator", "try", "block"}, Open(kind),
           locals' \in Seq(Var), Len(locals) <= Len(locals'),
           Rises(saved.blocks, Len(saved.vars))'
    PROVE  blocks' \in Seq(Block) /\ BlocksInv'
<1>. DEFINE new == [kind |-> kind, start |-> Len(locals)]
<1>1. /\ Len(locals') \in Nat /\ new \in Block /\ new.start = Len(locals)
      /\ blocks' = Append(blocks, new)
  BY Shape DEF Open, Block
<1>. HIDE DEF new
<1>2. /\ blocks' \in Seq(Block) /\ Len(blocks') = Len(blocks) + 1
      /\ \A b \in 1 .. Len(blocks') : blocks'[b] = IF b <= Len(blocks) THEN blocks[b] ELSE new
  BY <1>1, Shape
<1>3. ASSUME NEW b \in 1 .. Len(blocks')
      PROVE  /\ blocks'[b].start = IF b <= Len(blocks) THEN blocks[b].start ELSE Len(locals)
             /\ blocks'[b].start \in 0 .. Len(locals')
             /\ b \in Nat /\ (b <= Len(blocks) => b \in 1 .. Len(blocks))
  BY <1>1, <1>2, Shape
<1>4. ASSUME NEW b \in 1 .. Len(blocks'), NEW c \in 1 .. Len(blocks'), b <= c
      PROVE  blocks'[b].start <= blocks'[c].start
  BY <1>3, <1>4, Shape
<1>5. Rises(blocks, Len(locals))'
  BY <1>3, <1>4 DEF Rises
<1>6. Len(blocks') >= 1 /\ blocks'[1] = blocks[1]
  BY <1>2, Shape DEF BlocksInv
<1>. QED
  BY <1>2, <1>5, <1>6, Shape DEF BlocksInv

\* LocalDeclStatement
LEMMA DeclareKeeps ==
    ASSUME IInv, NEW v \in Var, Declare(v)
    PROVE  IInv'
<1>1. v \in Fresh /\ locals' = Append(locals, v) /\ UNCHANGED <<blocks, saved, outers, open, captured>>
  BY DEF Declare
<1>2. /\ locals' \in Seq(Var) /\ Len(locals) <= Len(locals')
      /\ \A i \in 1 .. Len(locals) : locals'[i] = locals[i]
      /\ Alive' \subseteq Alive \cup Fresh /\ VarsInv'
  BY <1>1, OneMore, Shape
<1>3. Rises(saved.blocks, Len(saved.vars))'
  BY <1>1, Shape DEF BlocksInv, Rises
<1>4. blocks' \in Seq(Block) /\ BlocksInv'
  BY <1>1, <1>2, <1>3, SameBlocks
<1>. QED
  BY <1>1, <1>2, <1>4, Shape, Extend

\* Nothing happens to the registers.
LEMMA SameVars ==
    ASSUME IInv, UNCHANGED <<locals, saved>>
    PROVE  /\ locals' \in Seq(Var) /\ Len(locals) <= Len(locals')
           /\ \A i \in 1 .. Len(locals) : locals'[i] = locals[i]
           /\ Alive' \subseteq Alive \cup Fresh /\ VarsInv'
           /\ Rises(saved.blocks, Len(saved.vars))'
<1>1. Alive' = Alive
  BY DEF Alive
<1>2. VarsInv' /\ Rises(saved.blocks, Len(saved.vars))'
  BY DEF IInv, VarsInv, Distinct, BlocksInv, Rises
<1>. QED
  BY <1>1, <1>2, Shape

\* StartCall
LEMMA CallKeeps ==
    ASSUME IInv, Call
    PROVE  IInv'
<1>1. /\ Open("frame") /\ outers' = outers /\ UNCHANGED <<saved, open, captured>>
      /\ locals' = locals \/ \E v \in Fresh : locals' = Append(locals, v)
  BY GrowKeeps DEF Call
<1>2. /\ locals' \in Seq(Var) /\ Len(locals) <= Len(locals')
      /\ \A i \in 1 .. Len(locals) : locals'[i] = locals[i]
      /\ Alive' \subseteq Alive \cup Fresh /\ VarsInv'
  <2>1. CASE locals' = locals
    BY <1>1, <2>1, SameVars
  <2>2. ASSUME NEW v \in Fresh, locals' = Append(locals, v)
        PROVE  /\ locals' \in Seq(Var) /\ Len(locals) <= Len(locals')
               /\ \A i \in 1 .. Len(locals) : locals'[i] = locals[i]
               /\ Alive' \subseteq Alive \cup Fresh /\ VarsInv'
    BY <1>1, <2>2, OneMore, Shape
  <2>. QED
    BY <1>1, <2>1, <2>2
<1>3. Rises(saved.blocks, Len(saved.vars))'
  BY <1>1, Shape DEF BlocksInv, Rises
<1>4. blocks' \in Seq(Block) /\ BlocksInv'
  BY <1>1, <1>2, <1>3, OpenBlocks
<1>. QED
  BY <1>1, <1>2, <1>4, Shape, Extend

\* BEGIN_SCOPE and the start of a try block
LEMMA BeginScopeKeeps ==
    ASSUME IInv, NEW kind \in {"try", "block"}, BeginScope(kind)
    PROVE  IInv'
<1>1. Open(kind) /\ UNCHANGED <<locals, saved, outers, open, captured>>
  BY DEF BeginScope
<1>2. blocks' \in Seq(Block) /\ BlocksInv'
  BY <1>1, SameVars, OpenBlocks
<1>. QED
  BY <1>1, <1>2, SameVars, Shape, Extend

\* StartCall of a generator function
LEMMA CreateGeneratorKeeps ==
    ASSUME IInv, CreateGenerator
    PROVE  IInv'
<1>1. PICK v \in Fresh : saved' = [state |-> "suspended", vars |-> <<v>>, blocks |-> <<>>]
  BY DEF CreateGenerator
<1>2. UNCHANGED <<locals, blocks, outers, open, captured>>
  BY DEF CreateGenerator
<1>3. v \in Var /\ v \notin Alive
  BY DEF Fresh
<1>4. /\ saved' \in Saved /\ saved'.vars = <<v>> /\ saved'.blocks = <<>>
      /\ Len(<<v>>) = 1 /\ <<v>>[1] = v
  BY <1>1, <1>3, EmptySeq DEF Saved
<1>5. Alive' \subseteq Alive \cup Fresh
  <2>1. ASSUME NEW x \in Alive'
        PROVE  x \in Alive \cup Fresh
    BY <1>2, <1>4, AliveWhere
  <2>. QED
    BY <2>1
<1>6. VarsInv'
  <2>1. \A i \in 1 .. Len(locals) : locals[i] # v
    BY <1>3, AliveWhere
  <2>2. Distinct(locals)' /\ Distinct(saved.vars)'
    BY <1>2, <1>4 DEF IInv, VarsInv, Distinct
  <2>. QED
    BY <1>2, <1>4, <2>1, <2>2 DEF VarsInv
<1>7. Rises(saved.blocks, Len(saved.vars))'
  BY <1>4 DEF Rises
<1>8. blocks' \in Seq(Block) /\ BlocksInv'
  BY <1>2, <1>7, Shape, SameBlocks
<1>. QED
  BY <1>2, <1>4, <1>5, <1>6, <1>8, Shape, Extend
----------------------------------------------------------------------------
(* Generators.                                                             *)

\* Shift moves the starts of blocks.
LEMMA ShiftShape ==
    ASSUME NEW bs \in Seq(Block), NEW d \in Int,
           \A b \in 1 .. Len(bs) : bs[b].start + d \in Nat
    PROVE  /\ Shift(bs, d) \in Seq(Block) /\ Len(Shift(bs, d)) = Len(bs)
           /\ \A b \in 1 .. Len(bs) : Shift(bs, d)[b].start = bs[b].start + d
<1>1. DOMAIN bs = 1 .. Len(bs) /\ Len(bs) \in Nat
  OBVIOUS
<1>2. ASSUME NEW b \in 1 .. Len(bs)
      PROVE  /\ [bs[b] EXCEPT !.start = @ + d] \in Block
             /\ [bs[b] EXCEPT !.start = @ + d].start = bs[b].start + d
  <2>1. bs[b] \in Block /\ bs[b].start + d \in Nat
    OBVIOUS
  <2>. QED
    BY <2>1 DEF Block
<1>3. Shift(bs, d) \in [1 .. Len(bs) -> Block]
  BY <1>1, <1>2 DEF Shift
<1>4. Shift(bs, d) \in Seq(Block) /\ Len(Shift(bs, d)) = Len(bs)
  BY <1>1, <1>3
<1>. QED
  BY <1>1, <1>2, <1>4 DEF Shift

\* LVGenerator::Resume
LEMMA ResumeKeeps ==
    ASSUME IInv, Resume
    PROVE  IInv'
<1>. DEFINE n == Len(locals)
            new == [kind |-> "generator", start |-> n]
            sh == Shift(saved.blocks, n)
            mid == Append(blocks, new)
<1>1. /\ blocks' = blocks \o <<new>> \o sh /\ locals' = locals \o saved.vars
      /\ saved' = Running /\ outers' = outers /\ UNCHANGED <<open, captured>>
  BY GrowKeeps DEF Resume
<1>2. /\ saved.vars \in Seq(Var) /\ saved.blocks \in Seq(Block) /\ n \in Nat
      /\ Len(saved.vars) \in Nat /\ Len(saved.blocks) \in Nat
      /\ saved' \in Saved /\ saved'.vars = <<>> /\ saved'.blocks = <<>>
  BY <1>1, Shape, SavedType
<1>3. /\ \A b \in 1 .. Len(saved.blocks) : saved.blocks[b].start <= Len(saved.vars)
      /\ \A b, c \in 1 .. Len(saved.blocks) :
             b <= c => saved.blocks[b].start <= saved.blocks[c].start
      /\ \A b \in 1 .. Len(saved.blocks) : saved.blocks[b].start \in Nat
  <2>1. \A b \in 1 .. Len(saved.blocks) : saved.blocks[b] \in Block
    BY <1>2
  <2>2. \A b \in 1 .. Len(saved.blocks) : saved.blocks[b].start \in Nat
    BY <2>1 DEF Block
  <2>. QED
    BY <2>2, Shape DEF BlocksInv, Rises
<1>4. /\ locals' \in Seq(Var) /\ Len(locals') = n + Len(saved.vars)
      /\ \A i \in 1 .. Len(locals') : locals'[i] = IF i <= n THEN locals[i] ELSE saved.vars[i - n]
  BY <1>1, <1>2, Shape, ConcatProperties
<1>5. \A i \in 1 .. Len(locals) : i \in 1 .. Len(locals') /\ locals'[i] = locals[i]
  BY <1>2, <1>4
<1>6. /\ sh \in Seq(Block) /\ Len(sh) = Len(saved.blocks)
      /\ \A b \in 1 .. Len(sh) : sh[b].start = saved.blocks[b].start + n
  BY SMTT(30), <1>2, <1>3, ShiftShape
<1>. HIDE DEF sh
<1>7. new \in Block /\ new.start = n
  BY <1>2 DEF Block
<1>. HIDE DEF new
<1>8. /\ mid \in Seq(Block) /\ Len(mid) = Len(blocks) + 1
      /\ blocks \o <<new>> = mid
      /\ \A b \in 1 .. Len(mid) : mid[b] = IF b <= Len(blocks) THEN blocks[b] ELSE new
  BY <1>7, Shape
<1>. HIDE DEF mid
<1>9. /\ blocks' \in Seq(Block) /\ Len(blocks') = Len(blocks) + 1 + Len(sh)
      /\ \A b \in 1 .. Len(blocks') : blocks'[b] = IF b <= Len(blocks) + 1 THEN mid[b]
                                                  ELSE sh[b - (Len(blocks) + 1)]
  <2>1. blocks' = mid \o sh
    BY <1>1, <1>8
  <2>2. Len(mid) \in Nat /\ Len(sh) \in Nat
    BY <1>6, <1>8
  <2>3. /\ blocks' \in Seq(Block) /\ Len(blocks') = Len(mid) + Len(sh)
        /\ \A b \in 1 .. Len(mid) + Len(sh) : blocks'[b] = IF b <= Len(mid) THEN mid[b]
                                                            ELSE sh[b - Len(mid)]
    <3>1. mid \in Seq(Block) /\ sh \in Seq(Block)
      BY <1>6, <1>8
    <3>2. /\ mid \o sh \in Seq(Block) /\ Len(mid \o sh) = Len(mid) + Len(sh)
          /\ \A b \in 1 .. Len(mid) + Len(sh) : (mid \o sh)[b] = IF b <= Len(mid) THEN mid[b]
                                                                  ELSE sh[b - Len(mid)]
      BY <3>1, ConcatProperties
    <3>. QED
      BY <2>1, <3>2
  <2>. QED
    BY <1>8, <2>2, <2>3
<1>. DEFINE off(b) == b - (Len(blocks) + 1)
<1>s. /\ Len(blocks) \in Nat /\ Len(blocks) >= 1 /\ Len(sh) \in Nat
      /\ \A b \in 1 .. Len(blocks) : blocks[b].start \in 0 .. n
  BY <1>6, Shape DEF BlocksInv
<1>10. ASSUME NEW b \in 1 .. Len(blocks')
       PROVE  /\ b \in Nat
              /\ b <= Len(blocks) => b \in 1 .. Len(blocks) /\ blocks'[b].start = blocks[b].start
              /\ b = Len(blocks) + 1 => blocks'[b].start = n
              /\ b > Len(blocks) + 1 => /\ off(b) \in 1 .. Len(saved.blocks)
                                        /\ blocks'[b].start = saved.blocks[off(b)].start + n
  <2>1. b \in Nat /\ b <= Len(blocks) + 1 + Len(sh)
    BY <1>9, <1>s
  <2>2. ASSUME b <= Len(blocks)
        PROVE  b \in 1 .. Len(blocks) /\ blocks'[b].start = blocks[b].start
    BY <1>8, <1>9, <1>s, <2>1, <2>2
  <2>3. ASSUME b = Len(blocks) + 1
        PROVE  blocks'[b].start = n
    BY <1>7, <1>8, <1>9, <1>s, <2>1, <2>3
  <2>4. ASSUME b > Len(blocks) + 1
        PROVE  off(b) \in 1 .. Len(saved.blocks) /\ blocks'[b].start = saved.blocks[off(b)].start + n
    <3>1. off(b) \in 1 .. Len(sh) /\ blocks'[b] = sh[off(b)]
      BY <1>9, <1>s, <2>1, <2>4
    <3>. QED
      BY <1>6, <3>1
  <2>. QED
    BY <2>1, <2>2, <2>3, <2>4
<1>11. ASSUME NEW b \in 1 .. Len(blocks')
       PROVE  /\ blocks'[b].start <= Len(locals')
              /\ b <= Len(blocks) + 1 => blocks'[b].start <= n
              /\ b > Len(blocks) + 1 => blocks'[b].start >= n
  <2>1. CASE b <= Len(blocks)
    <3>1. blocks'[b].start \in 0 .. n
      BY <1>10, <1>s, <2>1
    <3>. QED
      BY <1>2, <1>4, <1>10, <1>s, <2>1, <3>1
  <2>2. CASE b = Len(blocks) + 1
    BY <1>2, <1>4, <1>10, <1>s, <2>2
  <2>3. CASE b > Len(blocks) + 1
    <3>1. /\ saved.blocks[off(b)].start \in Nat
          /\ saved.blocks[off(b)].start <= Len(saved.vars)
          /\ blocks'[b].start = saved.blocks[off(b)].start + n
      BY <1>3, <1>10, <2>3
    <3>. HIDE DEF off
    <3>. QED
      BY SMTT(30), <1>2, <1>4, <1>10, <1>s, <2>3, <3>1
  <2>. QED
    BY <1>10, <1>s, <2>1, <2>2, <2>3
<1>12. ASSUME NEW b \in 1 .. Len(blocks'), NEW c \in 1 .. Len(blocks'), b <= c
       PROVE  blocks'[b].start <= blocks'[c].start
  <2>1. CASE c <= Len(blocks)
    <3>1. b <= Len(blocks)
      BY <1>10, <1>12, <2>1, Shape
    <3>. QED
      BY <1>10, <1>12, <2>1, <3>1, Shape
  <2>2. CASE c = Len(blocks) + 1
    BY <1>10, <1>11, <1>12, <2>2, Shape
  <2>3. CASE c > Len(blocks) + 1 /\ b <= Len(blocks) + 1
    <3>1. blocks'[b] \in Block /\ blocks'[c] \in Block
      BY <1>9
    <3>2. blocks'[b].start \in Nat /\ blocks'[c].start \in Nat
      BY <3>1 DEF Block
    <3>. QED
      BY <1>2, <1>11, <2>3, <3>2
  <2>4. CASE c > Len(blocks) + 1 /\ b > Len(blocks) + 1
    <3>1. off(b) <= off(c)
      BY <1>10, <1>12, <2>4, Shape
    <3>2. saved.blocks[off(b)].start <= saved.blocks[off(c)].start
      BY <1>3, <1>10, <2>4, <3>1
    <3>. HIDE DEF off
    <3>. QED
      BY SMTT(30), <1>2, <1>3, <1>10, <2>4, <3>2
  <2>. QED
    BY <1>10, <2>1, <2>2, <2>3, <2>4, Shape
<1>13. BlocksInv'
  <2>1. Rises(blocks, Len(locals))'
    BY <1>11, <1>12 DEF Rises
  <2>2. Rises(saved.blocks, Len(saved.vars))'
    BY <1>2 DEF Rises
  <2>3. 1 \in 1 .. Len(blocks') /\ 1 \in 1 .. Len(mid) /\ 1 <= Len(blocks)
    BY <1>8, <1>9, <1>s
  <2>4. blocks'[1] = blocks[1]
    BY <1>8, <1>9, <1>s, <2>3
  <2>. QED
    BY <2>1, <2>2, <2>3, <2>4, Shape DEF BlocksInv
<1>14. ASSUME NEW i \in 1 .. Len(locals')
       PROVE  /\ i \in Nat /\ (i <= n => i \in 1 .. n /\ locals'[i] = locals[i])
              /\ ~(i <= n) => i - n \in 1 .. Len(saved.vars) /\ locals'[i] = saved.vars[i - n]
  BY <1>2, <1>4
<1>15. VarsInv'
  <2>1. ASSUME NEW i \in 1 .. Len(locals'), NEW j \in 1 .. Len(locals'), locals'[i] = locals'[j]
        PROVE  i = j
    <3>1. CASE i <= n /\ j <= n
      BY <1>14, <2>1, <3>1 DEF IInv, VarsInv, Distinct
    <3>2. CASE ~(i <= n) /\ ~(j <= n)
      <4>1. i - n = j - n
        BY ZenonT(30), <1>14, <2>1, <3>2 DEF IInv, VarsInv, Distinct
      <4>. QED
        BY <1>2, <1>14, <4>1
    <3>3. CASE i <= n /\ ~(j <= n)
      BY <1>14, <2>1, <3>3 DEF IInv, VarsInv
    <3>4. CASE ~(i <= n) /\ j <= n
      BY <1>14, <2>1, <3>4 DEF IInv, VarsInv
    <3>. QED
      BY <3>1, <3>2, <3>3, <3>4
  <2>2. Len(saved'.vars) = 0
    BY <1>2
  <2>. QED
    BY <2>1, <2>2 DEF VarsInv, Distinct
<1>16. Alive' \subseteq Alive \cup Fresh
  <2>1. ASSUME NEW x \in Alive'
        PROVE  x \in Alive
    <3>1. PICK i \in 1 .. Len(locals') : x = locals'[i]
      BY <1>2, <2>1, AliveWhere
    <3>. QED
      BY <1>14, <3>1, AliveWhere
  <2>. QED
    BY <2>1
<1>17. Len(locals) <= Len(locals')
  BY <1>2, <1>4
<1>. QED
  BY <1>1, <1>2, <1>4, <1>5, <1>9, <1>13, <1>15, <1>16, <1>17, Extend

\* Nothing is closed when nothing is captured, whatever the registers hold.
LEMMA ClosesNothing ==
    ASSUME IInv, NEW n \in Nat, NEW reg, CloseOuters(n + 1, reg), NoneCaptured(n)
    PROVE  Evolves(0)
<1>1. n + 1 \in Nat /\ TypeOK /\ OpenInv
  BY Shape
<1>2. Above(n + 1) \in 0 .. Len(open)
  BY <1>1, AboveSplits
<1>3. Above(n + 1) = 0
  <2>1. SUFFICES ASSUME Above(n + 1) >= 1 PROVE FALSE
    BY <1>2
  <2>2. 1 \in 1 .. Len(open) /\ 1 <= Above(n + 1)
    BY <1>2, <2>1, Shape
  <2>3. outers[open[1]].idx >= n + 1
    BY <1>1, <2>2, AboveSplits
  <2>4. outers[open[1]].idx <= n
    BY <2>2 DEF NoneCaptured
  <2>5. outers[open[1]].idx \in Nat
    BY <2>2, Shape
  <2>. QED
    BY <2>3, <2>4, <2>5
<1>4. Elements(SubSeq(open, 1, 0)) = {}
  <2>1. SubSeq(open, 1, 0) = <<>>
    BY SubSeqEmpty
  <2>. QED
    BY <2>1 DEF Elements
<1>5. CloseOuters(n + 1, locals)
  BY <1>3, <1>4 DEF CloseOuters
<1>. QED
  BY <1>1, <1>3, <1>5, Closes

\* LVGenerator::Yield
LEMMA YieldKeeps ==
    ASSUME Disciplined, IInv, Yield
    PROVE  IInv'
<1>. DEFINE s == stackbase
            l == LastFrame
            rest == SubSeq(blocks, l + 1, Len(blocks))
<1>1. /\ l \in 2 .. Len(blocks) /\ s \in 0 .. Len(locals) /\ s = blocks[l].start
      /\ \A b \in 1 .. l : blocks[b].start <= s
  BY NotTheFirst, FrameShape DEF Yield
<1>2. /\ saved' = [state |-> "suspended", vars |-> SubSeq(locals, s + 1, Len(locals)),
                   blocks |-> Shift(rest, -s)]
      /\ locals' = SubSeq(locals, 1, s) /\ blocks' = SubSeq(blocks, 1, l - 1)
      /\ NoneCaptured(s) /\ CloseOuters(s + 1, locals')
  BY DEF Yield, Disciplined
<1>. HIDE DEF s, l
<1>3. Evolves(0)
  BY <1>1, <1>2, Shape, ClosesNothing
<1>4. /\ locals' \in Seq(Var) /\ Len(locals') = s
      /\ \A i \in 1 .. s : i \in 1 .. Len(locals) /\ locals'[i] = locals[i]
  BY SMTT(30), <1>1, <1>2, Shape
<1>5. /\ blocks' \in Seq(Block) /\ Len(blocks') = l - 1
      /\ \A b \in 1 .. l - 1 : b \in 1 .. Len(blocks) /\ b \in 1 .. l /\ blocks'[b] = blocks[b]
  BY <1>1, <1>2, Shape
<1>6. /\ saved'.vars \in Seq(Var) /\ Len(saved'.vars) = Len(locals) - s
      /\ \A i \in 1 .. Len(saved'.vars) : s + i \in 1 .. Len(locals) /\ saved'.vars[i] = locals[s + i]
  <2>. DEFINE vs == SubSeq(locals, s + 1, Len(locals))
  <2>1. saved'.vars = vs
    BY <1>2
  <2>2. s \in Nat /\ Len(locals) \in Nat /\ s <= Len(locals) /\ locals \in Seq(Var)
    BY <1>1, Shape
  <2>3. /\ vs \in Seq(Var) /\ Len(vs) = Len(locals) - s
        /\ \A i \in 1 .. Len(vs) : s + i \in 1 .. Len(locals) /\ vs[i] = locals[s + i]
    BY <2>2
  <2>. QED
    BY <2>1, <2>3
<1>7. /\ rest \in Seq(Block) /\ Len(rest) = Len(blocks) - l
      /\ \A b \in 1 .. Len(rest) : l + b \in 1 .. Len(blocks) /\ rest[b] = blocks[l + b]
  BY <1>1, Shape
<1>. HIDE DEF rest
<1>8. ASSUME NEW b \in 1 .. Len(rest)
      PROVE  rest[b].start \in s .. Len(locals) /\ rest[b].start + (-s) \in Nat
  <2>1. l + b \in 1 .. Len(blocks) /\ l <= l + b /\ l \in 1 .. Len(blocks)
    BY <1>1, <1>7
  <2>2. blocks[l].start <= blocks[l + b].start
    BY <2>1, Shape
  <2>3. blocks[l + b].start \in 0 .. Len(locals)
    BY <2>1, Shape
  <2>. QED
    BY SMTT(30), <1>1, <1>7, <2>2, <2>3, Shape
<1>9. -s \in Int
  BY <1>1
<1>10. /\ saved'.blocks \in Seq(Block) /\ Len(saved'.blocks) = Len(rest)
       /\ \A b \in 1 .. Len(rest) : saved'.blocks[b].start = rest[b].start + (-s)
  BY <1>2, <1>7, <1>8, <1>9, ShiftShape
<1>11. saved' \in Saved
  BY <1>2, <1>6, <1>10 DEF Saved
<1>12. Rises(saved.blocks, Len(saved.vars))'
  <2>1. ASSUME NEW b \in 1 .. Len(rest)
        PROVE  saved'.blocks[b].start <= Len(saved'.vars)
    <3>1. /\ rest[b].start \in s .. Len(locals) /\ saved'.blocks[b].start = rest[b].start + (-s)
          /\ s \in Nat /\ Len(locals) \in Nat /\ Len(saved'.vars) = Len(locals) - s
      BY <1>1, <1>6, <1>8, <1>10, Shape
    <3>. QED
      BY <3>1
  <2>2. ASSUME NEW b \in 1 .. Len(rest), NEW c \in 1 .. Len(rest), b <= c
        PROVE  saved'.blocks[b].start <= saved'.blocks[c].start
    <3>1. l + b <= l + c /\ l + b \in 1 .. Len(blocks) /\ l + c \in 1 .. Len(blocks)
      BY <1>1, <1>7, <2>2
    <3>2. rest[b].start <= rest[c].start
      BY <1>7, <3>1, Shape
    <3>3. /\ saved'.blocks[b].start = rest[b].start + (-s)
          /\ saved'.blocks[c].start = rest[c].start + (-s)
          /\ s \in Nat /\ rest[b].start \in Int /\ rest[c].start \in Int
      BY <1>1, <1>8, <1>10, Shape
    <3>. QED
      BY <3>2, <3>3
  <2>. QED
    BY <1>10, <2>1, <2>2 DEF Rises
<1>13. BlocksInv'
  <2>1. Rises(blocks, Len(locals))'
    BY <1>1, <1>4, <1>5, Shape DEF Rises
  <2>2. 1 \in 1 .. l - 1
    BY <1>1
  <2>. QED
    BY <1>1, <1>5, <1>12, <2>1, <2>2, Shape DEF BlocksInv
<1>14. VarsInv'
  <2>1. Distinct(locals)'
    BY <1>4 DEF IInv, VarsInv, Distinct
  <2>2. ASSUME NEW i \in 1 .. Len(saved'.vars), NEW j \in 1 .. Len(saved'.vars),
               saved'.vars[i] = saved'.vars[j]
        PROVE  i = j
    <3>1. s + i = s + j
      BY <1>6, <2>2 DEF IInv, VarsInv, Distinct
    <3>. QED
      BY <1>1, <1>6, <3>1, Shape
  <2>3. ASSUME NEW i \in 1 .. Len(locals'), NEW j \in 1 .. Len(saved'.vars)
        PROVE  locals'[i] # saved'.vars[j]
    <3>1. i # s + j
      BY <1>1, <1>4, <1>6, Shape
    <3>2. /\ i \in 1 .. Len(locals) /\ locals'[i] = locals[i]
          /\ s + j \in 1 .. Len(locals) /\ saved'.vars[j] = locals[s + j]
      BY <1>4, <1>6
    <3>. QED
      BY <3>1, <3>2 DEF IInv, VarsInv, Distinct
  <2>. QED
    BY <2>1, <2>2, <2>3 DEF VarsInv, Distinct
<1>15. Stays(0)
  <2>1. Alive' \subseteq Alive
    BY <1>4, <1>6, AliveWhere
  <2>2. \A i \in 1 .. Len(open) : ~(i <= 0) /\ outers[open[i]].idx <= Len(locals')
    BY <1>2, <1>4, Shape DEF NoneCaptured
  <2>3. \A i \in 1 .. Len(locals) : i <= Len(locals') => locals'[i] = locals[i]
    BY <1>4, Shape
  <2>. QED
    BY <2>1, <2>2, <2>3 DEF Stays
<1>. QED
  BY <1>3, <1>4, <1>5, <1>11, <1>13, <1>14, <1>15, Transfer

\* lv_reservestack while nothing is captured
LEMMA ReserveStackKeeps ==
    ASSUME Disciplined, IInv, ReserveStack
    PROVE  IInv'
<1>1. open = <<>> /\ outers' = Moved(outers) /\ UNCHANGED <<locals, blocks, saved, open, captured>>
  BY DEF ReserveStack, Disciplined
<1>2. \A o \in Outer : outers[o].at # "stack"
  <2>1. Elements(open) = {}
    BY <1>1 DEF Elements
  <2>. QED
    BY <2>1 DEF IInv, OpenInv
<1>3. outers' = outers
  BY <1>1, <1>2 DEF Moved, IInv, TypeOK
<1>4. blocks' \in Seq(Block) /\ BlocksInv'
  BY <1>1, SameVars, SameBlocks
<1>. QED
  BY <1>1, <1>3, <1>4, SameVars, Shape, Extend
----------------------------------------------------------------------------
(* Closures.                                                               *)

\* A closure is released, and its outer with the last closure.
LEMMA DropClosureKeeps ==
    ASSUME IInv, NEW v, NEW o, DropClosure(v, o)
    PROVE  IInv'
<1>1. /\ captured' \subseteq captured /\ outers' = Collected(outers, open, captured')
      /\ UNCHANGED <<locals, blocks, saved, open>>
  BY DEF DropClosure
<1>2. /\ open \in Seq(Outer) /\ Len(open) \in Nat /\ outers \in [Outer -> LVOuter]
      /\ \A i \in 1 .. Len(open) : open[i] \in Outer
  BY DEF IInv, TypeOK
<1>3. \A p \in Outer : /\ p \in Elements(open) => outers'[p] = outers[p]
                       /\ outers'[p] = outers[p] \/ Released(p)
  BY <1>1 DEF Collected, Released
<1>4. outers' \in [Outer -> LVOuter]
  <2>1. NoOuter \in LVOuter
    BY DEF NoOuter, LVOuter
  <2>. QED
    BY <1>1, <1>2, <2>1 DEF Collected
<1>5. Evolves(0)
  <2>1. SubSeq(open, 0 + 1, Len(open)) = open
    BY <1>2, SubSeqFull
  <2>2. \A i \in 1 .. Len(open) : ~(i <= 0) /\ open[i] \in Elements(open)
    BY <1>2 DEF Elements
  <2>. QED
    BY <1>1, <1>2, <1>3, <1>4, <2>1, <2>2 DEF Evolves
<1>6. Stays(0)
  <2>1. \A i \in 1 .. Len(open) : ~(i <= 0) /\ outers[open[i]].idx <= Len(locals)
    BY Shape
  <2>. QED
    BY <1>1, <2>1, SameVars DEF Stays
<1>7. blocks' \in Seq(Block) /\ BlocksInv'
  BY <1>1, SameVars, SameBlocks
<1>. QED
  BY <1>1, <1>5, <1>6, <1>7, Shape, SameVars, Transfer

\* What FindOuter looks at: the last outer it does not pass by is that of
\* register n, or there is none.
LEMMA FoundOrNot ==
    ASSUME IInv, NEW n \in Nat, NEW i \in 1 .. Len(open), outers[open[i]].idx = n
    PROVE  Above(n) = i
<1>1. /\ Above(n) \in 0 .. Len(open)
      /\ \A j \in 1 .. Len(open) : j <= Above(n) <=> outers[open[j]].idx >= n
  BY Shape, AboveSplits
<1>2. i <= Above(n) /\ Above(n) \in 1 .. Len(open)
  BY <1>1, Shape
<1>3. ~(i < Above(n))
  <2>1. SUFFICES ASSUME i < Above(n) PROVE FALSE
    OBVIOUS
  <2>2. outers[open[i]].idx > outers[open[Above(n)]].idx
    BY <1>2, <2>1, Shape DEF OpenInv, OpenOutersDescend
  <2>3. outers[open[Above(n)]].idx >= n /\ outers[open[Above(n)]].idx \in Nat
    BY <1>1, <1>2, Shape
  <2>. QED
    BY <2>2, <2>3
<1>. QED
  BY <1>2, <1>3

\* The closures that know the variable of register n know it by its open outer.
LEMMA KnownOpen ==
    ASSUME IInv, NEW n \in 1 .. Len(locals), NEW c \in captured, c[1] = locals[n]
    PROVE  /\ c[2] \in Outer /\ Above(n) \in 1 .. Len(open) /\ open[Above(n)] = c[2]
           /\ outers[open[Above(n)]].idx = n
<1>1. Knows(c) /\ c[2] \in Outer
  BY DEF IInv, TypeOK, CapturesInv
<1>2. c[1] \in Alive
  BY AliveWhere
<1>3. outers[c[2]].at = "stack" /\ locals[outers[c[2]].idx] = locals[n]
  BY <1>1, <1>2 DEF Knows
<1>4. PICK i \in 1 .. Len(open) : c[2] = open[i]
  BY <1>1, <1>3 DEF IInv, OpenInv, Elements
<1>5. outers[open[i]].idx = n
  BY <1>3, <1>4, Shape DEF IInv, VarsInv, Distinct
<1>. QED
  BY <1>1, <1>4, <1>5, FoundOrNot, Shape

LEMMA CaptureFoundKeeps ==
    ASSUME IInv, NEW n \in 1 .. Len(locals), UNCHANGED <<locals, blocks, saved, open, outers>>,
           Above(n) > 0, outers[open[Above(n)]].idx = n,
           captured' = captured \cup {<<locals[n], open[Above(n)]>>}
    PROVE  IInv'
<1>. DEFINE a == Above(n)
            new == <<locals[n], open[a]>>
<1>1. a \in 1 .. Len(open) /\ n \in Nat
  BY Shape, AboveSplits
<1>2. /\ open[a] \in Outer /\ open[a] \in Elements(open) /\ locals[n] \in Var
      /\ captured \subseteq Var \X Outer
  BY <1>1 DEF IInv, TypeOK, Elements
<1>3. new \in Var \X Outer /\ new[1] = locals[n] /\ new[2] = open[a]
  BY <1>2
<1>4. Knows(new)
  BY <1>2, <1>3 DEF Knows, IInv, OpenInv
<1>5. ASSUME NEW c \in captured
      PROVE  c[1] = new[1] => c[2] = new[2]
  BY <1>3, KnownOpen
<1>. HIDE DEF a, new
<1>6. captured' = captured \cup {new}
  BY DEF a, new
<1>7. \A c : Knows(c)' <=> Knows(c)
  BY DEF Knows, Alive
<1>8. CapturesInv'
  <2>1. \A c \in captured' : Knows(c)'
    BY <1>4, <1>6, <1>7 DEF IInv, CapturesInv
  <2>2. \A c, d \in captured' : c[1] = d[1] => c[2] = d[2]
    BY <1>5, <1>6 DEF IInv, CapturesInv
  <2>. QED
    BY <2>1, <2>2 DEF CapturesInv
<1>9. /\ TypeOK' /\ BlocksInv'
  BY <1>2, <1>3, <1>6 DEF IInv, TypeOK, BlocksInv, Rises
<1>10. VarsInv' /\ OpenInv'
  BY DEF IInv, VarsInv, Distinct, OpenInv, OpenOutersDescend
<1>. QED
  BY <1>8, <1>9, <1>10 DEF IInv

\* t is the list s with o put in behind its first a elements.
PutIn(t, s, a, o) ==
    /\ t \in Seq(Outer) /\ Len(t) = Len(s) + 1
    /\ \A i \in 1 .. a : t[i] = s[i]
    /\ t[a + 1] = o
    /\ \A i \in a + 1 .. Len(s) : t[i + 1] = s[i]

\* An element put into a sequence behind the first a.
LEMMA Inserted ==
    ASSUME NEW s \in Seq(Outer), NEW a \in 0 .. Len(s), NEW o \in Outer, NEW t,
           t = SubSeq(s, 1, a) \o <<o>> \o SubSeq(s, a + 1, Len(s))
    PROVE  PutIn(t, s, a, o)
<1>. DEFINE first == SubSeq(s, 1, a)
            rest == SubSeq(s, a + 1, Len(s))
            mid == first \o <<o>>
<1>1. a \in Nat /\ Len(s) \in Nat /\ a <= Len(s)
  OBVIOUS
<1>2. first \in Seq(Outer) /\ Len(first) = a /\ \A i \in 1 .. a : first[i] = s[i]
  BY <1>1
<1>3. /\ rest \in Seq(Outer) /\ Len(rest) = Len(s) - a
      /\ \A i \in 1 .. Len(s) - a : rest[i] = s[a + i]
  <2>1. \A i \in a + 1 .. Len(s) : s[i] \in Outer
    BY <1>1
  <2>2. /\ rest \in Seq(Outer)
        /\ Len(rest) = IF a + 1 <= Len(s) THEN Len(s) - (a + 1) + 1 ELSE 0
        /\ \A i \in 1 .. Len(s) - (a + 1) + 1 : rest[i] = s[(a + 1) + i - 1]
    BY <1>1, <2>1, SubSeqProperties
  <2>. HIDE DEF rest
  <2>3. Len(rest) = Len(s) - a
    BY <1>1, <2>2
  <2>4. ASSUME NEW i \in 1 .. Len(s) - a
        PROVE  rest[i] = s[a + i]
    <3>1. i \in 1 .. Len(s) - (a + 1) + 1 /\ (a + 1) + i - 1 = a + i
      BY <1>1
    <3>. QED
      BY <2>2, <3>1
  <2>. QED
    BY <2>2, <2>3, <2>4
<1>4. <<o>> \in Seq(Outer) /\ Len(<<o>>) = 1 /\ <<o>>[1] = o
  OBVIOUS
<1>5. t = mid \o rest
  OBVIOUS
<1>. HIDE DEF first, rest
<1>6. /\ mid \in Seq(Outer) /\ Len(mid) = a + 1
      /\ \A i \in 1 .. a + 1 : mid[i] = IF i <= a THEN first[i] ELSE <<o>>[i - a]
  BY <1>2, <1>4, ConcatProperties
<1>. HIDE DEF mid
<1>7. /\ mid \o rest \in Seq(Outer) /\ Len(mid \o rest) = Len(mid) + Len(rest)
      /\ \A i \in 1 .. Len(mid) + Len(rest) :
             (mid \o rest)[i] = IF i <= Len(mid) THEN mid[i] ELSE rest[i - Len(mid)]
  BY <1>3, <1>6, ConcatProperties
<1>8. Len(mid) + Len(rest) = Len(s) + 1
  BY <1>1, <1>3, <1>6
<1>9. \A i \in 1 .. Len(s) + 1 : t[i] = IF i <= a + 1 THEN mid[i] ELSE rest[i - (a + 1)]
  BY <1>5, <1>6, <1>7, <1>8
<1>10. ASSUME NEW i \in 1 .. a
       PROVE  t[i] = s[i]
  <2>1. i \in 1 .. Len(s) + 1 /\ i \in 1 .. a + 1 /\ i <= a + 1 /\ i <= a
    BY <1>1
  <2>. QED
    BY <1>2, <1>6, <1>9, <2>1
<1>11. t[a + 1] = o
  <2>1. a + 1 \in 1 .. Len(s) + 1 /\ a + 1 \in 1 .. a + 1 /\ ~(a + 1 <= a) /\ (a + 1) - a = 1
    BY <1>1
  <2>2. t[a + 1] = mid[a + 1]
    <3>1. a + 1 <= a + 1
      BY <1>1
    <3>2. PICK k : k = a + 1
      OBVIOUS
    <3>3. t[k] = mid[k]
      BY <1>9, <2>1, <3>1, <3>2
    <3>. QED
      BY <3>2, <3>3
  <2>3. mid[a + 1] = <<o>>[(a + 1) - a]
    BY <1>6, <2>1
  <2>4. <<o>>[(a + 1) - a] = <<o>>[1]
    BY <2>1
  <2>. QED
    BY <1>4, <2>2, <2>3, <2>4
<1>12. ASSUME NEW i \in a + 1 .. Len(s)
       PROVE  t[i + 1] = s[i]
  <2>1. /\ i + 1 \in 1 .. Len(s) + 1 /\ ~(i + 1 <= a + 1)
        /\ i - a \in 1 .. Len(s) - a /\ (i + 1) - (a + 1) = i - a /\ a + (i - a) = i
    BY <1>1
  <2>2. t[i + 1] = rest[i - a]
    BY <1>9, <2>1
  <2>. QED
    BY <1>3, <2>1, <2>2
<1>. QED
  BY <1>5, <1>7, <1>8, <1>10, <1>11, <1>12 DEF PutIn

\* A new outer o for register n is linked in where the list has it in order.
LEMMA LinkedIn ==
    ASSUME IInv, NEW n \in 1 .. Len(locals), locals' = locals,
           \A i \in 1 .. Len(open) : outers[open[i]].idx # n,
           NEW o \in Outer, outers[o] = NoOuter,
           outers' \in [Outer -> LVOuter], outers'[o].at = "stack", outers'[o].idx = n,
           \A p \in Outer : p # o => outers'[p] = outers[p],
           NEW a, a = Above(n),
           open' = SubSeq(open, 1, a) \o <<o>> \o SubSeq(open, a + 1, Len(open))
    PROVE  open' \in Seq(Outer) /\ OpenInv'
<1>. DEFINE idx(i) == outers'[open'[i]].idx
            was(i) == outers[open[i]].idx
<1>1. /\ open \in Seq(Outer) /\ Len(open) \in Nat /\ n \in Nat /\ Len(locals) \in Nat
      /\ \A i \in 1 .. Len(open) : open[i] \in Outer
  BY Shape DEF TypeOK
<1>2. /\ a \in 0 .. Len(open)
      /\ \A i \in 1 .. Len(open) : was(i) \in 1 .. Len(locals) /\ was(i) # n
      /\ \A i \in 1 .. Len(open) : i <= a <=> was(i) >= n
  BY <1>1, Shape, AboveSplits
<1>3. /\ open' \in Seq(Outer) /\ Len(open') = Len(open) + 1
      /\ \A i \in 1 .. a : open'[i] = open[i]
      /\ open'[a + 1] = o
      /\ \A i \in a + 1 .. Len(open) : open'[i + 1] = open[i]
  <2>1. PICK t : t = SubSeq(open, 1, a) \o <<o>> \o SubSeq(open, a + 1, Len(open))
    OBVIOUS
  <2>2. /\ t \in Seq(Outer) /\ Len(t) = Len(open) + 1
        /\ \A i \in 1 .. a : t[i] = open[i]
        /\ t[a + 1] = o
        /\ \A i \in a + 1 .. Len(open) : t[i + 1] = open[i]
    <3>1. PICK list : list = open
      OBVIOUS
    <3>2. list \in Seq(Outer) /\ a \in 0 .. Len(list) /\ o \in Outer
      BY <1>1, <1>2, <3>1
    <3>3. t = SubSeq(list, 1, a) \o <<o>> \o SubSeq(list, a + 1, Len(list))
      BY <2>1, <3>1
    <3>4. PutIn(t, list, a, o)
      BY <3>2, <3>3, Inserted
    <3>. QED
      BY <3>1, <3>4 DEF PutIn
  <2>3. open' = t
    BY <2>1
  <2>. QED
    BY <2>2, <2>3
<1>4. \A i \in 1 .. Len(open) : open[i] # o /\ outers'[open[i]] = outers[open[i]]
  <2>1. \A i \in 1 .. Len(open) : outers[open[i]].at = "stack"
    BY <1>1 DEF IInv, OpenInv, Elements
  <2>2. outers[o].at = "none"
    BY DEF NoOuter
  <2>. QED
    BY <1>1, <2>1, <2>2
\* Below, j is a place in the list before, and where it is now.
<1>5. ASSUME NEW j \in 1 .. Len(open)
      PROVE  /\ j <= a => open'[j] = open[j] /\ idx(j) = was(j) /\ was(j) > n
             /\ ~(j <= a) => open'[j + 1] = open[j] /\ idx(j + 1) = was(j) /\ was(j) < n
  <2>1. j \in Nat /\ was(j) \in Nat /\ was(j) # n /\ a \in Nat
    BY <1>1, <1>2
  <2>2. j <= a => j \in 1 .. a
    BY <2>1
  <2>3. ~(j <= a) => j \in a + 1 .. Len(open)
    BY <1>1, <2>1
  <2>4. open[j] \in Outer /\ outers'[open[j]] = outers[open[j]]
    BY <1>1, <1>4
  <2>5. ASSUME j <= a
        PROVE  open'[j] = open[j] /\ idx(j) = was(j) /\ was(j) > n
    <3>1. open'[j] = open[j]
      BY <1>3, <2>2, <2>5
    <3>2. was(j) >= n
      BY <1>2, <2>5
    <3>3. idx(j) = was(j)
      BY <2>4, <3>1
    <3>. HIDE DEF idx, was
    <3>. QED
      BY SMTT(30), <1>1, <2>1, <3>1, <3>2, <3>3
  <2>6. ASSUME ~(j <= a)
        PROVE  open'[j + 1] = open[j] /\ idx(j + 1) = was(j) /\ was(j) < n
    <3>1. open'[j + 1] = open[j]
      BY <1>3, <2>3, <2>6
    <3>2. was(j) < n
      <4>1. ~(was(j) >= n)
        BY <1>2, <2>6
      <4>. HIDE DEF was
      <4>. QED
        BY <1>1, <2>1, <4>1
    <3>3. idx(j + 1) = was(j)
      BY <2>4, <3>1
    <3>. QED
      BY <3>1, <3>2, <3>3
  <2>. QED
    BY <2>5, <2>6
<1>6. idx(a + 1) = n
  BY <1>3
<1>7. ASSUME NEW i \in 1 .. Len(open')
      PROVE  \/ i \in 1 .. Len(open) /\ i <= a
             \/ i = a + 1
             \/ /\ i - 1 \in 1 .. Len(open) /\ ~(i - 1 <= a) /\ i = (i - 1) + 1
  BY <1>1, <1>2, <1>3
<1>8. ASSUME NEW i \in 1 .. Len(open')
      PROVE  /\ i <= a => i \in 1 .. Len(open) /\ idx(i) = was(i) /\ idx(i) > n
             /\ i = a + 1 => idx(i) = n
             /\ i > a + 1 => i - 1 \in 1 .. Len(open) /\ idx(i) = was(i - 1) /\ idx(i) < n
             /\ idx(i) \in 1 .. Len(locals) /\ i \in Nat
  <2>1. i \in Nat /\ a \in Nat
    BY <1>1, <1>2, <1>3
  <2>2. CASE i \in 1 .. Len(open) /\ i <= a
    <3>1. idx(i) = was(i) /\ was(i) > n /\ was(i) \in 1 .. Len(locals)
      BY <1>2, <1>5, <2>2
    <3>. HIDE DEF idx, was
    <3>. QED
      BY <2>1, <2>2, <3>1
  <2>3. CASE i = a + 1
    <3>. HIDE DEF idx, was
    <3>. QED
      BY <1>6, <2>1, <2>3
  <2>4. CASE i - 1 \in 1 .. Len(open) /\ ~(i - 1 <= a) /\ i = (i - 1) + 1
    <3>1. idx((i - 1) + 1) = was(i - 1) /\ was(i - 1) < n /\ was(i - 1) \in 1 .. Len(locals)
      BY <1>2, <1>5, <2>4
    <3>2. idx(i) = was(i - 1)
      BY <2>4, <3>1
    <3>. HIDE DEF idx, was
    <3>. QED
      BY <2>1, <2>4, <3>1, <3>2
  <2>. QED
    BY <1>7, <2>2, <2>3, <2>4
<1>9. ASSUME NEW i \in 1 .. Len(open'), NEW j \in 1 .. Len(open'), i < j
      PROVE  idx(i) > idx(j)
  <2>1. \A k, l \in 1 .. Len(open) : k < l => was(k) > was(l)
    BY DEF IInv, OpenInv, OpenOutersDescend
  <2>2. i \in Nat /\ j \in Nat /\ a \in Nat /\ n \in Nat
    BY <1>1, <1>2, <1>3
  <2>3. idx(i) \in Nat /\ idx(j) \in Nat
    <3>1. idx(i) \in 1 .. Len(locals) /\ idx(j) \in 1 .. Len(locals)
      BY ZenonT(60), <1>8
    <3>. HIDE DEF idx
    <3>. QED
      BY <1>1, <3>1
  <2>4. /\ i <= a => i \in 1 .. Len(open) /\ idx(i) = was(i) /\ idx(i) > n
        /\ i = a + 1 => idx(i) = n
        /\ i > a + 1 => i - 1 \in 1 .. Len(open) /\ idx(i) = was(i - 1) /\ idx(i) < n
    BY ZenonT(60), <1>8
  <2>5. /\ j <= a => j \in 1 .. Len(open) /\ idx(j) = was(j) /\ idx(j) > n
        /\ j = a + 1 => idx(j) = n
        /\ j > a + 1 => j - 1 \in 1 .. Len(open) /\ idx(j) = was(j - 1) /\ idx(j) < n
    BY <1>8
  <2>6. CASE j <= a
    <3>1. i <= a
      BY <1>9, <2>2, <2>6
    <3>2. was(i) > was(j)
      BY <1>9, <2>1, <2>4, <2>5, <2>6, <3>1
    <3>. QED
      BY <2>4, <2>5, <2>6, <3>1, <3>2
  <2>7. CASE i > a + 1
    <3>1. i - 1 < j - 1 /\ j > a + 1
      BY <1>9, <2>2, <2>7
    <3>2. was(i - 1) > was(j - 1)
      BY <2>1, <2>4, <2>5, <2>7, <3>1
    <3>. QED
      BY <2>4, <2>5, <2>7, <3>1, <3>2
  <2>8. CASE ~(j <= a) /\ ~(i > a + 1)
    <3>1. (i <= a \/ i = a + 1) /\ (j = a + 1 \/ j > a + 1) /\ ~(i = a + 1 /\ j = a + 1)
      BY <1>9, <2>2, <2>8
    <3>2. idx(i) >= n /\ idx(j) <= n /\ ~(idx(i) = n /\ idx(j) = n)
      <4>. HIDE DEF idx, was
      <4>1. (i <= a => idx(i) > n) /\ (i = a + 1 => idx(i) = n)
        BY <2>4
      <4>2. (j > a + 1 => idx(j) < n) /\ (j = a + 1 => idx(j) = n)
        BY <2>5
      <4>3. PICK x \in Nat : x = idx(i)
        BY <2>3
      <4>4. PICK y \in Nat : y = idx(j)
        BY <2>3
      <4>. QED
        BY <2>2, <3>1, <4>1, <4>2, <4>3, <4>4
    <3>3. PICK x \in Nat : x = idx(i)
      BY <2>3
    <3>4. PICK y \in Nat : y = idx(j)
      BY <2>3
    <3>5. x > y
      <4>1. x >= n /\ y <= n /\ ~(x = n /\ y = n)
        BY <3>2, <3>3, <3>4
      <4>. QED
        BY <2>2, <4>1
    <3>. QED
      BY <3>3, <3>4, <3>5
  <2>. QED
    BY <2>6, <2>7, <2>8
<1>10. Elements(open') = Elements(open) \cup {o}
  <2>1. ASSUME NEW i \in 1 .. Len(open')
        PROVE  open'[i] \in Elements(open) \cup {o}
    <3>1. CASE i \in 1 .. Len(open) /\ i <= a
      <4>1. open'[i] = open[i]
        BY <1>5, <3>1
      <4>. QED
        BY <3>1, <4>1 DEF Elements
    <3>2. CASE i = a + 1
      BY <1>3, <3>2
    <3>3. CASE i - 1 \in 1 .. Len(open) /\ ~(i - 1 <= a) /\ i = (i - 1) + 1
      <4>1. open'[(i - 1) + 1] = open[i - 1]
        BY <1>5, <3>3
      <4>2. open'[i] = open[i - 1]
        BY <3>3, <4>1
      <4>. QED
        BY <3>3, <4>2 DEF Elements
    <3>. QED
      BY <1>7, <3>1, <3>2, <3>3
  <2>2. ASSUME NEW j \in 1 .. Len(open)
        PROVE  open[j] \in Elements(open')
    <3>1. j \in 1 .. Len(open') /\ j + 1 \in 1 .. Len(open')
      BY <1>1, <1>3
    <3>. QED
      BY <1>5, <3>1 DEF Elements
  <2>3. o \in Elements(open')
    <3>1. a + 1 \in 1 .. Len(open')
      BY <1>1, <1>2, <1>3
    <3>. QED
      BY <1>3, <3>1 DEF Elements
  <2>4. Elements(open') \subseteq Elements(open) \cup {o}
    <3>1. ASSUME NEW e \in Elements(open')
          PROVE  e \in Elements(open) \cup {o}
      <4>1. PICK i \in 1 .. Len(open') : e = open'[i]
        BY DEF Elements
      <4>. QED
        BY <2>1, <4>1
    <3>. QED
      BY <3>1
  <2>5. Elements(open) \subseteq Elements(open')
    <3>1. ASSUME NEW e \in Elements(open)
          PROVE  e \in Elements(open')
      <4>1. PICK i \in 1 .. Len(open) : e = open[i]
        BY DEF Elements
      <4>. QED
        BY <2>2, <4>1
    <3>. QED
      BY <3>1
  <2>. QED
    BY <2>3, <2>4, <2>5
<1>11. ASSUME NEW p \in Outer
       PROVE  outers'[p].at # "old stack" /\ (outers'[p].at = "stack" <=> p \in Elements(open'))
  <2>1. CASE p = o
    BY <1>10, <2>1
  <2>2. CASE p # o
    BY <1>10, <2>2 DEF IInv, OpenInv
  <2>. QED
    BY <2>1, <2>2
<1>12. OpenOutersDescend'
  BY <1>9 DEF OpenOutersDescend
<1>13. \A i \in 1 .. Len(open') : idx(i) \in 1 .. Len(locals')
  <2>1. Len(locals') = Len(locals)
    OBVIOUS
  <2>. QED
    BY ZenonT(60), <1>8, <2>1
<1>14. OpenInv'
  BY <1>11, <1>12, <1>13 DEF OpenInv
<1>. QED
  BY <1>3, <1>14

LEMMA CaptureNewKeeps ==
    ASSUME IInv, NEW n \in 1 .. Len(locals), UNCHANGED <<locals, blocks, saved>>,
           ~(Above(n) > 0 /\ outers[open[Above(n)]].idx = n),
           NEW o \in Outer, outers[o] = NoOuter,
           outers' = [outers EXCEPT ![o] = [NoOuter EXCEPT !.at = "stack", !.idx = n]],
           open' = SubSeq(open, 1, Above(n)) \o <<o>> \o SubSeq(open, Above(n) + 1, Len(open)),
           captured' = captured \cup {<<locals[n], o>>}
    PROVE  IInv'
<1>1. n \in Nat /\ outers \in [Outer -> LVOuter] /\ captured \subseteq Var \X Outer
  BY Shape DEF TypeOK
<1>2. \A i \in 1 .. Len(open) : outers[open[i]].idx # n
  <2>1. SUFFICES ASSUME NEW i \in 1 .. Len(open), outers[open[i]].idx = n PROVE FALSE
    OBVIOUS
  <2>2. Above(n) = i
    BY <1>1, <2>1, FoundOrNot
  <2>. QED
    BY <2>1, <2>2, Shape
<1>3. PICK x : x = [NoOuter EXCEPT !.at = "stack", !.idx = n]
  OBVIOUS
<1>4. x.at = "stack" /\ x.idx = n /\ x \in LVOuter
  BY <1>1, <1>3 DEF NoOuter, LVOuter
<1>5. /\ outers' \in [Outer -> LVOuter] /\ outers'[o] = x
      /\ \A p \in Outer : p # o => outers'[p] = outers[p]
  BY <1>1, <1>3, <1>4
<1>6. open' \in Seq(Outer) /\ OpenInv'
  BY <1>2, <1>4, <1>5, LinkedIn
<1>7. PICK new : new = <<locals[n], o>>
  OBVIOUS
<1>8. /\ new \in Var \X Outer /\ new[1] = locals[n] /\ new[2] = o
      /\ captured' = captured \cup {new}
  BY <1>7, Shape
<1>9. ASSUME NEW c \in captured
      PROVE  c[1] # new[1] /\ c[2] # o /\ Knows(c)'
  <2>1. c[1] # locals[n]
    <3>1. SUFFICES ASSUME c[1] = locals[n] PROVE FALSE
      OBVIOUS
    <3>2. Above(n) \in 1 .. Len(open) /\ outers[open[Above(n)]].idx = n
      BY <3>1, KnownOpen
    <3>. QED
      BY <1>2, <3>2
  <2>2. Knows(c) /\ c[2] \in Outer
    BY <1>1 DEF IInv, CapturesInv
  <2>3. c[2] # o
    BY <2>2 DEF Knows, NoOuter
  <2>4. outers'[c[2]] = outers[c[2]]
    BY <1>5, <2>2, <2>3
  <2>5. Knows(c)'
    BY <2>2, <2>4 DEF Knows, Alive
  <2>. QED
    BY <1>8, <2>1, <2>3, <2>5
<1>10. Knows(new)'
  <2>1. outers'[new[2]].at = "stack" /\ locals'[outers'[new[2]].idx] = new[1]
    BY <1>4, <1>5, <1>8
  <2>. QED
    BY <2>1 DEF Knows
<1>11. CapturesInv'
  <2>1. ASSUME NEW c \in captured'
        PROVE  Knows(c)'
    <3>1. CASE c \in captured
      BY <1>9, <3>1
    <3>2. CASE c = new
      BY <1>10, <3>2 DEF Knows
    <3>. QED
      BY <1>8, <3>1, <3>2
  <2>2. \A c, d \in captured' : c[1] = d[1] => c[2] = d[2]
    BY <1>8, <1>9 DEF IInv, CapturesInv
  <2>. QED
    BY <2>1, <2>2 DEF CapturesInv
<1>12. captured' \subseteq Var \X Outer
  BY <1>1, <1>8
<1>13. TypeOK'
  BY <1>5, <1>6, <1>12 DEF IInv, TypeOK
<1>14. BlocksInv' /\ VarsInv'
  BY DEF IInv, BlocksInv, Rises, VarsInv, Distinct
<1>. QED
  BY <1>6, <1>11, <1>13, <1>14 DEF IInv

\* CLOSURE_OP
LEMMA CaptureKeeps ==
    ASSUME IInv, NEW n \in 1 .. Len(locals), Capture(n)
    PROVE  IInv'
  BY CaptureFoundKeeps, CaptureNewKeeps DEF Capture, FindOuter

----------------------------------------------------------------------------
(* The theorems.                                                           *)

LEMMA InitInv ==
    ASSUME Init
    PROVE  IInv
<1>1. /\ locals = <<>> /\ open = <<>> /\ Len(<<>>) = 0 /\ captured = {}
      /\ blocks = <<[kind |-> "frame", start |-> 0]>> /\ saved = NoGen
      /\ outers = [o \in Outer |-> NoOuter]
  BY DEF Init
<1>2. [kind |-> "frame", start |-> 0] \in Block
  BY DEF Block
<1>3. /\ blocks \in Seq(Block) /\ Len(blocks) = 1 /\ blocks[1] = [kind |-> "frame", start |-> 0]
      /\ blocks[1].start = 0
  BY <1>1, <1>2
<1>4. NoGen \in Saved /\ NoGen.vars = <<>> /\ NoGen.blocks = <<>>
  <2>1. <<>> \in Seq(Var) /\ <<>> \in Seq(Block)
    BY EmptySeq
  <2>. QED
    BY <2>1 DEF NoGen, Saved
<1>5. TypeOK
  <2>1. NoOuter \in LVOuter
    BY DEF NoOuter, LVOuter
  <2>2. <<>> \in Seq(Var) /\ <<>> \in Seq(Outer)
    BY EmptySeq
  <2>. QED
    BY <1>1, <1>3, <1>4, <2>1, <2>2 DEF TypeOK
<1>6. BlocksInv
  BY <1>1, <1>3, <1>4 DEF BlocksInv, Rises
<1>7. VarsInv
  BY <1>1, <1>4 DEF VarsInv, Distinct
<1>8. OpenInv
  <2>1. Elements(open) = {}
    BY <1>1 DEF Elements
  <2>2. \A o \in Outer : outers[o].at = "none"
    BY <1>1 DEF NoOuter
  <2>3. \A i \in 1 .. Len(open) : FALSE
    BY <1>1
  <2>. QED
    BY <2>1, <2>2, <2>3 DEF OpenInv, OpenOutersDescend
<1>9. CapturesInv
  BY <1>1 DEF CapturesInv
<1>. QED
  BY <1>5, <1>6, <1>7, <1>8, <1>9 DEF IInv

LEMMA StutterKeeps ==
    ASSUME IInv, UNCHANGED vars
    PROVE  IInv'
<1>1. UNCHANGED <<locals, blocks, saved, outers, open, captured>>
  BY DEF vars
<1>2. blocks' \in Seq(Block) /\ BlocksInv'
  BY <1>1, SameVars, SameBlocks
<1>. QED
  BY <1>1, <1>2, SameVars, Shape, Extend

LEMMA NextInv ==
    ASSUME Disciplined, IInv, [Next]_vars
    PROVE  IInv'
<1>1. CASE Call
  BY <1>1, CallKeeps
<1>2. CASE Return
  BY <1>2, ReturnKeeps
<1>3. CASE TailCall
  BY <1>3, TailCallKeeps
<1>4. ASSUME NEW v \in Var, Declare(v)
      PROVE  IInv'
  BY <1>4, DeclareKeeps
<1>5. ASSUME NEW v \in Var, NEW o \in Outer, DropClosure(v, o)
      PROVE  IInv'
  BY <1>5, DropClosureKeeps
<1>6. ASSUME NEW n \in 1 .. Len(locals), Capture(n)
      PROVE  IInv'
  BY <1>6, CaptureKeeps
<1>7. ASSUME NEW kind \in {"try", "block"}, BeginScope(kind)
      PROVE  IInv'
  BY <1>7, BeginScopeKeeps
<1>8. CASE EndScope
  BY <1>8, EndScopeKeeps
<1>9. ASSUME NEW b \in 1 .. Len(blocks), Jump(b)
      PROVE  IInv'
  BY <1>9, JumpKeeps
<1>10. ASSUME NEW b \in 1 .. Len(blocks), CatchError(b)
       PROVE  IInv'
  BY <1>10, CatchErrorKeeps
<1>11. CASE UncaughtError
  BY <1>11, UncaughtErrorKeeps
<1>12. CASE CreateGenerator
  BY <1>12, CreateGeneratorKeeps
<1>13. CASE Resume
  BY <1>13, ResumeKeeps
<1>14. CASE Yield
  BY <1>14, YieldKeeps
<1>15. CASE ReserveStack
  BY <1>15, ReserveStackKeeps
<1>16. CASE UNCHANGED vars
  BY <1>16, StutterKeeps
<1>. QED
  BY <1>1, <1>2, <1>3, <1>4, <1>5, <1>6, <1>7, <1>8, <1>9, <1>10, <1>11, <1>12, <1>13,
     <1>14, <1>15, <1>16 DEF Next

LEMMA Invariance ==
    ASSUME Disciplined
    PROVE  Spec => []IInv
<1>1. Init => IInv
  BY InitInv
<1>2. IInv /\ [Next]_vars => IInv'
  BY NextInv
<1>. QED
  BY <1>1, <1>2, PTL DEF Spec

\* A closure and the function it was made in share a variable as long as the
\* variable is there, and the closure has it afterwards (FindOuter, CloseOuters
\* and RelocateOuters in vm.cpp), whatever calls, blocks, tail calls, errors and
\* generators come between - except those that the four flags stand for.
THEOREM ClosuresShare ==
    ASSUME Disciplined
    PROVE  Spec => []CapturesShareVariable
<1>1. IInv => CapturesShareVariable
  <2>1. SUFFICES ASSUME IInv, NEW c \in captured
                 PROVE  LET outer == outers[c[2]]
                        IN  \/ /\ outer.at # "value"
                               /\ outer.idx \in 1 .. Len(locals)
                               /\ locals[outer.idx] = c[1]
                            \/ /\ outer.at = "value"
                               /\ outer.var = c[1]
                               /\ c[1] \notin Alive
    BY DEF CapturesShareVariable
  <2>2. Knows(c) /\ c[2] \in Outer
    BY <2>1 DEF IInv, TypeOK, CapturesInv
  <2>3. CASE outers[c[2]].at = "stack"
    <3>1. outers[c[2]].idx \in 1 .. Len(locals)
      BY <2>1, <2>2, <2>3 DEF IInv, OpenInv, Elements
    <3>. QED
      BY <2>2, <2>3, <3>1 DEF Knows
  <2>4. CASE outers[c[2]].at # "stack"
    BY <2>2, <2>4 DEF Knows
  <2>. QED
    BY <2>3, <2>4
<1>. QED
  BY <1>1, Invariance, PTL

\* All closures that know a variable have the same outer, and the list that
\* FindOuter searches for it goes down the stack (vm.cpp:1893).
THEOREM OneOuterEach ==
    ASSUME Disciplined
    PROVE  Spec => []OneOuterPerVariable
<1>1. IInv => OneOuterPerVariable
  <2>1. SUFFICES ASSUME IInv
                 PROVE  OneOuterPerVariable
    OBVIOUS
  <2>2. ASSUME NEW c \in captured, NEW d \in captured, c[2] = d[2]
        PROVE  c[1] = d[1]
    BY <2>1, <2>2 DEF IInv, CapturesInv, Knows
  <2>3. OpenOutersDescend /\ \A c, d \in captured : c[1] = d[1] => c[2] = d[2]
    BY <2>1 DEF IInv, OpenInv, CapturesInv
  <2>. QED
    BY <2>2, <2>3 DEF OneOuterPerVariable
<1>. QED
  BY <1>1, Invariance, PTL

\* An open outer points into the stack there is: RelocateOuters misses none
\* (vm.cpp:1933).
THEOREM NoOuterIsStale ==
    ASSUME Disciplined
    PROVE  Spec => []NoStalePointer
<1>1. IInv => NoStalePointer
  <2>1. SUFFICES ASSUME IInv, NEW i \in 1 .. Len(open)
                 PROVE  outers[open[i]].at = "stack"
    BY DEF NoStalePointer
  <2>2. open[i] \in Outer /\ open[i] \in Elements(open)
    BY <2>1 DEF IInv, TypeOK, Elements
  <2>. QED
    BY <2>1, <2>2 DEF IInv, OpenInv
<1>. QED
  BY <1>1, Invariance, PTL
=============================================================================
