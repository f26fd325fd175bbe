------------------------- MODULE ExecFrames_proofs -------------------------
(***************************************************************************)
(* Proofs about ExecFrames, for every set of generators and frame sizes    *)
(* and every bound on the stacks.                                          *)
(***************************************************************************)
EXTENDS ExecFrames, SequenceTheorems, TLAPS

----------------------------------------------------------------------------
(* The changes of a stack kept as a sequence, point by point.              *)

\* Append keeps what was there (EnterFrame, _OP_PUSHTRAP, a new activation).
LEMMA AppendFacts ==
    ASSUME NEW S, NEW s \in Seq(S), NEW e \in S
    PROVE  /\ Append(s, e) \in Seq(S)
           /\ Len(Append(s, e)) = Len(s) + 1
           /\ \A i \in 1 .. Len(s) : Append(s, e)[i] = s[i]
           /\ Append(s, e)[Len(s) + 1] = e
  OBVIOUS

\* LVGenerator::Yield takes the last n traps away.
LEMMA CutFacts ==
    ASSUME NEW S, NEW s \in Seq(S), NEW n \in 0 .. Len(s)
    PROVE  /\ SubSeq(s, 1, n) \in Seq(S)
           /\ Len(SubSeq(s, 1, n)) = n
           /\ \A i \in 1 .. n : SubSeq(s, 1, n)[i] = s[i]
<1>1. \A i \in 1 .. n : s[i] \in S  OBVIOUS
<1>. QED BY <1>1, SubSeqProperties

\* Pop removes the last element only (LeaveFrame, _OP_POPTRAP, a return).
LEMMA PopFacts ==
    ASSUME NEW S, NEW s \in Seq(S), Len(s) > 0
    PROVE  /\ Pop(s) \in Seq(S)
           /\ Len(Pop(s)) = Len(s) - 1
           /\ \A i \in 1 .. Len(s) - 1 : Pop(s)[i] = s[i]
<1>1. Len(s) - 1 \in 0 .. Len(s)  OBVIOUS
<1>. QED BY <1>1, CutFacts DEF Pop

\* SetLast changes the last element only.
LEMMA SetLastFacts ==
    ASSUME NEW S, NEW s \in Seq(S), NEW e \in S, Len(s) > 0
    PROVE  /\ SetLast(s, e) \in Seq(S)
           /\ Len(SetLast(s, e)) = Len(s)
           /\ \A i \in 1 .. Len(s) - 1 : SetLast(s, e)[i] = s[i]
           /\ SetLast(s, e)[Len(s)] = e
  BY DEF SetLast

\* LVGenerator::Resume puts traps on top of those there are.
LEMMA ConcatFacts ==
    ASSUME NEW S, NEW s \in Seq(S), NEW t \in Seq(S)
    PROVE  /\ s \o t \in Seq(S)
           /\ Len(s \o t) = Len(s) + Len(t)
           /\ \A i \in 1 .. Len(s) : (s \o t)[i] = s[i]
           /\ \A i \in 1 .. Len(t) : (s \o t)[Len(s) + i] = t[i]
  OBVIOUS

\* What a state says of a sequence point by point.
LEMMA SeqFacts ==
    ASSUME NEW S, NEW s \in Seq(S)
    PROVE  /\ Len(s) \in Nat
           /\ s = <<>> <=> Len(s) = 0
           /\ \A i \in 1 .. Len(s) : s[i] \in S
  OBVIOUS

----------------------------------------------------------------------------
(* Where activations begin and end.  The provers lose their way in whole   *)
(* records and sequences, so a step is described by what it does to the    *)
(* lengths of the stacks and to the fields that matter.                    *)

\* The part of the invariant that says how activations and frames lie on
\* each other.
WellNested ==
    /\ ActivationsNest
    /\ CallersFit
    /\ ModeFits
    /\ NativesHaveOneFrame
    /\ AbandonedHasOneFrame
    /\ RootsDelimitActivations

Stacks ==
    /\ Len(calls) \in Nat
    /\ Len(cstk) \in Nat
    /\ cstk = <<>> <=> Len(cstk) = 0
    /\ \A a \in 1 .. Len(cstk) : cstk[a].low \in Nat

FramePushed(f) ==
    /\ Len(calls') = Len(calls) + 1
    /\ \A i \in 1 .. Len(calls) : calls'[i] = calls[i]
    /\ calls'[Len(calls) + 1] = f

\* Frames stay, except for the number of traps of the last, by Execute.
FramesKept ==
    /\ Len(calls') = Len(calls)
    /\ \A i \in 1 .. Len(calls) :
          /\ calls'[i].root = calls[i].root
          /\ calls'[i].gen = calls[i].gen
          /\ \/ calls'[i].etraps = calls[i].etraps
             \/ i = Len(calls) /\ act.kind = "exec" /\ act.low < Len(calls)

FrameLeft ==
    /\ Len(calls') = Len(calls) - 1
    /\ \A i \in 1 .. Len(calls) - 1 : calls'[i] = calls[i]

ActPushed(a) ==
    /\ Len(cstk') = Len(cstk) + 1
    /\ \A b \in 1 .. Len(cstk) : cstk'[b] = cstk[b]
    /\ cstk'[Len(cstk) + 1] = a

ActsKept ==
    /\ Len(cstk') = Len(cstk)
    /\ \A a \in 1 .. Len(cstk) :
          /\ cstk'[a].low = cstk[a].low
          /\ cstk'[a].kind = cstk[a].kind
          /\ cstk'[a].via = cstk[a].via

ActLeft ==
    /\ Len(cstk') = Len(cstk) - 1
    /\ \A a \in 1 .. Len(cstk) - 1 : cstk'[a] = cstk[a]

\* An instruction enters a frame in the same activation.
LEMMA PushInPlace ==
    ASSUME Stacks, Stacks', WellNested, NEW f, FramePushed(f), ~ f.root, ActsKept,
           InExec, mode' \in {"run", "raise"}, susp' = susp
    PROVE  WellNested'
<1>. /\ ActivationsNest /\ CallersFit /\ ModeFits /\ NativesHaveOneFrame
     /\ AbandonedHasOneFrame /\ RootsDelimitActivations
  BY DEF WellNested
<1>0. /\ Len(cstk) > 0 /\ mode = "run" /\ act.kind = "exec" /\ act.low \in Nat
      /\ act'.kind = "exec" /\ act'.low = act.low
      /\ Len(calls) > act.low /\ ~ susp.on
  BY DEF ModeFits, Stacks, ActsKept, InExec, act
<1>1. \A a \in 1 .. Len(cstk) : a # Len(cstk) => a + 1 \in 1 .. Len(cstk)
  BY DEF Stacks
<1>2. ActivationsNest'
  <2>1. \A a \in 1 .. Len(cstk) :
          /\ cstk[a].low <= Len(calls) + 1
          /\ a = 1 => cstk[a].low = 0
          /\ a > 1 /\ cstk[a].via # "handler" => cstk[a - 1].low < cstk[a].low
    BY DEF ActivationsNest, Stacks
  <2>. QED BY SMTT(30), <2>1 DEF ActivationsNest, ActsKept, FramePushed, Stacks
<1>3. CallersFit'
  BY DEF CallersFit, Stacks, ActsKept
<1>4. ModeFits'
  BY <1>0 DEF ModeFits, Stacks, ActsKept, FramePushed
<1>5. NativesHaveOneFrame'
  <2>. SUFFICES ASSUME NEW a \in 1 .. Len(cstk), cstk[a].kind = "native"
                PROVE  (/\ High(a) = cstk[a].low + 1
                        /\ calls[High(a)].etraps = 0
                        /\ calls[High(a)].gen = NoGen)'
    BY DEF NativesHaveOneFrame, ActsKept
  <2>1. a # Len(cstk)  BY <1>0 DEF act
  <2>2. /\ cstk[a + 1].low = cstk[a].low + 1
        /\ calls[cstk[a + 1].low].etraps = 0
        /\ calls[cstk[a + 1].low].gen = NoGen
    BY <2>1 DEF NativesHaveOneFrame, High
  <2>3. cstk[a + 1].low \in 1 .. Len(calls)
    BY <1>1, <2>1, <2>2 DEF ActivationsNest, Stacks
  <2>. QED BY <1>1, <2>1, <2>2, <2>3 DEF High, ActsKept, FramePushed
<1>6. AbandonedHasOneFrame'
  BY DEF AbandonedHasOneFrame
<1>7. RootsDelimitActivations'
  <2>1. ASSUME NEW a \in 1 .. Len(cstk), a # Len(cstk),
               NEW i \in cstk[a].low + 1 .. cstk[a + 1].low
        PROVE  calls'[i].root <=> cstk[a].kind = "exec" /\ i = cstk[a].low + 1
    <3>1. a + 1 \in 1 .. Len(cstk)  BY <1>1, <2>1
    <3>2. cstk[a + 1].low <= Len(calls)  BY <3>1 DEF ActivationsNest, Stacks
    <3>3. i \in 1 .. Len(calls)  BY <3>1, <3>2 DEF Stacks
    <3>4. calls[i].root <=> cstk[a].kind = "exec" /\ i = cstk[a].low + 1
      BY <2>1 DEF RootsDelimitActivations, High
    <3>. QED BY <3>3, <3>4 DEF FramePushed
  <2>2. ASSUME NEW i \in act.low + 1 .. Len(calls) + 1
        PROVE  calls'[i].root <=> i = act.low + 1
    <3>1. CASE i = Len(calls) + 1
      BY <1>0, <3>1 DEF FramePushed
    <3>2. CASE i # Len(calls) + 1
      <4>1. i \in 1 .. Len(calls) /\ i \in act.low + 1 .. Len(calls)
        BY <1>0, <3>2 DEF Stacks
      <4>2. calls[i].root <=> i = act.low + 1
        BY <1>0, <4>1 DEF RootsDelimitActivations, High, act, Stacks
      <4>. QED BY <4>1, <4>2 DEF FramePushed
    <3>. QED BY <3>1, <3>2
  <2>3. act.low = cstk[Len(cstk)].low /\ act.kind = cstk[Len(cstk)].kind
    BY DEF act
  <2>. QED BY SMTT(30), <1>0, <1>1, <2>1, <2>2, <2>3
           DEF RootsDelimitActivations, High, ActsKept, FramePushed
<1>. QED BY <1>2, <1>3, <1>4, <1>5, <1>6, <1>7 DEF WellNested

\* The innermost activation goes on with its frames.
LEMMA StayInPlace ==
    ASSUME Stacks, Stacks', WellNested, FramesKept, ActsKept, Len(cstk) > 0,
           ModeFits', mode # "abandon", mode' # "abandon"
    PROVE  WellNested'
<1>. /\ ActivationsNest /\ CallersFit /\ ModeFits /\ NativesHaveOneFrame
     /\ AbandonedHasOneFrame /\ RootsDelimitActivations
  BY DEF WellNested
<1>1. \A a \in 1 .. Len(cstk) : a # Len(cstk) => a + 1 \in 1 .. Len(cstk)
  BY DEF Stacks
<1>2. ActivationsNest'
  BY SMTT(30) DEF ActivationsNest, Stacks, ActsKept, FramesKept
<1>3. CallersFit'
  BY DEF CallersFit, Stacks, ActsKept
<1>4. \A a \in 1 .. Len(cstk) :
        /\ a # Len(cstk) => High(a) = cstk[a + 1].low
        /\ a = Len(cstk) => High(a) = Len(calls)
  BY DEF High
<1>5. \A a \in 1 .. Len(cstk) :
        /\ a # Len(cstk) => High(a)' = cstk[a + 1].low
        /\ a = Len(cstk) => High(a)' = Len(calls)
  BY <1>1 DEF High, ActsKept, FramesKept
<1>6. \A a \in 1 .. Len(cstk) :
        a # Len(cstk) => cstk[a].low <= cstk[a + 1].low /\ cstk[a + 1].low <= Len(calls)
  BY <1>1 DEF ActivationsNest, Stacks
<1>7. NativesHaveOneFrame'
  <2>. SUFFICES ASSUME NEW a \in 1 .. Len(cstk), cstk[a].kind = "native"
                PROVE  (/\ High(a) = cstk[a].low + 1
                        /\ calls[High(a)].etraps = 0
                        /\ calls[High(a)].gen = NoGen)'
    BY DEF NativesHaveOneFrame, ActsKept
  <2>1. CASE a # Len(cstk)
    <3>1. cstk[a + 1].low = cstk[a].low + 1
          /\ calls[cstk[a + 1].low].etraps = 0 /\ calls[cstk[a + 1].low].gen = NoGen
      BY <2>1 DEF NativesHaveOneFrame, High
    <3>2. cstk[a + 1].low \in 1 .. Len(calls)
      BY <1>1, <1>6, <2>1, <3>1 DEF Stacks
    <3>3. cstk[a + 1].low \in Nat /\ act.low \in Nat /\ cstk[a + 1].low <= act.low
      BY <1>1, <2>1 DEF ActivationsNest, act, Stacks
    <3>4. calls'[cstk[a + 1].low].etraps = calls[cstk[a + 1].low].etraps
      BY <3>2, <3>3 DEF FramesKept, Stacks
    <3>. QED BY <1>5, <2>1, <3>1, <3>2, <3>4 DEF ActsKept, FramesKept
  <2>2. CASE a = Len(cstk)
    <3>1. Len(calls) = cstk[a].low + 1
          /\ calls[Len(calls)].etraps = 0 /\ calls[Len(calls)].gen = NoGen
      BY <2>2 DEF NativesHaveOneFrame, High
    <3>2. act.kind # "exec"  BY <2>2 DEF act
    <3>3. Len(calls) \in 1 .. Len(calls)  BY <2>2, <3>1 DEF Stacks
    <3>. QED BY <1>5, <2>2, <3>1, <3>2, <3>3 DEF ActsKept, FramesKept
  <2>. QED BY <2>1, <2>2
<1>8. AbandonedHasOneFrame'
  BY DEF AbandonedHasOneFrame
<1>9. RootsDelimitActivations'
  <2>. SUFFICES ASSUME NEW a \in 1 .. Len(cstk), NEW i \in cstk[a].low + 1 .. High(a)'
                PROVE  calls'[i].root <=> cstk[a].kind = "exec" /\ i = cstk[a].low + 1
    BY DEF RootsDelimitActivations, ActsKept
  <2>1. High(a) = High(a)'  BY <1>4, <1>5
  <2>2. High(a) \in Nat /\ High(a) <= Len(calls)
    BY <1>1, <1>4, <1>6 DEF Stacks
  <2>3. i \in cstk[a].low + 1 .. High(a) /\ i \in 1 .. Len(calls)
    BY <2>1, <2>2 DEF Stacks
  <2>4. calls[i].root <=> cstk[a].kind = "exec" /\ i = cstk[a].low + 1
    BY <2>3 DEF RootsDelimitActivations
  <2>. QED BY <2>3, <2>4 DEF FramesKept
<1>. QED BY <1>2, <1>3, <1>7, <1>8, <1>9 DEF WellNested

\* Execute leaves a frame that is not its root and goes on below it.
LEMMA LeaveInPlace ==
    ASSUME Stacks, Stacks', WellNested, FrameLeft, ActsKept, Len(cstk) > 0,
           act.kind = "exec", mode \in {"run", "unwind"}, mode' = mode, susp' = susp,
           Len(calls) > act.low, ~ ci.root
    PROVE  WellNested'
<1>. /\ ActivationsNest /\ CallersFit /\ ModeFits /\ NativesHaveOneFrame
     /\ AbandonedHasOneFrame /\ RootsDelimitActivations
  BY DEF WellNested
<1>0. /\ act.low \in Nat /\ act'.kind = "exec" /\ act'.low = act.low /\ ~ susp.on
      /\ act.low = cstk[Len(cstk)].low /\ act.kind = cstk[Len(cstk)].kind
  BY DEF ModeFits, Stacks, ActsKept, act
<1>1. \A a \in 1 .. Len(cstk) : a # Len(cstk) => a + 1 \in 1 .. Len(cstk)
  BY DEF Stacks
<1>2. Len(calls) # act.low + 1
  <2>1. Len(calls) \in act.low + 1 .. Len(calls)
    BY <1>0 DEF Stacks
  <2>2. High(Len(cstk)) = Len(calls) /\ Len(cstk) \in 1 .. Len(cstk)
    BY DEF High, Stacks
  <2>. QED BY <1>0, <2>1, <2>2 DEF RootsDelimitActivations, ci
<1>3. \A a \in 1 .. Len(cstk) : cstk[a].low <= act.low
  BY <1>0 DEF ActivationsNest, Stacks
<1>4. act.low + 1 <= Len(calls) - 1
  BY <1>0, <1>2 DEF Stacks
<1>5. ActivationsNest'
  <2>1. \A a \in 1 .. Len(cstk) :
          /\ cstk[a].low <= Len(calls) - 1
          /\ a = 1 => cstk[a].low = 0
          /\ a > 1 /\ cstk[a].via # "handler" => cstk[a - 1].low < cstk[a].low
    BY <1>0, <1>3, <1>4 DEF ActivationsNest, Stacks
  <2>. QED BY SMTT(30), <2>1 DEF ActivationsNest, ActsKept, FrameLeft, Stacks
<1>6. CallersFit'
  BY DEF CallersFit, Stacks, ActsKept
<1>7. ModeFits'
  BY <1>0, <1>4 DEF ModeFits, Stacks, ActsKept, FrameLeft
<1>8. NativesHaveOneFrame'
  <2>. SUFFICES ASSUME NEW a \in 1 .. Len(cstk), cstk[a].kind = "native"
                PROVE  (/\ High(a) = cstk[a].low + 1
                        /\ calls[High(a)].etraps = 0
                        /\ calls[High(a)].gen = NoGen)'
    BY DEF NativesHaveOneFrame, ActsKept
  <2>1. a # Len(cstk)  BY <1>0
  <2>2. /\ cstk[a + 1].low = cstk[a].low + 1
        /\ calls[cstk[a + 1].low].etraps = 0
        /\ calls[cstk[a + 1].low].gen = NoGen
    BY <2>1 DEF NativesHaveOneFrame, High
  <2>3. cstk[a + 1].low \in 1 .. Len(calls) - 1
    BY SMTT(30), <1>0, <1>1, <1>3, <1>4, <2>1, <2>2 DEF Stacks
  <2>. QED BY <1>1, <2>1, <2>2, <2>3 DEF High, ActsKept, FrameLeft
<1>9. AbandonedHasOneFrame'
  BY DEF AbandonedHasOneFrame
<1>10. RootsDelimitActivations'
  <2>1. ASSUME NEW a \in 1 .. Len(cstk), a # Len(cstk),
               NEW i \in cstk[a].low + 1 .. cstk[a + 1].low
        PROVE  calls'[i].root <=> cstk[a].kind = "exec" /\ i = cstk[a].low + 1
    <3>1. a + 1 \in 1 .. Len(cstk)  BY <1>1, <2>1
    <3>2. i \in 1 .. Len(calls) - 1  BY SMTT(30), <1>0, <1>3, <1>4, <3>1 DEF Stacks
    <3>3. calls[i].root <=> cstk[a].kind = "exec" /\ i = cstk[a].low + 1
      BY <2>1 DEF RootsDelimitActivations, High
    <3>. QED BY <3>2, <3>3 DEF FrameLeft
  <2>2. ASSUME NEW i \in act.low + 1 .. Len(calls) - 1
        PROVE  calls'[i].root <=> i = act.low + 1
    <3>1. i \in 1 .. Len(calls) - 1 /\ i \in act.low + 1 .. Len(calls)
      BY <1>0 DEF Stacks
    <3>2. calls[i].root <=> i = act.low + 1
      BY <1>0, <3>1 DEF RootsDelimitActivations, High, Stacks
    <3>. QED BY <3>1, <3>2 DEF FrameLeft
  <2>. QED BY SMTT(30), <1>0, <1>1, <2>1, <2>2
           DEF RootsDelimitActivations, High, ActsKept, FrameLeft
<1>. QED BY <1>5, <1>6, <1>7, <1>8, <1>9, <1>10 DEF WellNested

\* An activation returns with its last frame, if it had one.
LEMMA ReturnToCaller ==
    ASSUME Stacks, Stacks', WellNested, ActLeft, Len(cstk) > 0, susp' = susp,
           NEW ok, mode' = Continues(act, ok), Len(calls') = act.low,
           \A i \in 1 .. act.low : calls'[i] = calls[i]
    PROVE  WellNested'
<1>. /\ ActivationsNest /\ CallersFit /\ ModeFits /\ NativesHaveOneFrame
     /\ AbandonedHasOneFrame /\ RootsDelimitActivations
  BY DEF WellNested
<1>. DEFINE n == Len(cstk) - 1
<1>0. /\ act.low \in Nat /\ act.low <= Len(calls) /\ ~ susp.on
      /\ act.low = cstk[n + 1].low
      /\ n \in Nat /\ n + 1 = Len(cstk) /\ n + 1 \in 1 .. Len(cstk)
  BY DEF ModeFits, ActivationsNest, Stacks, act
<1>1. /\ Len(cstk') = n
      /\ \A a \in 1 .. n : cstk'[a] = cstk[a] /\ a \in 1 .. Len(cstk) /\ a + 1 \in 1 .. Len(cstk)
  BY <1>0 DEF ActLeft, Stacks
<1>2. /\ n = 0 => mode' = "run" /\ act.low = 0
      /\ n > 0 => \/ mode' = "unwind" /\ cstk[n].kind = "exec"
                  \/ mode' = "raise" /\ cstk[n].kind = "exec" /\ cstk[n].low < act.low
                  \/ mode' = "run" /\ cstk[n].low < act.low
  <2>1. /\ n = 0 => act.via # "handler" /\ act.low = 0
        /\ n > 0 => \/ act.via = "handler" /\ cstk[n].kind = "exec"
                    \/ act.via # "handler" /\ cstk[n].low < act.low
    BY <1>0 DEF CallersFit, ActivationsNest, act
  <2>. QED BY <1>0, <2>1 DEF Continues
<1>. HIDE DEF n
<1>3. \A a \in 1 .. n :
        /\ a # n => High(a)' = cstk[a + 1].low
        /\ a = n => High(a)' = act.low
  BY <1>0, <1>1 DEF High
<1>4. \A a \in 1 .. n : High(a) = cstk[a + 1].low
  BY <1>0 DEF High
<1>5. \A a \in 1 .. n : High(a)' = High(a)
  BY <1>0, <1>3, <1>4
<1>6. \A a \in 1 .. n : cstk[a + 1].low \in Nat /\ cstk[a + 1].low <= act.low
  BY <1>0, <1>1 DEF ActivationsNest, Stacks
<1>7. ActivationsNest'
  <2>1. \A a \in 1 .. n :
          /\ cstk[a].low <= act.low
          /\ a = 1 => cstk[a].low = 0
          /\ a > 1 /\ cstk[a].via # "handler" => cstk[a - 1].low < cstk[a].low
    BY <1>0, <1>1 DEF ActivationsNest
  <2>2. \A a, b \in 1 .. n : a <= b => cstk[a].low <= cstk[b].low
    BY <1>0, <1>1 DEF ActivationsNest
  <2>. QED BY <1>0, <1>1, <2>1, <2>2 DEF ActivationsNest
<1>8. CallersFit'
  BY <1>0, <1>1 DEF CallersFit
<1>9. ModeFits'
  <2>1. n > 0 => act' = cstk[n]  BY <1>0, <1>1 DEF act
  <2>2. n > 0 => cstk[n].low \in Nat  BY <1>0 DEF Stacks
  <2>. QED BY <1>0, <1>1, <1>2, <2>1, <2>2 DEF ModeFits
<1>10. NativesHaveOneFrame'
  <2>. SUFFICES ASSUME NEW a \in 1 .. n, cstk[a].kind = "native"
                PROVE  (/\ High(a) = cstk[a].low + 1
                        /\ calls[High(a)].etraps = 0
                        /\ calls[High(a)].gen = NoGen)'
    BY <1>1 DEF NativesHaveOneFrame
  <2>1. /\ cstk[a + 1].low = cstk[a].low + 1
        /\ calls[cstk[a + 1].low].etraps = 0
        /\ calls[cstk[a + 1].low].gen = NoGen
    BY <1>1, <1>4 DEF NativesHaveOneFrame
  <2>2. cstk[a + 1].low \in 1 .. act.low
    BY <1>0, <1>1, <1>6, <2>1 DEF Stacks
  <2>. QED BY <1>1, <1>4, <1>5, <2>1, <2>2
<1>11. AbandonedHasOneFrame'
  BY <1>2, <1>0, <1>1 DEF AbandonedHasOneFrame, Stacks
<1>12. RootsDelimitActivations'
  <2>. SUFFICES ASSUME NEW a \in 1 .. n, NEW i \in cstk[a].low + 1 .. cstk[a + 1].low
                PROVE  calls'[i].root <=> cstk[a].kind = "exec" /\ i = cstk[a].low + 1
    BY <1>0, <1>1, <1>2, <1>4, <1>5 DEF RootsDelimitActivations
  <2>1. calls[i].root <=> cstk[a].kind = "exec" /\ i = cstk[a].low + 1
    BY <1>0, <1>1, <1>4 DEF RootsDelimitActivations
  <2>2. i \in 1 .. act.low
    BY <1>0, <1>1, <1>6 DEF Stacks
  <2>. QED BY <2>1, <2>2
<1>. QED BY <1>7, <1>8, <1>9, <1>10, <1>11, <1>12 DEF WellNested

\* A call that EnterFrame refused leaves its frame to the caller.
LEMMA ReturnAbandoning ==
    ASSUME Stacks, Stacks', WellNested, ActLeft, Len(cstk) > 0, susp' = susp,
           mode = "abandon", mode' = Continues(act, FALSE), calls' = calls
    PROVE  WellNested'
<1>. /\ ActivationsNest /\ CallersFit /\ ModeFits /\ NativesHaveOneFrame
     /\ AbandonedHasOneFrame /\ RootsDelimitActivations
  BY DEF WellNested
<1>. DEFINE n == Len(cstk) - 1
<1>0. /\ act.low \in Nat /\ act.low + 1 = Len(calls) /\ ~ susp.on
      /\ act.low = cstk[n + 1].low
      /\ n \in Nat /\ n > 0 /\ n + 1 = Len(cstk) /\ n + 1 \in 1 .. Len(cstk)
      /\ cstk[n].kind = "exec" /\ cstk[n].low < act.low /\ cstk[n].low \in Nat
  BY DEF ModeFits, ActivationsNest, AbandonedHasOneFrame, Stacks, act
<1>1. /\ Len(cstk') = n
      /\ \A a \in 1 .. n : cstk'[a] = cstk[a] /\ a \in 1 .. Len(cstk) /\ a + 1 \in 1 .. Len(cstk)
  BY <1>0 DEF ActLeft, Stacks
<1>2. mode' \in {"raise", "unwind"}
  BY <1>0 DEF Continues
<1>. HIDE DEF n
<1>3. \A a \in 1 .. n :
        /\ a # n => High(a)' = cstk[a + 1].low
        /\ a = n => High(a)' = act.low + 1
  BY <1>0, <1>1 DEF High
<1>4. \A a \in 1 .. n : High(a) = cstk[a + 1].low
  BY <1>0 DEF High
<1>5. \A a \in 1 .. n : cstk[a + 1].low \in Nat /\ cstk[a + 1].low <= act.low
  BY <1>0, <1>1 DEF ActivationsNest, Stacks
<1>6. ActivationsNest'
  <2>1. \A a \in 1 .. n :
          /\ cstk[a].low <= Len(calls)
          /\ a = 1 => cstk[a].low = 0
          /\ a > 1 /\ cstk[a].via # "handler" => cstk[a - 1].low < cstk[a].low
    BY <1>0, <1>1 DEF ActivationsNest
  <2>2. \A a, b \in 1 .. n : a <= b => cstk[a].low <= cstk[b].low
    BY <1>0, <1>1 DEF ActivationsNest
  <2>. QED BY <1>0, <1>1, <2>1, <2>2 DEF ActivationsNest
<1>7. CallersFit'
  BY <1>0, <1>1 DEF CallersFit
<1>8. ModeFits'
  <2>1. act' = cstk[n]  BY <1>0, <1>1 DEF act
  <2>2. mode' # "run" /\ mode' # "suspend" /\ mode' # "abandon"  BY <1>2
  <2>3. Len(cstk') # 0 /\ ~ susp'.on /\ act'.kind = "exec"  BY <1>0, <1>1, <2>1
  <2>. QED BY <2>2, <2>3 DEF ModeFits
<1>9. NativesHaveOneFrame'
  <2>. SUFFICES ASSUME NEW a \in 1 .. n, cstk[a].kind = "native"
                PROVE  (/\ High(a) = cstk[a].low + 1
                        /\ calls[High(a)].etraps = 0
                        /\ calls[High(a)].gen = NoGen)'
    BY <1>1 DEF NativesHaveOneFrame
  <2>1. /\ cstk[a + 1].low = cstk[a].low + 1
        /\ calls[cstk[a + 1].low].etraps = 0
        /\ calls[cstk[a + 1].low].gen = NoGen
    BY <1>1, <1>4 DEF NativesHaveOneFrame
  <2>2. a # n  BY <1>0
  <2>. QED BY <1>1, <1>3, <2>1, <2>2
<1>10. AbandonedHasOneFrame'
  BY <1>2 DEF AbandonedHasOneFrame
<1>11. RootsDelimitActivations'
  <2>1. ASSUME NEW a \in 1 .. n, NEW i \in cstk[a].low + 1 .. cstk[a + 1].low
        PROVE  calls[i].root <=> cstk[a].kind = "exec" /\ i = cstk[a].low + 1
    BY <1>0, <1>1, <1>4 DEF RootsDelimitActivations
  <2>2. ~ calls[act.low + 1].root
    <3>1. High(n + 1) = act.low + 1  BY <1>0 DEF High
    <3>. QED BY <1>0, <3>1 DEF RootsDelimitActivations
  <2>3. ASSUME NEW i \in cstk[n].low + 1 .. act.low + 1
        PROVE  calls[i].root <=> i = cstk[n].low + 1
    <3>1. CASE i = act.low + 1  BY <1>0, <2>2, <3>1
    <3>2. CASE i # act.low + 1  BY <1>0, <2>1, <3>2
    <3>. QED BY <3>1, <3>2
  <2>4. mode' # "abandon"  BY <1>2
  <2>5. ASSUME NEW a \in 1 .. n, NEW i \in cstk[a].low + 1 .. High(a)'
        PROVE  calls[i].root <=> cstk[a].kind = "exec" /\ i = cstk[a].low + 1
    <3>1. CASE a = n  BY <1>0, <1>3, <2>3, <3>1
    <3>2. CASE a # n  BY <1>3, <2>1, <3>2
    <3>. QED BY <3>1, <3>2
  <2>. SUFFICES ASSUME NEW a \in 1 .. n, NEW i \in cstk[a].low + 1 .. High(a)'
                PROVE  calls[i].root <=> cstk[a].kind = "exec" /\ i = cstk[a].low + 1
    BY ZenonT(30), <1>1, <2>4 DEF RootsDelimitActivations
  <2>. QED BY <2>5
<1>. QED BY <1>6, <1>7, <1>8, <1>9, <1>10, <1>11 DEF WellNested

\* What a new activation may be, whatever becomes of its call.
MayOpen(a) ==
    /\ a.low = Len(calls)
    /\ ~ susp.on
    /\ mode \in {"run", "raise"}
    /\ a.via # "wakeup"
    /\ a.via # "handler" => Len(cstk) = 0 \/ mode = "run"
    /\ a.via \in {"op", "meta", "handler"} => Len(cstk) > 0
    /\ a.via \in {"op", "handler"} => act.kind = "exec"
    /\ a.via \in {"api", "resume"} => Len(cstk) = 0 \/ act.kind = "native"

\* The activations below a new one stay as they are, and it fits on them.
LEMMA OpenFacts ==
    ASSUME Stacks, WellNested, NEW a, ActPushed(a), MayOpen(a), Stacks',
           Len(calls') >= Len(calls)
    PROVE  /\ ActivationsNest'
           /\ CallersFit'
           /\ Len(cstk) = 0 => Len(calls) = 0
           /\ \A b \in 1 .. Len(cstk) :
                /\ cstk'[b] = cstk[b]
                /\ High(b)' = High(b)
                /\ High(b) \in Nat
                /\ High(b) <= Len(calls)
           /\ \A b : b = Len(cstk) + 1 => High(b)' = Len(calls')
           /\ act' = a
<1>. /\ ActivationsNest /\ CallersFit /\ ModeFits /\ NativesHaveOneFrame
     /\ AbandonedHasOneFrame /\ RootsDelimitActivations
  BY DEF WellNested
<1>1. Len(cstk) = 0 => Len(calls) = 0
  BY DEF ModeFits, MayOpen, Stacks
<1>2. Len(cstk) > 0 /\ a.via # "handler" => act.low < Len(calls)
  BY DEF ModeFits, MayOpen, Stacks
<1>3. a.low = Len(calls)  BY DEF MayOpen
<1>4. act = cstk[Len(cstk)]  BY DEF act
<1>5. ActivationsNest'
  <2>1. ASSUME NEW b \in 1 .. Len(cstk) + 1
        PROVE  /\ cstk'[b].low <= Len(calls')
               /\ b = 1 => cstk'[b].low = 0
               /\ b > 1 /\ cstk'[b].via # "handler" => cstk'[b - 1].low < cstk'[b].low
    <3>1. CASE b = Len(cstk) + 1
      BY <1>1, <1>2, <1>3, <1>4, <3>1 DEF ActPushed, Stacks
    <3>2. CASE b # Len(cstk) + 1
      <4>1. b \in 1 .. Len(cstk)  BY <3>2 DEF Stacks
      <4>. QED BY SMTT(30), <4>1 DEF ActivationsNest, ActPushed, Stacks
    <3>. QED BY <3>1, <3>2
  <2>2. ASSUME NEW b \in 1 .. Len(cstk) + 1, NEW c \in 1 .. Len(cstk) + 1, b <= c
        PROVE  cstk'[b].low <= cstk'[c].low
    <3>1. CASE c = Len(cstk) + 1
      BY <1>3, <3>1 DEF ActivationsNest, ActPushed, Stacks
    <3>2. CASE c # Len(cstk) + 1
      <4>1. Len(cstk) \in Nat  BY DEF Stacks
      <4>2. b \in 1 .. Len(cstk) /\ c \in 1 .. Len(cstk)  BY <2>2, <3>2, <4>1
      <4>. QED BY <2>2, <4>2 DEF ActivationsNest, ActPushed
    <3>. QED BY <3>1, <3>2
  <2>. QED BY <2>1, <2>2 DEF ActivationsNest, ActPushed
<1>6. CallersFit'
  <2>1. ASSUME NEW b \in 1 .. Len(cstk) + 1
        PROVE  /\ cstk'[b].via \in {"op", "meta", "handler"} => b > 1
               /\ cstk'[b].via \in {"op", "handler"} => cstk'[b - 1].kind = "exec"
               /\ cstk'[b].via \in {"api", "resume"} /\ b > 1 => cstk'[b - 1].kind = "native"
               /\ cstk'[b].via = "wakeup" => b = 1
    <3>1. CASE b = Len(cstk) + 1
      BY <1>4, <3>1 DEF ActPushed, MayOpen, Stacks
    <3>2. CASE b # Len(cstk) + 1
      <4>1. b \in 1 .. Len(cstk)  BY <3>2 DEF Stacks
      <4>. QED BY <4>1 DEF CallersFit, ActPushed, Stacks
    <3>. QED BY <3>1, <3>2
  <2>. QED BY <2>1 DEF CallersFit, ActPushed
<1>7. ASSUME NEW b \in 1 .. Len(cstk)
      PROVE  /\ High(b)' = High(b)
             /\ High(b) \in Nat
             /\ High(b) <= Len(calls)
  <2>1. CASE b = Len(cstk)
    BY <1>3, <2>1 DEF High, ActPushed, Stacks
  <2>2. CASE b # Len(cstk)
    <3>1. b + 1 \in 1 .. Len(cstk)  BY <2>2 DEF Stacks
    <3>. QED BY <2>2, <3>1 DEF High, ActPushed, Stacks, ActivationsNest
  <2>. QED BY <2>1, <2>2
<1>8. \A b : b = Len(cstk) + 1 => High(b)' = Len(calls')
  BY DEF High, ActPushed
<1>9. act' = a
  BY DEF act, ActPushed
<1>. QED BY <1>1, <1>5, <1>6, <1>7, <1>8, <1>9 DEF ActPushed

\* A new activation with its first frame.
LEMMA OpenWithFrame ==
    ASSUME Stacks, Stacks', WellNested, NEW a, ActPushed(a), MayOpen(a),
           NEW f, FramePushed(f), susp' = susp, a.kind \in {"exec", "native"},
           mode' \in {"run", "abandon"},
           f.root <=> a.kind = "exec" /\ mode' = "run",
           a.kind = "native" \/ mode' = "abandon" => f.etraps = 0 /\ f.gen = NoGen,
           mode' = "abandon" => Len(cstk) > 0 /\ act.kind = "exec" /\ act.low < Len(calls)
    PROVE  WellNested'
<1>. /\ ActivationsNest /\ CallersFit /\ ModeFits /\ NativesHaveOneFrame
     /\ AbandonedHasOneFrame /\ RootsDelimitActivations
  BY DEF WellNested
<1>0. /\ Len(calls) \in Nat /\ Len(cstk) \in Nat /\ a.low = Len(calls)
      /\ Len(calls') = Len(calls) + 1 /\ Len(cstk') = Len(cstk) + 1
      /\ ~ susp'.on /\ calls'[Len(calls) + 1] = f /\ cstk'[Len(cstk) + 1] = a
  BY DEF Stacks, MayOpen, FramePushed, ActPushed
<1>1. /\ ActivationsNest'
      /\ CallersFit'
      /\ \A b \in 1 .. Len(cstk) :
           /\ cstk'[b] = cstk[b]
           /\ High(b)' = High(b)
           /\ High(b) \in Nat
           /\ High(b) <= Len(calls)
      /\ \A b : b = Len(cstk) + 1 => High(b)' = Len(calls')
      /\ act' = a
  BY <1>0, OpenFacts
<1>2. ModeFits'
  <2>1. Len(cstk') # 0 /\ mode' # "suspend" /\ mode' # "raise" /\ mode' # "unwind"
    BY <1>0
  <2>2. Len(calls') > act'.low  BY <1>0, <1>1
  <2>3. mode' = "abandon" =>
          /\ Len(cstk') > 1
          /\ cstk'[Len(cstk') - 1].kind = "exec"
          /\ cstk'[Len(cstk') - 1].low < act'.low
    <3>1. Len(cstk) > 0 => cstk'[Len(cstk)] = act
      BY <1>0, <1>1 DEF act
    <3>. QED BY <1>0, <1>1, <3>1
  <2>. QED BY <1>0, <2>1, <2>2, <2>3 DEF ModeFits
<1>3. NativesHaveOneFrame'
  <2>. SUFFICES ASSUME NEW b \in 1 .. Len(cstk) + 1, cstk'[b].kind = "native"
                PROVE  (/\ High(b) = cstk[b].low + 1
                        /\ calls[High(b)].etraps = 0
                        /\ calls[High(b)].gen = NoGen)'
    BY <1>0 DEF NativesHaveOneFrame
  <2>1. CASE b = Len(cstk) + 1
    BY <1>0, <1>1, <2>1
  <2>2. CASE b # Len(cstk) + 1
    <3>1. b \in 1 .. Len(cstk)  BY <1>0, <2>2
    <3>2. /\ High(b) = cstk[b].low + 1
          /\ calls[High(b)].etraps = 0
          /\ calls[High(b)].gen = NoGen
      BY <1>1, <3>1 DEF NativesHaveOneFrame
    <3>3. High(b) \in 1 .. Len(calls)
      BY <1>0, <1>1, <3>1, <3>2 DEF Stacks
    <3>. QED BY <1>1, <3>1, <3>2, <3>3 DEF FramePushed
  <2>. QED BY <2>1, <2>2
<1>4. AbandonedHasOneFrame'
  <2>1. ci' = f  BY <1>0 DEF ci
  <2>. QED BY <1>0, <1>1, <2>1 DEF AbandonedHasOneFrame
<1>5. RootsDelimitActivations'
  <2>. SUFFICES ASSUME NEW b \in 1 .. Len(cstk) + 1, NEW i \in cstk'[b].low + 1 .. High(b)'
                PROVE  calls'[i].root <=>
                         /\ cstk'[b].kind = "exec"
                         /\ i = cstk'[b].low + 1
                         /\ ~ (b = Len(cstk) + 1 /\ mode' = "abandon")
    BY <1>0 DEF RootsDelimitActivations
  <2>1. CASE b = Len(cstk) + 1
    <3>1. i = Len(calls) + 1  BY <1>0, <1>1, <2>1
    <3>. QED BY <1>0, <2>1, <3>1
  <2>2. CASE b # Len(cstk) + 1
    <3>1. b \in 1 .. Len(cstk)  BY <1>0, <2>2
    <3>2. i \in cstk[b].low + 1 .. High(b) /\ i \in 1 .. Len(calls)
      BY <1>0, <1>1, <3>1 DEF Stacks
    <3>3. ~ (mode = "abandon")  BY DEF MayOpen
    <3>4. calls[i].root <=> cstk[b].kind = "exec" /\ i = cstk[b].low + 1
      BY <3>1, <3>2, <3>3 DEF RootsDelimitActivations
    <3>. QED BY <1>1, <2>2, <3>1, <3>2, <3>4 DEF FramePushed
  <2>. QED BY <2>1, <2>2
<1>. QED BY <1>1, <1>2, <1>3, <1>4, <1>5 DEF WellNested

\* A new activation whose call cannot start.
LEMMA OpenWithoutFrame ==
    ASSUME Stacks, Stacks', WellNested, NEW a, ActPushed(a), MayOpen(a),
           calls' = calls, susp' = susp, a.kind = "exec", mode' = "raise"
    PROVE  WellNested'
<1>. /\ ActivationsNest /\ CallersFit /\ ModeFits /\ NativesHaveOneFrame
     /\ AbandonedHasOneFrame /\ RootsDelimitActivations
  BY DEF WellNested
<1>0. /\ Len(calls) \in Nat /\ Len(cstk) \in Nat /\ a.low = Len(calls)
      /\ Len(calls') = Len(calls) /\ Len(cstk') = Len(cstk) + 1
      /\ ~ susp'.on /\ cstk'[Len(cstk) + 1] = a
  BY DEF Stacks, MayOpen, ActPushed
<1>1. /\ ActivationsNest'
      /\ CallersFit'
      /\ \A b \in 1 .. Len(cstk) : cstk'[b] = cstk[b] /\ High(b)' = High(b)
      /\ \A b : b = Len(cstk) + 1 => High(b)' = Len(calls')
      /\ act' = a
  BY <1>0, OpenFacts
<1>2. ModeFits'
  <2>1. Len(cstk') # 0  BY <1>0
  <2>. QED BY <1>0, <1>1, <2>1 DEF ModeFits
<1>3. NativesHaveOneFrame'
  <2>. SUFFICES ASSUME NEW b \in 1 .. Len(cstk) + 1, cstk'[b].kind = "native"
                PROVE  (/\ High(b) = cstk[b].low + 1
                        /\ calls[High(b)].etraps = 0
                        /\ calls[High(b)].gen = NoGen)'
    BY <1>0 DEF NativesHaveOneFrame
  <2>1. b # Len(cstk) + 1  BY <1>0
  <2>2. b \in 1 .. Len(cstk)  BY <1>0, <2>1
  <2>. QED BY <1>1, <2>2 DEF NativesHaveOneFrame
<1>4. AbandonedHasOneFrame'
  BY DEF AbandonedHasOneFrame
<1>5. RootsDelimitActivations'
  <2>. SUFFICES ASSUME NEW b \in 1 .. Len(cstk) + 1, NEW i \in cstk'[b].low + 1 .. High(b)'
                PROVE  calls[i].root <=> cstk'[b].kind = "exec" /\ i = cstk'[b].low + 1
    BY <1>0 DEF RootsDelimitActivations
  <2>1. b # Len(cstk) + 1  BY <1>0, <1>1
  <2>2. b \in 1 .. Len(cstk)  BY <1>0, <2>1
  <2>3. mode # "abandon"  BY DEF MayOpen
  <2>. QED BY <1>1, <2>2, <2>3 DEF RootsDelimitActivations
<1>. QED BY <1>1, <1>2, <1>3, <1>4, <1>5 DEF WellNested

----------------------------------------------------------------------------
(* The same for the number of traps and for the root flags that are saved. *)

\* The part of TrapsMatchFrames that counts.
TrapCounts ==
    /\ Len(etraps) = TrapsUpTo(Len(calls))
    /\ \A i \in 1 .. Len(calls) : calls[i].tlow = TrapsUpTo(i - 1)

\* What a step needs of the types of the fields that are counted.
Counted ==
    /\ Len(calls) \in Nat
    /\ Len(etraps) \in Nat
    /\ \A i \in 1 .. Len(calls) : calls[i].tlow \in Nat /\ calls[i].etraps \in Nat

\* Entering a frame keeps each frame's _etraps between its traps and the next.
LEMMA CountsOnPush ==
    ASSUME Counted, TrapCounts, NEW f, FramePushed(f),
           f.tlow = Len(etraps), f.etraps \in Nat, Len(etraps') = Len(etraps) + f.etraps
    PROVE  TrapCounts'
<1>1. Len(calls) \in Nat /\ Len(calls') = Len(calls) + 1 /\ Len(calls) + 1 # 0
  BY DEF Counted, FramePushed
<1>2. \A n \in 0 .. Len(calls) : TrapsUpTo(n)' = TrapsUpTo(n)
  BY <1>1 DEF TrapsUpTo, FramePushed
<1>3. \A n : n = Len(calls) + 1 => TrapsUpTo(n)' = Len(etraps')
  BY <1>1 DEF TrapsUpTo, FramePushed
<1>4. \A i \in 1 .. Len(calls) + 1 : calls'[i].tlow = TrapsUpTo(i - 1)'
  <2>. SUFFICES ASSUME NEW i \in 1 .. Len(calls) + 1
                PROVE  calls'[i].tlow = TrapsUpTo(i - 1)'
    OBVIOUS
  <2>1. i - 1 \in 0 .. Len(calls)  BY <1>1
  <2>2. TrapsUpTo(i - 1)' = TrapsUpTo(i - 1)  BY <1>2, <2>1
  <2>3. CASE i = Len(calls) + 1
    BY <1>1, <2>2, <2>3 DEF FramePushed, TrapCounts
  <2>4. CASE i # Len(calls) + 1
    <3>1. i \in 1 .. Len(calls)  BY <1>1, <2>4
    <3>. QED BY <2>2, <3>1 DEF FramePushed, TrapCounts
  <2>. QED BY <2>3, <2>4
<1>. QED BY <1>1, <1>3, <1>4 DEF TrapCounts

\* Leaving a frame that has no trap left keeps the count of the frames below.
LEMMA CountsOnLeave ==
    ASSUME Counted, TrapCounts, FrameLeft, Len(calls) > 0,
           Len(etraps') = Len(etraps) - ci.etraps
    PROVE  TrapCounts'
<1>1. Len(calls) \in Nat /\ Len(calls') = Len(calls) - 1
  BY DEF Counted, FrameLeft
<1>2. \A n \in 0 .. Len(calls) - 1 : TrapsUpTo(n)' = TrapsUpTo(n)
  BY <1>1 DEF TrapsUpTo, FrameLeft
<1>3. \A n : n = Len(calls) - 1 => TrapsUpTo(n)' = Len(etraps')
  <2>1. Len(etraps) = ci.tlow + ci.etraps /\ ci.tlow = TrapsUpTo(Len(calls) - 1)
    BY <1>1 DEF TrapCounts, TrapsUpTo, ci
  <2>2. ci.tlow \in Nat /\ ci.etraps \in Nat  BY <1>1 DEF Counted, ci
  <2>. QED BY <1>1, <1>2, <2>1, <2>2
<1>4. \A i \in 1 .. Len(calls) - 1 : calls'[i].tlow = TrapsUpTo(i - 1)'
  <2>. SUFFICES ASSUME NEW i \in 1 .. Len(calls) - 1
                PROVE  calls'[i].tlow = TrapsUpTo(i - 1)'
    OBVIOUS
  <2>1. i - 1 \in 0 .. Len(calls) - 1 /\ i \in 1 .. Len(calls)  BY <1>1
  <2>. QED BY <1>2, <2>1 DEF FrameLeft, TrapCounts
<1>. QED BY <1>1, <1>3, <1>4 DEF TrapCounts

\* The last frame gets or gives back d traps.
LEMMA CountsInPlace ==
    ASSUME Counted, TrapCounts, Len(calls) > 0, NEW d \in Int,
           Len(calls') = Len(calls),
           \A i \in 1 .. Len(calls) - 1 : calls'[i] = calls[i],
           calls'[Len(calls)].tlow = ci.tlow,
           calls'[Len(calls)].etraps = ci.etraps + d,
           Len(etraps') = Len(etraps) + d
    PROVE  TrapCounts'
<1>1. Len(calls) \in Nat
  BY DEF Counted
<1>2. \A n \in 0 .. Len(calls) - 1 : TrapsUpTo(n)' = TrapsUpTo(n)
  BY <1>1 DEF TrapsUpTo
<1>3. \A n : n = Len(calls) => TrapsUpTo(n)' = Len(etraps')
  <2>1. Len(etraps) = ci.tlow + ci.etraps
    BY <1>1 DEF TrapCounts, TrapsUpTo, ci
  <2>2. ci.tlow \in Nat /\ ci.etraps \in Nat  BY <1>1 DEF Counted, ci
  <2>. QED BY <1>1, <2>1, <2>2 DEF TrapsUpTo
<1>4. \A i \in 1 .. Len(calls) : calls'[i].tlow = TrapsUpTo(i - 1)'
  <2>. SUFFICES ASSUME NEW i \in 1 .. Len(calls)
                PROVE  calls'[i].tlow = TrapsUpTo(i - 1)'
    OBVIOUS
  <2>1. i - 1 \in 0 .. Len(calls) - 1  BY <1>1
  <2>2. calls'[i].tlow = calls[i].tlow
    <3>1. CASE i = Len(calls)  BY <3>1 DEF ci
    <3>2. CASE i # Len(calls)
      <4>1. i \in 1 .. Len(calls) - 1  BY <1>1, <3>2
      <4>. QED BY <4>1
    <3>. QED BY <3>1, <3>2
  <2>. QED BY <1>2, <2>1, <2>2 DEF TrapCounts
<1>. QED BY <1>1, <1>3, <1>4 DEF TrapCounts

SavedGenRoots == \A g \in Gen \ HostGen : ~ gens[g].root

\* A pushed frame of the right kind keeps root flags with their owners.
LEMMA RootsOnPush ==
    ASSUME SavedRoots, Len(calls) \in Nat, NEW f, FramePushed(f),
           f.root => f.gen \in HostGen \cup {NoGen}, SavedGenRoots', ~ susp'.on
    PROVE  SavedRoots'
<1>1. ASSUME NEW i \in 1 .. Len(calls) + 1
      PROVE  calls'[i].root => calls'[i].gen \in HostGen \cup {NoGen}
  <2>1. CASE i = Len(calls) + 1  BY <2>1 DEF FramePushed
  <2>2. CASE i # Len(calls) + 1
    <3>1. i \in 1 .. Len(calls)  BY <2>2
    <3>. QED BY <3>1 DEF FramePushed, SavedRoots
  <2>. QED BY <2>1, <2>2
<1>. QED BY <1>1 DEF SavedRoots, SavedGenRoots, FramePushed

\* Leaving a frame touches no other frame's root flag.
LEMMA RootsOnLeave ==
    ASSUME SavedRoots, Len(calls) \in Nat, FrameLeft, SavedGenRoots', ~ susp'.on
    PROVE  SavedRoots'
<1>1. \A i \in 1 .. Len(calls) - 1 : i \in 1 .. Len(calls)
  OBVIOUS
<1>. QED BY <1>1 DEF SavedRoots, SavedGenRoots, FrameLeft

\* Steps that change no frame's root flag or generator.
LEMMA RootsInPlace ==
    ASSUME SavedRoots, FramesKept, SavedGenRoots', ~ susp'.on
    PROVE  SavedRoots'
BY DEF SavedRoots, SavedGenRoots, FramesKept

----------------------------------------------------------------------------
(* The invariant of the type proof, and what the actions are made of.      *)

CoreInv == TypeOK /\ TrapCounts /\ WellNested /\ SavedRoots

\* The parts of TypeOK, one by one.
LEMMA TypeFacts ==
    ASSUME TypeOK
    PROVE  /\ calls \in Seq(Frame) /\ etraps \in Seq(Trap) /\ cstk \in Seq(Activation)
           /\ stackbase \in Int /\ top \in Int /\ mode \in Mode
           /\ gens \in [Gen -> Generator] /\ susp \in Suspension
  BY DEF TypeOK

\* The current frame is one of the frames, with its type.
LEMMA CallsFacts ==
    ASSUME calls \in Seq(Frame), Len(calls) > 0
    PROVE  /\ ci \in Frame
           /\ ci.pbase \in Int /\ ci.ptop \in Int /\ ci.etraps \in Nat /\ ci.tlow \in Nat
           /\ ci.gen \in Gen \cup {NoGen} /\ ci.root \in BOOLEAN
           /\ ci.base \in Int /\ ci.top \in Int
<1>1. ci \in Frame  BY SeqFacts DEF ci
<1>. QED BY <1>1 DEF Frame

\* What the lemmas on the stacks need follows from their types.
LEMMA StacksFacts ==
    ASSUME calls \in Seq(Frame), cstk \in Seq(Activation), etraps \in Seq(Trap)
    PROVE  Stacks /\ Counted /\ (Len(cstk) > 0 => act \in Activation)
<1>1. \A a \in 1 .. Len(cstk) : cstk[a] \in Activation  BY SeqFacts
<1>2. \A i \in 1 .. Len(calls) : calls[i] \in Frame  BY SeqFacts
<1>3. /\ Len(calls) \in Nat /\ Len(cstk) \in Nat /\ Len(etraps) \in Nat
      /\ cstk = <<>> <=> Len(cstk) = 0
  BY SeqFacts
<1>4. \A a \in 1 .. Len(cstk) : cstk[a].low \in Nat  BY <1>1 DEF Activation
<1>5. \A i \in 1 .. Len(calls) : calls[i].tlow \in Nat /\ calls[i].etraps \in Nat
  BY <1>2 DEF Frame
<1>6. Len(cstk) > 0 => act \in Activation  BY <1>1, <1>3 DEF act
<1>. QED BY <1>3, <1>4, <1>5, <1>6 DEF Stacks, Counted

\* The same after a step.
LEMMA StacksFactsAfter ==
    ASSUME (calls \in Seq(Frame))', (cstk \in Seq(Activation))'
    PROVE  Stacks'
<1>1. \A a \in 1 .. Len(cstk') : cstk'[a] \in Activation  BY SeqFacts
<1>2. Len(calls') \in Nat /\ Len(cstk') \in Nat /\ (cstk' = <<>> <=> Len(cstk') = 0)
  BY SeqFacts
<1>3. \A a \in 1 .. Len(cstk') : cstk'[a].low \in Nat  BY <1>1 DEF Activation
<1>. QED BY <1>2, <1>3 DEF Stacks

\* EnterFrame pushes one frame.
LEMMA EnterFrameFacts ==
    ASSUME calls \in Seq(Frame), NEW f \in Frame, EnterFrame(f)
    PROVE  /\ calls' \in Seq(Frame) /\ FramePushed(f)
           /\ stackbase' \in Int /\ top' \in Int
<1>1. calls' = Append(calls, f) /\ stackbase' = f.base /\ top' = f.top
  BY DEF EnterFrame
<1>2. f.base \in Int /\ f.top \in Int  BY DEF Frame
<1>. QED BY <1>1, <1>2, AppendFacts DEF FramePushed

\* LeaveFrame pops one frame.
LEMMA LeaveFrameFacts ==
    ASSUME calls \in Seq(Frame), Len(calls) > 0, calls' = Pop(calls)
    PROVE  calls' \in Seq(Frame) /\ FrameLeft
  BY PopFacts DEF FrameLeft

\* A call pushes one activation.
LEMMA ActPushedFacts ==
    ASSUME cstk \in Seq(Activation), NEW a \in Activation, cstk' = Append(cstk, a)
    PROVE  cstk' \in Seq(Activation) /\ ActPushed(a)
  BY AppendFacts DEF ActPushed

\* The stack a frame goes back to is given by numbers.
LEMMA LeftFacts ==
    ASSUME calls \in Seq(Frame), Len(calls) > 0, stackbase \in Int
    PROVE  LeftBase \in Int /\ LeftTop \in Int
  BY CallsFacts DEF LeftBase, LeftTop

\* The return of an activation pops it and moves the stack.
LEMMA FinishFacts ==
    ASSUME cstk \in Seq(Activation), Len(cstk) > 0, NEW ok,
           NEW base \in Int, NEW newtop \in Int, Finish(ok, base, newtop)
    PROVE  /\ cstk' \in Seq(Activation) /\ ActLeft
           /\ stackbase' \in Int /\ top' \in Int /\ mode' \in Mode
           /\ mode' = Continues(act, ok)
<1>1. /\ cstk' = Pop(cstk) /\ stackbase' = base /\ top' = newtop - Popped(act, ok)
      /\ mode' = Continues(act, ok)
  BY DEF Finish
<1>2. cstk' \in Seq(Activation) /\ ActLeft  BY <1>1, PopFacts DEF ActLeft
<1>3. Popped(act, ok) \in Int  BY DEF Popped
<1>4. Continues(act, ok) \in Mode  BY DEF Continues, Mode
<1>. QED BY <1>1, <1>2, <1>3, <1>4

\* A change of the local traps of the innermost activation.
LEMMA SetTrapsFacts ==
    ASSUME cstk \in Seq(Activation), Len(cstk) > 0, NEW n \in Int,
           cstk' = SetLast(cstk, [act EXCEPT !.traps = n])
    PROVE  cstk' \in Seq(Activation) /\ ActsKept
<1>. DEFINE a == [act EXCEPT !.traps = n]
<1>1. act \in Activation  BY SeqFacts DEF act
<1>2. a \in Activation /\ a.low = act.low /\ a.kind = act.kind /\ a.via = act.via
  BY <1>1 DEF Activation
<1>3. cstk' = SetLast(cstk, a)  OBVIOUS
<1>. HIDE DEF a
<1>4. /\ cstk' \in Seq(Activation) /\ Len(cstk') = Len(cstk) /\ Len(cstk) \in Nat
      /\ \A b \in 1 .. Len(cstk) - 1 : cstk'[b] = cstk[b]
      /\ cstk'[Len(cstk)] = a
  <2>1. Len(cstk) \in Nat  BY SeqFacts
  <2>2. a \in Activation  BY <1>2
  <2>3. /\ SetLast(cstk, a) \in Seq(Activation)
        /\ Len(SetLast(cstk, a)) = Len(cstk)
        /\ \A b \in 1 .. Len(cstk) - 1 : SetLast(cstk, a)[b] = cstk[b]
        /\ SetLast(cstk, a)[Len(cstk)] = a
    BY <2>2, SetLastFacts
  <2>. QED BY <1>3, <2>1, <2>3
<1>5. ASSUME NEW b \in 1 .. Len(cstk)
      PROVE  /\ cstk'[b].low = cstk[b].low
             /\ cstk'[b].kind = cstk[b].kind
             /\ cstk'[b].via = cstk[b].via
  <2>1. CASE b = Len(cstk)  BY <1>2, <1>4, <2>1 DEF act
  <2>2. CASE b # Len(cstk)
    <3>1. b \in 1 .. Len(cstk) - 1  BY <1>4, <2>2
    <3>. QED BY <1>4, <3>1
  <2>. QED BY <2>1, <2>2
<1>. QED BY <1>4, <1>5 DEF ActsKept

\* The frame EnterFrame makes, with the traps that are open under it.
LEMMA NewFrameFacts ==
    ASSUME stackbase \in Int, etraps \in Seq(Trap),
           NEW curtop \in Int, NEW base \in Int, NEW newtop \in Int
    PROVE  /\ NewFrame(curtop, base, newtop) \in Frame
           /\ NewFrame(curtop, base, newtop).gen = NoGen
           /\ NewFrame(curtop, base, newtop).etraps = 0
           /\ NewFrame(curtop, base, newtop).root = FALSE
           /\ NewFrame(curtop, base, newtop).tlow = Len(etraps)
<1>1. Len(etraps) \in Nat  BY SeqFacts
<1>2. base - stackbase \in Int /\ curtop - stackbase \in Int  OBVIOUS
<1>. QED BY <1>1, <1>2 DEF NewFrame, Frame

\* Execute marks the frame it enters as its root.
LEMMA RootFrameFacts ==
    ASSUME NEW f \in Frame
    PROVE  /\ [f EXCEPT !.root = TRUE] \in Frame
           /\ [f EXCEPT !.root = TRUE].gen = f.gen
           /\ [f EXCEPT !.root = TRUE].etraps = f.etraps
           /\ [f EXCEPT !.root = TRUE].root = TRUE
           /\ [f EXCEPT !.root = TRUE].tlow = f.tlow
  BY DEF Frame

----------------------------------------------------------------------------
(* The kinds of steps keep the invariant.                                  *)

\* What the steps below leave to be shown of the traps, the generators and
\* the suspension: d is the number of traps that come or go.
OthersFit(d) ==
    /\ etraps' \in Seq(Trap)
    /\ Len(etraps') = Len(etraps) + d
    /\ gens' \in [Gen -> Generator]
    /\ SavedGenRoots'
    /\ susp' = susp
    /\ ~ susp.on

\* What every step needs of CoreInv.
LEMMA CoreFacts ==
    ASSUME CoreInv
    PROVE  /\ calls \in Seq(Frame) /\ etraps \in Seq(Trap) /\ cstk \in Seq(Activation)
           /\ stackbase \in Int /\ top \in Int /\ gens \in [Gen -> Generator]
           /\ susp \in Suspension /\ mode \in Mode
           /\ Stacks /\ Counted /\ Len(calls) \in Nat
           /\ (Len(cstk) > 0 => act \in Activation)
           /\ TrapCounts /\ WellNested /\ SavedRoots /\ SavedGenRoots
<1>1. TypeOK /\ TrapCounts /\ WellNested /\ SavedRoots  BY DEF CoreInv
<1>2. SavedGenRoots  BY <1>1 DEF SavedRoots, SavedGenRoots
<1>3. Len(calls) \in Nat  BY <1>1, TypeFacts, SeqFacts
<1>. QED BY <1>1, <1>2, <1>3, TypeFacts, StacksFacts

\* An instruction enters a frame with the traps of f.
LEMMA PushKeeps ==
    ASSUME CoreInv, InExec, NEW f \in Frame, EnterFrame(f), ~ f.root,
           f.tlow = Len(etraps), OthersFit(f.etraps),
           cstk' \in Seq(Activation), ActsKept, mode' \in {"run", "raise"}
    PROVE  CoreInv'
<1>1. /\ calls' \in Seq(Frame) /\ FramePushed(f) /\ stackbase' \in Int /\ top' \in Int
  BY CoreFacts, EnterFrameFacts
<1>2. TypeOK'
  <2>1. mode' \in Mode  BY DEF Mode
  <2>2. susp' \in Suspension  BY CoreFacts DEF OthersFit
  <2>. QED BY <1>1, <2>1, <2>2 DEF TypeOK, OthersFit
<1>3. Stacks'  BY <1>1, StacksFactsAfter
<1>4. f.etraps \in Nat  BY DEF Frame
<1>5. TrapCounts'  BY <1>1, <1>4, CoreFacts, CountsOnPush DEF OthersFit
<1>6. WellNested'  BY <1>1, <1>3, CoreFacts, PushInPlace DEF OthersFit
<1>7. SavedRoots'  BY <1>1, CoreFacts, RootsOnPush DEF OthersFit
<1>. QED BY <1>2, <1>5, <1>6, <1>7 DEF CoreInv

\* Execute leaves a frame that is not its root.
LEMMA LeaveKeeps ==
    ASSUME CoreInv, Len(cstk) > 0, act.kind = "exec", mode \in {"run", "unwind"},
           Len(calls) > act.low, ~ ci.root, calls' = Pop(calls),
           stackbase' = LeftBase, top' = LeftTop, mode' = mode,
           cstk' \in Seq(Activation), ActsKept, OthersFit(- ci.etraps)
    PROVE  CoreInv'
<1>0. Len(calls) > 0
  <2>1. act.low \in Nat  BY CoreFacts DEF Activation
  <2>. QED BY <2>1, CoreFacts
<1>1. calls' \in Seq(Frame) /\ FrameLeft  BY <1>0, CoreFacts, LeaveFrameFacts
<1>2. TypeOK'
  <2>1. stackbase' \in Int /\ top' \in Int  BY <1>0, CoreFacts, LeftFacts
  <2>2. susp' \in Suspension /\ mode' \in Mode  BY CoreFacts DEF OthersFit
  <2>. QED BY <1>1, <2>1, <2>2 DEF TypeOK, OthersFit
<1>3. Stacks'  BY <1>1, StacksFactsAfter
<1>4. TrapCounts'
  <2>1. ci.etraps \in Nat /\ Len(etraps) \in Nat
    BY <1>0, CoreFacts, CallsFacts, SeqFacts
  <2>2. Len(etraps') = Len(etraps) - ci.etraps  BY <2>1 DEF OthersFit
  <2>. QED BY <1>0, <1>1, <2>2, CoreFacts, CountsOnLeave
<1>5. WellNested'  BY <1>1, <1>3, CoreFacts, LeaveInPlace DEF OthersFit
<1>6. SavedRoots'  BY <1>1, CoreFacts, RootsOnLeave DEF OthersFit
<1>. QED BY <1>2, <1>4, <1>5, <1>6 DEF CoreInv

\* A frame is left with its activation.
LEMMA ReturnKeeps ==
    ASSUME CoreInv, Len(cstk) > 0, NEW ok, Len(calls) = act.low + 1,
           calls' = Pop(calls), Finish(ok, LeftBase, LeftTop), OthersFit(- ci.etraps)
    PROVE  CoreInv'
<1>0. Len(calls) > 0 /\ act.low \in Nat
  <2>1. act.low \in Nat  BY CoreFacts DEF Activation
  <2>. QED BY <2>1, CoreFacts
<1>1. calls' \in Seq(Frame) /\ FrameLeft  BY <1>0, CoreFacts, LeaveFrameFacts
<1>2. /\ cstk' \in Seq(Activation) /\ ActLeft
      /\ stackbase' \in Int /\ top' \in Int /\ mode' \in Mode
      /\ mode' = Continues(act, ok)
  BY <1>0, CoreFacts, LeftFacts, FinishFacts
<1>3. TypeOK'
  <2>1. susp' \in Suspension  BY CoreFacts DEF OthersFit
  <2>. QED BY <1>1, <1>2, <2>1 DEF TypeOK, OthersFit
<1>4. Stacks'  BY <1>1, <1>2, StacksFactsAfter
<1>5. TrapCounts'
  <2>1. ci.etraps \in Nat /\ Len(etraps) \in Nat
    BY <1>0, CoreFacts, CallsFacts, SeqFacts
  <2>2. Len(etraps') = Len(etraps) - ci.etraps  BY <2>1 DEF OthersFit
  <2>. QED BY <1>0, <1>1, <2>2, CoreFacts, CountsOnLeave
<1>6. WellNested'
  <2>1. Len(calls') = act.low /\ \A i \in 1 .. act.low : calls'[i] = calls[i]
    BY <1>0, <1>1, CoreFacts DEF FrameLeft
  <2>2. susp' = susp  BY DEF OthersFit
  <2>. QED BY <1>2, <1>4, <2>1, <2>2, CoreFacts, ReturnToCaller
<1>7. SavedRoots'  BY <1>1, CoreFacts, RootsOnLeave DEF OthersFit
<1>. QED BY <1>3, <1>5, <1>6, <1>7 DEF CoreInv

\* Execute changes its innermost frame, which gets or loses d traps.
LEMMA InPlaceKeeps ==
    ASSUME CoreInv, Len(cstk) > 0, act.kind = "exec", mode # "abandon", mode' \in {"run", "raise"},
           Len(calls) > act.low, NEW d \in Int, NEW f \in Frame, calls' = SetLast(calls, f),
           f.root = ci.root, f.gen = ci.gen, f.tlow = ci.tlow, f.etraps = ci.etraps + d,
           stackbase' \in Int, top' \in Int,
           cstk' \in Seq(Activation), ActsKept, OthersFit(d)
    PROVE  CoreInv'
<1>0. Len(calls) > 0 /\ act.low \in Nat
  <2>1. act.low \in Nat  BY CoreFacts DEF Activation
  <2>. QED BY <2>1, CoreFacts
<1>1. /\ calls' \in Seq(Frame)
      /\ Len(calls') = Len(calls)
      /\ \A i \in 1 .. Len(calls) - 1 : calls'[i] = calls[i]
      /\ calls'[Len(calls)] = f
  <2>1. calls \in Seq(Frame)  BY CoreFacts
  <2>2. /\ SetLast(calls, f) \in Seq(Frame)
        /\ Len(SetLast(calls, f)) = Len(calls)
        /\ \A i \in 1 .. Len(calls) - 1 : SetLast(calls, f)[i] = calls[i]
        /\ SetLast(calls, f)[Len(calls)] = f
    BY <1>0, <2>1, SetLastFacts
  <2>. QED BY <2>2
<1>2. FramesKept
  <2>. SUFFICES ASSUME NEW i \in 1 .. Len(calls)
                PROVE  /\ calls'[i].root = calls[i].root
                       /\ calls'[i].gen = calls[i].gen
                       /\ \/ calls'[i].etraps = calls[i].etraps
                          \/ i = Len(calls) /\ act.kind = "exec" /\ act.low < Len(calls)
    BY <1>1 DEF FramesKept
  <2>1. CASE i = Len(calls)  BY <1>0, <1>1, <2>1 DEF ci
  <2>2. CASE i # Len(calls)
    <3>1. i \in 1 .. Len(calls) - 1  BY <2>2, CoreFacts
    <3>. QED BY <1>1, <3>1
  <2>. QED BY <2>1, <2>2
<1>3. TypeOK'
  <2>1. susp' \in Suspension /\ mode' \in Mode  BY CoreFacts DEF OthersFit, Mode
  <2>. QED BY <1>1, <2>1 DEF TypeOK, OthersFit
<1>4. Stacks'  BY <1>1, StacksFactsAfter
<1>5. TrapCounts'
  <2>1. Len(etraps') = Len(etraps) + d  BY DEF OthersFit
  <2>. QED BY <1>0, <1>1, <2>1, CoreFacts, CountsInPlace
<1>6. WellNested'
  <2>1. act'.low = act.low /\ act'.kind = act.kind /\ Len(cstk') # 0
    BY CoreFacts DEF ActsKept, act, Stacks
  <2>2. ModeFits'
    BY <1>1, <2>1 DEF ModeFits, OthersFit
  <2>. QED BY <1>2, <1>4, <2>2, CoreFacts, StayInPlace
<1>7. SavedRoots'  BY <1>2, CoreFacts, RootsInPlace DEF OthersFit
<1>. QED BY <1>3, <1>5, <1>6, <1>7 DEF CoreInv

\* Only the VM's stack changes, or what the innermost activation is doing.
LEMMA ModeKeeps ==
    ASSUME CoreInv, top' \in Int, UNCHANGED <<calls, etraps, stackbase, cstk, susp>>,
           gens' \in [Gen -> Generator], SavedGenRoots',
           \/ mode' = mode
           \/ Len(cstk) > 0 /\ ModeFits' /\ mode' \in Mode
                /\ mode # "abandon" /\ mode' # "abandon"
    PROVE  CoreInv'
<1>0. /\ calls' = calls /\ etraps' = etraps /\ stackbase' = stackbase
      /\ cstk' = cstk /\ susp' = susp
  OBVIOUS
<1>1. TypeOK'
  <2>1. mode' \in Mode  BY CoreFacts
  <2>. QED BY <1>0, <2>1, CoreFacts DEF TypeOK
<1>2. TrapCounts'
  BY <1>0, CoreFacts DEF TrapCounts, TrapsUpTo
<1>3. WellNested'
  <2>1. CASE mode' = mode
    BY <1>0, <2>1, CoreFacts DEF WellNested, ActivationsNest, CallersFit, ModeFits,
       NativesHaveOneFrame, AbandonedHasOneFrame, RootsDelimitActivations, High, act, ci
  <2>2. CASE mode' # mode
    <3>1. Stacks'  BY <1>0, CoreFacts DEF Stacks
    <3>2. FramesKept /\ ActsKept  BY <1>0 DEF FramesKept, ActsKept
    <3>. QED BY <2>2, <3>1, <3>2, CoreFacts, StayInPlace
  <2>. QED BY <2>1, <2>2
<1>4. SavedRoots'
  <2>1. SavedRoots  BY CoreFacts
  <2>. QED BY <1>0, <2>1 DEF SavedRoots, SavedGenRoots
<1>. QED BY <1>1, <1>2, <1>3, <1>4 DEF CoreInv

\* An activation is opened with its first frame.
LEMMA OpenKeeps ==
    ASSUME CoreInv, NEW a \in Activation, cstk' = Append(cstk, a), MayOpen(a),
           NEW f \in Frame, EnterFrame(f), f.tlow = Len(etraps), OthersFit(f.etraps),
           mode' \in {"run", "abandon"},
           f.root <=> a.kind = "exec" /\ mode' = "run",
           f.root => f.gen \in HostGen \cup {NoGen},
           a.kind = "native" \/ mode' = "abandon" => f.etraps = 0 /\ f.gen = NoGen,
           mode' = "abandon" => Len(cstk) > 0 /\ act.kind = "exec" /\ act.low < Len(calls)
    PROVE  CoreInv'
<1>1. /\ calls' \in Seq(Frame) /\ FramePushed(f) /\ stackbase' \in Int /\ top' \in Int
  BY CoreFacts, EnterFrameFacts
<1>2. cstk' \in Seq(Activation) /\ ActPushed(a)
  BY CoreFacts, ActPushedFacts
<1>3. TypeOK'
  <2>1. mode' \in Mode /\ susp' \in Suspension  BY CoreFacts DEF OthersFit, Mode
  <2>. QED BY <1>1, <1>2, <2>1 DEF TypeOK, OthersFit
<1>4. Stacks'  BY <1>1, <1>2, StacksFactsAfter
<1>5. f.etraps \in Nat  BY DEF Frame
<1>6. TrapCounts'  BY <1>1, <1>5, CoreFacts, CountsOnPush DEF OthersFit
<1>7. a.kind \in {"exec", "native"}  BY DEF Activation
<1>8. WellNested'  BY <1>1, <1>2, <1>4, <1>7, CoreFacts, OpenWithFrame DEF OthersFit
<1>9. SavedRoots'  BY <1>1, CoreFacts, RootsOnPush DEF OthersFit
<1>. QED BY <1>3, <1>6, <1>8, <1>9 DEF CoreInv

\* An activation is opened whose call cannot start.
LEMMA OpenFailedKeeps ==
    ASSUME CoreInv, NEW a \in Activation, cstk' = Append(cstk, a), MayOpen(a),
           a.kind = "exec", mode' = "raise", top' \in Int,
           UNCHANGED <<calls, etraps, stackbase, gens, susp>>
    PROVE  CoreInv'
<1>0. /\ calls' = calls /\ etraps' = etraps /\ stackbase' = stackbase
      /\ gens' = gens /\ susp' = susp
  OBVIOUS
<1>1. cstk' \in Seq(Activation) /\ ActPushed(a)
  BY CoreFacts, ActPushedFacts
<1>2. TypeOK'
  <2>1. mode' \in Mode  BY DEF Mode
  <2>. QED BY <1>0, <1>1, <2>1, CoreFacts DEF TypeOK
<1>3. TrapCounts'
  BY <1>0, CoreFacts DEF TrapCounts, TrapsUpTo
<1>4. Stacks'
  <2>1. calls' \in Seq(Frame)  BY <1>0, CoreFacts
  <2>. QED BY <1>1, <2>1, StacksFactsAfter
<1>5. WellNested'  BY <1>0, <1>1, <1>4, CoreFacts, OpenWithoutFrame
<1>6. SavedRoots'
  <2>1. SavedRoots  BY CoreFacts
  <2>. QED BY <1>0, <2>1 DEF SavedRoots
<1>. QED BY <1>2, <1>3, <1>5, <1>6 DEF CoreInv

----------------------------------------------------------------------------
(* The actions keep the invariant.  Frames are told from their owners only *)
(* where the host and scripts resume different generators, and where a     *)
(* native's calls find room on the stack.                                  *)

Tame == ~ MixedResume /\ ~ OverflowInCall

\* What InExec and InNative mean for the innermost activation.
LEMMA RunFacts ==
    ASSUME CoreInv
    PROVE  /\ InExec => Len(cstk) > 0 /\ act.kind = "exec" /\ mode = "run"
                          /\ Len(calls) > act.low
           /\ InNative => Len(cstk) > 0 /\ act.kind = "native" /\ mode = "run"
                          /\ Len(calls) > act.low
           /\ Len(cstk) > 0 => ~ susp.on /\ act.low \in Nat /\ cstk # <<>>
           /\ cstk # <<>> => Len(cstk) > 0
           /\ InHost => Len(cstk) = 0
<1>1. Len(cstk) \in Nat /\ (cstk = <<>> <=> Len(cstk) = 0)  BY CoreFacts DEF Stacks
<1>2. Len(cstk) > 0 => act.low \in Nat  BY CoreFacts DEF Activation
<1>3. ModeFits  BY CoreFacts DEF WellNested
<1>4. Len(cstk) > 0 => ~ susp.on  BY <1>3 DEF ModeFits
<1>5. Len(cstk) > 0 /\ mode = "run" => Len(calls) > act.low  BY <1>3 DEF ModeFits
<1>. QED BY <1>1, <1>2, <1>4, <1>5 DEF InExec, InNative, InHost

\* The root flag of Execute's innermost frame, and the frame of a native.
LEMMA LastFrameFacts ==
    ASSUME CoreInv, Len(cstk) > 0, Len(calls) > act.low, mode # "abandon"
    PROVE  /\ ci \in Frame
           /\ Len(etraps) \in Nat /\ ci.etraps \in Nat /\ ci.etraps <= Len(etraps)
           /\ act.kind = "exec" => (ci.root <=> Len(calls) = act.low + 1)
           /\ act.kind = "native" => Len(calls) = act.low + 1 /\ ci.etraps = 0
           /\ ci.root => ci.gen \in HostGen \cup {NoGen}
<1>1. act.low \in Nat /\ Len(calls) \in Nat /\ Len(cstk) \in Nat
  BY CoreFacts DEF Activation, Stacks
<1>2. /\ ci \in Frame /\ ci.etraps \in Nat /\ ci.tlow \in Nat
  BY <1>1, CoreFacts, CallsFacts
<1>3. Len(etraps) = ci.tlow + ci.etraps
  BY <1>1, CoreFacts DEF TrapCounts, TrapsUpTo, ci
<1>4. High(Len(cstk)) = Len(calls) /\ Len(cstk) \in 1 .. Len(cstk)
  BY <1>1 DEF High
<1>5. act.kind = "exec" => (ci.root <=> Len(calls) = act.low + 1)
  <2>1. RootsDelimitActivations  BY CoreFacts DEF WellNested
  <2>2. Len(calls) \in act.low + 1 .. Len(calls)  BY <1>1
  <2>. QED BY <1>4, <2>1, <2>2 DEF RootsDelimitActivations, act, ci
<1>6. act.kind = "native" => Len(calls) = act.low + 1 /\ ci.etraps = 0
  <2>1. NativesHaveOneFrame  BY CoreFacts DEF WellNested
  <2>. QED BY <1>4, <2>1 DEF NativesHaveOneFrame, act, ci
<1>7. ci.root => ci.gen \in HostGen \cup {NoGen}
  <2>1. SavedRoots /\ Len(calls) \in 1 .. Len(calls)  BY <1>1, CoreFacts
  <2>. QED BY <2>1 DEF SavedRoots, ci
<1>8. Len(etraps) \in Nat /\ ci.etraps <= Len(etraps)  BY <1>2, <1>3
<1>. QED BY <1>2, <1>5, <1>6, <1>7, <1>8

\* The _stacksize of a function is a number.
LEMMA SizesAreNumbers == ASSUME NEW size \in FrameSizes PROVE size \in Int
  BY ExecFramesAssumption

\* Steps that leave the frames or the activations as they are.
LEMMA KeptFacts ==
    ASSUME CoreInv
    PROVE  /\ cstk' = cstk => cstk' \in Seq(Activation) /\ ActsKept
           /\ UNCHANGED <<etraps, gens, susp>> /\ ~ susp.on => OthersFit(0)
           /\ gens' = gens => gens' \in [Gen -> Generator] /\ SavedGenRoots'
<1>1. cstk' = cstk => cstk' \in Seq(Activation) /\ ActsKept
  BY CoreFacts DEF ActsKept
<1>2. gens' = gens => gens' \in [Gen -> Generator] /\ SavedGenRoots'
  BY CoreFacts DEF SavedGenRoots
<1>3. etraps' = etraps => etraps' \in Seq(Trap) /\ Len(etraps') = Len(etraps) + 0
  BY CoreFacts, SeqFacts
<1>. QED BY <1>1, <1>2, <1>3 DEF OthersFit

\* _OP_CALL of a script function.
LEMMA OpCallKeeps == ASSUME CoreInv, OpCall PROVE CoreInv'
<1>1. InExec /\ Len(cstk) > 0 /\ ~ susp.on  BY RunFacts DEF OpCall
<1>2. PICK size \in FrameSizes :
        EnterFrame(NewFrame(top, stackbase + ArgBase, stackbase + ArgBase + size))
  BY DEF OpCall
<1>. DEFINE f == NewFrame(top, stackbase + ArgBase, stackbase + ArgBase + size)
<1>3. /\ f \in Frame /\ f.etraps = 0 /\ ~ f.root /\ f.tlow = Len(etraps)
  <2>1. /\ stackbase + ArgBase \in Int /\ stackbase + ArgBase + size \in Int
        /\ stackbase \in Int /\ top \in Int /\ etraps \in Seq(Trap)
    BY SizesAreNumbers, CoreFacts DEF ArgBase
  <2>2. f = NewFrame(top, stackbase + ArgBase, stackbase + ArgBase + size)
    OBVIOUS
  <2>. HIDE DEF f
  <2>. QED BY <2>1, <2>2, NewFrameFacts
<1>4. EnterFrame(f)  BY <1>2
<1>. HIDE DEF f
<1>5. mode' \in {"run", "raise"} /\ cstk' = cstk /\ UNCHANGED <<etraps, gens, susp>>
  BY DEF OpCall
<1>6. OthersFit(f.etraps) /\ cstk' \in Seq(Activation) /\ ActsKept
  BY <1>1, <1>3, <1>5, KeptFacts
<1>. QED BY <1>1, <1>3, <1>4, <1>5, <1>6, PushKeeps

\* _OP_TAILCALL uses the frame again.
LEMMA OpTailCallKeeps == ASSUME CoreInv, OpTailCall PROVE CoreInv'
<1>1. /\ InExec /\ Len(cstk) > 0 /\ ~ susp.on /\ act.kind = "exec" /\ mode = "run"
      /\ Len(calls) > act.low
  BY RunFacts DEF OpTailCall
<1>2. PICK size \in FrameSizes :
        /\ top' = stackbase + size
        /\ calls' = SetLast(calls, [ci EXCEPT !.top = stackbase + size])
  BY DEF OpTailCall
<1>. DEFINE f == [ci EXCEPT !.top = stackbase + size]
<1>3. stackbase \in Int /\ stackbase + size \in Int
  BY SizesAreNumbers, CoreFacts
<1>4. /\ f \in Frame /\ f.root = ci.root /\ f.gen = ci.gen /\ f.tlow = ci.tlow
      /\ f.etraps = ci.etraps + 0
  <2>1. ci \in Frame  BY <1>1, LastFrameFacts
  <2>. QED BY <1>3, <2>1 DEF Frame
<1>5. calls' = SetLast(calls, f) /\ top' \in Int  BY <1>2, <1>3
<1>. HIDE DEF f
<1>6. /\ mode' \in {"run", "raise"} /\ cstk' = cstk /\ UNCHANGED <<etraps, gens, susp>>
      /\ stackbase' = stackbase
  BY DEF OpTailCall
<1>7. OthersFit(0) /\ cstk' \in Seq(Activation) /\ ActsKept
  BY <1>1, <1>6, KeptFacts
<1>8. stackbase' \in Int /\ mode # "abandon"  BY <1>1, <1>3, <1>6
<1>. QED BY <1>1, <1>4, <1>5, <1>6, <1>7, <1>8, InPlaceKeeps

\* _OP_PUSHTRAP adds to _etraps, to the frame and to the local count.
LEMMA OpPushTrapKeeps == ASSUME CoreInv, OpPushTrap PROVE CoreInv'
<1>1. /\ InExec /\ Len(cstk) > 0 /\ ~ susp.on /\ act.kind = "exec" /\ mode = "run"
      /\ Len(calls) > act.low
  BY RunFacts DEF OpPushTrap
<1>2. /\ etraps' = Append(etraps, [base |-> stackbase, size |-> top])
      /\ cstk' = SetLast(cstk, [act EXCEPT !.traps = act.traps + 1])
      /\ calls' = SetLast(calls, [ci EXCEPT !.etraps = ci.etraps + 1])
      /\ stackbase' = stackbase /\ top' = top /\ mode' = mode
      /\ gens' = gens /\ susp' = susp
  BY DEF OpPushTrap
<1>. DEFINE f == [ci EXCEPT !.etraps = ci.etraps + 1]
<1>3. /\ f \in Frame /\ f.root = ci.root /\ f.gen = ci.gen /\ f.tlow = ci.tlow
      /\ f.etraps = ci.etraps + 1
  <2>1. ci \in Frame /\ ci.etraps + 1 \in Nat  BY <1>1, LastFrameFacts
  <2>. QED BY <2>1 DEF Frame
<1>4. calls' = SetLast(calls, f)  BY <1>2
<1>. HIDE DEF f
<1>5. etraps' \in Seq(Trap) /\ Len(etraps') = Len(etraps) + 1
  <2>1. [base |-> stackbase, size |-> top] \in Trap  BY CoreFacts DEF Trap
  <2>. QED BY <1>2, <2>1, CoreFacts, AppendFacts
<1>6. OthersFit(1)
  BY <1>1, <1>2, <1>5, KeptFacts DEF OthersFit
<1>7. cstk' \in Seq(Activation) /\ ActsKept
  <2>1. act.traps + 1 \in Int  BY <1>1, CoreFacts DEF Activation
  <2>. QED BY <1>1, <1>2, <2>1, CoreFacts, SetTrapsFacts
<1>8. stackbase' \in Int /\ top' \in Int /\ mode # "abandon" /\ mode' \in {"run", "raise"}
  BY <1>1, <1>2, CoreFacts
<1>. QED BY <1>1, <1>3, <1>4, <1>6, <1>7, <1>8, InPlaceKeeps

\* A trap of the innermost frame is taken off: by _OP_POPTRAP or a catch.
LEMMA TakeTrapKeeps ==
    ASSUME CoreInv, Len(cstk) > 0, act.kind = "exec", mode # "abandon", mode' = "run",
           Len(calls) > act.low, ci.etraps > 0, stackbase' \in Int, top' \in Int,
           etraps' = Pop(etraps),
           cstk' = SetLast(cstk, [act EXCEPT !.traps = act.traps - 1]),
           calls' = SetLast(calls, [ci EXCEPT !.etraps = ci.etraps - 1]),
           gens' = gens, susp' = susp
    PROVE  CoreInv'
<1>. DEFINE f == [ci EXCEPT !.etraps = ci.etraps - 1]
            d == -1
<1>1. ci \in Frame /\ ci.etraps \in Nat /\ Len(etraps) \in Nat /\ Len(etraps) > 0
  BY LastFrameFacts
<1>2. /\ f \in Frame /\ f.root = ci.root /\ f.gen = ci.gen /\ f.tlow = ci.tlow
      /\ f.etraps = ci.etraps + d
  <2>1. ci.etraps - 1 \in Nat  BY <1>1
  <2>. QED BY <1>1, <2>1 DEF Frame
<1>3. calls' = SetLast(calls, f)  OBVIOUS
<1>4. etraps' \in Seq(Trap) /\ Len(etraps') = Len(etraps) + d
  BY <1>1, CoreFacts, PopFacts
<1>5. d \in Int  OBVIOUS
<1>. HIDE DEF f, d
<1>6. OthersFit(d)
  <2>1. ~ susp.on  BY RunFacts
  <2>. QED BY <1>4, <2>1, KeptFacts DEF OthersFit
<1>7. cstk' \in Seq(Activation) /\ ActsKept
  <2>1. act.traps - 1 \in Int  BY CoreFacts DEF Activation
  <2>. QED BY <2>1, CoreFacts, SetTrapsFacts
<1>. QED BY <1>2, <1>3, <1>5, <1>6, <1>7, InPlaceKeeps

\* _OP_POPTRAP takes the frame's own trap away.
LEMMA OpPopTrapKeeps == ASSUME CoreInv, OpPopTrap PROVE CoreInv'
<1>1. /\ InExec /\ Len(cstk) > 0 /\ act.kind = "exec" /\ mode = "run"
      /\ Len(calls) > act.low
  BY RunFacts DEF OpPopTrap
<1>2. /\ etraps' = Pop(etraps)
      /\ cstk' = SetLast(cstk, [act EXCEPT !.traps = act.traps - 1])
      /\ calls' = SetLast(calls, [ci EXCEPT !.etraps = ci.etraps - 1])
      /\ stackbase' = stackbase /\ top' = top /\ mode' = mode
      /\ gens' = gens /\ susp' = susp /\ ci.etraps > 0
  BY DEF OpPopTrap
<1>3. stackbase' \in Int /\ top' \in Int /\ mode # "abandon" /\ mode' = "run"
  BY <1>1, <1>2, CoreFacts
<1>. QED BY <1>1, <1>2, <1>3, TakeTrapKeeps

\* What Unwinding means for the innermost activation.
LEMMA UnwindFacts ==
    ASSUME CoreInv, Unwinding
    PROVE  /\ Len(cstk) > 0 /\ act.kind = "exec" /\ mode = "unwind" /\ mode # "abandon"
           /\ Len(calls) > act.low /\ ~ susp.on
<1>1. Len(cstk) > 0 /\ mode = "unwind" /\ Len(calls) > act.low /\ ~ susp.on
  BY RunFacts DEF Unwinding
<1>2. act.kind = "exec"  BY <1>1, CoreFacts DEF WellNested, ModeFits
<1>. QED BY <1>1, <1>2

\* A trap of the current frame catches the error.
LEMMA CatchErrorKeeps == ASSUME CoreInv, CatchError PROVE CoreInv'
<1>1. /\ Len(cstk) > 0 /\ act.kind = "exec" /\ mode # "abandon" /\ Len(calls) > act.low
  BY UnwindFacts DEF CatchError
<1>2. /\ etraps' = Pop(etraps)
      /\ cstk' = SetLast(cstk, [act EXCEPT !.traps = act.traps - 1])
      /\ calls' = SetLast(calls, [ci EXCEPT !.etraps = ci.etraps - 1])
      /\ stackbase' = etraps[Len(etraps)].base /\ top' = etraps[Len(etraps)].size
      /\ mode' = "run" /\ gens' = gens /\ susp' = susp /\ ci.etraps > 0
  BY DEF CatchError
<1>3. stackbase' \in Int /\ top' \in Int
  <2>1. Len(etraps) \in Nat /\ Len(etraps) > 0  BY <1>1, <1>2, LastFrameFacts
  <2>2. etraps[Len(etraps)] \in Trap  BY <2>1, CoreFacts, SeqFacts
  <2>. QED BY <1>2, <2>2 DEF Trap
<1>. QED BY <1>1, <1>2, <1>3, TakeTrapKeeps

\* A generator that is killed keeps its type and its root flag.
LEMMA KillFacts ==
    ASSUME CoreInv, NEW g \in Gen \cup {NoGen}, gens' = Kill(g)
    PROVE  gens' \in [Gen -> Generator] /\ SavedGenRoots'
<1>0. gens \in [Gen -> Generator] /\ SavedGenRoots  BY CoreFacts
<1>1. CASE g = NoGen  BY <1>0, <1>1 DEF Kill, SavedGenRoots
<1>2. CASE g # NoGen
  <2>1. g \in Gen /\ gens' = [gens EXCEPT ![g].state = "dead"]  BY <1>2 DEF Kill
  <2>2. [gens[g] EXCEPT !.state = "dead"] \in Generator
        /\ [gens[g] EXCEPT !.state = "dead"].root = gens[g].root
    BY <1>0, <2>1 DEF Generator
  <2>3. gens' = [gens EXCEPT ![g] = [gens[g] EXCEPT !.state = "dead"]]
    BY <2>1
  <2>4. gens' \in [Gen -> Generator]  BY <1>0, <2>1, <2>2, <2>3
  <2>5. \A h \in Gen : gens'[h].root = gens[h].root
    BY <1>0, <2>1, <2>2, <2>3
  <2>. QED BY <1>0, <2>4, <2>5 DEF SavedGenRoots
<1>. QED BY <1>1, <1>2

\* A frame without traps is left by Execute, the root with the activation.
LEMMA LeaveOrReturnKeeps ==
    ASSUME CoreInv, Len(cstk) > 0, act.kind = "exec", mode \in {"run", "unwind"},
           Len(calls) > act.low, ci.etraps = 0, calls' = Pop(calls),
           gens' = Kill(ci.gen), etraps' = etraps, susp' = susp, NEW ok,
           \/ ci.root /\ Finish(ok, LeftBase, LeftTop)
           \/ /\ ~ ci.root /\ stackbase' = LeftBase /\ top' = LeftTop
              /\ cstk' = cstk /\ mode' = mode
    PROVE  CoreInv'
<1>1. /\ ci \in Frame /\ (ci.root <=> Len(calls) = act.low + 1) /\ Len(etraps) \in Nat
  BY LastFrameFacts
<1>2. ci.gen \in Gen \cup {NoGen}  BY <1>1 DEF Frame
<1>3. OthersFit(- ci.etraps)
  <2>1. gens' \in [Gen -> Generator] /\ SavedGenRoots'  BY <1>2, KillFacts
  <2>2. Len(etraps') = Len(etraps) + (- ci.etraps)  BY <1>1
  <2>3. ~ susp.on  BY RunFacts
  <2>. QED BY <2>1, <2>2, <2>3, CoreFacts DEF OthersFit
<1>4. CASE ci.root /\ Finish(ok, LeftBase, LeftTop)
  BY <1>1, <1>3, <1>4, ReturnKeeps
<1>5. CASE /\ ~ ci.root /\ stackbase' = LeftBase /\ top' = LeftTop
           /\ cstk' = cstk /\ mode' = mode
  <2>1. cstk' \in Seq(Activation) /\ ActsKept  BY <1>5, KeptFacts
  <2>. QED BY <1>3, <1>5, <2>1, LeaveKeeps
<1>. QED BY <1>4, <1>5

\* _OP_RETURN leaves a frame that has no trap.
LEMMA OpReturnKeeps == ASSUME CoreInv, OpReturn PROVE CoreInv'
<1>1. /\ Len(cstk) > 0 /\ act.kind = "exec" /\ mode \in {"run", "unwind"}
      /\ Len(calls) > act.low
  BY RunFacts DEF OpReturn
<1>2. /\ ci.etraps = 0 /\ gens' = Kill(ci.gen) /\ etraps' = etraps /\ susp' = susp
      /\ calls' = Pop(calls)
  BY DEF OpReturn, Return
<1>3. \/ ci.root /\ Finish(TRUE, LeftBase, LeftTop)
      \/ /\ ~ ci.root /\ stackbase' = LeftBase /\ top' = LeftTop
         /\ cstk' = cstk /\ mode' = mode
  BY DEF OpReturn, Return
<1>. QED BY <1>1, <1>2, <1>3, LeaveOrReturnKeeps

\* exception_trap leaves a frame that has no trap.
LEMMA UnwindFrameKeeps == ASSUME CoreInv, UnwindFrame PROVE CoreInv'
<1>1. /\ Len(cstk) > 0 /\ act.kind = "exec" /\ mode = "unwind" /\ mode # "abandon"
      /\ Len(calls) > act.low
  BY UnwindFacts DEF UnwindFrame
<1>2. /\ ci.etraps = 0 /\ gens' = Kill(ci.gen) /\ etraps' = etraps /\ susp' = susp
      /\ calls' = Pop(calls)
  BY DEF UnwindFrame
<1>3. Len(calls) = 1 => ci.root
  <2>1. act.low \in Nat  BY <1>1, RunFacts
  <2>. QED BY <1>1, <2>1, LastFrameFacts
<1>4. \/ ci.root /\ Finish(FALSE, LeftBase, LeftTop)
      \/ /\ ~ ci.root /\ stackbase' = LeftBase /\ top' = LeftTop
         /\ cstk' = cstk /\ mode' = mode
  BY <1>3 DEF UnwindFrame
<1>. QED BY <1>1, <1>2, <1>4, LeaveOrReturnKeeps

\* A native leaves its one frame: it returns, or it suspended nothing.
LEMMA NativeLeavesKeeps ==
    ASSUME CoreInv, Len(cstk) > 0, act.kind = "native", mode # "abandon",
           Len(calls) > act.low, calls' = Pop(calls), UNCHANGED <<etraps, gens, susp>>,
           NEW ok, Finish(ok, LeftBase, LeftTop)
    PROVE  CoreInv'
<1>1. Len(calls) = act.low + 1 /\ ci.etraps = 0 /\ ci.etraps \in Nat /\ ~ susp.on
  BY LastFrameFacts, RunFacts
<1>2. OthersFit(0) /\ Len(etraps) \in Nat  BY <1>1, LastFrameFacts, KeptFacts
<1>3. OthersFit(- ci.etraps)
  <2>1. Len(etraps') = Len(etraps) + (- ci.etraps)  BY <1>1, <1>2
  <2>. QED BY <1>2, <2>1 DEF OthersFit
<1>. QED BY <1>1, <1>3, ReturnKeeps

\* A native function returns.
LEMMA NativeReturnKeeps == ASSUME CoreInv, NativeReturn PROVE CoreInv'
<1>1. /\ Len(cstk) > 0 /\ act.kind = "native" /\ mode # "abandon" /\ Len(calls) > act.low
  BY RunFacts DEF NativeReturn
<1>2. PICK ok \in BOOLEAN : Finish(ok, LeftBase, LeftTop)  BY DEF NativeReturn
<1>3. calls' = Pop(calls) /\ UNCHANGED <<etraps, gens, susp>>  BY DEF NativeReturn
<1>. QED BY <1>1, <1>2, <1>3, NativeLeavesKeeps

\* _OP_YIELD leaves with the frame's traps.
LEMMA OpYieldKeeps == ASSUME CoreInv, OpYield PROVE CoreInv'
<1>1. /\ Len(cstk) > 0 /\ act.kind = "exec" /\ mode = "run" /\ mode # "abandon"
      /\ Len(calls) > act.low
  BY RunFacts DEF OpYield
<1>2. /\ ci \in Frame /\ (ci.root <=> Len(calls) = act.low + 1) /\ Len(etraps) \in Nat
      /\ ci.etraps \in Nat /\ ci.etraps <= Len(etraps)
      /\ (ci.root => ci.gen \in HostGen \cup {NoGen})
  BY <1>1, LastFrameFacts
<1>3. ci.gen \in Gen /\ ci.root \in BOOLEAN  BY <1>2 DEF OpYield, Frame
<1>. DEFINE saved == [ state |-> "suspended", root |-> ci.root,
                       traps |-> SavedTraps, size |-> top - stackbase ]
<1>4. saved \in Generator /\ saved.root = ci.root
  <2>1. \A k \in 1 .. Len(etraps) : etraps[k].base \in Int /\ etraps[k].size \in Int
    <3>1. \A k \in 1 .. Len(etraps) : etraps[k] \in Trap  BY CoreFacts, SeqFacts
    <3>. QED BY <3>1 DEF Trap
  <2>2. ASSUME NEW i \in 1 .. ci.etraps
        PROVE  LET et == etraps[Len(etraps) + 1 - i]
               IN  [base |-> et.base - stackbase, size |-> et.size - stackbase] \in Trap
    <3>1. Len(etraps) + 1 - i \in 1 .. Len(etraps)  BY <1>2
    <3>2. /\ etraps[Len(etraps) + 1 - i].base - stackbase \in Int
          /\ etraps[Len(etraps) + 1 - i].size - stackbase \in Int
      BY <2>1, <3>1, CoreFacts
    <3>. QED BY <3>2 DEF Trap
  <2>3. SavedTraps \in [1 .. ci.etraps -> Trap]  BY <2>2 DEF SavedTraps
  <2>4. SavedTraps \in Seq(Trap)  BY <1>2, <2>3, SeqDef
  <2>5. top - stackbase \in Int  BY CoreFacts
  <2>. QED BY <1>3, <2>4, <2>5 DEF Generator
<1>5. gens' = [gens EXCEPT ![ci.gen] = saved] /\ susp' = susp /\ ~ susp.on
      /\ etraps' = SubSeq(etraps, 1, Len(etraps) - ci.etraps) /\ calls' = Pop(calls)
  BY <1>1, RunFacts DEF OpYield
<1>. HIDE DEF saved
<1>6. OthersFit(- ci.etraps)
  <2>1. gens' \in [Gen -> Generator]  BY <1>3, <1>4, <1>5, CoreFacts
  <2>2. SavedGenRoots'
    <3>1. ASSUME NEW g \in Gen \ HostGen  PROVE ~ gens'[g].root
      <4>1. CASE g = ci.gen
        <5>1. ~ ci.root  BY <1>2, <1>3, <4>1, ExecFramesAssumption
        <5>. QED BY <1>3, <1>4, <1>5, <4>1, <5>1, CoreFacts
      <4>2. CASE g # ci.gen
        BY <1>3, <1>5, <4>2, CoreFacts DEF SavedGenRoots
      <4>. QED BY <4>1, <4>2
    <3>. QED BY <3>1 DEF SavedGenRoots
  <2>3. Len(etraps) - ci.etraps \in 0 .. Len(etraps)  BY <1>2
  <2>4. etraps' \in Seq(Trap) /\ Len(etraps') = Len(etraps) - ci.etraps
    BY <1>5, <2>3, CoreFacts, CutFacts
  <2>5. Len(etraps') = Len(etraps) + (- ci.etraps)  BY <1>2, <2>4
  <2>. QED BY <1>5, <2>1, <2>2, <2>4, <2>5 DEF OthersFit
<1>7. CASE ci.root
  <2>1. Finish(TRUE, LeftBase, LeftTop)  BY <1>7 DEF OpYield
  <2>. QED BY <1>1, <1>2, <1>5, <1>6, <1>7, <2>1, ReturnKeeps
<1>8. CASE ~ ci.root
  <2>1. /\ stackbase' = LeftBase /\ top' = LeftTop /\ mode' = mode
        /\ cstk' = SetLast(cstk, [act EXCEPT !.traps = act.traps - ci.etraps])
    BY <1>8 DEF OpYield
  <2>2. cstk' \in Seq(Activation) /\ ActsKept
    <3>1. act.traps - ci.etraps \in Int  BY SMTT(30), <1>1, <1>2, CoreFacts DEF Activation
    <3>. QED BY <1>1, <2>1, <3>1, CoreFacts, SetTrapsFacts
  <2>3. mode \in {"run", "unwind"}  BY <1>1
  <2>. QED BY <1>1, <1>5, <1>6, <1>8, <2>1, <2>2, <2>3, LeaveKeeps
<1>. QED BY <1>7, <1>8

\* LVGenerator::Resume brings the traps of g back.
LEMMA ResumeFacts ==
    ASSUME CoreInv, NEW g \in Gen, NEW curtop \in Int, Resume(g, curtop)
    PROVE  /\ Len(gens[g].traps) \in Nat
           /\ etraps' \in Seq(Trap)
           /\ Len(etraps') = Len(etraps) + Len(gens[g].traps)
           /\ gens' \in [Gen -> Generator] /\ SavedGenRoots'
<1>0. gens \in [Gen -> Generator] /\ SavedGenRoots /\ etraps \in Seq(Trap)  BY CoreFacts
<1>1. gens[g] \in Generator  BY <1>0
<1>2. gens[g].traps \in Seq(Trap)  BY <1>1 DEF Generator
<1>3. Len(gens[g].traps) \in Nat /\ \A k \in 1 .. Len(gens[g].traps) : gens[g].traps[k] \in Trap
  BY <1>2, SeqFacts
<1>4. RestoredTraps(g, curtop) \in Seq(Trap)
      /\ Len(RestoredTraps(g, curtop)) = Len(gens[g].traps)
  <2>. DEFINE n == Len(gens[g].traps)
  <2>1. ASSUME NEW i \in 1 .. n
        PROVE  LET et == gens[g].traps[n + 1 - i]
               IN  [base |-> et.base + curtop, size |-> et.size + curtop] \in Trap
    <3>1. n + 1 - i \in 1 .. n  BY <1>3
    <3>2. /\ gens[g].traps[n + 1 - i].base + curtop \in Int
          /\ gens[g].traps[n + 1 - i].size + curtop \in Int
      BY SMTT(30), <1>3, <3>1 DEF Trap
    <3>. QED BY <3>2 DEF Trap
  <2>2. RestoredTraps(g, curtop) \in [1 .. n -> Trap]  BY <2>1 DEF RestoredTraps
  <2>. QED BY <1>3, <2>2, SeqDef
<1>5. etraps' = etraps \o RestoredTraps(g, curtop)  BY DEF Resume
<1>6. etraps' \in Seq(Trap) /\ Len(etraps') = Len(etraps) + Len(gens[g].traps)
  BY <1>0, <1>4, <1>5, ConcatFacts
<1>. DEFINE r == [gens[g] EXCEPT !.state = "running", !.traps = <<>>]
<1>7. r \in Generator /\ r.root = gens[g].root
  <2>1. <<>> \in Seq(Trap)  OBVIOUS
  <2>2. "running" \in {"none", "running", "suspended", "dead"}  OBVIOUS
  <2>. QED BY <1>1, <2>1, <2>2 DEF Generator
<1>8. gens' = [gens EXCEPT ![g] = r]
  BY <1>0 DEF Resume
<1>. HIDE DEF r
<1>9. gens' \in [Gen -> Generator] /\ \A h \in Gen : gens'[h].root = gens[h].root
  BY <1>0, <1>7, <1>8
<1>. QED BY <1>0, <1>3, <1>6, <1>9 DEF SavedGenRoots

\* The frame and the traps a generator comes back with.
LEMMA ResumeFrameFacts ==
    ASSUME CoreInv, NEW g \in Gen, NEW curtop \in Int
    PROVE  /\ ResumeFrame(g, curtop) \in Frame
           /\ ResumeFrame(g, curtop).gen = g
           /\ ResumeFrame(g, curtop).etraps = Len(gens[g].traps)
           /\ ResumeFrame(g, curtop).root = gens[g].root
           /\ ResumeFrame(g, curtop).tlow = Len(etraps)
<1>1. gens[g] \in Generator  BY CoreFacts
<1>2. Len(gens[g].traps) \in Nat
  <2>1. gens[g].traps \in Seq(Trap)  BY <1>1 DEF Generator
  <2>. QED BY <2>1, SeqFacts
<1>3. gens[g].root \in BOOLEAN /\ gens[g].size \in Int  BY <1>1 DEF Generator
<1>. DEFINE f == NewFrame(curtop, curtop, curtop + gens[g].size)
<1>4. curtop + gens[g].size \in Int  BY <1>3
<1>5. f \in Frame /\ f.tlow = Len(etraps)
  BY <1>4, CoreFacts, NewFrameFacts
<1>6. ResumeFrame(g, curtop) =
        [f EXCEPT !.gen = g, !.etraps = Len(gens[g].traps), !.root = gens[g].root]
  BY DEF ResumeFrame
<1>. HIDE DEF f
<1>. QED BY <1>2, <1>3, <1>5, <1>6 DEF Frame

\* A script resumes g: not one of the host's, so its frame is no root.
LEMMA ScriptResumes ==
    ASSUME CoreInv, Tame, NEW g \in Gen, InExec, ByScript(g), Resume(g, top),
           EnterFrame(ResumeFrame(g, top)), mode' = mode, susp' = susp,
           cstk' \in Seq(Activation), ActsKept
    PROVE  CoreInv'
<1>1. ~ susp.on /\ mode = "run"  BY RunFacts
<1>2. top \in Int  BY CoreFacts
<1>3. ~ gens[g].root  BY CoreFacts DEF Tame, ByScript, SavedGenRoots
<1>. DEFINE f == ResumeFrame(g, top)
<1>4. f \in Frame /\ ~ f.root /\ f.tlow = Len(etraps) /\ f.etraps = Len(gens[g].traps)
  BY <1>2, <1>3, ResumeFrameFacts
<1>5. EnterFrame(f)  OBVIOUS
<1>. HIDE DEF f
<1>6. OthersFit(f.etraps)
  BY <1>1, <1>2, <1>4, ResumeFacts DEF OthersFit
<1>7. mode' \in {"run", "raise"}  BY <1>1
<1>. QED BY <1>4, <1>5, <1>6, <1>7, PushKeeps

\* _OP_RESUME continues a generator in the same activation.
LEMMA OpResumeKeeps == ASSUME CoreInv, Tame, NEW g \in Gen, OpResume(g) PROVE CoreInv'
<1>1. /\ InExec /\ ByScript(g) /\ Resume(g, top) /\ EnterFrame(ResumeFrame(g, top))
      /\ cstk' = SetLast(cstk, [act EXCEPT !.traps = act.traps + Len(gens[g].traps)])
      /\ mode' = mode /\ susp' = susp
  BY DEF OpResume
<1>2. cstk' \in Seq(Activation) /\ ActsKept
  <2>1. top \in Int /\ Len(cstk) > 0  BY <1>1, CoreFacts, RunFacts
  <2>2. Len(gens[g].traps) \in Nat  BY <1>1, <2>1, ResumeFacts
  <2>3. act.traps + Len(gens[g].traps) \in Int  BY <2>1, <2>2, CoreFacts DEF Activation
  <2>. QED BY <1>1, <2>1, <2>3, CoreFacts, SetTrapsFacts
<1>. QED BY <1>1, <1>2, ScriptResumes

\* FOREACH_OP continues a generator that has no trap.
LEMMA OpForeachKeeps == ASSUME CoreInv, Tame, NEW g \in Gen, OpForeach(g) PROVE CoreInv'
<1>1. /\ InExec /\ ByScript(g) /\ Resume(g, top) /\ EnterFrame(ResumeFrame(g, top))
      /\ cstk' = cstk /\ mode' = mode /\ susp' = susp
  BY DEF OpForeach
<1>2. cstk' \in Seq(Activation) /\ ActsKept  BY <1>1, KeptFacts
<1>. QED BY <1>1, <1>2, ScriptResumes

\* Resume finds the stack too small.
LEMMA OpResumeOverflowKeeps ==
    ASSUME CoreInv, NEW g \in Gen, OpResumeOverflow(g)
    PROVE  CoreInv'
<1>1. /\ InExec /\ EnterFrame(NewFrame(top, top, top + gens[g].size))
      /\ mode' = "raise" /\ cstk' = cstk /\ UNCHANGED <<etraps, gens, susp>>
  BY DEF OpResumeOverflow
<1>. DEFINE f == NewFrame(top, top, top + gens[g].size)
<1>2. f \in Frame /\ f.etraps = 0 /\ ~ f.root /\ f.tlow = Len(etraps)
  <2>1. gens[g] \in Generator  BY CoreFacts
  <2>2. top \in Int /\ top + gens[g].size \in Int  BY <2>1, CoreFacts DEF Generator
  <2>. QED BY <2>2, CoreFacts, NewFrameFacts
<1>3. EnterFrame(f)  BY <1>1
<1>. HIDE DEF f
<1>4. OthersFit(f.etraps) /\ cstk' \in Seq(Activation) /\ ActsKept
  BY <1>1, <1>2, RunFacts, KeptFacts
<1>. QED BY <1>1, <1>2, <1>3, <1>4, PushKeeps

\* The calls of the API: their callers, and room for a value on the stack.
LEMMA ApiFacts ==
    ASSUME CoreInv, MayCallApi
    PROVE  /\ Len(cstk) = 0 \/ act.kind = "native"
           /\ ~ susp.on /\ mode = "run"
           /\ OwnTop \in Int
<1>1. ~ susp.on  BY RunFacts DEF MayCallApi
<1>2. InHost => mode = "run"
  <2>1. InHost => Len(cstk) = 0  BY RunFacts
  <2>. QED BY <2>1, CoreFacts DEF WellNested, ModeFits
<1>3. InNative => mode = "run" /\ act.kind = "native"  BY RunFacts
<1>4. InHost => Len(cstk) = 0  BY RunFacts
<1>5. OwnTop \in Int
  <2>1. InNative => ci \in Frame
    <3>1. InNative => Len(cstk) > 0 /\ Len(calls) > act.low /\ mode = "run"  BY RunFacts
    <3>. QED BY <3>1, LastFrameFacts
  <2>. QED BY <2>1 DEF OwnTop, MayCallApi, Frame
<1>. QED BY <1>1, <1>2, <1>3, <1>4, <1>5 DEF MayCallApi

\* lv_resume continues a generator in an activation of its own.
LEMMA LvResumeKeeps == ASSUME CoreInv, Tame, NEW g \in Gen, LvResume(g) PROVE CoreInv'
<1>1. /\ MayCallApi /\ g \in HostGen /\ Resume(g, top + 1)
      /\ EnterFrame([ResumeFrame(g, top + 1) EXCEPT !.root = TRUE])
      /\ mode' = mode /\ susp' = susp
  BY DEF LvResume, MayPush
<1>2. PICK raise \in BOOLEAN :
        Activate("exec", "resume", raise, Len(gens[g].traps), Len(calls), stackbase, top)
  BY DEF LvResume
<1>3. top + 1 \in Int /\ top \in Int /\ stackbase \in Int /\ Len(calls) \in Nat  BY CoreFacts
<1>4. Len(gens[g].traps) \in Nat  BY <1>1, <1>3, ResumeFacts
<1>. DEFINE f == [ResumeFrame(g, top + 1) EXCEPT !.root = TRUE]
            a == [ kind |-> "exec", via |-> "resume", raise |-> raise,
                   traps |-> Len(gens[g].traps), low |-> Len(calls),
                   base |-> stackbase, top |-> top ]
<1>5. /\ f \in Frame /\ f.gen = g /\ f.etraps = Len(gens[g].traps) /\ f.root = TRUE
      /\ f.tlow = Len(etraps)
  BY <1>3, ResumeFrameFacts, RootFrameFacts
<1>6. a \in Activation /\ a.kind = "exec" /\ a.via = "resume" /\ a.low = Len(calls)
  BY <1>3, <1>4 DEF Activation
<1>7. EnterFrame(f) /\ cstk' = Append(cstk, a)
  BY <1>1, <1>2 DEF Activate
<1>. HIDE DEF f, a
<1>8. OthersFit(f.etraps)
  <2>1. ~ susp.on  BY <1>1, ApiFacts
  <2>. QED BY <1>1, <1>3, <1>5, <2>1, ResumeFacts DEF OthersFit
<1>9. MayOpen(a) /\ mode' = "run"
  <2>1. mode = "run" /\ ~ susp.on /\ (Len(cstk) = 0 \/ act.kind = "native")
    BY <1>1, ApiFacts
  <2>. QED BY <1>1, <1>6, <2>1 DEF MayOpen
<1>. QED BY <1>1, <1>5, <1>6, <1>7, <1>8, <1>9, OpenKeeps

----------------------------------------------------------------------------
(* Calls that open an activation.                                          *)

\* A call is made by an activation that may make it, and only one that can
\* unwind the frame of a refused call meets a refusal.
MayCall(via) ==
    /\ ~ susp.on
    /\ mode \in {"run", "raise"}
    /\ via # "handler" => mode = "run"
    /\ via \in {"op", "meta", "handler"} => Len(cstk) > 0
    /\ via \in {"op", "handler"} => act.kind = "exec"
    /\ via = "api" => Len(cstk) = 0 \/ act.kind = "native"
    /\ MayOverflow(via) => Len(cstk) > 0 /\ act.kind = "exec" /\ act.low < Len(calls)

\* LVVM::Call of a script function.
LEMMA ExecuteCallKeeps ==
    ASSUME CoreInv, NEW via \in {"api", "meta", "handler"}, NEW pushed \in Int,
           NEW nparams \in Int, NEW raise \in BOOLEAN,
           ExecuteCall(via, pushed, nparams, raise), MayCall(via)
    PROVE  CoreInv'
<1>. DEFINE a == [ kind |-> "exec", via |-> via, raise |-> raise, traps |-> 0,
                   low |-> Len(calls), base |-> stackbase, top |-> top ]
            frame(size) == CallFrame(pushed, nparams, size)
<1>1. /\ top \in Int /\ stackbase \in Int /\ Len(calls) \in Nat /\ etraps \in Seq(Trap)
  BY CoreFacts
<1>2. a \in Activation /\ a.kind = "exec" /\ a.via = via /\ a.low = Len(calls)
  BY <1>1 DEF Activation
<1>3. cstk' = Append(cstk, a) /\ UNCHANGED <<etraps, gens, susp>>
  BY DEF ExecuteCall, Activate
<1>4. OthersFit(0)  BY <1>3, KeptFacts DEF MayCall
<1>5. MayOpen(a)
  BY <1>2 DEF MayCall, MayOpen
<1>6. ASSUME NEW size \in FrameSizes
      PROVE  /\ frame(size) \in Frame /\ frame(size).gen = NoGen
             /\ frame(size).etraps = 0 /\ frame(size).root = FALSE
             /\ frame(size).tlow = Len(etraps)
             /\ [frame(size) EXCEPT !.root = TRUE] \in Frame
             /\ [frame(size) EXCEPT !.root = TRUE].gen = NoGen
             /\ [frame(size) EXCEPT !.root = TRUE].etraps = 0
             /\ [frame(size) EXCEPT !.root = TRUE].root = TRUE
             /\ [frame(size) EXCEPT !.root = TRUE].tlow = Len(etraps)
  <2>1. size \in Int  BY SizesAreNumbers
  <2>. DEFINE base == top + pushed - nparams
  <2>2. top + pushed \in Int /\ base \in Int /\ base + size \in Int  BY <1>1, <2>1
  <2>4. frame(size) = NewFrame(top + pushed, base, base + size)  BY DEF CallFrame
  <2>. HIDE DEF base, frame
  <2>5. /\ NewFrame(top + pushed, base, base + size) \in Frame
        /\ NewFrame(top + pushed, base, base + size).gen = NoGen
        /\ NewFrame(top + pushed, base, base + size).etraps = 0
        /\ NewFrame(top + pushed, base, base + size).root = FALSE
        /\ NewFrame(top + pushed, base, base + size).tlow = Len(etraps)
    BY <1>1, <2>2, NewFrameFacts
  <2>3. /\ frame(size) \in Frame /\ frame(size).gen = NoGen
        /\ frame(size).etraps = 0 /\ frame(size).root = FALSE
        /\ frame(size).tlow = Len(etraps)
    BY <2>4, <2>5
  <2>. QED BY <2>3, RootFrameFacts
<1>7. \/ /\ \E size \in FrameSizes : EnterFrame([frame(size) EXCEPT !.root = TRUE])
         /\ mode' = "run"
      \/ /\ mode' = "raise" /\ top' = top + pushed /\ UNCHANGED <<calls, stackbase>>
      \/ /\ MayOverflow(via)
         /\ \E size \in FrameSizes : EnterFrame(frame(size))
         /\ mode' = "abandon"
  BY DEF ExecuteCall
<1>. HIDE DEF a, frame
<1>8. CASE /\ \E size \in FrameSizes : EnterFrame([frame(size) EXCEPT !.root = TRUE])
           /\ mode' = "run"
  <2>1. PICK size \in FrameSizes : EnterFrame([frame(size) EXCEPT !.root = TRUE])
    BY <1>8
  <2>. DEFINE f == [frame(size) EXCEPT !.root = TRUE]
  <2>2. /\ f \in Frame /\ f.gen = NoGen /\ f.etraps = 0 /\ f.root = TRUE
        /\ f.tlow = Len(etraps) /\ EnterFrame(f)
    BY <1>6, <2>1
  <2>. HIDE DEF f
  <2>3. OthersFit(f.etraps)  BY <1>4, <2>2
  <2>. QED BY <1>2, <1>3, <1>5, <1>8, <2>2, <2>3, OpenKeeps
<1>9. CASE mode' = "raise" /\ top' = top + pushed /\ UNCHANGED <<calls, stackbase>>
  <2>1. top' \in Int  BY <1>1, <1>9
  <2>. QED BY <1>2, <1>3, <1>5, <1>9, <2>1, OpenFailedKeeps
<1>10. CASE /\ MayOverflow(via)
            /\ \E size \in FrameSizes : EnterFrame(frame(size))
            /\ mode' = "abandon"
  <2>1. PICK size \in FrameSizes : EnterFrame(frame(size))
    BY <1>10
  <2>. DEFINE f == frame(size)
  <2>2. /\ f \in Frame /\ f.gen = NoGen /\ f.etraps = 0 /\ f.root = FALSE
        /\ f.tlow = Len(etraps) /\ EnterFrame(f)
    BY <1>6, <2>1
  <2>. HIDE DEF f
  <2>3. OthersFit(f.etraps)  BY <1>4, <2>2
  <2>4. Len(cstk) > 0 /\ act.kind = "exec" /\ act.low < Len(calls)
    BY <1>10 DEF MayCall
  <2>. QED BY <1>2, <1>3, <1>5, <1>10, <2>2, <2>3, <2>4, OpenKeeps
<1>. QED BY <1>7, <1>8, <1>9, <1>10

\* CallNative up to the call of the function.
LEMMA CallNativeKeeps ==
    ASSUME CoreInv, NEW via \in {"api", "meta", "handler", "op"}, NEW pushed \in Int,
           NEW base \in Int, NEW nparams \in Int,
           CallNative(via, pushed, base, nparams), MayCall(via)
    PROVE  CoreInv'
<1>. DEFINE a == [ kind |-> "native", via |-> via, raise |-> FALSE, traps |-> 0,
                   low |-> Len(calls), base |-> stackbase, top |-> top ]
            f == NewFrame(top + pushed, base, base + nparams)
<1>1. /\ top \in Int /\ stackbase \in Int /\ Len(calls) \in Nat /\ etraps \in Seq(Trap)
  BY CoreFacts
<1>2. a \in Activation /\ a.kind = "native" /\ a.via = via /\ a.low = Len(calls)
  BY <1>1 DEF Activation
<1>3. /\ f \in Frame /\ f.gen = NoGen /\ f.etraps = 0 /\ f.root = FALSE
      /\ f.tlow = Len(etraps)
  <2>1. top + pushed \in Int /\ base + nparams \in Int  BY <1>1
  <2>. QED BY ZenonT(60), <1>1, <2>1, NewFrameFacts
<1>4. /\ cstk' = Append(cstk, a) /\ EnterFrame(f) /\ UNCHANGED <<etraps, gens, susp>>
      /\ mode' = "run" \/ (MayOverflow(via) /\ mode' = "abandon")
  BY DEF CallNative, Activate
<1>. HIDE DEF a, f
<1>5. OthersFit(f.etraps)  BY <1>3, <1>4, KeptFacts DEF MayCall
<1>6. MayOpen(a)
  BY <1>2 DEF MayCall, MayOpen
<1>7. mode' = "abandon" => Len(cstk) > 0 /\ act.kind = "exec" /\ act.low < Len(calls)
  BY <1>4 DEF MayCall
<1>8. mode' \in {"run", "abandon"}  BY <1>4
<1>. QED BY <1>2, <1>3, <1>4, <1>5, <1>6, <1>7, <1>8, OpenKeeps

\* The host and natives may call, and a native finds room on the stack.
LEMMA LvCallMay == ASSUME CoreInv, Tame, LvCall PROVE MayCall("api")
<1>1. MayCallApi  BY DEF LvCall, MayPush
<1>2. /\ ~ susp.on /\ mode = "run" /\ (Len(cstk) = 0 \/ act.kind = "native")
  BY <1>1, ApiFacts
<1>3. cstk # <<>> => Len(cstk) > 0  BY RunFacts
<1>4. ~ MayOverflow("api")  BY <1>2, <1>3 DEF MayOverflow, Tame
<1>. QED BY <1>2, <1>4 DEF MayCall

\* lv_call by the host or a native.
LEMMA LvCallKeeps == ASSUME CoreInv, Tame, LvCall PROVE CoreInv'
<1>1. MayCall("api")  BY LvCallMay
<1>2. CASE \E raise \in BOOLEAN : ExecuteCall("api", 2, 1, raise)
  BY <1>1, <1>2, ExecuteCallKeeps
<1>3. CASE CallNative("api", 2, top + 1, 1)
  <2>1. top + 1 \in Int  BY CoreFacts
  <2>. QED BY <1>1, <1>3, <2>1, CallNativeKeeps
<1>. QED BY <1>2, <1>3 DEF LvCall

\* Instructions and natives may call a metamethod.
LEMMA MetaMethodMay == ASSUME CoreInv, Tame, CallMetaMethod PROVE MayCall("meta")
<1>1. /\ Len(cstk) > 0 /\ mode = "run" /\ Len(calls) > act.low /\ ~ susp.on
  BY RunFacts DEF CallMetaMethod
<1>2. MayOverflow("meta") => act.kind = "exec"  BY DEF MayOverflow, Tame
<1>3. act.low \in Nat /\ Len(calls) \in Nat  BY <1>1, RunFacts, CoreFacts
<1>. QED BY <1>1, <1>2, <1>3 DEF MayCall

\* CallMetaMethod.
LEMMA CallMetaMethodKeeps == ASSUME CoreInv, Tame, CallMetaMethod PROVE CoreInv'
<1>1. MayCall("meta")  BY MetaMethodMay
<1>2. CASE ExecuteCall("meta", 2, 2, FALSE)
  <2>1. \E raise \in BOOLEAN : ExecuteCall("meta", 2, 2, raise)  BY <1>2, Zenon
  <2>. QED BY <1>1, <2>1, ExecuteCallKeeps
<1>3. CASE CallNative("meta", 2, top, 2)
  <2>1. top \in Int  BY CoreFacts
  <2>. QED BY <1>1, <1>3, <2>1, CallNativeKeeps
<1>. QED BY <1>2, <1>3 DEF CallMetaMethod

\* An instruction may call a native function.
LEMMA OpCallNativeMay == ASSUME CoreInv, OpCallNative PROVE MayCall("op")
<1>1. /\ Len(cstk) > 0 /\ act.kind = "exec" /\ mode = "run" /\ Len(calls) > act.low
      /\ ~ susp.on /\ act.low \in Nat /\ Len(calls) \in Nat
  BY RunFacts, CoreFacts DEF OpCallNative
<1>. QED BY <1>1 DEF MayCall

\* _OP_CALL of a native function.
LEMMA OpCallNativeKeeps == ASSUME CoreInv, OpCallNative PROVE CoreInv'
<1>1. CallNative("op", 0, stackbase + ArgBase, 1)  BY DEF OpCallNative
<1>2. stackbase + ArgBase \in Int  BY CoreFacts DEF ArgBase
<1>. QED BY <1>1, <1>2, OpCallNativeMay, CallNativeKeeps

\* exception_trap may call the error handler: a metamethod lies above a frame,
\* so a handler that is refused was called by an activation with a frame.
LEMMA HandlerMay == ASSUME CoreInv, CallErrorHandler PROVE MayCall("handler")
<1>1. Len(cstk) > 0 /\ mode = "raise" /\ ~ susp.on /\ act.low \in Nat /\ Notifies
  BY RunFacts DEF CallErrorHandler
<1>2. act.kind = "exec"  BY <1>1, CoreFacts DEF WellNested, ModeFits
<1>3. InMetaMethod => act.low < Len(calls)
  <2>1. ActivationsNest /\ CallersFit /\ Stacks  BY CoreFacts DEF WellNested
  <2>2. ASSUME NEW b \in 1 .. Len(cstk), cstk[b].via = "meta"
        PROVE  Len(calls) > 0
    <3>1. b - 1 \in 1 .. Len(cstk) /\ cstk[b - 1].low < cstk[b].low
          /\ cstk[b].low <= Len(calls)
      BY <2>1, <2>2 DEF ActivationsNest, CallersFit, Stacks
    <3>. QED BY <2>1, <3>1 DEF Stacks
  <2>3. InMetaMethod => Len(calls) > 0  BY <2>2 DEF InMetaMethod
  <2>4. Len(calls) = act.low => calls = <<>>  BY <1>1 DEF Notifies
  <2>5. calls = <<>> => Len(calls) = 0  OBVIOUS
  <2>6. act.low <= Len(calls)  BY <1>1, <2>1 DEF ActivationsNest, Stacks, act
  <2>. QED BY <1>1, <2>1, <2>3, <2>4, <2>5, <2>6 DEF Stacks
<1>4. MayOverflow("handler") => InMetaMethod  BY DEF MayOverflow
<1>. QED BY <1>1, <1>2, <1>3, <1>4 DEF MayCall

\* CallErrorHandler.
LEMMA CallErrorHandlerKeeps == ASSUME CoreInv, CallErrorHandler PROVE CoreInv'
<1>1. MayCall("handler")  BY HandlerMay
<1>2. CASE ExecuteCall("handler", 2, 2, FALSE)
  <2>1. \E raise \in BOOLEAN : ExecuteCall("handler", 2, 2, raise)  BY <1>2, Zenon
  <2>. QED BY <1>1, <2>1, ExecuteCallKeeps
<1>3. CASE CallNative("handler", 2, top, 2)
  <2>1. top \in Int  BY CoreFacts
  <2>. QED BY <1>1, <1>3, <2>1, CallNativeKeeps
<1>. QED BY <1>2, <1>3 DEF CallErrorHandler

----------------------------------------------------------------------------
(* Steps that only change what the innermost activation is doing.          *)

\* Calls that only move _top.
LEMMA TopMovesKeep ==
    ASSUME CoreInv, LvCallRefused \/ LvSetTop
    PROVE  CoreInv'
<1>1. top' \in Int
  <2>1. MayCallApi  BY DEF LvCallRefused, LvSetTop, MayPush
  <2>2. OwnTop \in Int /\ top + 1 \in Int  BY <2>1, ApiFacts, CoreFacts
  <2>. QED BY <2>2 DEF LvCallRefused, LvSetTop
<1>2. UNCHANGED <<calls, etraps, stackbase, cstk, mode, gens, susp>>
  BY DEF LvCallRefused, LvSetTop
<1>3. gens' \in [Gen -> Generator] /\ SavedGenRoots'  BY <1>2, KeptFacts
<1>. QED BY <1>1, <1>2, <1>3, ModeKeeps

\* StartCall of a generator function.
LEMMA CreateGeneratorKeeps ==
    ASSUME CoreInv, NEW g \in Gen, CreateGenerator(g)
    PROVE  CoreInv'
<1>1. UNCHANGED <<calls, etraps, stackbase, top, cstk, mode, susp>>
  BY DEF CreateGenerator
<1>2. PICK size \in FrameSizes :
        gens' = [gens EXCEPT ![g] = [ state |-> "suspended", root |-> FALSE,
                                      traps |-> <<>>, size |-> size ]]
  BY DEF CreateGenerator
<1>. DEFINE r == [ state |-> "suspended", root |-> FALSE, traps |-> <<>>, size |-> size ]
<1>3. r \in Generator /\ ~ r.root
  <2>1. <<>> \in Seq(Trap) /\ size \in Int  BY SizesAreNumbers
  <2>. QED BY <2>1 DEF Generator
<1>4. gens' = [gens EXCEPT ![g] = r]  BY <1>2
<1>. HIDE DEF r
<1>5. gens \in [Gen -> Generator] /\ SavedGenRoots /\ top \in Int  BY CoreFacts
<1>6. gens' \in [Gen -> Generator]  BY <1>3, <1>4, <1>5
<1>7. SavedGenRoots'
  <2>1. \A h \in Gen : gens'[h] = IF h = g THEN r ELSE gens[h]  BY <1>4, <1>5
  <2>. QED BY <1>3, <1>5, <2>1 DEF SavedGenRoots
<1>8. top' \in Int  BY <1>1, <1>5
<1>. QED BY <1>1, <1>6, <1>7, <1>8, ModeKeeps

\* Steps that only change what the innermost activation does.
LEMMA ModeStepsKeep ==
    ASSUME CoreInv, OpThrow \/ LvSuspendVm \/ SkipErrorHandler
    PROVE  CoreInv'
<1>1. UNCHANGED <<calls, etraps, stackbase, top, cstk, gens, susp>>
  BY DEF OpThrow, LvSuspendVm, SkipErrorHandler
<1>2. /\ Len(cstk) > 0 /\ ~ susp.on /\ mode # "abandon"
      /\ \/ mode' = "raise" /\ act.kind = "exec"
         \/ mode' = "unwind" /\ act.kind = "exec"
         \/ mode' = "suspend" /\ act.kind = "native" /\ Len(cstk) = 2
              /\ Len(calls) > act.low
  <2>1. CASE OpThrow  BY <2>1, RunFacts DEF OpThrow
  <2>2. CASE LvSuspendVm  BY <2>2, RunFacts DEF LvSuspendVm
  <2>3. CASE SkipErrorHandler
    <3>1. Len(cstk) > 0 /\ mode = "raise" /\ mode' = "unwind" /\ ~ susp.on
      BY <2>3, RunFacts DEF SkipErrorHandler
    <3>2. act.kind = "exec"  BY <3>1, CoreFacts DEF WellNested, ModeFits
    <3>. QED BY <3>1, <3>2
  <2>. QED BY <2>1, <2>2, <2>3
<1>3. ModeFits'
  <2>1. /\ Len(cstk') = Len(cstk) /\ Len(cstk') # 0 /\ act' = act
        /\ Len(calls') = Len(calls) /\ ~ susp'.on
    BY <1>1, <1>2, CoreFacts DEF act, Stacks
  <2>. QED BY <1>2, <2>1 DEF ModeFits
<1>4. mode' \in Mode /\ mode' # "abandon"  BY <1>2 DEF Mode
<1>5. gens' \in [Gen -> Generator] /\ SavedGenRoots' /\ top' \in Int
  BY <1>1, KeptFacts, CoreFacts
<1>. QED BY <1>1, <1>2, <1>3, <1>4, <1>5, ModeKeeps

----------------------------------------------------------------------------
(* The other returns, suspension and wakeup.                               *)

\* An activation returns and leaves the frames as they are.
LEMMA FinishAloneFacts ==
    ASSUME CoreInv, Len(cstk) > 0, NEW ok, Finish(ok, stackbase, top),
           UNCHANGED <<calls, etraps, gens, susp>>
    PROVE  /\ TypeOK' /\ TrapCounts' /\ SavedRoots' /\ Stacks' /\ ActLeft
           /\ mode' = Continues(act, ok)
<1>1. stackbase \in Int /\ top \in Int /\ cstk \in Seq(Activation)  BY CoreFacts
<1>2. /\ cstk' \in Seq(Activation) /\ ActLeft
      /\ stackbase' \in Int /\ top' \in Int /\ mode' \in Mode
      /\ mode' = Continues(act, ok)
  BY <1>1, FinishFacts
<1>3. calls' = calls /\ etraps' = etraps /\ gens' = gens /\ susp' = susp
  OBVIOUS
<1>4. TypeOK'  BY <1>2, <1>3, CoreFacts DEF TypeOK
<1>5. TrapCounts'  BY <1>3, CoreFacts DEF TrapCounts, TrapsUpTo
<1>6. SavedRoots'
  <2>1. SavedRoots  BY CoreFacts
  <2>. QED BY <1>3, <2>1 DEF SavedRoots
<1>7. Stacks'
  <2>1. calls' \in Seq(Frame)  BY <1>3, CoreFacts
  <2>. QED BY <1>2, <2>1, StacksFactsAfter
<1>. QED BY <1>2, <1>4, <1>5, <1>6, <1>7

\* The call that EnterFrame refused returns with its frame.
LEMMA AbandonCallKeeps == ASSUME CoreInv, AbandonCall PROVE CoreInv'
<1>1. /\ Len(cstk) > 0 /\ mode = "abandon" /\ Finish(FALSE, stackbase, top)
      /\ UNCHANGED <<calls, etraps, gens, susp>>
  BY RunFacts DEF AbandonCall
<1>2. /\ TypeOK' /\ TrapCounts' /\ SavedRoots' /\ Stacks' /\ ActLeft
      /\ mode' = Continues(act, FALSE)
  BY <1>1, FinishAloneFacts, Zenon
<1>3. WellNested'
  <2>1. Stacks /\ WellNested /\ calls' = calls /\ susp' = susp  BY <1>1, CoreFacts
  <2>. QED BY <1>1, <1>2, <2>1, ReturnAbandoning
<1>. QED BY <1>2, <1>3 DEF CoreInv

\* Execute returns an error once its frames are left.
LEMMA ReturnErrorKeeps == ASSUME CoreInv, ReturnError PROVE CoreInv'
<1>1. /\ Len(cstk) > 0 /\ Len(calls) = act.low /\ Finish(FALSE, stackbase, top)
      /\ UNCHANGED <<calls, etraps, gens, susp>>
  BY RunFacts DEF ReturnError
<1>2. /\ TypeOK' /\ TrapCounts' /\ SavedRoots' /\ Stacks' /\ ActLeft
      /\ mode' = Continues(act, FALSE)
  BY <1>1, FinishAloneFacts, Zenon
<1>3. WellNested'
  <2>1. Stacks /\ WellNested /\ susp' = susp  BY <1>1, CoreFacts
  <2>2. Len(calls') = act.low /\ \A i \in 1 .. act.low : calls'[i] = calls[i]
    BY <1>1
  <2>3. \E ok \in BOOLEAN : mode' = Continues(act, ok)  BY <1>2, Zenon
  <2>. QED BY <1>1, <1>2, <2>1, <2>2, <2>3, ReturnToCaller
<1>. QED BY <1>2, <1>3 DEF CoreInv

\* The frames of the Execute that suspends stay, with its first as root.
LEMMA SuspendedKeeps ==
    ASSUME CoreInv, Suspend, act.via = "op"
    PROVE  CoreInv'
<1>1. /\ mode = "suspend" /\ calls' = Pop(calls) /\ cstk' = <<>> /\ mode' = "run"
      /\ susp' = [ on |-> TRUE, traps |-> cstk[1].traps,
                   root |-> calls[Len(calls) - 1].root ]
      /\ stackbase' = LeftBase /\ top' = LeftTop
      /\ etraps' = etraps /\ gens' = gens /\ Len(cstk) > 0
  BY RunFacts DEF Suspend
<1>2. /\ act.kind = "native" /\ Len(cstk) = 2 /\ Len(calls) > act.low /\ act.low \in Nat
      /\ act = cstk[2]
  <2>1. act.low \in Nat  BY <1>1, RunFacts
  <2>. QED BY <1>1, <2>1, CoreFacts DEF WellNested, ModeFits, act
<1>3. Len(calls) = act.low + 1 /\ ci.etraps = 0 /\ Len(etraps) \in Nat
  BY <1>1, <1>2, LastFrameFacts
<1>4. cstk[1].kind = "exec" /\ cstk[1].low = 0 /\ act.low > 0
  BY <1>2, CoreFacts DEF WellNested, CallersFit, ActivationsNest, Stacks
<1>5. Len(calls) - 1 = act.low /\ Len(calls) - 1 \in 1 .. Len(calls) /\ Len(calls) > 0
  BY <1>2, <1>3, <1>4
<1>6. \A i \in 1 .. act.low : calls[i].root <=> i = 1
  <2>1. High(1) = act.low  BY <1>2 DEF High
  <2>2. RootsDelimitActivations  BY CoreFacts DEF WellNested
  <2>. QED BY <1>2, <1>4, <2>1, <2>2 DEF RootsDelimitActivations
<1>7. calls' \in Seq(Frame) /\ FrameLeft  BY <1>1, <1>5, CoreFacts, LeaveFrameFacts
<1>8. Len(calls') = act.low /\ \A i \in 1 .. act.low : calls'[i] = calls[i]
  BY <1>5, <1>7 DEF FrameLeft
<1>9. cstk' \in Seq(Activation) /\ Len(cstk') = 0  BY <1>1
<1>10. TypeOK'
  <2>1. stackbase' \in Int /\ top' \in Int  BY <1>1, <1>5, CoreFacts, LeftFacts
  <2>2. susp' \in Suspension
    <3>1. calls[Len(calls) - 1] \in Frame  BY <1>5, CoreFacts, SeqFacts
    <3>2. cstk[1] \in Activation
      <4>1. cstk \in Seq(Activation) /\ 1 \in 1 .. Len(cstk)  BY <1>2, CoreFacts
      <4>. QED BY <4>1, SeqFacts
    <3>3. calls[Len(calls) - 1].root \in BOOLEAN /\ cstk[1].traps \in Int
      BY <3>1, <3>2 DEF Frame, Activation
    <3>. QED BY <1>1, <3>3 DEF Suspension
  <2>3. mode' \in Mode  BY <1>1 DEF Mode
  <2>. QED BY <1>1, <1>7, <1>9, <2>1, <2>2, <2>3, CoreFacts DEF TypeOK
<1>11. TrapCounts'
  <2>1. Len(etraps') = Len(etraps) - ci.etraps  BY <1>1, <1>3
  <2>. QED BY <1>5, <1>7, <2>1, CoreFacts, CountsOnLeave
<1>12. WellNested'
  <2>1. susp'.on /\ Len(calls') > 0  BY <1>1, <1>4, <1>8
  <2>2. ActivationsNest' /\ CallersFit' /\ NativesHaveOneFrame' /\ RootsDelimitActivations'
    BY <1>9 DEF ActivationsNest, CallersFit, NativesHaveOneFrame, RootsDelimitActivations
  <2>3. ModeFits'  BY <1>1, <1>9, <2>1 DEF ModeFits
  <2>4. AbandonedHasOneFrame'  BY <1>1 DEF AbandonedHasOneFrame
  <2>. QED BY <2>2, <2>3, <2>4 DEF WellNested
<1>13. SavedRoots'
  <2>1. SavedRoots  BY CoreFacts
  <2>2. \A i \in 1 .. Len(calls') : calls'[i].root => calls'[i].gen \in HostGen \cup {NoGen}
    BY <1>2, <1>3, <1>8, <2>1 DEF SavedRoots
  <2>3. susp'.root <=> Len(calls') = 1
    <3>1. act.low \in 1 .. act.low  BY <1>2, <1>4
    <3>. QED BY <1>1, <1>5, <1>6, <1>8, <3>1
  <2>4. \A i \in 1 .. Len(calls') : calls'[i].root <=> i = 1  BY <1>6, <1>8
  <2>. QED BY <1>1, <2>1, <2>2, <2>3, <2>4 DEF SavedRoots
<1>. QED BY <1>10, <1>11, <1>12, <1>13 DEF CoreInv

\* Execute returns SUSPEND_FLAG and saves its local traps.
LEMMA SuspendKeeps == ASSUME CoreInv, Suspend PROVE CoreInv'
<1>1. CASE act.via = "op"  BY <1>1, SuspendedKeeps
<1>2. CASE act.via # "op"
  <2>1. /\ mode = "suspend" /\ mode # "abandon" /\ calls' = Pop(calls)
        /\ Finish(TRUE, LeftBase, LeftTop) /\ UNCHANGED <<etraps, gens, susp>>
        /\ Len(cstk) > 0
    BY <1>2, RunFacts DEF Suspend
  <2>2. act.kind = "native" /\ Len(calls) > act.low
    BY <2>1, CoreFacts DEF WellNested, ModeFits
  <2>3. \E ok \in BOOLEAN : Finish(ok, LeftBase, LeftTop)  BY <2>1, Zenon
  <2>. QED BY <2>1, <2>2, <2>3, NativeLeavesKeeps
<1>. QED BY <1>1, <1>2

\* lv_wakeupvm opens an activation on the saved traps and root flag.
LEMMA WakeupKeeps == ASSUME CoreInv, Wakeup PROVE CoreInv'
<1>1. /\ Len(cstk) = 0 /\ susp.on
      /\ calls' = SetLast(calls, [ci EXCEPT !.root = susp.root])
      /\ susp' = [susp EXCEPT !.on = FALSE] /\ mode' \in {"run", "raise"}
      /\ etraps' = etraps /\ stackbase' = stackbase /\ top' = top /\ gens' = gens
  BY RunFacts DEF Wakeup
<1>2. PICK raise \in BOOLEAN : Activate("exec", "wakeup", raise, susp.traps, 0, 0, 0)
  BY DEF Wakeup
<1>. DEFINE a == [ kind |-> "exec", via |-> "wakeup", raise |-> raise,
                   traps |-> susp.traps, low |-> 0, base |-> 0, top |-> 0 ]
            f == [ci EXCEPT !.root = susp.root]
<1>3. Len(calls) \in Nat /\ Len(calls) > 0
  BY <1>1, CoreFacts DEF WellNested, ModeFits
<1>4. susp \in Suspension /\ susp.root \in BOOLEAN /\ susp.traps \in Int
  BY CoreFacts DEF Suspension
<1>5. a \in Activation /\ a.low = 0 /\ a.kind = "exec" /\ a.via = "wakeup"
  BY <1>4 DEF Activation
<1>6. SavedRoots /\ (susp.root <=> Len(calls) = 1)
      /\ \A i \in 1 .. Len(calls) : calls[i].root <=> i = 1
  BY <1>1, CoreFacts DEF SavedRoots
<1>7. /\ f \in Frame /\ f.gen = ci.gen /\ f.tlow = ci.tlow /\ f.etraps = ci.etraps
      /\ f.root = susp.root
  <2>1. ci \in Frame  BY <1>3, CoreFacts, CallsFacts
  <2>. QED BY <1>4, <2>1 DEF Frame
<1>8. cstk' = Append(cstk, a) /\ calls' = SetLast(calls, f)
  BY <1>1, <1>2 DEF Activate
<1>. HIDE DEF a, f
<1>9. /\ cstk' \in Seq(Activation) /\ Len(cstk') = 1 /\ cstk'[1] = a
  <2>1. cstk' \in Seq(Activation) /\ ActPushed(a)  BY <1>5, <1>8, CoreFacts, ActPushedFacts
  <2>. QED BY <1>1, <2>1 DEF ActPushed
<1>10. /\ calls' \in Seq(Frame) /\ Len(calls') = Len(calls)
       /\ \A i \in 1 .. Len(calls) - 1 : calls'[i] = calls[i]
       /\ calls'[Len(calls)] = f
  <2>1. /\ SetLast(calls, f) \in Seq(Frame)
        /\ Len(SetLast(calls, f)) = Len(calls)
        /\ \A i \in 1 .. Len(calls) - 1 : SetLast(calls, f)[i] = calls[i]
        /\ SetLast(calls, f)[Len(calls)] = f
    BY <1>3, <1>7, CoreFacts, SetLastFacts
  <2>. QED BY <1>8, <2>1
<1>11. \A i \in 1 .. Len(calls) : (calls'[i].root <=> i = 1) /\ calls'[i].gen = calls[i].gen
  <2>. SUFFICES ASSUME NEW i \in 1 .. Len(calls)
                PROVE  (calls'[i].root <=> i = 1) /\ calls'[i].gen = calls[i].gen
    OBVIOUS
  <2>1. CASE i = Len(calls)  BY <1>6, <1>7, <1>10, <2>1 DEF ci
  <2>2. CASE i # Len(calls)
    <3>1. i \in 1 .. Len(calls) - 1  BY <1>3, <2>2
    <3>. QED BY <1>6, <1>10, <3>1
  <2>. QED BY <2>1, <2>2
<1>12. TypeOK'
  <2>1. susp' \in Suspension  BY <1>1, <1>4 DEF Suspension
  <2>2. mode' \in Mode  BY <1>1 DEF Mode
  <2>. QED BY <1>1, <1>9, <1>10, <2>1, <2>2, CoreFacts DEF TypeOK
<1>13. TrapCounts'
  <2>1. Len(etraps) \in Nat /\ ci.etraps \in Nat
    BY <1>3, CoreFacts, CallsFacts, SeqFacts
  <2>2. Len(etraps') = Len(etraps) + 0 /\ calls'[Len(calls)].etraps = ci.etraps + 0
        /\ calls'[Len(calls)].tlow = ci.tlow
    BY <1>1, <1>7, <1>10, <2>1
  <2>3. \E d \in Int : /\ Len(etraps') = Len(etraps) + d
                       /\ calls'[Len(calls)].etraps = ci.etraps + d
    BY <2>2
  <2>. QED BY <1>3, <1>10, <2>2, <2>3, CoreFacts, CountsInPlace
<1>14. WellNested'
  <2>1. act' = a  BY <1>9 DEF act
  <2>2. \A b \in 1 .. 1 : High(b)' = Len(calls)  BY <1>9, <1>10 DEF High
  <2>3. ~ susp'.on  BY <1>1, <1>4 DEF Suspension
  <2>4. ActivationsNest' /\ CallersFit'
    BY <1>3, <1>5, <1>9, <1>10 DEF ActivationsNest, CallersFit
  <2>5. ModeFits'
    BY <1>1, <1>3, <1>5, <1>9, <1>10, <2>1, <2>3 DEF ModeFits
  <2>6. NativesHaveOneFrame'
    BY <1>5, <1>9 DEF NativesHaveOneFrame
  <2>7. AbandonedHasOneFrame'  BY <1>1 DEF AbandonedHasOneFrame
  <2>8. RootsDelimitActivations'
    <3>. SUFFICES ASSUME NEW b \in 1 .. 1, NEW i \in 1 .. Len(calls)
                  PROVE  calls'[i].root <=> i = 1
      BY <1>1, <1>3, <1>5, <1>9, <1>10, <2>2 DEF RootsDelimitActivations
    <3>. QED BY <1>11
  <2>. QED BY <2>4, <2>5, <2>6, <2>7, <2>8 DEF WellNested
<1>15. SavedRoots'
  <2>1. ~ susp'.on  BY <1>1, <1>4 DEF Suspension
  <2>2. \A i \in 1 .. Len(calls') : calls'[i].root => calls'[i].gen \in HostGen \cup {NoGen}
    BY <1>6, <1>10, <1>11 DEF SavedRoots
  <2>. QED BY <1>1, <1>6, <2>1, <2>2 DEF SavedRoots
<1>. QED BY <1>12, <1>13, <1>14, <1>15 DEF CoreInv

----------------------------------------------------------------------------
(* The theorems.                                                           *)

\* A new VM satisfies CoreInv.
LEMMA InitEstablishes == ASSUME Init PROVE CoreInv
<1>1. /\ calls = <<>> /\ etraps = <<>> /\ stackbase = 0 /\ top = 0 /\ cstk = <<>>
      /\ mode = "run"
      /\ gens = [g \in Gen |-> [state |-> "none", root |-> FALSE, traps |-> <<>>, size |-> 0]]
      /\ susp = [on |-> FALSE, traps |-> 0, root |-> FALSE]
  BY DEF Init
<1>2. Len(calls) = 0 /\ Len(cstk) = 0 /\ Len(etraps) = 0  BY <1>1
<1>3. TypeOK
  <2>1. calls \in Seq(Frame) /\ etraps \in Seq(Trap) /\ cstk \in Seq(Activation)  BY <1>1
  <2>2. gens \in [Gen -> Generator]
    <3>1. <<>> \in Seq(Trap)  OBVIOUS
    <3>2. [state |-> "none", root |-> FALSE, traps |-> <<>>, size |-> 0] \in Generator
      BY <3>1 DEF Generator
    <3>. QED BY <1>1, <3>2
  <2>3. susp \in Suspension  BY <1>1 DEF Suspension
  <2>4. mode \in Mode  BY <1>1 DEF Mode
  <2>. QED BY <1>1, <2>1, <2>2, <2>3, <2>4 DEF TypeOK
<1>4. TrapCounts  BY <1>2 DEF TrapCounts, TrapsUpTo
<1>5. WellNested
  <2>1. ActivationsNest /\ CallersFit /\ NativesHaveOneFrame /\ RootsDelimitActivations
    BY <1>2 DEF ActivationsNest, CallersFit, NativesHaveOneFrame, RootsDelimitActivations
  <2>2. ModeFits  BY <1>1, <1>2 DEF ModeFits
  <2>3. AbandonedHasOneFrame  BY <1>1 DEF AbandonedHasOneFrame
  <2>. QED BY <2>1, <2>2, <2>3 DEF WellNested
<1>6. SavedRoots
  <2>1. \A g \in Gen : ~ gens[g].root  BY <1>1
  <2>. QED BY <1>1, <1>2, <2>1 DEF SavedRoots
<1>. QED BY <1>3, <1>4, <1>5, <1>6 DEF CoreInv

\* A step that changes nothing.
LEMMA StutterKeeps == ASSUME CoreInv, UNCHANGED vars PROVE CoreInv'
<1>1. top' \in Int /\ mode' = mode /\ UNCHANGED <<calls, etraps, stackbase, cstk, susp>>
      /\ gens' = gens
  BY CoreFacts DEF vars
<1>2. gens' \in [Gen -> Generator] /\ SavedGenRoots'  BY <1>1, KeptFacts
<1>. QED BY <1>1, <1>2, ModeKeeps

\* Every step of a Tame VM keeps CoreInv.
LEMMA NextKeeps == ASSUME CoreInv, Tame, [Next]_vars PROVE CoreInv'
<1>1. CASE LvCall  BY <1>1, LvCallKeeps
<1>2. CASE LvCallRefused \/ LvSetTop  BY <1>2, TopMovesKeep
<1>3. CASE CallMetaMethod  BY <1>3, CallMetaMethodKeeps
<1>4. CASE AbandonCall  BY <1>4, AbandonCallKeeps
<1>5. CASE OpCall  BY <1>5, OpCallKeeps
<1>6. CASE OpCallNative  BY <1>6, OpCallNativeKeeps
<1>7. CASE OpTailCall  BY <1>7, OpTailCallKeeps
<1>8. CASE OpThrow \/ LvSuspendVm \/ SkipErrorHandler  BY <1>8, ModeStepsKeep
<1>9. CASE OpPushTrap  BY <1>9, OpPushTrapKeeps
<1>10. CASE OpPopTrap  BY <1>10, OpPopTrapKeeps
<1>11. CASE OpReturn  BY <1>11, OpReturnKeeps
<1>12. CASE OpYield  BY <1>12, OpYieldKeeps
<1>13. CASE \E g \in Gen : CreateGenerator(g)  BY <1>13, CreateGeneratorKeeps
<1>14. CASE \E g \in Gen : OpResume(g)  BY <1>14, OpResumeKeeps
<1>15. CASE \E g \in Gen : OpResumeOverflow(g)  BY <1>15, OpResumeOverflowKeeps
<1>16. CASE \E g \in Gen : OpForeach(g)  BY <1>16, OpForeachKeeps
<1>17. CASE \E g \in Gen : LvResume(g)  BY <1>17, LvResumeKeeps
<1>18. CASE NativeReturn  BY <1>18, NativeReturnKeeps
<1>19. CASE Suspend  BY <1>19, SuspendKeeps
<1>20. CASE Wakeup  BY <1>20, WakeupKeeps
<1>21. CASE CallErrorHandler  BY <1>21, CallErrorHandlerKeeps
<1>22. CASE CatchError  BY <1>22, CatchErrorKeeps
<1>23. CASE UnwindFrame  BY <1>23, UnwindFrameKeeps
<1>24. CASE ReturnError  BY <1>24, ReturnErrorKeeps
<1>25. CASE UNCHANGED vars  BY <1>25, StutterKeeps
<1>. QED BY <1>1, <1>2, <1>3, <1>4, <1>5, <1>6, <1>7, <1>8, <1>9, <1>10, <1>11, <1>12,
            <1>13, <1>14, <1>15, <1>16, <1>17, <1>18, <1>19, <1>20, <1>21, <1>22,
            <1>23, <1>24, <1>25 DEF Next, Unwind

\* For every set of generators and every bound: while host and scripts do
\* not resume the same generator and no call made by a native overflows the
\* stack, the types, the trap counts, the nesting of frames in activations and
\* the root flags of saved frames (LVVM::Execute, LVGenerator) stay right.
THEOREM CoreInvariance == ASSUME Tame PROVE Spec => []CoreInv
<1>1. Init => CoreInv  BY InitEstablishes
<1>2. CoreInv /\ [Next]_vars => CoreInv'  BY NextKeeps
<1>. QED BY <1>1, <1>2, PTL DEF Spec

\* The state of the interpreter stays well typed: in particular Yield never
\* takes more traps away than _etraps holds, and the frame that Execute or a
\* native runs in is there whatever has unwound or returned above it.
THEOREM TypesOK == ASSUME Tame PROVE Spec => []TypeOK
<1>1. CoreInv => TypeOK  BY DEF CoreInv
<1>. QED BY <1>1, CoreInvariance, PTL

\* LVVM::Execute returns to its C++ caller exactly with its first frame: no
\* return, yield, error or wakeup runs on into the frames of the caller, or
\* leaves frames of its own behind.
THEOREM RootsDelimit == ASSUME Tame PROVE Spec => []RootsDelimitActivations
<1>1. CoreInv => RootsDelimitActivations  BY DEF CoreInv, WellNested
<1>. QED BY <1>1, CoreInvariance, PTL

----------------------------------------------------------------------------
(* Where the stacks of frames, traps and generators lie.  On top of        *)
(* CoreInv, shown above to hold, three more inductive invariants: the      *)
(* frames and the traps hold the stacks of their owners (StackInv), the    *)
(* local traps of every Execute count the traps of its frames              *)
(* (LocalTrapsAgree), and a generator runs in one frame at most            *)
(* (GeneratorsRunOnce).                                                    *)

----------------------------------------------------------------------------
(* The kinds of steps, by what they do to the stacks.  StepKinds, below,   *)
(* says that there are no others: each invariant is shown for the kinds.   *)

\* LVVM::EnterFrame, called with _top at curtop.
EntersFrame(f, curtop) ==
    /\ f \in Frame
    /\ FramePushed(f)
    /\ f.pbase = f.base - stackbase
    /\ f.ptop = curtop - stackbase
    /\ f.tlow = Len(etraps)
    /\ stackbase' = f.base
    /\ top' = f.top

\* The frame that is entered has no traps, or is that of g, which comes back
\* with the traps it had, absolute again.
BringsNothing(f) ==
    /\ f.gen = NoGen /\ f.etraps = 0
    /\ etraps' = etraps /\ gens' = gens

BringsGenerator(f, g) ==
    /\ g \in Gen
    /\ gens[g].state = "suspended"
    /\ f.gen = g
    /\ f.etraps = Len(gens[g].traps)
    /\ f.top = f.base + gens[g].size
    /\ Len(etraps') = Len(etraps) + f.etraps
    /\ \A k \in 1 .. Len(etraps) : etraps'[k] = etraps[k]
    /\ \A k \in 1 .. f.etraps :
          LET et == gens[g].traps[f.etraps + 1 - k]
          IN  etraps'[Len(etraps) + k] = [base |-> et.base + f.base, size |-> et.size + f.base]
    /\ gens'[g].state = "running" /\ gens'[g].traps = <<>>
    /\ \A h \in Gen \ {g} : gens'[h] = gens[h]

\* The innermost frame is left, its traps are gone, and its generator is
\* dead or has saved them.
LeavesFrame ==
    /\ Len(calls) > 0
    /\ FrameLeft
    /\ stackbase' = LeftBase
    /\ Len(etraps') = Len(etraps) - ci.etraps
    /\ \A k \in 1 .. Len(etraps) - ci.etraps : etraps'[k] = etraps[k]
    /\ \/ ci.gen = NoGen /\ gens' = gens
       \/ /\ ci.gen \in Gen
          /\ gens'[ci.gen].state # "running"
          /\ \/ /\ gens'[ci.gen].traps = gens[ci.gen].traps
                /\ gens'[ci.gen].size = gens[ci.gen].size
             \/ /\ InExec
                /\ gens'[ci.gen].traps = SavedTraps
                /\ gens'[ci.gen].size = top - stackbase
          /\ \A h \in Gen \ {ci.gen} : gens'[h] = gens[h]

\* The activations stay, the innermost with d local traps more.
ActStays(d) ==
    /\ Len(cstk') = Len(cstk)
    /\ \A a \in 1 .. Len(cstk) :
          /\ cstk'[a].kind = cstk[a].kind
          /\ cstk'[a].via = cstk[a].via
          /\ cstk'[a].low = cstk[a].low
          /\ cstk'[a].base = cstk[a].base
          /\ cstk'[a].top = cstk[a].top
          /\ cstk'[a].traps = cstk[a].traps + (IF a = Len(cstk) THEN d ELSE 0)

\* An instruction enters frame f.
Enters(f, d) ==
    /\ InExec
    /\ EntersFrame(f, top)
    /\ ActStays(d)
    /\ TryInForeach \/ d = f.etraps
    /\ BringsNothing(f) \/ \E g \in Gen : BringsGenerator(f, g)
    /\ mode' \in {"run", "raise"}
    /\ susp' = susp

\* Activation a begins with frame f.
Opens(a, f) ==
    /\ ActPushed(a) /\ MayOpen(a)
    /\ a.base = stackbase /\ a.top = top
    /\ a.kind = "exec" => a.traps = f.etraps
    /\ EntersFrame(f, top + Pushed(a.via))
    /\ BringsNothing(f) \/ \E g \in Gen : BringsGenerator(f, g)
    /\ mode' \in {"run", "abandon"}
    /\ mode' = "run" => a.kind = "exec" \/ a.kind = "native"
    /\ susp' = susp

\* Activation a begins with a call that does not start.
OpensEmpty(a) ==
    /\ ActPushed(a) /\ MayOpen(a)
    /\ a.base = stackbase /\ a.top = top
    /\ a.traps = 0
    /\ top' = top + Pushed(a.via)
    /\ mode' = "raise"
    /\ UNCHANGED <<calls, etraps, stackbase, gens, susp>>

\* The innermost frame of Execute becomes f.
Changes(f, d) ==
    /\ Len(cstk) > 0 /\ act.kind = "exec" /\ Len(calls) > act.low
    /\ Len(calls') = Len(calls)
    /\ \A i \in 1 .. Len(calls) - 1 : calls'[i] = calls[i]
    /\ calls'[Len(calls)] = f
    /\ f.pbase = ci.pbase /\ f.ptop = ci.ptop /\ f.base = ci.base
    /\ f.gen = ci.gen /\ f.tlow = ci.tlow
    /\ d \in Int /\ f.etraps = ci.etraps + d
    /\ ActStays(d)
    /\ UNCHANGED <<gens, susp>>
    /\ mode' \in {"run", "raise"}

\* _OP_TAILCALL, _OP_PUSHTRAP, _OP_POPTRAP and a catch do it.
Reuses(f) ==
    /\ Changes(f, 0) /\ InExec
    /\ f.etraps = 0 /\ f.top = top'
    /\ stackbase' = stackbase /\ etraps' = etraps

Arms(f) ==
    /\ Changes(f, 1) /\ InExec
    /\ f.top = ci.top
    /\ stackbase' = stackbase /\ top' = top
    /\ etraps' \in Seq(Trap)
    /\ Len(etraps') = Len(etraps) + 1
    /\ \A k \in 1 .. Len(etraps) : etraps'[k] = etraps[k]
    /\ etraps'[Len(etraps) + 1] = [base |-> stackbase, size |-> top]

Disarms(f, d) ==
    /\ Changes(f, d) /\ d = -1
    /\ f.top = ci.top /\ ci.etraps > 0
    /\ Len(etraps') = Len(etraps) - 1
    /\ \A k \in 1 .. Len(etraps) - 1 : etraps'[k] = etraps[k]
    /\ \/ InExec /\ stackbase' = stackbase /\ top' = top
       \/ /\ stackbase' = etraps[Len(etraps)].base
          /\ top' = etraps[Len(etraps)].size
    /\ mode # "abandon" /\ mode' = "run"

\* Execute leaves a frame and goes on in the one below.
Leaves ==
    /\ Len(cstk) > 0 /\ act.kind = "exec" /\ mode \in {"run", "unwind"}
    /\ Len(calls) > act.low + 1
    /\ LeavesFrame
    /\ top' = LeftTop
    /\ \E d \in Int : d + ci.etraps = 0 /\ ActStays(d)
    /\ mode' = mode /\ susp' = susp

\* An activation returns with its last frame.
Returns(ok) ==
    /\ Len(cstk) > 0 /\ Len(calls) = act.low + 1
    /\ LeavesFrame
    /\ ActLeft
    /\ top' = LeftTop - Popped(act, ok)
    /\ mode # "abandon" /\ mode' = Continues(act, ok)
    /\ susp' = susp

\* An activation returns and leaves no frame: it had none, or EnterFrame had
\* refused its call.
ReturnsEmpty ==
    /\ Len(cstk) > 0
    /\ \/ mode = "unwind" /\ Len(calls) = act.low
       \/ mode = "abandon" /\ Len(calls) = act.low + 1
    /\ ActLeft
    /\ top' = top - Popped(act, FALSE)
    /\ mode' = Continues(act, FALSE)
    /\ UNCHANGED <<calls, etraps, stackbase, gens, susp>>

\* Execute and the native above it go, the frames of Execute stay.
Suspends ==
    /\ Len(cstk) = 2 /\ act.via = "op" /\ mode = "suspend"
    /\ Len(calls) = act.low + 1 /\ act.low > 0
    /\ cstk[1].kind = "exec" /\ cstk[1].low = 0
    /\ LeavesFrame
    /\ top' = LeftTop
    /\ Len(cstk') = 0 /\ mode' = "run"
    /\ susp'.on /\ susp'.traps = cstk[1].traps

\* Execute takes the frames of a suspended VM up again.
Wakes(a, f) ==
    /\ Len(cstk) = 0 /\ susp.on
    /\ ActPushed(a)
    /\ a.kind = "exec" /\ a.via = "wakeup" /\ a.low = 0 /\ a.traps = susp.traps
    /\ Len(calls) > 0 /\ Len(calls') = Len(calls)
    /\ \A i \in 1 .. Len(calls) - 1 : calls'[i] = calls[i]
    /\ calls'[Len(calls)] = f
    /\ f.pbase = ci.pbase /\ f.ptop = ci.ptop /\ f.base = ci.base /\ f.top = ci.top
    /\ f.gen = ci.gen /\ f.tlow = ci.tlow /\ f.etraps = ci.etraps
    /\ UNCHANGED <<etraps, stackbase, top, gens>>
    /\ ~ susp'.on /\ mode' \in {"run", "raise"}

\* The frames, traps and activations stay.
Keeps ==
    /\ UNCHANGED <<calls, etraps, stackbase, cstk, susp>>
    /\ \/ top' = top /\ gens' = gens /\ Len(cstk) > 0
            /\ mode \in {"run", "raise"} /\ mode' \in {"raise", "unwind", "suspend"}
       \/ mode' = mode /\ gens' = gens /\ MayCallApi
       \/ /\ mode' = mode /\ top' = top
          /\ \E g \in Gen :
                /\ gens[g].state = "none"
                /\ gens'[g].state = "suspended" /\ gens'[g].traps = <<>>
                /\ \A h \in Gen \ {g} : gens'[h] = gens[h]
       \/ mode' = mode /\ top' = top /\ gens' = gens

----------------------------------------------------------------------------
(* The actions are of these kinds.                                         *)

\* NewFrame gives the frame the way back to the current stack.
LEMMA NewFrameStack ==
    ASSUME NEW curtop, NEW base, NEW newtop
    PROVE  /\ NewFrame(curtop, base, newtop).pbase = base - stackbase
           /\ NewFrame(curtop, base, newtop).ptop = curtop - stackbase
           /\ NewFrame(curtop, base, newtop).base = base
           /\ NewFrame(curtop, base, newtop).top = newtop
  BY DEF NewFrame

\* EnterFrame with a frame NewFrame made.
LEMMA NewFrameEnters ==
    ASSUME CoreInv, NEW curtop \in Int, NEW base \in Int, NEW newtop \in Int,
           EnterFrame(NewFrame(curtop, base, newtop))
    PROVE  LET f == NewFrame(curtop, base, newtop)
           IN  EntersFrame(f, curtop) /\ f.gen = NoGen /\ f.etraps = 0 /\ f.root = FALSE
<1>. DEFINE f == NewFrame(curtop, base, newtop)
<1>1. /\ f \in Frame /\ f.gen = NoGen /\ f.etraps = 0 /\ f.root = FALSE
      /\ f.tlow = Len(etraps)
  BY ZenonT(30), CoreFacts, NewFrameFacts
<1>2. /\ f.pbase = base - stackbase /\ f.ptop = curtop - stackbase
      /\ f.base = base /\ f.top = newtop
  BY NewFrameStack
<1>3. EnterFrame(f)  OBVIOUS
<1>. HIDE DEF f
<1>4. FramePushed(f)  BY <1>1, <1>3, CoreFacts, EnterFrameFacts
<1>5. stackbase' = f.base /\ top' = f.top  BY <1>3 DEF EnterFrame
<1>6. EntersFrame(f, curtop)  BY <1>1, <1>2, <1>4, <1>5 DEF EntersFrame
<1>. QED BY <1>1, <1>6 DEF f

\* The same with the root flag of Execute.
LEMMA RootFrameEnters ==
    ASSUME CoreInv, NEW g \in Frame, NEW curtop \in Int,
           EnterFrame([g EXCEPT !.root = TRUE]),
           g.pbase = g.base - stackbase, g.ptop = curtop - stackbase, g.tlow = Len(etraps)
    PROVE  LET f == [g EXCEPT !.root = TRUE]
           IN  /\ EntersFrame(f, curtop)
               /\ f.gen = g.gen /\ f.etraps = g.etraps /\ f.base = g.base /\ f.top = g.top
<1>. DEFINE f == [g EXCEPT !.root = TRUE]
<1>1. /\ f \in Frame /\ f.gen = g.gen /\ f.etraps = g.etraps /\ f.base = g.base
      /\ f.top = g.top /\ f.pbase = g.pbase /\ f.ptop = g.ptop /\ f.tlow = g.tlow
  BY DEF Frame
<1>3. EnterFrame(f)  OBVIOUS
<1>. HIDE DEF f
<1>4. FramePushed(f)  BY <1>1, <1>3, CoreFacts, EnterFrameFacts
<1>5. stackbase' = f.base /\ top' = f.top  BY <1>3 DEF EnterFrame
<1>6. EntersFrame(f, curtop)  BY <1>1, <1>4, <1>5 DEF EntersFrame
<1>. QED BY <1>1, <1>6 DEF f

\* The activations stay, or the innermost counts other traps.
LEMMA ActStaysFacts ==
    ASSUME CoreInv
    PROVE  /\ cstk' = cstk => ActStays(0)
           /\ \A d \in Int :
                 Len(cstk) > 0 /\ cstk' = SetLast(cstk, [act EXCEPT !.traps = act.traps + d])
                   => ActStays(d)
<1>1. \A a \in 1 .. Len(cstk) : cstk[a] \in Activation  BY CoreFacts, SeqFacts
<1>2. \A a \in 1 .. Len(cstk) : cstk[a].traps \in Int  BY <1>1 DEF Activation
<1>3. cstk' = cstk => ActStays(0)  BY <1>2 DEF ActStays
<1>4. ASSUME NEW d \in Int, Len(cstk) > 0,
             cstk' = SetLast(cstk, [act EXCEPT !.traps = act.traps + d])
      PROVE  ActStays(d)
  <2>. DEFINE e == [act EXCEPT !.traps = act.traps + d]
  <2>1. Len(cstk) \in Nat /\ Len(cstk) \in 1 .. Len(cstk) /\ act = cstk[Len(cstk)]
    BY <1>4, CoreFacts, SeqFacts DEF act
  <2>2. act \in Activation /\ act.traps + d \in Int  BY <1>1, <1>2, <2>1
  <2>3. /\ e \in Activation /\ e.kind = act.kind /\ e.via = act.via /\ e.low = act.low
        /\ e.base = act.base /\ e.top = act.top /\ e.traps = act.traps + d
    BY <2>2 DEF Activation
  <2>4. cstk' = SetLast(cstk, e)  BY <1>4
  <2>. HIDE DEF e
  <2>5. /\ Len(cstk') = Len(cstk)
        /\ \A a \in 1 .. Len(cstk) - 1 : cstk'[a] = cstk[a]
        /\ cstk'[Len(cstk)] = e
    <3>1. /\ Len(SetLast(cstk, e)) = Len(cstk)
          /\ \A a \in 1 .. Len(cstk) - 1 : SetLast(cstk, e)[a] = cstk[a]
          /\ SetLast(cstk, e)[Len(cstk)] = e
      BY <1>4, <2>3, CoreFacts, SetLastFacts
    <3>. QED BY <2>4, <3>1
  <2>6. ASSUME NEW a \in 1 .. Len(cstk)
        PROVE  /\ cstk'[a].kind = cstk[a].kind
               /\ cstk'[a].via = cstk[a].via
               /\ cstk'[a].low = cstk[a].low
               /\ cstk'[a].base = cstk[a].base
               /\ cstk'[a].top = cstk[a].top
               /\ cstk'[a].traps = cstk[a].traps + (IF a = Len(cstk) THEN d ELSE 0)
    <3>1. CASE a = Len(cstk)  BY <2>1, <2>3, <2>5, <3>1
    <3>2. CASE a # Len(cstk)
      <4>1. a \in 1 .. Len(cstk) - 1  BY <2>1, <3>2
      <4>2. cstk'[a] = cstk[a] /\ cstk[a].traps + 0 = cstk[a].traps  BY <1>2, <2>5, <4>1
      <4>. QED BY <3>2, <4>2
    <3>. QED BY <3>1, <3>2
  <2>. QED BY <2>5, <2>6 DEF ActStays
<1>. QED BY <1>3, <1>4

\* _OP_CALL of a script function, and Resume without room on the stack.
LEMMA OpCallEnters == ASSUME CoreInv, OpCall PROVE \E f \in Frame, d \in Int : Enters(f, d)
<1>1. PICK size \in FrameSizes :
        EnterFrame(NewFrame(top, stackbase + ArgBase, stackbase + ArgBase + size))
  BY DEF OpCall
<1>. DEFINE f == NewFrame(top, stackbase + ArgBase, stackbase + ArgBase + size)
<1>2. /\ stackbase + ArgBase \in Int /\ stackbase + ArgBase + size \in Int /\ top \in Int
  BY SizesAreNumbers, CoreFacts DEF ArgBase
<1>3. EntersFrame(f, top) /\ f.gen = NoGen /\ f.etraps = 0
  BY <1>1, <1>2, NewFrameEnters
<1>4. f \in Frame  BY <1>3 DEF EntersFrame
<1>. HIDE DEF f
<1>5. ActStays(0)  BY ActStaysFacts DEF OpCall
<1>6. Enters(f, 0)  BY <1>3, <1>5 DEF Enters, OpCall, BringsNothing
<1>. QED BY <1>4, <1>6

LEMMA OpResumeOverflowEnters ==
    ASSUME CoreInv, NEW g \in Gen, OpResumeOverflow(g)
    PROVE  \E f \in Frame, d \in Int : Enters(f, d)
<1>. DEFINE f == NewFrame(top, top, top + gens[g].size)
<1>1. top \in Int /\ top + gens[g].size \in Int
  <2>1. gens[g] \in Generator  BY CoreFacts
  <2>. QED BY <2>1, CoreFacts DEF Generator
<1>2. EntersFrame(f, top) /\ f.gen = NoGen /\ f.etraps = 0
  BY <1>1, NewFrameEnters DEF OpResumeOverflow
<1>3. f \in Frame  BY <1>2 DEF EntersFrame
<1>. HIDE DEF f
<1>4. ActStays(0)  BY ActStaysFacts DEF OpResumeOverflow
<1>5. Enters(f, 0)  BY <1>2, <1>4 DEF Enters, OpResumeOverflow, BringsNothing
<1>. QED BY <1>3, <1>5

\* The frame of a generator that comes back.
LEMMA ResumeFrameStack ==
    ASSUME CoreInv, NEW g \in Gen, NEW curtop \in Int
    PROVE  /\ ResumeFrame(g, curtop).pbase = ResumeFrame(g, curtop).base - stackbase
           /\ ResumeFrame(g, curtop).ptop = curtop - stackbase
           /\ ResumeFrame(g, curtop).base = curtop
           /\ ResumeFrame(g, curtop).top = curtop + gens[g].size
<1>. DEFINE f == NewFrame(curtop, curtop, curtop + gens[g].size)
<1>1. f \in Frame
  <2>1. gens[g] \in Generator  BY CoreFacts
  <2>2. curtop + gens[g].size \in Int  BY <2>1 DEF Generator
  <2>. QED BY <2>2, CoreFacts, NewFrameFacts
<1>2. /\ f.pbase = curtop - stackbase /\ f.ptop = curtop - stackbase
      /\ f.base = curtop /\ f.top = curtop + gens[g].size
  BY NewFrameStack
<1>3. ResumeFrame(g, curtop) =
        [f EXCEPT !.gen = g, !.etraps = Len(gens[g].traps), !.root = gens[g].root]
  BY DEF ResumeFrame
<1>. HIDE DEF f
<1>. QED BY <1>1, <1>2, <1>3 DEF Frame

\* Traps put on top of traps, point by point.
LEMMA ConcatPoints ==
    ASSUME NEW S, NEW s \in Seq(S), NEW t \in Seq(S), NEW u, u = s \o t
    PROVE  /\ Len(u) = Len(s) + Len(t)
           /\ \A k \in 1 .. Len(s) : u[k] = s[k]
           /\ \A k \in 1 .. Len(t) : u[Len(s) + k] = t[k]
  BY ConcatFacts

\* LVGenerator::Resume brings the traps back in their old order.
LEMMA ResumeBrings ==
    ASSUME CoreInv, NEW g \in Gen, NEW curtop \in Int, Resume(g, curtop), NEW f,
           f.gen = g, f.etraps = Len(gens[g].traps), f.base = curtop,
           f.top = curtop + gens[g].size
    PROVE  BringsGenerator(f, g)
<1>. DEFINE n == Len(gens[g].traps)
            saved(k) == gens[g].traps[n + 1 - k]
<1>1. gens[g] \in Generator /\ gens \in [Gen -> Generator] /\ etraps \in Seq(Trap)
  BY CoreFacts
<1>2. n \in Nat /\ gens[g].traps \in Seq(Trap)
  BY <1>1, SeqFacts DEF Generator
<1>3. etraps' = etraps \o RestoredTraps(g, curtop)  BY DEF Resume
<1>4. /\ RestoredTraps(g, curtop) \in Seq(Trap)
      /\ Len(RestoredTraps(g, curtop)) = n
      /\ \A k \in 1 .. n : RestoredTraps(g, curtop)[k] =
            [base |-> saved(k).base + curtop, size |-> saved(k).size + curtop]
  <2>0. \A k \in 1 .. n : gens[g].traps[k] \in Trap  BY <1>2, SeqFacts
  <2>1. ASSUME NEW k \in 1 .. n
        PROVE  [base |-> saved(k).base + curtop, size |-> saved(k).size + curtop] \in Trap
    <3>1. n + 1 - k \in 1 .. n  BY <1>2
    <3>2. saved(k) \in Trap  BY ONLY <2>0, <3>1
    <3>3. saved(k).base \in Int /\ saved(k).size \in Int  BY ONLY <3>2 DEF Trap
    <3>4. saved(k).base + curtop \in Int /\ saved(k).size + curtop \in Int
      BY ONLY <3>3, curtop \in Int
    <3>. QED BY ONLY <3>4 DEF Trap
  <2>2. RestoredTraps(g, curtop) =
          [k \in 1 .. n |-> [base |-> saved(k).base + curtop, size |-> saved(k).size + curtop]]
    BY DEF RestoredTraps
  <2>. HIDE DEF n, saved
  <2>3. RestoredTraps(g, curtop) \in [1 .. n -> Trap]  BY <2>1, <2>2
  <2>4. RestoredTraps(g, curtop) \in Seq(Trap) /\ Len(RestoredTraps(g, curtop)) = n
    BY <1>2, <2>3, SeqDef
  <2>. QED BY <2>2, <2>4
<1>. DEFINE r == RestoredTraps(g, curtop)
<1>5. r \in Seq(Trap) /\ etraps' = etraps \o r /\ Len(r) = n
  BY <1>3, <1>4
<1>. HIDE DEF r, n, saved
<1>9. /\ Len(etraps') = Len(etraps) + Len(r)
      /\ \A k \in 1 .. Len(etraps) : etraps'[k] = etraps[k]
      /\ \A k \in 1 .. Len(r) : etraps'[Len(etraps) + k] = r[k]
  <2>1. etraps \in Seq(Trap)  BY <1>1
  <2>2. etraps' = etraps \o r  BY <1>5
  <2>3. r \in Seq(Trap)  BY <1>5
  <2>. QED BY <2>1, <2>2, <2>3, ConcatPoints
<1>6. gens' = [gens EXCEPT ![g] = [gens[g] EXCEPT !.state = "running", !.traps = <<>>]]
      /\ gens[g].state = "suspended"
  BY <1>1 DEF Resume
<1>7. /\ gens'[g].state = "running" /\ gens'[g].traps = <<>>
      /\ \A h \in Gen \ {g} : gens'[h] = gens[h]
  BY <1>1, <1>6 DEF Generator
<1>8. \A k \in 1 .. n : etraps'[Len(etraps) + k] =
            [base |-> saved(k).base + f.base, size |-> saved(k).size + f.base]
  BY <1>4, <1>5, <1>9 DEF r
<1>. QED BY SMTT(30), <1>5, <1>6, <1>7, <1>8, <1>9 DEF BringsGenerator, n, saved

\* _OP_RESUME and _OP_FOREACH.
LEMMA ScriptResumeEnters ==
    ASSUME CoreInv, NEW g \in Gen, OpResume(g) \/ OpForeach(g)
    PROVE  \E f \in Frame, d \in Int : Enters(f, d)
<1>1. /\ InExec /\ Resume(g, top) /\ EnterFrame(ResumeFrame(g, top))
      /\ mode' = mode /\ susp' = susp
  BY DEF OpResume, OpForeach
<1>2. top \in Int  BY CoreFacts
<1>. DEFINE f == ResumeFrame(g, top)
<1>3. /\ f \in Frame /\ f.gen = g /\ f.etraps = Len(gens[g].traps) /\ f.tlow = Len(etraps)
  BY <1>2, ResumeFrameFacts
<1>4. /\ f.pbase = f.base - stackbase /\ f.ptop = top - stackbase
      /\ f.base = top /\ f.top = top + gens[g].size
  BY <1>2, ResumeFrameStack
<1>5. EnterFrame(f)  BY <1>1
<1>. HIDE DEF f
<1>6. EntersFrame(f, top)
  <2>1. FramePushed(f)  BY <1>3, <1>5, CoreFacts, EnterFrameFacts
  <2>2. stackbase' = f.base /\ top' = f.top  BY <1>5 DEF EnterFrame
  <2>. QED BY <1>3, <1>4, <2>1, <2>2 DEF EntersFrame
<1>7. BringsGenerator(f, g)  BY <1>1, <1>2, <1>3, <1>4, ResumeBrings
<1>8. PICK d \in Int : ActStays(d) /\ (TryInForeach \/ d = f.etraps)
  <2>1. f.etraps \in Nat  BY <1>3 DEF Frame
  <2>2. CASE OpResume(g)
    <3>1. cstk' = SetLast(cstk, [act EXCEPT !.traps = act.traps + f.etraps])
      BY <1>3, <2>2 DEF OpResume
    <3>2. Len(cstk) > 0  BY <1>1, RunFacts
    <3>3. f.etraps \in Int  BY <2>1
    <3>. QED BY <3>1, <3>2, <3>3, ActStaysFacts
  <2>3. CASE OpForeach(g)
    <3>1. ActStays(0)  BY <2>3, ActStaysFacts DEF OpForeach
    <3>2. TryInForeach \/ f.etraps = 0  BY <1>3, <2>3 DEF OpForeach
    <3>. QED BY <3>1, <3>2
  <2>. QED BY <2>2, <2>3
<1>9. mode' \in {"run", "raise"}  BY <1>1, RunFacts
<1>10. Enters(f, d)  BY <1>1, <1>6, <1>7, <1>8, <1>9 DEF Enters
<1>. QED BY <1>3, <1>10

\* lv_resume.
LEMMA LvResumeOpens ==
    ASSUME CoreInv, NEW g \in Gen, LvResume(g)
    PROVE  \E a \in Activation, f \in Frame : Opens(a, f)
<1>1. /\ MayCallApi /\ Resume(g, top + 1)
      /\ EnterFrame([ResumeFrame(g, top + 1) EXCEPT !.root = TRUE])
      /\ mode' = mode /\ susp' = susp
  BY DEF LvResume, MayPush
<1>2. PICK raise \in BOOLEAN :
        Activate("exec", "resume", raise, Len(gens[g].traps), Len(calls), stackbase, top)
  BY DEF LvResume
<1>3. /\ top + 1 \in Int /\ top \in Int /\ stackbase \in Int /\ Len(calls) \in Nat
      /\ Len(gens[g].traps) \in Nat
  <2>1. top + 1 \in Int  BY CoreFacts
  <2>. QED BY <1>1, <2>1, CoreFacts, ResumeFacts
<1>. DEFINE r == ResumeFrame(g, top + 1)
            f == [r EXCEPT !.root = TRUE]
            a == [ kind |-> "exec", via |-> "resume", raise |-> raise,
                   traps |-> Len(gens[g].traps), low |-> Len(calls),
                   base |-> stackbase, top |-> top ]
<1>4. /\ r \in Frame /\ r.gen = g /\ r.etraps = Len(gens[g].traps) /\ r.tlow = Len(etraps)
      /\ r.pbase = r.base - stackbase /\ r.ptop = (top + 1) - stackbase
      /\ r.base = top + 1 /\ r.top = top + 1 + gens[g].size
  BY <1>3, ResumeFrameFacts, ResumeFrameStack
<1>5. EnterFrame([r EXCEPT !.root = TRUE])  BY <1>1
<1>6. /\ a \in Activation /\ a.kind = "exec" /\ a.via = "resume" /\ a.low = Len(calls)
      /\ a.base = stackbase /\ a.top = top /\ a.traps = Len(gens[g].traps)
  BY <1>3 DEF Activation
<1>7. cstk' = Append(cstk, a)  BY <1>2 DEF Activate
<1>. HIDE DEF r, a
<1>8. /\ EntersFrame(f, top + 1)
      /\ f.gen = g /\ f.etraps = Len(gens[g].traps) /\ f.base = top + 1
      /\ f.top = top + 1 + gens[g].size
  BY <1>3, <1>4, <1>5, RootFrameEnters
<1>. HIDE DEF f
<1>9. BringsGenerator(f, g)  BY <1>1, <1>3, <1>8, ResumeBrings
<1>10. ActPushed(a)  BY <1>6, <1>7, CoreFacts, ActPushedFacts
<1>11. mode = "run" /\ ~ susp.on /\ (Len(cstk) = 0 \/ act.kind = "native")
  BY <1>1, ApiFacts
<1>12. MayOpen(a)  BY <1>6, <1>11 DEF MayOpen
<1>13. Pushed(a.via) = 1  BY <1>6 DEF Pushed
<1>14. Opens(a, f)
  BY <1>1, <1>6, <1>8, <1>9, <1>10, <1>11, <1>12, <1>13 DEF Opens
<1>15. f \in Frame  BY <1>8 DEF EntersFrame
<1>. QED BY <1>6, <1>14, <1>15

\* LVVM::Call of a script function.
LEMMA ExecuteCallOpens ==
    ASSUME CoreInv, NEW via \in {"api", "meta", "handler"}, NEW nparams \in Int,
           NEW raise \in BOOLEAN, ExecuteCall(via, 2, nparams, raise), MayCall(via)
    PROVE  \E a \in Activation : OpensEmpty(a) \/ \E f \in Frame : Opens(a, f)
<1>. DEFINE a == [ kind |-> "exec", via |-> via, raise |-> raise, traps |-> 0,
                   low |-> Len(calls), base |-> stackbase, top |-> top ]
<1>1. /\ top \in Int /\ stackbase \in Int /\ Len(calls) \in Nat  BY CoreFacts
<1>2. /\ a \in Activation /\ a.kind = "exec" /\ a.via = via /\ a.low = Len(calls)
      /\ a.base = stackbase /\ a.top = top /\ a.traps = 0
  BY <1>1 DEF Activation
<1>3. cstk' = Append(cstk, a) /\ etraps' = etraps /\ gens' = gens /\ susp' = susp
  BY DEF ExecuteCall, Activate
<1>. HIDE DEF a
<1>4. ActPushed(a)  BY <1>2, <1>3, CoreFacts, ActPushedFacts
<1>5. MayOpen(a)  BY <1>2 DEF MayCall, MayOpen
<1>6. Pushed(a.via) = 2  BY <1>2 DEF Pushed
<1>7. ASSUME NEW size \in FrameSizes
      PROVE  /\ top + 2 \in Int /\ top + 2 - nparams \in Int
             /\ top + 2 - nparams + size \in Int
             /\ CallFrame(2, nparams, size)
                  = NewFrame(top + 2, top + 2 - nparams, top + 2 - nparams + size)
  <2>1. size \in Int  BY SizesAreNumbers
  <2>. QED BY <1>1, <2>1 DEF CallFrame
<1>8. CASE /\ \E size \in FrameSizes :
                 EnterFrame([CallFrame(2, nparams, size) EXCEPT !.root = TRUE])
           /\ mode' = "run"
  <2>1. PICK size \in FrameSizes :
          EnterFrame([CallFrame(2, nparams, size) EXCEPT !.root = TRUE])
    BY <1>8
  <2>. DEFINE base == top + 2 - nparams
              g == NewFrame(top + 2, base, base + size)
              f == [g EXCEPT !.root = TRUE]
  <2>2. base \in Int /\ base + size \in Int /\ top + 2 \in Int  BY <1>7
  <2>3. EnterFrame(f)  BY <1>7, <2>1
  <2>. HIDE DEF base
  <2>4. /\ g \in Frame /\ g.gen = NoGen /\ g.etraps = 0 /\ g.tlow = Len(etraps)
    BY ZenonT(30), <2>2, CoreFacts, NewFrameFacts
  <2>5. g.pbase = g.base - stackbase /\ g.ptop = (top + 2) - stackbase
    BY NewFrameStack
  <2>. HIDE DEF g
  <2>6. EntersFrame(f, top + 2) /\ f.gen = NoGen /\ f.etraps = 0
    BY <2>2, <2>3, <2>4, <2>5, RootFrameEnters
  <2>. HIDE DEF f
  <2>7. f \in Frame  BY <2>6 DEF EntersFrame
  <2>8. Opens(a, f)
    BY <1>2, <1>3, <1>4, <1>5, <1>6, <1>8, <2>6 DEF Opens, BringsNothing
  <2>. QED BY <1>2, <2>7, <2>8
<1>9. CASE mode' = "raise" /\ top' = top + 2 /\ UNCHANGED <<calls, stackbase>>
  BY <1>2, <1>3, <1>4, <1>5, <1>6, <1>9 DEF OpensEmpty
<1>10. CASE /\ \E size \in FrameSizes : EnterFrame(CallFrame(2, nparams, size))
            /\ mode' = "abandon"
  <2>1. PICK size \in FrameSizes : EnterFrame(CallFrame(2, nparams, size))
    BY <1>10
  <2>. DEFINE base == top + 2 - nparams
              f == NewFrame(top + 2, base, base + size)
  <2>2. base \in Int /\ base + size \in Int /\ top + 2 \in Int  BY <1>7
  <2>3. EnterFrame(f)  BY <1>7, <2>1
  <2>. HIDE DEF base
  <2>4. EntersFrame(f, top + 2) /\ f.gen = NoGen /\ f.etraps = 0
    BY <2>2, <2>3, NewFrameEnters
  <2>. HIDE DEF f
  <2>5. f \in Frame  BY <2>4 DEF EntersFrame
  <2>6. Opens(a, f)
    BY <1>2, <1>3, <1>4, <1>5, <1>6, <1>10, <2>4 DEF Opens, BringsNothing
  <2>. QED BY <1>2, <2>5, <2>6
<1>. QED BY <1>8, <1>9, <1>10 DEF ExecuteCall

\* CallNative up to the call of the function.
LEMMA CallNativeOpens ==
    ASSUME CoreInv, NEW via \in {"api", "meta", "handler", "op"},
           NEW base \in Int, NEW nparams \in Int, NEW pushed \in Int, pushed = Pushed(via),
           CallNative(via, pushed, base, nparams), MayCall(via)
    PROVE  \E a \in Activation, f \in Frame : Opens(a, f)
<1>. DEFINE a == [ kind |-> "native", via |-> via, raise |-> FALSE, traps |-> 0,
                   low |-> Len(calls), base |-> stackbase, top |-> top ]
            f == NewFrame(top + pushed, base, base + nparams)
<1>1. /\ top \in Int /\ stackbase \in Int /\ Len(calls) \in Nat
      /\ top + pushed \in Int /\ base + nparams \in Int
  BY CoreFacts
<1>2. /\ a \in Activation /\ a.kind = "native" /\ a.via = via /\ a.low = Len(calls)
      /\ a.base = stackbase /\ a.top = top
  BY <1>1 DEF Activation
<1>3. /\ cstk' = Append(cstk, a) /\ etraps' = etraps /\ gens' = gens /\ susp' = susp
      /\ EnterFrame(f) /\ mode' \in {"run", "abandon"}
  BY DEF CallNative, Activate
<1>. HIDE DEF a
<1>4. ActPushed(a)  BY <1>2, <1>3, CoreFacts, ActPushedFacts
<1>5. MayOpen(a)  BY <1>2 DEF MayCall, MayOpen
<1>6. EntersFrame(f, top + pushed) /\ f.gen = NoGen /\ f.etraps = 0
  <2>. DEFINE ct == top + pushed
              nt == base + nparams
  <2>1. ct \in Int /\ nt \in Int /\ EnterFrame(NewFrame(ct, base, nt))  BY <1>1, <1>3
  <2>. HIDE DEF ct, nt
  <2>2. LET h == NewFrame(ct, base, nt)
        IN  EntersFrame(h, ct) /\ h.gen = NoGen /\ h.etraps = 0
    BY <2>1, NewFrameEnters
  <2>. QED BY <2>2 DEF ct, nt
<1>. HIDE DEF f
<1>7. f \in Frame  BY <1>6 DEF EntersFrame
<1>8. Opens(a, f)
  BY <1>2, <1>3, <1>4, <1>5, <1>6 DEF Opens, BringsNothing
<1>. QED BY <1>2, <1>7, <1>8

\* All calls that open an activation.
LEMMA CallOpens ==
    ASSUME CoreInv, Tame,
           LvCall \/ CallMetaMethod \/ OpCallNative \/ CallErrorHandler
    PROVE  \E a \in Activation : OpensEmpty(a) \/ \E f \in Frame : Opens(a, f)
<1>0. /\ top \in Int /\ top + 1 \in Int /\ stackbase + ArgBase \in Int
      /\ Pushed("api") = 2 /\ Pushed("meta") = 2 /\ Pushed("handler") = 2 /\ Pushed("op") = 0
  BY CoreFacts DEF Pushed, ArgBase
<1>1. CASE LvCall
  <2>1. MayCall("api")  BY <1>1, LvCallMay
  <2>2. CASE \E raise \in BOOLEAN : ExecuteCall("api", 2, 1, raise)
    BY <2>1, <2>2, ExecuteCallOpens
  <2>3. CASE CallNative("api", 2, top + 1, 1)
    BY <1>0, <2>1, <2>3, CallNativeOpens
  <2>. QED BY <1>1, <2>2, <2>3 DEF LvCall
<1>2. CASE CallMetaMethod
  <2>1. MayCall("meta")  BY <1>2, MetaMethodMay
  <2>2. CASE ExecuteCall("meta", 2, 2, FALSE)
    <3>1. \E raise \in BOOLEAN : ExecuteCall("meta", 2, 2, raise)  BY <2>2, Zenon
    <3>. QED BY <2>1, <3>1, ExecuteCallOpens
  <2>3. CASE CallNative("meta", 2, top, 2)
    BY <1>0, <2>1, <2>3, CallNativeOpens
  <2>. QED BY <1>2, <2>2, <2>3 DEF CallMetaMethod
<1>3. CASE OpCallNative
  <2>1. MayCall("op") /\ CallNative("op", 0, stackbase + ArgBase, 1)
    BY <1>3, OpCallNativeMay DEF OpCallNative
  <2>. QED BY <1>0, <2>1, CallNativeOpens
<1>4. CASE CallErrorHandler
  <2>1. MayCall("handler")  BY <1>4, HandlerMay
  <2>2. CASE ExecuteCall("handler", 2, 2, FALSE)
    <3>1. \E raise \in BOOLEAN : ExecuteCall("handler", 2, 2, raise)  BY <2>2, Zenon
    <3>. QED BY <2>1, <3>1, ExecuteCallOpens
  <2>3. CASE CallNative("handler", 2, top, 2)
    BY <1>0, <2>1, <2>3, CallNativeOpens
  <2>. QED BY <1>4, <2>2, <2>3 DEF CallErrorHandler
<1>. QED BY <1>1, <1>2, <1>3, <1>4

\* A stack with another last element, point by point.
LEMMA SetLastPoints ==
    ASSUME NEW S, NEW s \in Seq(S), NEW e \in S, Len(s) > 0, NEW u, u = SetLast(s, e)
    PROVE  /\ Len(u) = Len(s)
           /\ \A i \in 1 .. Len(s) - 1 : u[i] = s[i]
           /\ u[Len(s)] = e
  BY ZenonT(30), SetLastFacts

\* What a change of the innermost frame of Execute has in common.
LEMMA ChangesFacts ==
    ASSUME CoreInv, Len(cstk) > 0, act.kind = "exec", Len(calls) > act.low,
           NEW f \in Frame, calls' = SetLast(calls, f), NEW d \in Int,
           f.pbase = ci.pbase, f.ptop = ci.ptop, f.base = ci.base,
           f.gen = ci.gen, f.tlow = ci.tlow, f.etraps = ci.etraps + d,
           ActStays(d), gens' = gens, susp' = susp, mode' \in {"run", "raise"}
    PROVE  Changes(f, d)
<1>1. calls \in Seq(Frame) /\ Len(calls) > 0
  <2>1. act.low \in Nat  BY RunFacts
  <2>. QED BY <2>1, CoreFacts
<1>2. /\ Len(calls') = Len(calls)
      /\ \A i \in 1 .. Len(calls) - 1 : calls'[i] = calls[i]
      /\ calls'[Len(calls)] = f
  <2>1. calls \in Seq(Frame) /\ Len(calls) > 0  BY <1>1
  <2>. QED BY <2>1, SetLastPoints
<1>. QED BY <1>2 DEF Changes

\* _OP_TAILCALL.
LEMMA OpTailCallReuses == ASSUME CoreInv, OpTailCall PROVE \E f \in Frame : Reuses(f)
<1>1. /\ InExec /\ Len(cstk) > 0 /\ act.kind = "exec" /\ mode = "run"
      /\ Len(calls) > act.low /\ ci.etraps = 0
  BY RunFacts DEF OpTailCall
<1>2. PICK size \in FrameSizes :
        /\ top' = stackbase + size
        /\ calls' = SetLast(calls, [ci EXCEPT !.top = stackbase + size])
  BY DEF OpTailCall
<1>. DEFINE f == [ci EXCEPT !.top = stackbase + size]
<1>3. stackbase + size \in Int  BY SizesAreNumbers, CoreFacts
<1>4. /\ f \in Frame /\ f.pbase = ci.pbase /\ f.ptop = ci.ptop /\ f.base = ci.base
      /\ f.gen = ci.gen /\ f.tlow = ci.tlow /\ f.etraps = ci.etraps + 0
      /\ f.top = stackbase + size
  <2>1. ci \in Frame  BY <1>1, LastFrameFacts
  <2>. QED BY <1>3, <2>1 DEF Frame
<1>5. calls' = SetLast(calls, f)  BY <1>2
<1>. HIDE DEF f
<1>6. /\ mode' \in {"run", "raise"} /\ gens' = gens /\ susp' = susp /\ etraps' = etraps
      /\ stackbase' = stackbase /\ ActStays(0)
  BY ActStaysFacts DEF OpTailCall
<1>7. Changes(f, 0)  BY <1>1, <1>4, <1>5, <1>6, ChangesFacts
<1>8. f.etraps = 0  BY <1>1, <1>4
<1>. QED BY <1>1, <1>2, <1>4, <1>6, <1>7, <1>8 DEF Reuses

\* _OP_PUSHTRAP.
LEMMA OpPushTrapArms == ASSUME CoreInv, OpPushTrap PROVE \E f \in Frame : Arms(f)
<1>1. /\ InExec /\ Len(cstk) > 0 /\ act.kind = "exec" /\ mode = "run"
      /\ Len(calls) > act.low
  BY RunFacts DEF OpPushTrap
<1>2. /\ etraps' = Append(etraps, [base |-> stackbase, size |-> top])
      /\ cstk' = SetLast(cstk, [act EXCEPT !.traps = act.traps + 1])
      /\ calls' = SetLast(calls, [ci EXCEPT !.etraps = ci.etraps + 1])
      /\ stackbase' = stackbase /\ top' = top /\ mode' = mode
      /\ gens' = gens /\ susp' = susp
  BY DEF OpPushTrap
<1>. DEFINE f == [ci EXCEPT !.etraps = ci.etraps + 1]
<1>3. /\ f \in Frame /\ f.pbase = ci.pbase /\ f.ptop = ci.ptop /\ f.base = ci.base
      /\ f.gen = ci.gen /\ f.tlow = ci.tlow /\ f.etraps = ci.etraps + 1 /\ f.top = ci.top
  <2>1. ci \in Frame /\ ci.etraps + 1 \in Nat  BY <1>1, LastFrameFacts
  <2>. QED BY <2>1 DEF Frame
<1>4. calls' = SetLast(calls, f)  BY <1>2
<1>. HIDE DEF f
<1>5. ActStays(1) /\ 1 \in Int  BY <1>1, <1>2, ActStaysFacts
<1>6. mode' \in {"run", "raise"} /\ gens' = gens /\ susp' = susp  BY <1>1, <1>2
<1>7. Changes(f, 1)  BY <1>1, <1>3, <1>4, <1>5, <1>6, ChangesFacts
<1>8. /\ etraps' \in Seq(Trap)
      /\ Len(etraps') = Len(etraps) + 1
      /\ \A k \in 1 .. Len(etraps) : etraps'[k] = etraps[k]
      /\ etraps'[Len(etraps) + 1] = [base |-> stackbase, size |-> top]
  <2>1. [base |-> stackbase, size |-> top] \in Trap  BY CoreFacts DEF Trap
  <2>. QED BY <1>2, <2>1, CoreFacts, AppendFacts
<1>. QED BY <1>1, <1>2, <1>3, <1>7, <1>8 DEF Arms

\* _OP_POPTRAP and a catch take the innermost frame's last trap.
LEMMA TrapDisarms ==
    ASSUME CoreInv, OpPopTrap \/ CatchError
    PROVE  \E f \in Frame, d \in Int : Disarms(f, d)
<1>1. /\ Len(cstk) > 0 /\ act.kind = "exec" /\ Len(calls) > act.low
      /\ mode # "abandon" /\ ci.etraps > 0 /\ mode' = "run"
  BY RunFacts, UnwindFacts DEF OpPopTrap, CatchError
<1>. DEFINE f == [ci EXCEPT !.etraps = ci.etraps - 1]
            d == -1
<1>2. /\ etraps' = Pop(etraps)
      /\ cstk' = SetLast(cstk, [act EXCEPT !.traps = act.traps - 1])
      /\ calls' = SetLast(calls, f)
      /\ gens' = gens /\ susp' = susp
      /\ \/ InExec /\ stackbase' = stackbase /\ top' = top
         \/ stackbase' = etraps[Len(etraps)].base /\ top' = etraps[Len(etraps)].size
  BY DEF OpPopTrap, CatchError
<1>3. ci \in Frame /\ ci.etraps \in Nat /\ Len(etraps) \in Nat /\ Len(etraps) > 0
  BY <1>1, LastFrameFacts
<1>4. /\ f \in Frame /\ f.pbase = ci.pbase /\ f.ptop = ci.ptop /\ f.base = ci.base
      /\ f.gen = ci.gen /\ f.tlow = ci.tlow /\ f.etraps = ci.etraps + d /\ f.top = ci.top
  <2>1. ci.etraps - 1 \in Nat /\ ci.etraps - 1 = ci.etraps + d  BY <1>1, <1>3
  <2>. QED BY <1>3, <2>1 DEF Frame
<1>5. ActStays(d) /\ d \in Int
  <2>1. act.traps \in Int  BY <1>1, CoreFacts DEF Activation
  <2>2. cstk' = SetLast(cstk, [act EXCEPT !.traps = act.traps + d])  BY <1>2, <2>1
  <2>3. d \in Int  OBVIOUS
  <2>. HIDE DEF d
  <2>. QED BY <1>1, <2>2, <2>3, ActStaysFacts
<1>6. d = -1  OBVIOUS
<1>. HIDE DEF f, d
<1>7. Changes(f, d)  BY <1>1, <1>2, <1>4, <1>5, ChangesFacts
<1>8. /\ Len(etraps') = Len(etraps) - 1
      /\ \A k \in 1 .. Len(etraps) - 1 : etraps'[k] = etraps[k]
  BY <1>2, <1>3, CoreFacts, PopFacts
<1>9. Disarms(f, d)  BY <1>1, <1>2, <1>4, <1>6, <1>7, <1>8 DEF Disarms
<1>. QED BY <1>4, <1>5, <1>9

\* A generator that is killed.
LEMMA KillPoints ==
    ASSUME CoreInv, NEW g \in Gen, gens' = Kill(g)
    PROVE  /\ gens'[g].state # "running"
           /\ gens'[g].traps = gens[g].traps /\ gens'[g].size = gens[g].size
           /\ \A h \in Gen \ {g} : gens'[h] = gens[h]
<1>1. gens \in [Gen -> Generator] /\ gens[g] \in Generator  BY CoreFacts
<1>2. gens' = [gens EXCEPT ![g] = [gens[g] EXCEPT !.state = "dead"]]
  BY ExecFramesAssumption DEF Kill
<1>. QED BY <1>1, <1>2 DEF Generator

\* A frame without traps is left and its generator dies, if it has one.
LEMMA KillLeaves ==
    ASSUME CoreInv, Len(calls) > 0, ci.etraps = 0, calls' = Pop(calls), etraps' = etraps,
           stackbase' = LeftBase, gens' = Kill(ci.gen)
    PROVE  LeavesFrame
<1>1. FrameLeft /\ ci.gen \in Gen \cup {NoGen} /\ Len(etraps) \in Nat
  BY CoreFacts, LeaveFrameFacts, CallsFacts, SeqFacts
<1>2. CASE ci.gen = NoGen  BY <1>1, <1>2 DEF LeavesFrame, Kill
<1>3. CASE ci.gen # NoGen
  <2>. DEFINE g == ci.gen
  <2>1. g \in Gen /\ gens' = Kill(g)  BY <1>1, <1>3
  <2>. HIDE DEF g
  <2>2. /\ gens'[g].state # "running"
        /\ gens'[g].traps = gens[g].traps /\ gens'[g].size = gens[g].size
        /\ \A h \in Gen \ {g} : gens'[h] = gens[h]
    BY <2>1, KillPoints
  <2>. QED BY <1>1, <2>1, <2>2 DEF LeavesFrame, g
<1>. QED BY <1>2, <1>3

\* The return of an activation that leaves its last frame.
LEMMA FinishReturns ==
    ASSUME CoreInv, Len(cstk) > 0, Len(calls) = act.low + 1, mode # "abandon",
           LeavesFrame, NEW ok, Finish(ok, LeftBase, LeftTop), susp' = susp
    PROVE  Returns(ok)
<1>1. ActLeft
  <2>1. cstk' = Pop(cstk)  BY DEF Finish
  <2>. QED BY <2>1, CoreFacts, PopFacts DEF ActLeft
<1>. QED BY <1>1 DEF Returns, Finish

\* A frame without traps is left by Execute, the root with the activation.
LEMMA LeavesOrReturns ==
    ASSUME CoreInv, Len(cstk) > 0, act.kind = "exec", mode \in {"run", "unwind"},
           Len(calls) > act.low, ci.etraps = 0, calls' = Pop(calls),
           gens' = Kill(ci.gen), etraps' = etraps, susp' = susp, NEW ok,
           \/ ci.root /\ Finish(ok, LeftBase, LeftTop)
           \/ /\ ~ ci.root /\ stackbase' = LeftBase /\ top' = LeftTop
              /\ cstk' = cstk /\ mode' = mode
    PROVE  Leaves \/ Returns(ok)
<1>1. /\ ci.root <=> Len(calls) = act.low + 1
      /\ act.low \in Nat /\ Len(calls) \in Nat /\ Len(calls) > 0
  BY LastFrameFacts, RunFacts, CoreFacts
<1>2. LeavesFrame
  <2>1. stackbase' = LeftBase  BY DEF Finish
  <2>. QED BY <1>1, <2>1, KillLeaves
<1>3. CASE ci.root /\ Finish(ok, LeftBase, LeftTop)
  BY <1>1, <1>2, <1>3, FinishReturns
<1>4. CASE /\ ~ ci.root /\ stackbase' = LeftBase /\ top' = LeftTop
           /\ cstk' = cstk /\ mode' = mode
  <2>1. ActStays(0)  BY <1>4, ActStaysFacts
  <2>2. \E d \in Int : d + ci.etraps = 0 /\ ActStays(d)  BY <2>1
  <2>3. Len(calls) > act.low + 1  BY <1>1, <1>4
  <2>. QED BY <1>2, <1>4, <2>2, <2>3 DEF Leaves
<1>. QED BY <1>3, <1>4

\* _OP_RETURN.
LEMMA OpReturnLeaves == ASSUME CoreInv, OpReturn PROVE Leaves \/ Returns(TRUE)
<1>1. /\ Len(cstk) > 0 /\ act.kind = "exec" /\ mode \in {"run", "unwind"}
      /\ Len(calls) > act.low
  BY RunFacts DEF OpReturn
<1>2. /\ ci.etraps = 0 /\ gens' = Kill(ci.gen) /\ etraps' = etraps /\ susp' = susp
      /\ calls' = Pop(calls)
  BY DEF OpReturn, Return
<1>3. \/ ci.root /\ Finish(TRUE, LeftBase, LeftTop)
      \/ /\ ~ ci.root /\ stackbase' = LeftBase /\ top' = LeftTop
         /\ cstk' = cstk /\ mode' = mode
  BY DEF OpReturn, Return
<1>. QED BY <1>1, <1>2, <1>3, LeavesOrReturns

\* exception_trap leaves a frame that cannot catch.
LEMMA UnwindFrameLeaves == ASSUME CoreInv, UnwindFrame PROVE Leaves \/ Returns(FALSE)
<1>1. /\ Len(cstk) > 0 /\ act.kind = "exec" /\ mode = "unwind" /\ mode # "abandon"
      /\ Len(calls) > act.low
  BY UnwindFacts DEF UnwindFrame
<1>2. /\ ci.etraps = 0 /\ gens' = Kill(ci.gen) /\ etraps' = etraps /\ susp' = susp
      /\ calls' = Pop(calls)
  BY DEF UnwindFrame
<1>3. Len(calls) = 1 => ci.root
  <2>1. act.low \in Nat  BY <1>1, RunFacts
  <2>. QED BY <1>1, <2>1, LastFrameFacts
<1>4. \/ ci.root /\ Finish(FALSE, LeftBase, LeftTop)
      \/ /\ ~ ci.root /\ stackbase' = LeftBase /\ top' = LeftTop
         /\ cstk' = cstk /\ mode' = mode
  BY <1>3 DEF UnwindFrame
<1>. QED BY <1>1, <1>2, <1>4, LeavesOrReturns

\* A native leaves its frame.
LEMMA NativeLeaves ==
    ASSUME CoreInv, Len(cstk) > 0, act.kind = "native", mode # "abandon",
           Len(calls) > act.low, calls' = Pop(calls), stackbase' = LeftBase,
           UNCHANGED <<etraps, gens>>
    PROVE  LeavesFrame /\ Len(calls) = act.low + 1
<1>1. /\ Len(calls) = act.low + 1 /\ ci.etraps = 0
      /\ act.low \in Nat /\ Len(calls) \in Nat /\ Len(cstk) \in Nat
  BY LastFrameFacts, RunFacts, CoreFacts DEF Stacks
<1>2. ci.gen = NoGen
  <2>1. NativesHaveOneFrame  BY CoreFacts DEF WellNested
  <2>2. Len(cstk) \in 1 .. Len(cstk) /\ High(Len(cstk)) = Len(calls)  BY <1>1 DEF High
  <2>. QED BY <2>1, <2>2 DEF NativesHaveOneFrame, act, ci
<1>3. gens' = Kill(ci.gen)  BY <1>2 DEF Kill
<1>. QED BY <1>1, <1>3, KillLeaves

LEMMA NativeReturnReturns ==
    ASSUME CoreInv, NativeReturn PROVE Returns(TRUE) \/ Returns(FALSE)
<1>1. /\ Len(cstk) > 0 /\ act.kind = "native" /\ mode # "abandon" /\ Len(calls) > act.low
  BY RunFacts DEF NativeReturn
<1>2. PICK ok \in BOOLEAN : Finish(ok, LeftBase, LeftTop)  BY DEF NativeReturn
<1>3. calls' = Pop(calls) /\ UNCHANGED <<etraps, gens>> /\ susp' = susp  BY DEF NativeReturn
<1>4. stackbase' = LeftBase  BY <1>2 DEF Finish
<1>5. LeavesFrame /\ Len(calls) = act.low + 1  BY <1>1, <1>3, <1>4, NativeLeaves
<1>6. Returns(ok)  BY <1>1, <1>2, <1>3, <1>5, FinishReturns
<1>. QED BY <1>6

\* CallNative after SUSPEND_FLAG.
LEMMA SuspendKinds == ASSUME CoreInv, Suspend PROVE Suspends \/ Returns(TRUE)
<1>1. /\ Len(cstk) > 0 /\ mode = "suspend" /\ mode # "abandon" /\ calls' = Pop(calls)
      /\ etraps' = etraps /\ gens' = gens
  BY RunFacts DEF Suspend
<1>2. /\ act.kind = "native" /\ Len(cstk) = 2 /\ Len(calls) > act.low /\ act = cstk[2]
  BY <1>1, CoreFacts DEF WellNested, ModeFits, act
<1>3. stackbase' = LeftBase  BY DEF Suspend, Finish
<1>4. LeavesFrame /\ Len(calls) = act.low + 1  BY <1>1, <1>2, <1>3, NativeLeaves
<1>5. CASE act.via = "op"
  <2>1. cstk[1].kind = "exec" /\ cstk[1].low = 0 /\ act.low > 0
    BY <1>2, <1>5, CoreFacts DEF WellNested, CallersFit, ActivationsNest, Stacks
  <2>2. /\ susp' = [ on |-> TRUE, traps |-> cstk[1].traps,
                     root |-> calls[Len(calls) - 1].root ]
        /\ cstk' = <<>> /\ top' = LeftTop /\ mode' = "run"
    BY <1>5 DEF Suspend
  <2>3. susp'.on /\ susp'.traps = cstk[1].traps /\ Len(cstk') = 0  BY <2>2
  <2>. QED BY <1>1, <1>2, <1>4, <1>5, <2>1, <2>2, <2>3 DEF Suspends
<1>6. CASE act.via # "op"
  <2>1. Finish(TRUE, LeftBase, LeftTop) /\ susp' = susp  BY <1>6 DEF Suspend
  <2>2. \E ok \in BOOLEAN : ok = TRUE /\ Finish(ok, LeftBase, LeftTop)  BY <2>1, Zenon
  <2>3. PICK ok \in BOOLEAN : ok = TRUE /\ Finish(ok, LeftBase, LeftTop)  BY <2>2
  <2>4. Returns(ok)  BY <1>1, <1>4, <2>1, <2>3, FinishReturns
  <2>. QED BY <2>3, <2>4
<1>. QED BY <1>5, <1>6

\* SavedTraps, point by point.
LEMMA SavedPoints ==
    ASSUME CoreInv, Len(calls) > 0
    PROVE  /\ Len(SavedTraps) = ci.etraps
           /\ \A k \in 1 .. ci.etraps :
                 LET et == etraps[Len(etraps) + 1 - k]
                 IN  SavedTraps[k] = [base |-> et.base - stackbase, size |-> et.size - stackbase]
<1>1. ci.etraps \in Nat  BY CoreFacts, CallsFacts
<1>2. DOMAIN SavedTraps = 1 .. ci.etraps  BY DEF SavedTraps
<1>3. Len(SavedTraps) = ci.etraps
  <2>. DEFINE n == ci.etraps
              e(k) == LET et == etraps[Len(etraps) + 1 - k]
                      IN  [base |-> et.base - stackbase, size |-> et.size - stackbase]
              S == {e(k) : k \in 1 .. n}
  <2>1. SavedTraps \in [1 .. n -> S]  BY DEF SavedTraps
  <2>2. n \in Nat  BY <1>1
  <2>. HIDE DEF n, S
  <2>3. SavedTraps \in Seq(S) /\ Len(SavedTraps) = n  BY <2>1, <2>2, SeqDef
  <2>. QED BY <2>3 DEF n
<1>. QED BY <1>3 DEF SavedTraps

\* _OP_YIELD.
LEMMA OpYieldLeaves == ASSUME CoreInv, OpYield PROVE Leaves \/ Returns(TRUE)
<1>1. /\ InExec /\ Len(cstk) > 0 /\ act.kind = "exec" /\ mode = "run" /\ mode # "abandon"
      /\ Len(calls) > act.low /\ act.low \in Nat /\ Len(calls) \in Nat /\ Len(calls) > 0
  BY RunFacts, CoreFacts DEF OpYield
<1>2. /\ ci \in Frame /\ (ci.root <=> Len(calls) = act.low + 1) /\ Len(etraps) \in Nat
      /\ ci.etraps \in Nat /\ ci.etraps <= Len(etraps)
  BY <1>1, LastFrameFacts
<1>3. ci.gen \in Gen  BY <1>2 DEF OpYield, Frame
<1>. DEFINE g == ci.gen
            saved == [ state |-> "suspended", root |-> ci.root,
                       traps |-> SavedTraps, size |-> top - stackbase ]
<1>4. /\ gens' = [gens EXCEPT ![g] = saved] /\ susp' = susp
      /\ etraps' = SubSeq(etraps, 1, Len(etraps) - ci.etraps) /\ calls' = Pop(calls)
  BY DEF OpYield
<1>5. saved.state = "suspended" /\ saved.traps = SavedTraps /\ saved.size = top - stackbase
  OBVIOUS
<1>. HIDE DEF saved, g
<1>6. stackbase' = LeftBase  BY DEF OpYield, Finish
<1>7. LeavesFrame
  <2>1. FrameLeft  BY <1>1, <1>4, CoreFacts, LeaveFrameFacts
  <2>2. Len(etraps) - ci.etraps \in 0 .. Len(etraps)  BY <1>2
  <2>3. /\ Len(etraps') = Len(etraps) - ci.etraps
        /\ \A k \in 1 .. Len(etraps) - ci.etraps : etraps'[k] = etraps[k]
    BY <1>4, <2>2, CoreFacts, CutFacts
  <2>4. g \in Gen /\ gens \in [Gen -> Generator]  BY <1>3, CoreFacts DEF g
  <2>5. /\ gens'[g].state # "running" /\ gens'[g].traps = SavedTraps
        /\ gens'[g].size = top - stackbase
        /\ \A h \in Gen \ {g} : gens'[h] = gens[h]
    BY <1>4, <1>5, <2>4
  <2>. QED BY <1>1, <1>6, <2>1, <2>3, <2>4, <2>5 DEF LeavesFrame, g
<1>8. CASE ci.root
  <2>1. Finish(TRUE, LeftBase, LeftTop)  BY <1>8 DEF OpYield
  <2>2. \E ok \in BOOLEAN : ok = TRUE /\ Finish(ok, LeftBase, LeftTop)  BY <2>1, Zenon
  <2>3. PICK ok \in BOOLEAN : ok = TRUE /\ Finish(ok, LeftBase, LeftTop)  BY <2>2
  <2>4. Returns(ok)  BY <1>1, <1>2, <1>4, <1>7, <1>8, <2>3, FinishReturns
  <2>. QED BY <2>3, <2>4
<1>9. CASE ~ ci.root
  <2>1. /\ stackbase' = LeftBase /\ top' = LeftTop /\ mode' = mode
        /\ cstk' = SetLast(cstk, [act EXCEPT !.traps = act.traps - ci.etraps])
    BY <1>9 DEF OpYield
  <2>2. PICK d \in Int : d + ci.etraps = 0
    <3>1. 0 - ci.etraps \in Int /\ (0 - ci.etraps) + ci.etraps = 0  BY <1>2
    <3>. QED BY <3>1
  <2>3. act.traps \in Int  BY <1>1, CoreFacts DEF Activation
  <2>4. act.traps - ci.etraps = act.traps + d  BY <1>2, <2>2, <2>3
  <2>5. ActStays(d)  BY <1>1, <2>1, <2>4, ActStaysFacts
  <2>6. Len(calls) > act.low + 1  BY <1>1, <1>2, <1>9
  <2>. QED BY <1>1, <1>4, <1>7, <2>1, <2>2, <2>5, <2>6 DEF Leaves
<1>. QED BY <1>8, <1>9

\* Returns that leave no frame.
LEMMA EmptyReturns == ASSUME CoreInv, AbandonCall \/ ReturnError PROVE ReturnsEmpty
<1>1. /\ Len(cstk) > 0 /\ Finish(FALSE, stackbase, top)
      /\ calls' = calls /\ etraps' = etraps /\ gens' = gens /\ susp' = susp
      /\ \/ mode = "abandon"
         \/ mode = "unwind" /\ Len(calls) = act.low
  BY RunFacts DEF AbandonCall, ReturnError
<1>2. mode = "abandon" => Len(calls) = act.low + 1
  <2>1. cstk # <<>>  BY <1>1, RunFacts
  <2>. QED BY <2>1, CoreFacts DEF WellNested, AbandonedHasOneFrame
<1>3. /\ cstk' = Pop(cstk) /\ stackbase' = stackbase /\ top' = top - Popped(act, FALSE)
      /\ mode' = Continues(act, FALSE)
  BY <1>1 DEF Finish
<1>4. ActLeft  BY <1>1, <1>3, CoreFacts, PopFacts DEF ActLeft
<1>. QED BY <1>1, <1>2, <1>3, <1>4 DEF ReturnsEmpty

\* lv_wakeupvm.
LEMMA WakeupWakes ==
    ASSUME CoreInv, Wakeup PROVE \E a \in Activation, f \in Frame : Wakes(a, f)
<1>1. /\ Len(cstk) = 0 /\ susp.on
      /\ calls' = SetLast(calls, [ci EXCEPT !.root = susp.root])
      /\ susp' = [susp EXCEPT !.on = FALSE] /\ mode' \in {"run", "raise"}
      /\ etraps' = etraps /\ stackbase' = stackbase /\ top' = top /\ gens' = gens
  BY RunFacts DEF Wakeup
<1>2. PICK raise \in BOOLEAN : Activate("exec", "wakeup", raise, susp.traps, 0, 0, 0)
  BY DEF Wakeup
<1>. DEFINE a == [ kind |-> "exec", via |-> "wakeup", raise |-> raise,
                   traps |-> susp.traps, low |-> 0, base |-> 0, top |-> 0 ]
            f == [ci EXCEPT !.root = susp.root]
<1>3. Len(calls) \in Nat /\ Len(calls) > 0
  BY <1>1, CoreFacts DEF WellNested, ModeFits
<1>4. susp \in Suspension /\ susp.root \in BOOLEAN /\ susp.traps \in Int
  BY CoreFacts DEF Suspension
<1>5. a \in Activation /\ a.low = 0 /\ a.kind = "exec" /\ a.via = "wakeup"
      /\ a.traps = susp.traps
  BY <1>4 DEF Activation
<1>6. /\ f \in Frame /\ f.pbase = ci.pbase /\ f.ptop = ci.ptop /\ f.base = ci.base
      /\ f.top = ci.top /\ f.gen = ci.gen /\ f.tlow = ci.tlow /\ f.etraps = ci.etraps
  <2>1. ci \in Frame  BY <1>3, CoreFacts, CallsFacts
  <2>. QED BY <1>4, <2>1 DEF Frame
<1>7. cstk' = Append(cstk, a) /\ calls' = SetLast(calls, f)  BY <1>1, <1>2 DEF Activate
<1>. HIDE DEF a, f
<1>8. ActPushed(a)  BY <1>5, <1>7, CoreFacts, ActPushedFacts
<1>9. /\ Len(calls') = Len(calls)
      /\ \A i \in 1 .. Len(calls) - 1 : calls'[i] = calls[i]
      /\ calls'[Len(calls)] = f
  <2>1. calls \in Seq(Frame)  BY CoreFacts
  <2>2. calls' = SetLast(calls, f)  BY <1>7
  <2>. QED BY <1>3, <1>6, <2>1, <2>2, SetLastPoints
<1>10. ~ susp'.on  BY <1>1, <1>4 DEF Suspension
<1>11. Wakes(a, f)  BY <1>1, <1>3, <1>5, <1>6, <1>8, <1>9, <1>10 DEF Wakes
<1>. QED BY <1>5, <1>6, <1>11

\* Steps that leave the stacks as they are.
LEMMA OthersKeep ==
    ASSUME CoreInv,
           \/ LvCallRefused \/ LvSetTop \/ OpThrow \/ LvSuspendVm \/ SkipErrorHandler
           \/ \E g \in Gen : CreateGenerator(g)
           \/ UNCHANGED vars
    PROVE  Keeps
<1>1. CASE LvCallRefused \/ LvSetTop
  BY <1>1 DEF LvCallRefused, LvSetTop, MayPush, Keeps
<1>2. CASE OpThrow \/ LvSuspendVm \/ SkipErrorHandler
  <2>1. /\ UNCHANGED <<calls, etraps, stackbase, cstk, susp>>
        /\ top' = top /\ gens' = gens
        /\ mode \in {"run", "raise"} /\ mode' \in {"raise", "unwind", "suspend"}
    BY <1>2, RunFacts DEF OpThrow, LvSuspendVm, SkipErrorHandler
  <2>2. Len(cstk) > 0
    BY <1>2, RunFacts DEF OpThrow, LvSuspendVm, SkipErrorHandler
  <2>. QED BY <2>1, <2>2 DEF Keeps
<1>3. ASSUME NEW g \in Gen, CreateGenerator(g)  PROVE Keeps
  <2>1. PICK size \in FrameSizes :
          gens' = [gens EXCEPT ![g] = [ state |-> "suspended", root |-> FALSE,
                                        traps |-> <<>>, size |-> size ]]
    BY <1>3 DEF CreateGenerator
  <2>2. gens \in [Gen -> Generator]  BY CoreFacts
  <2>3. /\ gens'[g].state = "suspended" /\ gens'[g].traps = <<>>
        /\ \A h \in Gen \ {g} : gens'[h] = gens[h]
    BY <2>1, <2>2
  <2>. QED BY <1>3, <2>3 DEF Keeps, CreateGenerator
<1>4. CASE UNCHANGED vars  BY <1>4 DEF vars, Keeps
<1>. QED BY <1>1, <1>2, <1>3, <1>4

\* There are no other steps.
LEMMA StepKinds ==
    ASSUME CoreInv, Tame, [Next]_vars
    PROVE  \/ \E f \in Frame, d \in Int : Enters(f, d)
           \/ \E a \in Activation : OpensEmpty(a) \/ \E f \in Frame : Opens(a, f)
           \/ \E f \in Frame : Reuses(f) \/ Arms(f)
           \/ \E f \in Frame, d \in Int : Disarms(f, d)
           \/ Leaves \/ Returns(TRUE) \/ Returns(FALSE) \/ ReturnsEmpty \/ Suspends
           \/ \E a \in Activation, f \in Frame : Wakes(a, f)
           \/ Keeps
<1>1. CASE LvCall \/ CallMetaMethod \/ OpCallNative \/ CallErrorHandler
  BY <1>1, CallOpens
<1>2. CASE OpCall  BY <1>2, OpCallEnters
<1>3. CASE OpTailCall  BY <1>3, OpTailCallReuses
<1>4. CASE OpPushTrap  BY <1>4, OpPushTrapArms
<1>5. CASE OpPopTrap \/ CatchError  BY <1>5, TrapDisarms
<1>6. CASE OpReturn  BY <1>6, OpReturnLeaves
<1>7. CASE OpYield  BY <1>7, OpYieldLeaves
<1>8. CASE \E g \in Gen : OpResume(g) \/ OpForeach(g)  BY <1>8, ScriptResumeEnters
<1>9. CASE \E g \in Gen : OpResumeOverflow(g)  BY <1>9, OpResumeOverflowEnters
<1>10. CASE \E g \in Gen : LvResume(g)  BY <1>10, LvResumeOpens
<1>11. CASE NativeReturn  BY <1>11, NativeReturnReturns
<1>12. CASE Suspend  BY <1>12, SuspendKinds
<1>13. CASE Wakeup  BY <1>13, WakeupWakes
<1>14. CASE UnwindFrame  BY <1>14, UnwindFrameLeaves
<1>15. CASE AbandonCall \/ ReturnError  BY <1>15, EmptyReturns
<1>16. CASE \/ LvCallRefused \/ LvSetTop \/ OpThrow \/ LvSuspendVm \/ SkipErrorHandler
            \/ \E g \in Gen : CreateGenerator(g)
            \/ UNCHANGED vars
  BY <1>16, OthersKeep
<1>. QED BY <1>1, <1>2, <1>3, <1>4, <1>5, <1>6, <1>7, <1>8, <1>9, <1>10, <1>11, <1>12,
            <1>13, <1>14, <1>15, <1>16 DEF Next, Unwind

----------------------------------------------------------------------------
(* The stack that frames, traps and activations remember.                  *)

\* What an activation remembers of its caller (CallersRemembered), and the
\* stack top an instruction will find again (TopsChain).
Remembered(a) ==
    LET c == cstk[a]
    IN  c.via # "wakeup" =>
          /\ c.base = BaseAt(c.low)
          /\ High(a) > c.low =>
                BaseAt(c.low) + calls[c.low + 1].ptop = c.top + Pushed(c.via)
          /\ High(a) = c.low /\ a = Len(cstk) => top = c.top + Pushed(c.via)
          /\ High(a) = c.low /\ a # Len(cstk) =>
                cstk[a + 1].top = c.top + Pushed(c.via)

TopLed(a) ==
    cstk[a].via \in {"op", "meta"} /\ cstk[a - 1].kind = "exec" =>
        cstk[a].low > 0 /\ cstk[a].top = calls[cstk[a].low].top

RunsAtTop == InExec \/ susp.on => top = ci.top

SuspendedTops ==
    susp.on => \A i \in 2 .. Len(calls) : calls[i - 1].base + calls[i].ptop = calls[i - 1].top

ActsLinked ==
    \A a \in 1 .. Len(cstk) :
        /\ cstk[a].kind = "exec" => TopsRestored(a)
        /\ TopLed(a)
        /\ Remembered(a)

\* TrapsMatchFrames without the counts, which are in CoreInv, and what follows
\* from them for frames that are not neighbours.
TrapsHeld ==
    \A i \in 1 .. Len(calls) :
        \A k \in calls[i].tlow + 1 .. calls[i].tlow + calls[i].etraps :
            etraps[k] = [base |-> calls[i].base, size |-> calls[i].top]

TrapsOrdered ==
    \A i, j \in 1 .. Len(calls) : i < j => calls[i].tlow + calls[i].etraps <= calls[j].tlow

StackInv ==
    /\ BasesChain
    /\ TrapsHeld
    /\ TrapsOrdered
    /\ SavedTrapsRelative
    /\ RunsAtTop
    /\ ActsLinked
    /\ SuspendedTops

\* StackInv is made of the invariants of ExecFrames.
LEMMA StackInvParts ==
    CoreInv /\ StackInv => /\ BasesChain /\ TrapsMatchFrames /\ SavedTrapsRelative
                           /\ TopsChain /\ CallersRemembered
<1>1. StackInv => TopsChain
  BY DEF StackInv, TopsChain, RunsAtTop, ActsLinked, SuspendedTops, TopLed
<1>2. StackInv => CallersRemembered
  BY DEF StackInv, CallersRemembered, ActsLinked, Remembered
<1>3. CoreInv /\ StackInv => TrapsMatchFrames
  BY DEF CoreInv, StackInv, TrapCounts, TrapsHeld, TrapsMatchFrames
<1>. QED BY <1>1, <1>2, <1>3 DEF StackInv

\* The places of activations and frames, as numbers.
Nest ==
    /\ Len(calls) \in Nat /\ Len(cstk) \in Nat /\ Len(etraps) \in Nat
    /\ stackbase \in Int /\ top \in Int
    /\ \A i \in 1 .. Len(calls) :
          /\ calls[i].pbase \in Int /\ calls[i].ptop \in Int /\ calls[i].etraps \in Nat
          /\ calls[i].base \in Int /\ calls[i].top \in Int /\ calls[i].tlow \in Nat
          /\ calls[i].gen \in Gen \cup {NoGen}
    /\ \A a \in 1 .. Len(cstk) :
          /\ cstk[a].low \in Nat /\ cstk[a].base \in Int /\ cstk[a].top \in Int
          /\ cstk[a].traps \in Int
          /\ High(a) \in Nat /\ cstk[a].low <= High(a) /\ High(a) <= Len(calls)
          /\ a # Len(cstk) => a + 1 \in 1 .. Len(cstk) /\ High(a) = cstk[a + 1].low
          /\ cstk[a].via \in {"op", "meta", "handler"} => a > 1
    /\ \A a, b \in 1 .. Len(cstk) : a <= b => cstk[a].low <= cstk[b].low
    /\ Len(cstk) > 0 => /\ Len(cstk) \in 1 .. Len(cstk)
                        /\ act = cstk[Len(cstk)] /\ High(Len(cstk)) = Len(calls)
                        /\ ~ susp.on /\ act.low \in Nat /\ act.low <= Len(calls)
    /\ Len(calls) > 0 => Len(calls) \in 1 .. Len(calls) /\ ci = calls[Len(calls)]
    /\ \A n \in 0 .. Len(calls) : BaseAt(n) \in Int
    /\ InExec => Len(cstk) > 0 /\ act.kind = "exec" /\ mode = "run" /\ Len(calls) > act.low
    /\ InNative => Len(cstk) > 0 /\ act.kind = "native" /\ mode = "run"
                   /\ Len(calls) > act.low
    /\ InHost => Len(cstk) = 0

\* What it says of the running activation and of another.
LEMMA NestTop ==
    ASSUME Nest, Len(cstk) > 0
    PROVE  /\ Len(cstk) \in Nat /\ act = cstk[Len(cstk)] /\ High(Len(cstk)) = Len(calls)
           /\ ~ susp.on /\ act.low \in Nat /\ act.low <= Len(calls)
  BY DEF Nest

LEMMA NestAct ==
    ASSUME Nest, NEW a \in 1 .. Len(cstk)
    PROVE  /\ cstk[a].low \in Nat /\ High(a) \in Nat /\ cstk[a].low <= High(a)
           /\ a # Len(cstk) => a + 1 \in 1 .. Len(cstk) /\ High(a) = cstk[a + 1].low
  BY DEF Nest

\* The activations left by a return.
LEMMA LeftActs ==
    ASSUME NEW m \in Nat, m + 1 = Len(cstk), ActLeft
    PROVE  /\ m + 1 \in 1 .. Len(cstk) /\ m = Len(cstk')
           /\ \A a \in 1 .. m : cstk'[a] = cstk[a] /\ a \in 1 .. Len(cstk) /\ a # Len(cstk)
<1>1. Len(cstk) - 1 = m
  OBVIOUS
<1>. QED BY <1>1 DEF ActLeft

LEMMA NestHolds == CoreInv => Nest
<1>. SUFFICES ASSUME CoreInv PROVE Nest  OBVIOUS
<1>1. Len(calls) \in Nat /\ Len(cstk) \in Nat /\ Len(etraps) \in Nat
      /\ stackbase \in Int /\ top \in Int
  BY CoreFacts, SeqFacts
<1>2. \A i \in 1 .. Len(calls) :
          /\ calls[i].pbase \in Int /\ calls[i].ptop \in Int /\ calls[i].etraps \in Nat
          /\ calls[i].base \in Int /\ calls[i].top \in Int /\ calls[i].tlow \in Nat
          /\ calls[i].gen \in Gen \cup {NoGen}
  <2>1. \A i \in 1 .. Len(calls) : calls[i] \in Frame  BY CoreFacts, SeqFacts
  <2>. QED BY <2>1 DEF Frame
<1>3. \A a \in 1 .. Len(cstk) :
          /\ cstk[a].low \in Nat /\ cstk[a].base \in Int /\ cstk[a].top \in Int
          /\ cstk[a].traps \in Int
  <2>1. \A a \in 1 .. Len(cstk) : cstk[a] \in Activation  BY CoreFacts, SeqFacts
  <2>. QED BY <2>1 DEF Activation
<1>4. /\ \A a \in 1 .. Len(cstk) : cstk[a].low <= Len(calls)
      /\ \A a, b \in 1 .. Len(cstk) : a <= b => cstk[a].low <= cstk[b].low
  BY CoreFacts DEF WellNested, ActivationsNest
<1>5. \A a \in 1 .. Len(cstk) :
          /\ High(a) \in Nat /\ cstk[a].low <= High(a) /\ High(a) <= Len(calls)
          /\ a # Len(cstk) => a + 1 \in 1 .. Len(cstk) /\ High(a) = cstk[a + 1].low
  <2>. SUFFICES ASSUME NEW a \in 1 .. Len(cstk)
                PROVE /\ High(a) \in Nat /\ cstk[a].low <= High(a) /\ High(a) <= Len(calls)
                      /\ a # Len(cstk) => a + 1 \in 1 .. Len(cstk) /\ High(a) = cstk[a + 1].low
    OBVIOUS
  <2>1. CASE a = Len(cstk)  BY <1>1, <1>4, <2>1 DEF High
  <2>2. CASE a # Len(cstk)
    <3>1. a + 1 \in 1 .. Len(cstk) /\ a <= a + 1  BY <1>1, <2>2
    <3>. QED BY <1>3, <1>4, <2>2, <3>1 DEF High
  <2>. QED BY <2>1, <2>2
<1>6. Len(cstk) > 0 => /\ Len(cstk) \in 1 .. Len(cstk)
                       /\ act = cstk[Len(cstk)] /\ High(Len(cstk)) = Len(calls)
                       /\ ~ susp.on /\ act.low \in Nat /\ act.low <= Len(calls)
  <2>1. Len(cstk) > 0 => ~ susp.on  BY RunFacts
  <2>. QED BY <1>1, <1>3, <1>4, <2>1 DEF High, act
<1>7. Len(calls) > 0 => Len(calls) \in 1 .. Len(calls) /\ ci = calls[Len(calls)]
  BY <1>1 DEF ci
<1>8. \A n \in 0 .. Len(calls) : BaseAt(n) \in Int
  BY <1>1, <1>2 DEF BaseAt
<1>9. \A a \in 1 .. Len(cstk) : cstk[a].via \in {"op", "meta", "handler"} => a > 1
  BY CoreFacts DEF WellNested, CallersFit
<1>. QED BY <1>1, <1>2, <1>3, <1>4, <1>5, <1>6, <1>7, <1>8, <1>9, RunFacts DEF Nest

\* The same after the step.
LEMMA NestAfter == CoreInv' => Nest'
  BY NestHolds, PTL

----------------------------------------------------------------------------
(* What the frames hold after a push, a change and a leave.                *)

\* A push leaves what is below it.
LEMMA PushBelow ==
    ASSUME Nest, NEW f, FramePushed(f)
    PROVE  /\ Len(calls') = Len(calls) + 1 /\ ci' = f
           /\ \A n \in 0 .. Len(calls) : BaseAt(n)' = BaseAt(n) /\ TrapsUpTo(n)' = TrapsUpTo(n)
           /\ BaseAt(Len(calls))' = f.base
           /\ TrapsUpTo(Len(calls))' = f.tlow + f.etraps
<1>1. Len(calls) \in Nat /\ Len(calls) + 1 # 0  BY DEF Nest
<1>2. \A n \in 0 .. Len(calls) : BaseAt(n)' = BaseAt(n) /\ TrapsUpTo(n)' = TrapsUpTo(n)
  BY <1>1 DEF BaseAt, TrapsUpTo, FramePushed
<1>3. Len(calls') = Len(calls) + 1 /\ calls'[Len(calls')] = f /\ Len(calls') # 0
  BY <1>1 DEF FramePushed
<1>4. BaseAt(Len(calls))' = f.base /\ TrapsUpTo(Len(calls))' = f.tlow + f.etraps /\ ci' = f
  BY <1>3 DEF BaseAt, TrapsUpTo, ci
<1>. QED BY <1>2, <1>3, <1>4

\* So does a leave.
LEMMA LeaveBelow ==
    ASSUME Nest, Len(calls) > 0, FrameLeft
    PROVE  /\ Len(calls') = Len(calls) - 1 /\ Len(calls) - 1 \in Nat
           /\ \A n \in 0 .. Len(calls) - 1 :
                 BaseAt(n)' = BaseAt(n) /\ TrapsUpTo(n)' = TrapsUpTo(n)
           /\ \A i \in 1 .. Len(calls) - 1 : calls'[i] = calls[i]
<1>1. Len(calls) \in Nat  BY DEF Nest
<1>. QED BY <1>1 DEF BaseAt, TrapsUpTo, FrameLeft

\* The innermost frame changes, on the same stack base.
Replaces(f) ==
    /\ Len(calls) > 0 /\ Len(calls') = Len(calls)
    /\ \A i \in 1 .. Len(calls) - 1 : calls'[i] = calls[i]
    /\ calls'[Len(calls)] = f
    /\ f.pbase = ci.pbase /\ f.ptop = ci.ptop /\ f.base = ci.base
    /\ f.gen = ci.gen /\ f.tlow = ci.tlow

LEMMA ChangesReplace ==
    ASSUME Nest, NEW f, NEW d, Changes(f, d)
    PROVE  Replaces(f)
<1>1. act.low \in Nat /\ Len(calls) \in Nat  BY DEF Nest, Changes
<1>. QED BY <1>1 DEF Changes, Replaces

LEMMA ReplaceBelow ==
    ASSUME Nest, NEW f, Replaces(f)
    PROVE  /\ ci' = f /\ Len(calls) \in 1 .. Len(calls) /\ ci = calls[Len(calls)]
           /\ \A n \in 0 .. Len(calls) : BaseAt(n)' = BaseAt(n)
           /\ \A n \in 0 .. Len(calls) - 1 : TrapsUpTo(n)' = TrapsUpTo(n)
           /\ TrapsUpTo(Len(calls))' = ci.tlow + f.etraps
<1>1. Len(calls) \in Nat /\ Len(calls) \in 1 .. Len(calls) /\ ci = calls[Len(calls)]
  BY DEF Nest, Replaces
<1>2. ASSUME NEW n \in 0 .. Len(calls)  PROVE BaseAt(n)' = BaseAt(n)
  <2>1. CASE n = Len(calls)  BY <1>1, <2>1 DEF Replaces, BaseAt
  <2>2. CASE n # Len(calls)
    <3>1. n = 0 \/ n \in 1 .. Len(calls) - 1  BY <1>1, <2>2
    <3>. QED BY <3>1 DEF Replaces, BaseAt
  <2>. QED BY <2>1, <2>2
<1>3. \A n \in 0 .. Len(calls) - 1 : TrapsUpTo(n)' = TrapsUpTo(n)
  BY <1>1 DEF Replaces, TrapsUpTo
<1>4. TrapsUpTo(Len(calls))' = ci.tlow + f.etraps
  BY <1>1 DEF Replaces, TrapsUpTo
<1>5. ci' = f  BY DEF Replaces, ci
<1>. QED BY <1>1, <1>2, <1>3, <1>4, <1>5

\* _prevstkbase leads back.
LEMMA BasesOnPush ==
    ASSUME Nest, BasesChain, NEW f, FramePushed(f), stackbase' = f.base,
           f.pbase = f.base - stackbase
    PROVE  BasesChain'
<1>1. Len(calls) \in Nat /\ stackbase = BaseAt(Len(calls))  BY DEF Nest, BasesChain
<1>2. ASSUME NEW i \in 1 .. Len(calls')
      PROVE  calls'[i].pbase = calls'[i].base - BaseAt(i - 1)'
  <2>1. i - 1 \in 0 .. Len(calls)  BY <1>1 DEF FramePushed
  <2>2. BaseAt(i - 1)' = BaseAt(i - 1)  BY <2>1, PushBelow
  <2>3. CASE i = Len(calls) + 1  BY <1>1, <2>2, <2>3 DEF FramePushed
  <2>4. CASE i # Len(calls) + 1
    <3>1. i \in 1 .. Len(calls)  BY <2>1, <2>4, <1>1
    <3>. QED BY <2>2, <3>1 DEF FramePushed, BasesChain
  <2>. QED BY <2>3, <2>4
<1>. QED BY <1>2, PushBelow DEF BasesChain

LEMMA BasesOnReplace ==
    ASSUME Nest, BasesChain, NEW f, Replaces(f), stackbase' = stackbase
    PROVE  BasesChain'
<1>1. ASSUME NEW i \in 1 .. Len(calls')
      PROVE  calls'[i].pbase = calls'[i].base - BaseAt(i - 1)'
  <2>0. Len(calls) \in Nat /\ i \in 1 .. Len(calls) /\ i - 1 \in 0 .. Len(calls)
    BY DEF Replaces, Nest
  <2>1. calls'[i].pbase = calls[i].pbase /\ calls'[i].base = calls[i].base
    <3>1. CASE i = Len(calls)  BY <3>1, ReplaceBelow DEF Replaces
    <3>2. CASE i # Len(calls)
      <4>1. i \in 1 .. Len(calls) - 1  BY <2>0, <3>2
      <4>. QED BY <4>1 DEF Replaces
    <3>. QED BY <3>1, <3>2
  <2>2. BaseAt(i - 1)' = BaseAt(i - 1)  BY <2>0, ReplaceBelow
  <2>. QED BY <2>0, <2>1, <2>2 DEF BasesChain
<1>2. BaseAt(Len(calls))' = BaseAt(Len(calls))
  <2>1. Len(calls) \in 0 .. Len(calls) /\ Len(calls') = Len(calls)  BY DEF Nest, Replaces
  <2>2. PICK n \in 0 .. Len(calls) : n = Len(calls)  BY <2>1
  <2>3. BaseAt(Len(calls))' = BaseAt(n)'  BY <2>1, <2>2 DEF BaseAt
  <2>. QED BY <2>2, <2>3, ReplaceBelow
<1>. QED BY <1>1, <1>2 DEF BasesChain

LEMMA BasesOnLeave ==
    ASSUME Nest, BasesChain, LeavesFrame
    PROVE  BasesChain' /\ LeftBase = BaseAt(Len(calls) - 1)
<1>1. /\ Len(calls) \in Nat /\ Len(calls) \in 1 .. Len(calls) /\ ci = calls[Len(calls)]
      /\ FrameLeft /\ ci.base \in Int
  BY DEF Nest, LeavesFrame
<1>2. LeftBase = BaseAt(Len(calls) - 1)
  <2>1. ci.pbase = ci.base - BaseAt(Len(calls) - 1)  BY <1>1 DEF BasesChain
  <2>2. Len(calls) - 1 \in 0 .. Len(calls)  BY <1>1
  <2>3. BaseAt(Len(calls) - 1) \in Int  BY <2>2 DEF Nest
  <2>4. stackbase = ci.base  BY <1>1 DEF BasesChain, BaseAt
  <2>. QED BY <1>1, <2>1, <2>3, <2>4 DEF LeftBase
<1>3. ASSUME NEW i \in 1 .. Len(calls')
      PROVE  calls'[i].pbase = calls'[i].base - BaseAt(i - 1)'
  <2>1. i \in 1 .. Len(calls) - 1 /\ i - 1 \in 0 .. Len(calls) - 1 /\ i \in 1 .. Len(calls)
    BY <1>1 DEF FrameLeft
  <2>2. calls'[i] = calls[i] /\ BaseAt(i - 1)' = BaseAt(i - 1)
    <3>1. calls'[i] = calls[i]  BY ONLY <1>1, <2>1, LeaveBelow, Nest
    <3>2. PICK n \in 0 .. Len(calls) - 1 : n = i - 1  BY ONLY <2>1
    <3>3. BaseAt(n)' = BaseAt(n)  BY ONLY <1>1, <3>2, LeaveBelow, Nest
    <3>. QED BY ONLY <3>1, <3>2, <3>3
  <2>3. calls[i].pbase = calls[i].base - BaseAt(i - 1)
    BY ONLY <2>1, BasesChain DEF BasesChain
  <2>. QED BY ONLY <2>2, <2>3
<1>4. BaseAt(Len(calls))' = BaseAt(Len(calls) - 1)
  <2>1. Len(calls) - 1 \in 0 .. Len(calls) - 1 /\ Len(calls') = Len(calls) - 1
    BY <1>1 DEF FrameLeft
  <2>2. PICK n \in 0 .. Len(calls) - 1 : n = Len(calls) - 1  BY <2>1
  <2>3. BaseAt(Len(calls))' = BaseAt(n)'  BY <2>1, <2>2 DEF BaseAt
  <2>4. BaseAt(n)' = BaseAt(n)  BY <1>1, LeaveBelow
  <2>. QED BY <2>2, <2>3, <2>4
<1>5. stackbase' = LeftBase  BY DEF LeavesFrame
<1>. QED BY <1>2, <1>3, <1>4, <1>5 DEF BasesChain

\* The frames keep their traps in order.
LEMMA OrderOnPush ==
    ASSUME CoreInv, Nest, TrapsOrdered, NEW f, FramePushed(f), f.tlow = Len(etraps)
    PROVE  TrapsOrdered'
<1>1. Len(calls) \in Nat /\ Len(etraps) \in Nat  BY DEF Nest
<1>2. \A i \in 1 .. Len(calls) : calls[i].tlow + calls[i].etraps <= Len(etraps)
  <2>1. Len(calls) > 0 => Len(etraps) = ci.tlow + ci.etraps /\ Len(calls) \in 1 .. Len(calls)
                          /\ ci = calls[Len(calls)]
    BY <1>1, CoreFacts DEF TrapCounts, TrapsUpTo, ci
  <2>2. ASSUME NEW i \in 1 .. Len(calls)
        PROVE  calls[i].tlow + calls[i].etraps <= Len(etraps)
    <3>1. CASE i = Len(calls)  BY <1>1, <2>1, <3>1
    <3>2. CASE i # Len(calls)
      <4>1. i < Len(calls)  BY <1>1, <3>2
      <4>2. calls[i].tlow + calls[i].etraps <= ci.tlow
        BY <1>1, <2>1, <4>1 DEF TrapsOrdered
      <4>3. ci.tlow \in Nat /\ ci.etraps \in Nat /\ calls[i].tlow \in Nat
            /\ calls[i].etraps \in Nat
        BY <1>1, <2>1 DEF Nest
      <4>. QED BY <1>1, <2>1, <4>2, <4>3
    <3>. QED BY <3>1, <3>2
  <2>. QED BY <2>2
<1>3. ASSUME NEW i \in 1 .. Len(calls'), NEW j \in 1 .. Len(calls'), i < j
      PROVE  calls'[i].tlow + calls'[i].etraps <= calls'[j].tlow
  <2>1. i \in 1 .. Len(calls) /\ calls'[i] = calls[i]  BY <1>1, <1>3 DEF FramePushed
  <2>2. CASE j = Len(calls) + 1  BY <1>2, <2>1, <2>2 DEF FramePushed
  <2>3. CASE j # Len(calls) + 1
    <3>1. j \in 1 .. Len(calls) /\ calls'[j] = calls[j]  BY <1>1, <2>3 DEF FramePushed
    <3>. QED BY <1>3, <2>1, <3>1 DEF TrapsOrdered
  <2>. QED BY <2>2, <2>3
<1>. QED BY <1>3 DEF TrapsOrdered

LEMMA OrderOnReplace ==
    ASSUME Nest, TrapsOrdered, NEW f, Replaces(f)
    PROVE  TrapsOrdered'
<1>1. Len(calls) \in Nat /\ Len(calls') = Len(calls) /\ ci = calls[Len(calls)]
  BY ReplaceBelow DEF Nest, Replaces
<1>2. ASSUME NEW i \in 1 .. Len(calls'), NEW j \in 1 .. Len(calls'), i < j
      PROVE  calls'[i].tlow + calls'[i].etraps <= calls'[j].tlow
  <2>1. i \in 1 .. Len(calls) - 1 /\ i \in 1 .. Len(calls) /\ j \in 1 .. Len(calls)
    BY <1>1, <1>2
  <2>2. calls'[i] = calls[i]  BY <2>1 DEF Replaces
  <2>3. calls'[j].tlow = calls[j].tlow
    <3>1. CASE j = Len(calls)  BY <1>1, <3>1 DEF Replaces
    <3>2. CASE j # Len(calls)
      <4>1. j \in 1 .. Len(calls) - 1  BY <1>1, <2>1, <3>2
      <4>. QED BY <4>1 DEF Replaces
    <3>. QED BY <3>1, <3>2
  <2>. QED BY <1>2, <2>1, <2>2, <2>3 DEF TrapsOrdered
<1>. QED BY <1>2 DEF TrapsOrdered

LEMMA OrderOnLeave ==
    ASSUME Nest, TrapsOrdered, FrameLeft
    PROVE  TrapsOrdered'
<1>1. \A i \in 1 .. Len(calls') : i \in 1 .. Len(calls) /\ calls'[i] = calls[i]
  BY DEF FrameLeft, Nest
<1>. QED BY <1>1 DEF TrapsOrdered

\* Under the innermost frame every trap is below its own.
LEMMA LowerTraps ==
    ASSUME CoreInv, Nest, TrapsOrdered, Len(calls) > 0
    PROVE  /\ Len(etraps) = ci.tlow + ci.etraps
           /\ \A i \in 1 .. Len(calls) - 1 : calls[i].tlow + calls[i].etraps <= ci.tlow
<1>1. Len(calls) \in Nat /\ Len(calls) \in 1 .. Len(calls) /\ ci = calls[Len(calls)]
  BY DEF Nest
<1>2. Len(etraps) = ci.tlow + ci.etraps  BY <1>1, CoreFacts DEF TrapCounts, TrapsUpTo
<1>3. \A i \in 1 .. Len(calls) - 1 : i \in 1 .. Len(calls) /\ i < Len(calls)  BY <1>1
<1>. QED BY <1>1, <1>2, <1>3 DEF TrapsOrdered

\* A trap that is there before the step is there after it.
TrapsStay(n) == \A k \in 1 .. n : etraps'[k] = etraps[k]

\* The traps hold the stacks of their frames: a frame with its traps comes.
LEMMA TrapsOnPush ==
    ASSUME CoreInv, Nest, TrapsHeld, NEW f, FramePushed(f), f.tlow = Len(etraps),
           TrapsOrdered', f.etraps \in Nat, TrapsStay(Len(etraps)),
           \A k \in 1 .. f.etraps :
               etraps'[Len(etraps) + k] = [base |-> f.base, size |-> f.top]
    PROVE  TrapsHeld'
<1>1. Len(calls) \in Nat /\ Len(etraps) \in Nat /\ Len(calls') = Len(calls) + 1
      /\ calls'[Len(calls) + 1] = f
  BY DEF Nest, FramePushed
<1>2. ASSUME NEW i \in 1 .. Len(calls'),
             NEW k \in calls'[i].tlow + 1 .. calls'[i].tlow + calls'[i].etraps
      PROVE  etraps'[k] = [base |-> calls'[i].base, size |-> calls'[i].top]
  <2>1. CASE i = Len(calls) + 1
    <3>1. k \in Len(etraps) + 1 .. Len(etraps) + f.etraps  BY <1>1, <1>2, <2>1
    <3>2. k - Len(etraps) \in 1 .. f.etraps /\ Len(etraps) + (k - Len(etraps)) = k
      BY <1>1, <3>1
    <3>. QED BY <1>1, <2>1, <3>2
  <2>2. CASE i # Len(calls) + 1
    <3>1. i \in 1 .. Len(calls) /\ calls'[i] = calls[i] /\ i < Len(calls) + 1
      BY <1>1, <2>2 DEF FramePushed
    <3>2. calls[i].tlow + calls[i].etraps <= Len(etraps)
      <4>1. Len(calls) + 1 \in 1 .. Len(calls')  BY <1>1
      <4>. QED BY <1>1, <3>1, <4>1 DEF TrapsOrdered
    <3>3. calls[i].tlow \in Nat /\ calls[i].etraps \in Nat  BY <3>1 DEF Nest
    <3>4. k \in 1 .. Len(etraps) /\ k \in calls[i].tlow + 1 .. calls[i].tlow + calls[i].etraps
      BY <1>1, <3>1, <3>2, <3>3
    <3>. QED BY <3>1, <3>4 DEF TrapsHeld, TrapsStay
  <2>. QED BY <2>1, <2>2
<1>. QED BY <1>2 DEF TrapsHeld

\* The innermost frame changes with its own traps.
LEMMA TrapsOnReplace ==
    ASSUME CoreInv, Nest, TrapsHeld, TrapsOrdered, NEW f, Replaces(f), TrapsStay(ci.tlow),
           \A k \in ci.tlow + 1 .. ci.tlow + f.etraps :
               etraps'[k] = [base |-> f.base, size |-> f.top]
    PROVE  TrapsHeld'
<1>1. Len(calls) \in Nat /\ Len(calls') = Len(calls) /\ ci = calls[Len(calls)]
      /\ calls'[Len(calls)] = f /\ f.tlow = ci.tlow /\ Len(calls) > 0
  BY ReplaceBelow DEF Nest, Replaces
<1>2. ASSUME NEW i \in 1 .. Len(calls'),
             NEW k \in calls'[i].tlow + 1 .. calls'[i].tlow + calls'[i].etraps
      PROVE  etraps'[k] = [base |-> calls'[i].base, size |-> calls'[i].top]
  <2>1. CASE i = Len(calls)  BY <1>1, <2>1
  <2>2. CASE i # Len(calls)
    <3>1. i \in 1 .. Len(calls) - 1 /\ i \in 1 .. Len(calls)  BY <1>1, <2>2
    <3>2. calls'[i] = calls[i]  BY <3>1 DEF Replaces
    <3>3. calls[i].tlow + calls[i].etraps <= ci.tlow  BY <1>1, <3>1, LowerTraps
    <3>4. calls[i].tlow \in Nat /\ calls[i].etraps \in Nat /\ ci.tlow \in Nat
      BY <1>1, <3>1 DEF Nest
    <3>5. k \in 1 .. ci.tlow /\ k \in calls[i].tlow + 1 .. calls[i].tlow + calls[i].etraps
      BY <3>2, <3>3, <3>4
    <3>. QED BY <3>1, <3>2, <3>5 DEF TrapsHeld, TrapsStay
  <2>. QED BY <2>1, <2>2
<1>. QED BY <1>2 DEF TrapsHeld

\* The innermost frame goes with its traps.
LEMMA TrapsOnLeave ==
    ASSUME CoreInv, Nest, TrapsHeld, TrapsOrdered, LeavesFrame
    PROVE  TrapsHeld'
<1>1. Len(calls) \in Nat /\ Len(calls') = Len(calls) - 1 /\ Len(calls) > 0
      /\ \A i \in 1 .. Len(calls) - 1 : calls'[i] = calls[i]
      /\ \A k \in 1 .. Len(etraps) - ci.etraps : etraps'[k] = etraps[k]
  BY DEF Nest, LeavesFrame, FrameLeft
<1>2. Len(etraps) - ci.etraps = ci.tlow /\ ci.tlow \in Nat
  <2>1. Len(etraps) = ci.tlow + ci.etraps  BY <1>1, LowerTraps
  <2>2. ci.tlow \in Nat /\ ci.etraps \in Nat  BY <1>1 DEF Nest
  <2>. QED BY <2>1, <2>2
<1>3. ASSUME NEW i \in 1 .. Len(calls'),
             NEW k \in calls'[i].tlow + 1 .. calls'[i].tlow + calls'[i].etraps
      PROVE  etraps'[k] = [base |-> calls'[i].base, size |-> calls'[i].top]
  <2>1. i \in 1 .. Len(calls) - 1 /\ i \in 1 .. Len(calls)  BY <1>1
  <2>2. calls'[i] = calls[i]  BY <1>1, <2>1
  <2>3. calls[i].tlow + calls[i].etraps <= ci.tlow  BY <1>1, <2>1, LowerTraps
  <2>4. calls[i].tlow \in Nat /\ calls[i].etraps \in Nat  BY <2>1 DEF Nest
  <2>5. k \in 1 .. Len(etraps) - ci.etraps
        /\ k \in calls[i].tlow + 1 .. calls[i].tlow + calls[i].etraps
    BY SMTT(30), <1>2, <1>3, <2>2, <2>3, <2>4
  <2>6. etraps'[k] = etraps[k]  BY <1>1, <2>5
  <2>. QED BY <2>1, <2>2, <2>5, <2>6 DEF TrapsHeld
<1>. QED BY <1>3 DEF TrapsHeld

\* The part of StackInv that is about frames, traps and generators alone.
FramesFit == BasesChain /\ TrapsHeld /\ TrapsOrdered /\ SavedTrapsRelative

\* EnterFrame, and LVGenerator::Resume before it.
LEMMA FitOnEnter ==
    ASSUME CoreInv, Nest, FramesFit, NEW f, NEW curtop, EntersFrame(f, curtop),
           BringsNothing(f) \/ \E g \in Gen : BringsGenerator(f, g)
    PROVE  FramesFit'
<1>. /\ BasesChain /\ TrapsHeld /\ TrapsOrdered /\ SavedTrapsRelative
  BY DEF FramesFit
<1>1. /\ f \in Frame /\ FramePushed(f) /\ f.pbase = f.base - stackbase
      /\ f.tlow = Len(etraps) /\ stackbase' = f.base
  BY DEF EntersFrame
<1>2. f.etraps \in Nat /\ f.base \in Int /\ f.top \in Int  BY <1>1 DEF Frame
<1>3. BasesChain' /\ TrapsOrdered'  BY <1>1, BasesOnPush, OrderOnPush
<1>4. CASE BringsNothing(f)
  <2>1. f.etraps = 0 /\ etraps' = etraps /\ gens' = gens  BY <1>4 DEF BringsNothing
  <2>2. TrapsHeld'
    <3>1. TrapsStay(Len(etraps))  BY <2>1 DEF TrapsStay
    <3>2. \A k \in 1 .. f.etraps :
              etraps'[Len(etraps) + k] = [base |-> f.base, size |-> f.top]
      BY <2>1
    <3>. QED BY <1>1, <1>2, <1>3, <3>1, <3>2, TrapsOnPush
  <2>3. SavedTrapsRelative'  BY <2>1 DEF SavedTrapsRelative
  <2>. QED BY <1>3, <2>2, <2>3 DEF FramesFit
<1>5. ASSUME NEW g \in Gen, BringsGenerator(f, g)  PROVE FramesFit'
  <2>. DEFINE n == f.etraps
  <2>1. /\ n = Len(gens[g].traps) /\ f.top = f.base + gens[g].size
        /\ \A k \in 1 .. Len(etraps) : etraps'[k] = etraps[k]
        /\ \A k \in 1 .. n : etraps'[Len(etraps) + k] =
              [ base |-> gens[g].traps[n + 1 - k].base + f.base,
                size |-> gens[g].traps[n + 1 - k].size + f.base ]
        /\ gens'[g].traps = <<>>
        /\ \A h \in Gen \ {g} : gens'[h] = gens[h]
    BY <1>5 DEF BringsGenerator
  <2>2. n \in Nat /\ DOMAIN gens[g].traps = 1 .. n /\ gens[g].size \in Int
    <3>1. gens[g] \in Generator  BY CoreFacts
    <3>2. gens[g].traps \in Seq(Trap) /\ gens[g].size \in Int  BY <3>1 DEF Generator
    <3>. QED BY <1>2, <2>1, <3>2
  <2>3. ASSUME NEW k \in 1 .. n
        PROVE  etraps'[Len(etraps) + k] = [base |-> f.base, size |-> f.top]
    <3>1. n + 1 - k \in 1 .. n  BY <2>2
    <3>2. gens[g].traps[n + 1 - k] = [base |-> 0, size |-> gens[g].size]
      BY <2>2, <3>1 DEF SavedTrapsRelative
    <3>3. 0 + f.base = f.base /\ gens[g].size + f.base = f.top
      BY <1>2, <2>1, <2>2
    <3>. QED BY SMTT(30), <2>1, <3>2, <3>3
  <2>4. TrapsHeld'
    <3>1. TrapsStay(Len(etraps))  BY <2>1 DEF TrapsStay
    <3>. QED BY <1>1, <1>2, <1>3, <2>3, <3>1, TrapsOnPush
  <2>5. SavedTrapsRelative'
    <3>1. ASSUME NEW h \in Gen, NEW k \in DOMAIN gens'[h].traps
          PROVE  gens'[h].traps[k] = [base |-> 0, size |-> gens'[h].size]
      <4>1. CASE h = g  BY <2>1, <4>1
      <4>2. CASE h # g  BY <2>1, <4>2 DEF SavedTrapsRelative
      <4>. QED BY <4>1, <4>2
    <3>. QED BY <3>1 DEF SavedTrapsRelative
  <2>. QED BY <1>3, <2>4, <2>5 DEF FramesFit
<1>. QED BY <1>4, <1>5

\* LeaveFrame, LVGenerator::Kill and LVGenerator::Yield.
LEMMA FitOnLeave ==
    ASSUME CoreInv, Nest, FramesFit, RunsAtTop, LeavesFrame
    PROVE  FramesFit'
<1>. /\ BasesChain /\ TrapsHeld /\ TrapsOrdered /\ SavedTrapsRelative
  BY DEF FramesFit
<1>1. BasesChain' /\ TrapsHeld' /\ TrapsOrdered'
  BY BasesOnLeave, TrapsOnLeave, OrderOnLeave DEF LeavesFrame
<1>2. /\ Len(calls) > 0 /\ Len(calls) \in 1 .. Len(calls) /\ ci = calls[Len(calls)]
      /\ ci.etraps \in Nat /\ ci.tlow \in Nat /\ ci.base \in Int /\ ci.top \in Int
      /\ Len(etraps) = ci.tlow + ci.etraps
  BY LowerTraps DEF LeavesFrame, Nest
<1>3. SavedTrapsRelative'
  <2>1. CASE gens' = gens  BY <2>1 DEF SavedTrapsRelative
  <2>2. CASE gens' # gens
    <3>. DEFINE g == ci.gen
    <3>1. /\ g \in Gen
          /\ \A h \in Gen \ {g} : gens'[h] = gens[h]
          /\ \/ gens'[g].traps = gens[g].traps /\ gens'[g].size = gens[g].size
             \/ InExec /\ gens'[g].traps = SavedTraps /\ gens'[g].size = top - stackbase
      BY <2>2 DEF LeavesFrame
    <3>. HIDE DEF g
    <3>2. ASSUME InExec, gens'[g].traps = SavedTraps, gens'[g].size = top - stackbase,
                 NEW k \in DOMAIN gens'[g].traps
          PROVE  gens'[g].traps[k] = [base |-> 0, size |-> gens'[g].size]
      <4>1. k \in 1 .. ci.etraps  BY <3>2 DEF SavedTraps
      <4>. DEFINE m == Len(etraps) + 1 - k
      <4>2. m \in ci.tlow + 1 .. ci.tlow + ci.etraps  BY <1>2, <4>1
      <4>3. etraps[m] = [base |-> ci.base, size |-> ci.top]  BY <1>2, <4>2 DEF TrapsHeld
      <4>4. SavedTraps[k] = [ base |-> etraps[m].base - stackbase,
                              size |-> etraps[m].size - stackbase ]
        BY <1>2, <4>1, SavedPoints
      <4>. HIDE DEF m
      <4>5. stackbase = ci.base /\ top = ci.top
        BY <1>2, <3>2 DEF BasesChain, BaseAt, RunsAtTop
      <4>6. etraps[m].base - stackbase = 0 /\ etraps[m].size - stackbase = top - stackbase
        BY <1>2, <4>3, <4>5
      <4>. QED BY <3>2, <4>4, <4>6
    <3>3. ASSUME NEW h \in Gen, NEW k \in DOMAIN gens'[h].traps
          PROVE  gens'[h].traps[k] = [base |-> 0, size |-> gens'[h].size]
      <4>1. CASE h # g  BY <3>1, <4>1 DEF SavedTrapsRelative
      <4>2. CASE h = g /\ gens'[g].traps = gens[g].traps /\ gens'[g].size = gens[g].size
        BY <4>2 DEF SavedTrapsRelative
      <4>3. CASE h = g /\ InExec /\ gens'[g].traps = SavedTraps
                       /\ gens'[g].size = top - stackbase
        BY <3>2, <4>3
      <4>. QED BY <3>1, <4>1, <4>2, <4>3
    <3>. QED BY <3>3 DEF SavedTrapsRelative
  <2>. QED BY <2>1, <2>2
<1>. QED BY <1>1, <1>3 DEF FramesFit

\* Execute changes its innermost frame: _OP_TAILCALL and _OP_PUSHTRAP.
LEMMA FitOnReuse ==
    ASSUME CoreInv, Nest, FramesFit, NEW f, Reuses(f)
    PROVE  FramesFit'
<1>. /\ BasesChain /\ TrapsHeld /\ TrapsOrdered /\ SavedTrapsRelative
  BY DEF FramesFit
<1>1. /\ Replaces(f) /\ f.etraps = 0 /\ stackbase' = stackbase /\ etraps' = etraps
      /\ gens' = gens
  BY ChangesReplace DEF Reuses, Changes
<1>2. BasesChain' /\ TrapsOrdered'  BY <1>1, BasesOnReplace, OrderOnReplace
<1>3. TrapsHeld'
  <2>1. TrapsStay(ci.tlow)  BY <1>1 DEF TrapsStay
  <2>2. ci.tlow \in Nat  BY <1>1 DEF Replaces, Nest
  <2>3. \A k \in ci.tlow + 1 .. ci.tlow + f.etraps :
            etraps'[k] = [base |-> f.base, size |-> f.top]
    BY <1>1, <2>2
  <2>. QED BY <1>1, <2>1, <2>3, TrapsOnReplace
<1>4. SavedTrapsRelative'  BY <1>1 DEF SavedTrapsRelative
<1>. QED BY <1>2, <1>3, <1>4 DEF FramesFit

LEMMA FitOnArm ==
    ASSUME CoreInv, Nest, FramesFit, RunsAtTop, NEW f, Arms(f)
    PROVE  FramesFit'
<1>. /\ BasesChain /\ TrapsHeld /\ TrapsOrdered /\ SavedTrapsRelative
  BY DEF FramesFit
<1>1. /\ Replaces(f) /\ f.etraps = ci.etraps + 1 /\ stackbase' = stackbase
      /\ f.top = ci.top /\ f.base = ci.base /\ gens' = gens /\ InExec
      /\ \A k \in 1 .. Len(etraps) : etraps'[k] = etraps[k]
      /\ etraps'[Len(etraps) + 1] = [base |-> stackbase, size |-> top]
  BY ChangesReplace DEF Arms, Changes
<1>2. BasesChain' /\ TrapsOrdered'  BY <1>1, BasesOnReplace, OrderOnReplace
<1>3. /\ Len(calls) > 0 /\ Len(calls) \in 1 .. Len(calls) /\ ci = calls[Len(calls)]
      /\ ci.etraps \in Nat /\ ci.tlow \in Nat /\ Len(etraps) = ci.tlow + ci.etraps
  BY <1>1, LowerTraps DEF Replaces, Nest
<1>4. stackbase = ci.base /\ top = ci.top
  BY <1>1, <1>3 DEF BasesChain, BaseAt, RunsAtTop
<1>5. TrapsHeld'
  <2>1. TrapsStay(ci.tlow)  BY <1>1, <1>3 DEF TrapsStay
  <2>2. ASSUME NEW k \in ci.tlow + 1 .. ci.tlow + f.etraps
        PROVE  etraps'[k] = [base |-> f.base, size |-> f.top]
    <3>1. CASE k = Len(etraps) + 1  BY <1>1, <1>4, <3>1
    <3>2. CASE k # Len(etraps) + 1
      <4>1. k \in 1 .. Len(etraps) /\ k \in ci.tlow + 1 .. ci.tlow + ci.etraps
        BY <1>1, <1>3, <3>2
      <4>2. etraps[k] = [base |-> ci.base, size |-> ci.top]  BY <1>3, <4>1 DEF TrapsHeld
      <4>. QED BY <1>1, <4>1, <4>2
    <3>. QED BY <3>1, <3>2
  <2>. QED BY <1>1, <2>1, <2>2, TrapsOnReplace
<1>6. SavedTrapsRelative'  BY <1>1 DEF SavedTrapsRelative
<1>. QED BY <1>2, <1>5, <1>6 DEF FramesFit

\* A trap brings the stack of its frame back.
LEMMA DisarmStack ==
    ASSUME CoreInv, Nest, FramesFit, RunsAtTop, NEW f, NEW d, Disarms(f, d)
    PROVE  stackbase' = stackbase /\ top' = ci.top
<1>. BasesChain /\ TrapsHeld /\ TrapsOrdered  BY DEF FramesFit
<1>1. Replaces(f) /\ ci.etraps > 0  BY ChangesReplace DEF Disarms
<1>2. /\ Len(calls) > 0 /\ Len(calls) \in 1 .. Len(calls) /\ ci = calls[Len(calls)]
      /\ ci.etraps \in Nat /\ ci.tlow \in Nat /\ Len(etraps) = ci.tlow + ci.etraps
  BY <1>1, LowerTraps DEF Replaces, Nest
<1>3. Len(etraps) \in ci.tlow + 1 .. ci.tlow + ci.etraps  BY <1>1, <1>2
<1>4. etraps[Len(etraps)] = [base |-> ci.base, size |-> ci.top]  BY <1>2, <1>3 DEF TrapsHeld
<1>5. stackbase = ci.base  BY <1>2 DEF BasesChain, BaseAt
<1>. QED BY <1>4, <1>5 DEF Disarms, RunsAtTop

LEMMA FitOnDisarm ==
    ASSUME CoreInv, Nest, FramesFit, RunsAtTop, NEW f, NEW d, Disarms(f, d)
    PROVE  FramesFit'
<1>. /\ BasesChain /\ TrapsHeld /\ TrapsOrdered /\ SavedTrapsRelative
  BY DEF FramesFit
<1>1. /\ Replaces(f) /\ ci.etraps > 0 /\ f.etraps = ci.etraps + d /\ d = -1
      /\ f.top = ci.top /\ f.base = ci.base /\ gens' = gens
      /\ \A k \in 1 .. Len(etraps) - 1 : etraps'[k] = etraps[k]
  BY ChangesReplace DEF Disarms, Changes
<1>2. BasesChain' /\ TrapsOrdered'  BY <1>1, DisarmStack, BasesOnReplace, OrderOnReplace
<1>3. /\ Len(calls) > 0 /\ Len(calls) \in 1 .. Len(calls) /\ ci = calls[Len(calls)]
      /\ ci.etraps \in Nat /\ ci.tlow \in Nat /\ Len(etraps) = ci.tlow + ci.etraps
  BY <1>1, LowerTraps DEF Replaces, Nest
<1>4. f.etraps = ci.etraps - 1  BY <1>1, <1>3
<1>5. TrapsHeld'
  <2>1. TrapsStay(ci.tlow)  BY <1>1, <1>3 DEF TrapsStay
  <2>2. ASSUME NEW k \in ci.tlow + 1 .. ci.tlow + f.etraps
        PROVE  etraps'[k] = [base |-> f.base, size |-> f.top]
    <3>1. k \in 1 .. Len(etraps) - 1 /\ k \in ci.tlow + 1 .. ci.tlow + ci.etraps
      BY <1>3, <1>4
    <3>2. etraps[k] = [base |-> ci.base, size |-> ci.top]  BY <1>3, <3>1 DEF TrapsHeld
    <3>. QED BY <1>1, <3>1, <3>2
  <2>. QED BY <1>1, <2>1, <2>2, TrapsOnReplace
<1>6. SavedTrapsRelative'  BY <1>1 DEF SavedTrapsRelative
<1>. QED BY <1>2, <1>5, <1>6 DEF FramesFit

\* lv_wakeupvm.
LEMMA FitOnWake ==
    ASSUME CoreInv, Nest, FramesFit, NEW a, NEW f, Wakes(a, f)
    PROVE  FramesFit'
<1>. /\ BasesChain /\ TrapsHeld /\ TrapsOrdered /\ SavedTrapsRelative
  BY DEF FramesFit
<1>1. /\ Replaces(f) /\ f.etraps = ci.etraps /\ stackbase' = stackbase /\ etraps' = etraps
      /\ gens' = gens /\ f.top = ci.top /\ f.base = ci.base
  BY DEF Wakes, Replaces
<1>2. BasesChain' /\ TrapsOrdered'  BY <1>1, BasesOnReplace, OrderOnReplace
<1>3. TrapsHeld'
  <2>1. TrapsStay(ci.tlow)  BY <1>1 DEF TrapsStay
  <2>2. Len(calls) \in 1 .. Len(calls) /\ ci = calls[Len(calls)]  BY <1>1, ReplaceBelow
  <2>3. \A k \in ci.tlow + 1 .. ci.tlow + f.etraps :
            etraps'[k] = [base |-> f.base, size |-> f.top]
    BY <1>1, <2>2 DEF TrapsHeld
  <2>. QED BY <1>1, <2>1, <2>3, TrapsOnReplace
<1>4. SavedTrapsRelative'  BY <1>1 DEF SavedTrapsRelative
<1>. QED BY <1>2, <1>3, <1>4 DEF FramesFit

\* The frames and traps stay, and so do the traps of the generators.
LEMMA FitOnStay ==
    ASSUME Nest, FramesFit, calls' = calls, etraps' = etraps, stackbase' = stackbase,
           SavedTrapsRelative'
    PROVE  FramesFit'
  BY DEF FramesFit, BasesChain, BaseAt, TrapsHeld, TrapsOrdered

LEMMA FitOnKeep == ASSUME CoreInv, Nest, FramesFit, Keeps PROVE FramesFit'
<1>. SavedTrapsRelative  BY DEF FramesFit
<1>1. CASE gens' = gens
  <2>1. SavedTrapsRelative'  BY <1>1 DEF SavedTrapsRelative
  <2>. QED BY <2>1, FitOnStay DEF Keeps
<1>2. ASSUME NEW g \in Gen, gens'[g].traps = <<>>,
             \A h \in Gen \ {g} : gens'[h] = gens[h]
      PROVE  FramesFit'
  <2>1. ASSUME NEW h \in Gen, NEW k \in DOMAIN gens'[h].traps
        PROVE  gens'[h].traps[k] = [base |-> 0, size |-> gens'[h].size]
    <3>1. CASE h = g  BY <1>2, <3>1
    <3>2. CASE h # g  BY <1>2, <3>2 DEF SavedTrapsRelative
    <3>. QED BY <3>1, <3>2
  <2>2. SavedTrapsRelative'  BY <2>1 DEF SavedTrapsRelative
  <2>. QED BY <2>2, FitOnStay DEF Keeps
<1>. QED BY <1>1, <1>2 DEF Keeps

----------------------------------------------------------------------------
(* What the activations remember.                                          *)

\* The first n activations and what lies below activation n + 1 stay.
ActsBelow(n) ==
    /\ n \in Nat /\ n < Len(cstk) /\ n < Len(cstk')
    /\ \A a \in 1 .. n + 1 :
          /\ cstk'[a].kind = cstk[a].kind
          /\ cstk'[a].via = cstk[a].via
          /\ cstk'[a].low = cstk[a].low
          /\ cstk'[a].base = cstk[a].base
          /\ cstk'[a].top = cstk[a].top
    /\ \A i \in 1 .. cstk[n + 1].low : calls'[i] = calls[i]

\* The stack below activation a is as it was.
LEMMA BaseBelow ==
    ASSUME NEW low \in Nat, NEW high \in Nat, low <= high,
           \A i \in 1 .. high : calls'[i] = calls[i]
    PROVE  BaseAt(low)' = BaseAt(low)
<1>1. low = 0 \/ low \in 1 .. high  OBVIOUS
<1>. QED BY <1>1 DEF BaseAt

\* The frames between low and high are among the first n.
LEMMA RangeFacts ==
    ASSUME NEW low \in Nat, NEW high \in Nat, NEW n \in Nat, low <= high, high <= n
    PROVE  /\ \A i \in low + 2 .. high :
                 i \in 1 .. n /\ i - 1 \in 1 .. n /\ \A j \in i .. high : j \in 1 .. n
           /\ high > low => low + 1 \in 1 .. n
  OBVIOUS

LEMMA LinkedBelow ==
    ASSUME Nest, Nest', ActsLinked, NEW n, ActsBelow(n)
    PROVE  /\ \A a \in 1 .. n : /\ (cstk[a].kind = "exec" => TopsRestored(a))'
                                /\ TopLed(a)' /\ Remembered(a)'
           /\ \A a : a = n + 1 => TopLed(a)'
           /\ \A a \in 1 .. n : High(a)' = High(a)
<1>1. /\ n \in Nat /\ n + 1 \in 1 .. Len(cstk) /\ n + 1 \in 1 .. Len(cstk')
      /\ cstk[n + 1].low \in Nat /\ cstk[n + 1].low <= Len(calls)
  <2>1. n \in Nat /\ n + 1 \in 1 .. Len(cstk) /\ n + 1 \in 1 .. Len(cstk')
    BY SMTT(30) DEF ActsBelow, Nest
  <2>2. /\ cstk[n + 1].low \in Nat /\ High(n + 1) \in Nat
        /\ cstk[n + 1].low <= High(n + 1) /\ High(n + 1) <= Len(calls)
        /\ Len(calls) \in Nat
    BY <2>1 DEF Nest
  <2>. QED BY <2>1, <2>2
<1>2. ASSUME NEW a \in 1 .. n
      PROVE  /\ a \in 1 .. Len(cstk) /\ a + 1 \in 1 .. n + 1 /\ a \in 1 .. n + 1
             /\ a # Len(cstk) /\ a # Len(cstk')
             /\ High(a) = cstk[a + 1].low /\ High(a)' = High(a)
             /\ cstk[a].low \in Nat /\ High(a) \in Nat
             /\ cstk[a].low <= High(a) /\ High(a) <= cstk[n + 1].low
  <2>1. /\ a \in 1 .. Len(cstk) /\ a + 1 \in 1 .. n + 1 /\ a \in 1 .. n + 1
        /\ a # Len(cstk) /\ a # Len(cstk') /\ a + 1 \in 1 .. Len(cstk) /\ a + 1 <= n + 1
    BY <1>1
  <2>2. High(a) = cstk[a + 1].low /\ High(a)' = cstk'[a + 1].low  BY <2>1 DEF High
  <2>3. cstk'[a + 1].low = cstk[a + 1].low  BY <2>1 DEF ActsBelow
  <2>4. cstk[a].low \in Nat /\ High(a) \in Nat /\ cstk[a].low <= High(a)
    BY <2>1 DEF Nest
  <2>5. cstk[a + 1].low <= cstk[n + 1].low  BY <1>1, <2>1 DEF Nest
  <2>. QED BY <2>1, <2>2, <2>3, <2>4, <2>5
<1>3. ASSUME NEW a \in 1 .. n, cstk'[a].kind = "exec"
      PROVE  TopsRestored(a)'
  <2>1. TopsRestored(a)  BY <1>2, <1>3 DEF ActsLinked, ActsBelow
  <2>2. Unwinds(a)' <=> Unwinds(a)  BY <1>2 DEF Unwinds, ActsBelow
  <2>3. cstk'[a].low = cstk[a].low  BY <1>2 DEF ActsBelow
  <2>4. \A i \in cstk[a].low + 2 .. High(a) :
            /\ i \in 1 .. cstk[n + 1].low /\ i - 1 \in 1 .. cstk[n + 1].low
            /\ \A j \in i .. High(a) : j \in 1 .. cstk[n + 1].low
    <3>1. /\ cstk[a].low \in Nat /\ High(a) \in Nat /\ cstk[n + 1].low \in Nat
          /\ cstk[a].low <= High(a) /\ High(a) <= cstk[n + 1].low
      BY <1>1, <1>2
    <3>. QED BY <3>1, RangeFacts
  <2>5. \A i \in cstk[a].low + 2 .. High(a) :
            /\ calls'[i] = calls[i] /\ calls'[i - 1] = calls[i - 1]
            /\ \A j \in i .. High(a) : calls'[j] = calls[j]
    BY <2>4 DEF ActsBelow
  <2>6. High(a)' = High(a)  BY <1>2
  <2>. QED BY <2>1, <2>2, <2>3, <2>5, <2>6 DEF TopsRestored
<1>4. ASSUME NEW a \in 1 .. n + 1  PROVE TopLed(a)'
  <2>. SUFFICES ASSUME cstk'[a].via \in {"op", "meta"}, cstk'[a - 1].kind = "exec"
                PROVE  cstk'[a].low > 0 /\ cstk'[a].top = calls'[cstk'[a].low].top
    BY DEF TopLed
  <2>1. a \in 1 .. Len(cstk) /\ a \in 1 .. n + 1 /\ a <= n + 1  BY <1>1
  <2>2. cstk[a].via \in {"op", "meta"} /\ cstk'[a].low = cstk[a].low
        /\ cstk'[a].top = cstk[a].top
    BY <2>1 DEF ActsBelow
  <2>3. a - 1 \in 1 .. n + 1
    <3>1. a > 1  BY <2>1, <2>2 DEF Nest
    <3>. QED BY <1>1, <3>1
  <2>4. cstk[a - 1].kind = "exec"  BY <2>3 DEF ActsBelow
  <2>5. cstk[a].low > 0 /\ cstk[a].top = calls[cstk[a].low].top
    BY <2>1, <2>2, <2>4 DEF ActsLinked, TopLed
  <2>6. cstk[a].low \in Nat /\ cstk[a].low <= cstk[n + 1].low  BY <1>1, <2>1 DEF Nest
  <2>7. cstk[a].low \in 1 .. cstk[n + 1].low  BY <1>1, <2>5, <2>6
  <2>. QED BY <2>2, <2>5, <2>7 DEF ActsBelow
<1>5. ASSUME NEW a \in 1 .. n  PROVE Remembered(a)'
  <2>1. Remembered(a)  BY <1>2 DEF ActsLinked
  <2>2. /\ cstk'[a].via = cstk[a].via /\ cstk'[a].low = cstk[a].low
        /\ cstk'[a].base = cstk[a].base /\ cstk'[a].top = cstk[a].top
        /\ cstk'[a + 1].top = cstk[a + 1].top
    BY <1>2 DEF ActsBelow
  <2>4. \A m : m = cstk[a].low => BaseAt(m)' = BaseAt(m)
    <3>1. cstk[a].low \in Nat /\ cstk[n + 1].low \in Nat /\ cstk[a].low <= cstk[n + 1].low
      BY <1>1, <1>2
    <3>. QED BY <3>1, BaseBelow DEF ActsBelow
  <2>5. High(a) > cstk[a].low => calls'[cstk[a].low + 1] = calls[cstk[a].low + 1]
    <3>0. /\ cstk[a].low \in Nat /\ High(a) \in Nat /\ cstk[n + 1].low \in Nat
          /\ cstk[a].low <= High(a) /\ High(a) <= cstk[n + 1].low
      BY <1>1, <1>2
    <3>1. High(a) > cstk[a].low => cstk[a].low + 1 \in 1 .. cstk[n + 1].low
      BY <3>0, RangeFacts
    <3>. QED BY <3>1 DEF ActsBelow
  <2>. QED BY <1>2, <2>1, <2>2, <2>4, <2>5 DEF Remembered
<1>. QED BY <1>1, <1>2, <1>3, <1>4, <1>5

\* Execute goes on in the innermost activation.
LEMMA LinkedInPlace ==
    ASSUME Nest, Nest', ActsLinked, Len(cstk) > 0, NEW d, ActStays(d),
           Len(calls) > act.low, Len(calls') > act.low,
           \A i \in 1 .. act.low : calls'[i] = calls[i],
           calls'[act.low + 1].ptop = calls[act.low + 1].ptop,
           \A a : a = Len(cstk) => TopsRestored(a)'
    PROVE  ActsLinked'
<1>0. PICK m \in Nat : m = Len(cstk)  BY DEF Nest
<1>1. PICK n \in Nat :
        /\ m = n + 1 /\ m \in 1 .. Len(cstk) /\ act = cstk[m] /\ Len(cstk') = m
        /\ act.low \in Nat /\ High(m) = Len(calls) /\ m = Len(cstk)
  <2>1. /\ m \in 1 .. Len(cstk) /\ act = cstk[m] /\ Len(cstk') = m
        /\ act.low \in Nat /\ High(m) = Len(calls)
    BY <1>0 DEF Nest, ActStays
  <2>2. m - 1 \in Nat /\ m = (m - 1) + 1  BY <1>0
  <2>. QED BY <1>0, <2>1, <2>2
<1>2. /\ cstk'[m].via = cstk[m].via /\ cstk'[m].low = cstk[m].low
      /\ cstk'[m].base = cstk[m].base /\ cstk'[m].top = cstk[m].top
  BY <1>1 DEF ActStays
<1>3. ActsBelow(n)  BY <1>1 DEF ActsBelow, ActStays
<1>4. /\ \A a \in 1 .. n : /\ (cstk[a].kind = "exec" => TopsRestored(a))'
                           /\ TopLed(a)' /\ Remembered(a)'
      /\ TopLed(m)'
  BY <1>1, <1>3, LinkedBelow
<1>5. TopsRestored(m)'  BY <1>1
<1>6. Remembered(m)'
  <2>1. Remembered(m)  BY <1>1 DEF ActsLinked
  <2>2. \A k : k = act.low => BaseAt(k)' = BaseAt(k)
    <3>1. act.low <= act.low  BY <1>1
    <3>. QED BY <1>1, <3>1, BaseBelow
  <2>3. High(m)' = Len(calls')  BY <1>1 DEF High
  <2>. QED BY <1>1, <1>2, <2>1, <2>2, <2>3 DEF Remembered
<1>7. \A a \in 1 .. Len(cstk') : a \in 1 .. n \/ a = m  BY <1>1
<1>. QED BY <1>4, <1>5, <1>6, <1>7 DEF ActsLinked

\* In a frame that runs, and in one that will catch, the way down is free.
LEMMA TopsAreLinked ==
    ASSUME Nest, ActsLinked, Len(cstk) > 0, act.kind = "exec", Len(calls) > act.low,
           mode \notin {"raise", "unwind"} \/ ci.etraps > 0
    PROVE  \A i \in act.low + 2 .. Len(calls) :
               calls[i - 1].base + calls[i].ptop = calls[i - 1].top
<1>. DEFINE m == Len(cstk)
<1>1. m \in 1 .. Len(cstk) /\ act = cstk[m] /\ High(m) = Len(calls) /\ Len(calls) \in Nat
      /\ act.low \in Nat /\ Len(calls) > 0 /\ ci = calls[Len(calls)]
  BY DEF Nest
<1>2. TopsRestored(m)  BY <1>1 DEF ActsLinked
<1>3. Unwinds(m) <=> mode \in {"raise", "unwind"}  BY DEF Unwinds
<1>. HIDE DEF m
<1>4. ASSUME NEW i \in act.low + 2 .. Len(calls)
      PROVE  calls[i - 1].base + calls[i].ptop = calls[i - 1].top
  <2>1. Len(calls) \in i .. Len(calls)  BY <1>1
  <2>2. ci.etraps > 0 => ci.etraps # 0  OBVIOUS
  <2>. QED BY <1>1, <1>2, <1>3, <1>4, <2>1, <2>2 DEF TopsRestored
<1>. QED BY <1>4

\* The frames of the innermost activation lead down after the step.
LEMMA TopsAfter ==
    ASSUME Nest, Nest', Len(cstk) > 0, NEW d, ActStays(d),
           \A i \in act.low + 2 .. Len(calls') :
               calls'[i - 1].base + calls'[i].ptop = calls'[i - 1].top
    PROVE  \A a : a = Len(cstk) => TopsRestored(a)'
<1>1. /\ Len(cstk') = Len(cstk) /\ act = cstk[Len(cstk)]
      /\ cstk'[Len(cstk)].low = cstk[Len(cstk)].low
  BY DEF Nest, ActStays
<1>2. \A a : a = Len(cstk) => High(a)' = Len(calls')  BY <1>1 DEF High
<1>. QED BY <1>1, <1>2 DEF TopsRestored

LEMMA StackOnEnter ==
    ASSUME CoreInv, Nest, Nest', StackInv, NEW f, NEW d, Enters(f, d)
    PROVE  StackInv'
<1>. BasesChain /\ RunsAtTop /\ ActsLinked /\ FramesFit  BY DEF StackInv, FramesFit
<1>1. /\ InExec /\ EntersFrame(f, top) /\ ActStays(d)
      /\ BringsNothing(f) \/ \E g \in Gen : BringsGenerator(f, g)
      /\ susp' = susp
  BY DEF Enters
<1>2. FramesFit'  BY <1>1, FitOnEnter
<1>3. /\ Len(cstk) > 0 /\ act.kind = "exec" /\ mode = "run" /\ Len(calls) > act.low
      /\ act.low \in Nat /\ Len(calls) \in Nat /\ ~ susp.on /\ ci = calls[Len(calls)]
      /\ Len(calls) \in 1 .. Len(calls)
  BY SMTT(30), <1>1 DEF Nest
<1>4. /\ Len(calls') = Len(calls) + 1 /\ calls'[Len(calls) + 1] = f
      /\ \A i \in 1 .. Len(calls) : calls'[i] = calls[i]
      /\ f.ptop = top - stackbase /\ top' = f.top /\ FramePushed(f)
  BY <1>1 DEF EntersFrame, FramePushed
<1>5. RunsAtTop' /\ SuspendedTops'
  <2>1. ci' = f  BY <1>4, PushBelow
  <2>. QED BY <1>1, <1>3, <1>4, <2>1 DEF RunsAtTop, SuspendedTops
<1>6. ASSUME NEW i \in act.low + 2 .. Len(calls')
      PROVE  calls'[i - 1].base + calls'[i].ptop = calls'[i - 1].top
  <2>1. CASE i = Len(calls) + 1
    <3>1. stackbase = ci.base /\ top = ci.top
      BY <1>1, <1>3 DEF BasesChain, BaseAt, RunsAtTop
    <3>2. ci.base \in Int /\ ci.top \in Int  BY <1>3 DEF Nest
    <3>3. calls'[i - 1] = ci /\ calls'[i] = f  BY <1>3, <1>4, <2>1
    <3>. QED BY <1>4, <3>1, <3>2, <3>3
  <2>2. CASE i # Len(calls) + 1
    <3>1. i \in act.low + 2 .. Len(calls) /\ i \in 1 .. Len(calls)
          /\ i - 1 \in 1 .. Len(calls)
      BY <1>3, <1>4, <2>2
    <3>2. calls[i - 1].base + calls[i].ptop = calls[i - 1].top
      BY <1>3, <3>1, TopsAreLinked
    <3>. QED BY <1>4, <3>1, <3>2
  <2>. QED BY <2>1, <2>2
<1>7. ActsLinked'
  <2>1. \A a : a = Len(cstk) => TopsRestored(a)'  BY <1>1, <1>3, <1>6, TopsAfter
  <2>2. /\ Len(calls') > act.low
        /\ \A i \in 1 .. act.low : calls'[i] = calls[i]
        /\ calls'[act.low + 1].ptop = calls[act.low + 1].ptop
    BY <1>3, <1>4
  <2>. QED BY <1>1, <1>3, <2>1, <2>2, LinkedInPlace
<1>. QED BY <1>2, <1>5, <1>7 DEF StackInv, FramesFit

LEMMA StackOnLeave == ASSUME CoreInv, Nest, Nest', StackInv, Leaves PROVE StackInv'
<1>. BasesChain /\ RunsAtTop /\ ActsLinked /\ FramesFit  BY DEF StackInv, FramesFit
<1>1. /\ Len(cstk) > 0 /\ act.kind = "exec" /\ mode \in {"run", "unwind"}
      /\ Len(calls) > act.low + 1 /\ LeavesFrame /\ top' = LeftTop
      /\ mode' = mode /\ susp' = susp
  BY DEF Leaves
<1>2. PICK d \in Int : ActStays(d)  BY DEF Leaves
<1>3. FramesFit'  BY <1>1, FitOnLeave
<1>4. /\ act.low \in Nat /\ Len(calls) \in Nat /\ ~ susp.on /\ ci = calls[Len(calls)]
      /\ Len(calls) \in 1 .. Len(calls) /\ act = cstk[Len(cstk)]
      /\ Len(calls') = Len(calls) - 1
      /\ \A i \in 1 .. Len(calls) - 1 : calls'[i] = calls[i]
  BY <1>1 DEF Nest, LeavesFrame, FrameLeft
<1>5. LeftBase = calls[Len(calls) - 1].base
  <2>1. LeftBase = BaseAt(Len(calls) - 1)  BY <1>1, BasesOnLeave
  <2>2. Len(calls) - 1 # 0  BY <1>1, <1>4
  <2>. QED BY <2>1, <2>2 DEF BaseAt
<1>6. RunsAtTop' /\ SuspendedTops'
  <2>1. ASSUME InExec'  PROVE top' = ci'.top
    <3>1. mode = "run"  BY <1>1, <2>1 DEF InExec
    <3>2. Len(calls) \in act.low + 2 .. Len(calls)  BY <1>1, <1>4
    <3>3. calls[Len(calls) - 1].base + ci.ptop = calls[Len(calls) - 1].top
      BY <1>1, <1>4, <3>1, <3>2, TopsAreLinked
    <3>4. ci' = calls[Len(calls) - 1]
      <4>1. Len(calls) - 1 \in 1 .. Len(calls) - 1  BY <1>1, <1>4
      <4>. QED BY <1>4, <4>1 DEF ci
    <3>. QED BY <1>1, <1>5, <3>3, <3>4 DEF LeftTop
  <2>. QED BY <1>1, <1>4, <2>1 DEF RunsAtTop, SuspendedTops
<1>7. \A a : a = Len(cstk) => TopsRestored(a)'
  <2>0. PICK m \in Nat : m = Len(cstk)  BY DEF Nest
  <2>1. /\ m \in 1 .. Len(cstk) /\ cstk[m] = act /\ High(m) = Len(calls) /\ m = Len(cstk)
        /\ Len(cstk') = m /\ cstk'[m].low = act.low
    BY <1>1, <1>2, <1>4, <2>0 DEF ActStays, Nest
  <2>2. TopsRestored(m)  BY <1>1, <2>1 DEF ActsLinked
  <2>3. High(m)' = Len(calls) - 1  BY <1>4, <2>1 DEF High
  <2>4. Unwinds(m)' <=> Unwinds(m)  BY <1>1, <2>1 DEF Unwinds
  <2>5. ASSUME NEW i \in act.low + 2 .. Len(calls) - 1
        PROVE  \/ calls'[i - 1].base + calls'[i].ptop = calls'[i - 1].top
               \/ Unwinds(m)' /\ \A j \in i .. Len(calls) - 1 : calls'[j].etraps = 0
    <3>1. /\ i \in act.low + 2 .. Len(calls)
          /\ calls'[i] = calls[i] /\ calls'[i - 1] = calls[i - 1]
          /\ \A j \in i .. Len(calls) - 1 : j \in i .. Len(calls) /\ calls'[j] = calls[j]
      BY <1>4
    <3>. QED BY <2>1, <2>2, <2>4, <3>1 DEF TopsRestored
  <2>6. TopsRestored(m)'  BY <2>1, <2>3, <2>5 DEF TopsRestored
  <2>. QED BY <2>1, <2>6
<1>8. ActsLinked'
  <2>1. /\ Len(calls) > act.low /\ Len(calls') > act.low
        /\ \A i \in 1 .. act.low : calls'[i] = calls[i]
        /\ calls'[act.low + 1].ptop = calls[act.low + 1].ptop
    BY <1>1, <1>4
  <2>. QED BY <1>1, <1>2, <1>7, <2>1, LinkedInPlace
<1>. QED BY <1>3, <1>6, <1>8 DEF StackInv, FramesFit

\* A change of the innermost frame of Execute.
LEMMA LinkedOnChange ==
    ASSUME Nest, Nest', ActsLinked, NEW f, NEW d, Changes(f, d),
           mode \notin {"raise", "unwind"} \/ ci.etraps > 0
    PROVE  ActsLinked'
<1>1. /\ Len(cstk) > 0 /\ act.kind = "exec" /\ Len(calls) > act.low /\ ActStays(d)
      /\ Replaces(f)
  BY ChangesReplace DEF Changes
<1>2. /\ act.low \in Nat /\ Len(calls) \in Nat /\ ci = calls[Len(calls)]
      /\ Len(calls') = Len(calls)
      /\ \A i \in 1 .. Len(calls) - 1 : calls'[i] = calls[i]
      /\ calls'[Len(calls)].ptop = ci.ptop
  BY <1>1, ReplaceBelow DEF Nest, Replaces
<1>3. \A i \in 1 .. Len(calls) : calls'[i].ptop = calls[i].ptop
  <2>. SUFFICES ASSUME NEW i \in 1 .. Len(calls) PROVE calls'[i].ptop = calls[i].ptop
    OBVIOUS
  <2>1. CASE i = Len(calls)  BY <1>2, <2>1
  <2>2. CASE i # Len(calls)
    <3>1. i \in 1 .. Len(calls) - 1  BY <1>2, <2>2
    <3>. QED BY <1>2, <3>1
  <2>. QED BY <2>1, <2>2
<1>4. ASSUME NEW i \in act.low + 2 .. Len(calls')
      PROVE  calls'[i - 1].base + calls'[i].ptop = calls'[i - 1].top
  <2>1. i \in act.low + 2 .. Len(calls) /\ i \in 1 .. Len(calls)
        /\ i - 1 \in 1 .. Len(calls) - 1
    BY <1>2
  <2>2. calls[i - 1].base + calls[i].ptop = calls[i - 1].top
    BY <1>1, <2>1, TopsAreLinked
  <2>. QED BY <1>2, <1>3, <2>1, <2>2
<1>5. \A a : a = Len(cstk) => TopsRestored(a)'  BY <1>1, <1>4, TopsAfter
<1>6. /\ Len(calls') > act.low
      /\ \A i \in 1 .. act.low : calls'[i] = calls[i]
      /\ calls'[act.low + 1].ptop = calls[act.low + 1].ptop
  BY <1>1, <1>2, <1>3
<1>. QED BY <1>1, <1>5, <1>6, LinkedInPlace

LEMMA RunsOnChange ==
    ASSUME Nest, NEW f, NEW d, Changes(f, d), top' = f.top
    PROVE  RunsAtTop' /\ SuspendedTops'
<1>1. ci' = f  BY ChangesReplace, ReplaceBelow
<1>2. ~ susp'.on  BY DEF Changes, Nest
<1>. QED BY <1>1, <1>2 DEF RunsAtTop, SuspendedTops

LEMMA StackOnReuse ==
    ASSUME CoreInv, Nest, Nest', StackInv, NEW f, Reuses(f) PROVE StackInv'
<1>. BasesChain /\ RunsAtTop /\ ActsLinked /\ FramesFit  BY DEF StackInv, FramesFit
<1>1. Changes(f, 0) /\ InExec /\ top' = f.top  BY DEF Reuses
<1>2. mode \notin {"raise", "unwind"}  BY <1>1 DEF InExec
<1>3. FramesFit'  BY FitOnReuse
<1>4. \E d \in Int : Changes(f, d)  BY <1>1
<1>5. ActsLinked' /\ RunsAtTop' /\ SuspendedTops'
  BY <1>1, <1>2, <1>4, LinkedOnChange, RunsOnChange
<1>. QED BY <1>3, <1>5 DEF StackInv, FramesFit

LEMMA StackOnArm ==
    ASSUME CoreInv, Nest, Nest', StackInv, NEW f, Arms(f) PROVE StackInv'
<1>. BasesChain /\ RunsAtTop /\ ActsLinked /\ FramesFit  BY DEF StackInv, FramesFit
<1>1. Changes(f, 1) /\ InExec /\ f.top = ci.top /\ top' = top  BY DEF Arms
<1>2. mode \notin {"raise", "unwind"} /\ top' = f.top  BY <1>1 DEF InExec, RunsAtTop
<1>3. FramesFit'  BY FitOnArm
<1>4. \E d \in Int : Changes(f, d)  BY <1>1
<1>5. ActsLinked' /\ RunsAtTop' /\ SuspendedTops'
  BY <1>2, <1>4, LinkedOnChange, RunsOnChange
<1>. QED BY <1>3, <1>5 DEF StackInv, FramesFit

LEMMA StackOnDisarm ==
    ASSUME CoreInv, Nest, Nest', StackInv, NEW f, NEW d, Disarms(f, d) PROVE StackInv'
<1>. BasesChain /\ RunsAtTop /\ ActsLinked /\ FramesFit  BY DEF StackInv, FramesFit
<1>1. Changes(f, d) /\ f.top = ci.top /\ ci.etraps > 0  BY DEF Disarms
<1>2. top' = f.top  BY <1>1, DisarmStack
<1>3. FramesFit'  BY FitOnDisarm
<1>4. ActsLinked' /\ RunsAtTop' /\ SuspendedTops'
  BY <1>1, <1>2, LinkedOnChange, RunsOnChange
<1>. QED BY <1>3, <1>4 DEF StackInv, FramesFit

\* A new activation, with a frame (up) or without.
LEMMA LinkedOnOpen ==
    ASSUME Nest, Nest', BasesChain, RunsAtTop, ActsLinked, NEW a, ActPushed(a), MayOpen(a),
           a.base = stackbase, a.top = top,
           \A i \in 1 .. Len(calls) : calls'[i] = calls[i],
           \/ /\ Len(calls') = Len(calls) + 1
              /\ calls'[Len(calls) + 1].ptop = (top + Pushed(a.via)) - stackbase
           \/ Len(calls') = Len(calls) /\ top' = top + Pushed(a.via)
    PROVE  ActsLinked'
<1>0. PICK m \in Nat : m = Len(cstk)  BY DEF Nest
<1>1. /\ Len(cstk') = m + 1 /\ m + 1 \in 1 .. Len(cstk') /\ cstk'[m + 1] = a
      /\ \A b \in 1 .. m : cstk'[b] = cstk[b]
      /\ a.low = Len(calls) /\ Len(calls) \in Nat /\ Len(calls) <= Len(calls')
      /\ stackbase \in Int /\ top \in Int /\ stackbase = BaseAt(Len(calls))
  BY SMTT(30), <1>0 DEF ActPushed, MayOpen, Nest, BasesChain
<1>2. \A b \in 1 .. m : High(b)' = High(b)
  <2>1. ASSUME NEW b \in 1 .. m  PROVE High(b)' = High(b)
    <3>1. CASE b = m
      BY <1>0, <1>1, <3>1 DEF High
    <3>2. CASE b # m
      <4>1. b + 1 \in 1 .. m /\ b # m + 1  BY <3>2
      <4>. QED BY <1>0, <1>1, <3>2, <4>1 DEF High
    <3>. QED BY <3>1, <3>2
  <2>. QED BY <2>1
<1>3. \A b : b = m + 1 => High(b)' = Len(calls')  BY <1>1 DEF High
<1>4. \A k : k = Len(calls) => BaseAt(k)' = stackbase
  <2>1. Len(calls) = 0 \/ Len(calls) \in 1 .. Len(calls)  BY <1>1
  <2>. QED BY <1>1, <2>1 DEF BaseAt
<1>5. ASSUME m > 0
      PROVE  /\ \A b \in 1 .. m : /\ (cstk[b].kind = "exec" => TopsRestored(b))'
                                  /\ TopLed(b)' /\ Remembered(b)'
  <2>1. m \in 1 .. Len(cstk) /\ act = cstk[m] /\ High(m) = Len(calls)
        /\ act.low \in Nat /\ act.low <= Len(calls)
    BY <1>0, <1>5 DEF Nest
  <2>2. PICK n \in Nat : m = n + 1
    <3>1. m - 1 \in Nat /\ m = (m - 1) + 1  BY <1>5
    <3>. QED BY <3>1
  <2>3. \A i \in 1 .. act.low : calls'[i] = calls[i]
    <3>1. \A i \in 1 .. act.low : i \in 1 .. Len(calls)  BY <1>1, <2>1
    <3>. QED BY <3>1
  <2>4. ActsBelow(n)  BY <1>0, <1>1, <2>1, <2>2, <2>3 DEF ActsBelow
  <2>5. /\ \A b \in 1 .. n : /\ (cstk[b].kind = "exec" => TopsRestored(b))'
                             /\ TopLed(b)' /\ Remembered(b)'
        /\ TopLed(m)'
    BY <2>2, <2>4, LinkedBelow
  <2>6. cstk'[m].kind = "exec" => TopsRestored(m)'
    <3>. SUFFICES ASSUME cstk'[m].kind = "exec" PROVE TopsRestored(m)'  OBVIOUS
    <3>1. TopsRestored(m)  BY SMTT(30), <1>1, <2>1 DEF ActsLinked
    <3>2. Unwinds(m) => Unwinds(m)'
      <4>1. Unwinds(m) => mode \in {"raise", "unwind"}  BY <1>0 DEF Unwinds
      <4>2. Unwinds(m) => a.via = "handler"  BY <1>0, <1>5, <4>1 DEF MayOpen
      <4>3. m # Len(cstk')  BY <1>1
      <4>. QED BY <1>1, <4>2, <4>3 DEF Unwinds
    <3>3. \A i \in act.low + 2 .. Len(calls) :
              /\ calls'[i] = calls[i] /\ calls'[i - 1] = calls[i - 1]
              /\ \A j \in i .. Len(calls) : calls'[j] = calls[j]
      <4>1. act.low \in Nat /\ Len(calls) \in Nat /\ act.low <= Len(calls)
            /\ Len(calls) <= Len(calls)
        BY <1>1, <2>1
      <4>2. \A i \in act.low + 2 .. Len(calls) :
                i \in 1 .. Len(calls) /\ i - 1 \in 1 .. Len(calls)
                /\ \A j \in i .. Len(calls) : j \in 1 .. Len(calls)
        BY <4>1, RangeFacts
      <4>. QED BY <4>2
    <3>4. High(m)' = Len(calls) /\ cstk'[m].low = act.low  BY <1>1, <1>2, <2>1
    <3>5. \A i \in act.low + 2 .. Len(calls) :
              \/ calls[i - 1].base + calls[i].ptop = calls[i - 1].top
              \/ Unwinds(m) /\ \A j \in i .. Len(calls) : calls[j].etraps = 0
      BY ONLY <2>1, <3>1 DEF TopsRestored
    <3>6. \A i \in act.low + 2 .. Len(calls) :
              \/ calls'[i - 1].base + calls'[i].ptop = calls'[i - 1].top
              \/ Unwinds(m)' /\ \A j \in i .. Len(calls) : calls'[j].etraps = 0
      BY ONLY <3>2, <3>3, <3>5
    <3>. QED BY ONLY <3>4, <3>6 DEF TopsRestored
  <2>7. Remembered(m)'
    <3>1. Remembered(m)  BY <2>1 DEF ActsLinked
    <3>2. \A k : k = act.low => BaseAt(k)' = BaseAt(k)
      <4>1. act.low <= act.low  BY <2>1
      <4>. QED BY <2>1, <2>3, <4>1, BaseBelow
    <3>3. High(m)' = Len(calls) /\ cstk'[m] = act /\ m # Len(cstk') /\ m = Len(cstk)
      BY <1>0, <1>1, <1>2, <2>1
    <3>4. Len(calls) > act.low => calls'[act.low + 1] = calls[act.low + 1]
      BY <1>1, <2>1
    <3>. QED BY <1>1, <2>1, <3>1, <3>2, <3>3, <3>4 DEF Remembered
  <2>8. \A b \in 1 .. m : b \in 1 .. n \/ b = m  BY <2>2
  <2>. QED BY <2>5, <2>6, <2>7, <2>8
<1>6. \A b : b = m + 1 => TopsRestored(b)'
  <2>1. \A i : i \notin Len(calls) + 2 .. Len(calls')  BY <1>1
  <2>. QED BY <1>1, <1>3, <2>1 DEF TopsRestored
<1>7. \A b : b = m + 1 => Remembered(b)'
  <2>1. Pushed(a.via) \in Int  BY DEF Pushed
  <2>2. Len(calls') = Len(calls) + 1 =>
          stackbase + calls'[Len(calls) + 1].ptop = top + Pushed(a.via)
    BY <1>1, <2>1
  <2>. QED BY <1>1, <1>3, <1>4, <2>2 DEF Remembered
<1>8. \A b : b = m + 1 => TopLed(b)'
  <2>. SUFFICES ASSUME a.via \in {"op", "meta"}, cstk'[m].kind = "exec"
                PROVE  Len(calls) > 0 /\ top = calls'[Len(calls)].top
    BY <1>1 DEF TopLed
  <2>1. m > 0 /\ mode = "run"  BY <1>0 DEF MayOpen
  <2>2. m \in 1 .. m /\ act = cstk[m]  BY <1>0, <2>1 DEF Nest
  <2>3. InExec
    <3>1. cstk # <<>>  BY <1>0, <2>1
    <3>. QED BY <1>1, <2>1, <2>2, <3>1 DEF InExec
  <2>4. Len(calls) > 0 /\ ci = calls[Len(calls)]
    <3>1. Len(calls) > act.low /\ act.low \in Nat  BY <2>3 DEF Nest
    <3>2. Len(calls) > 0  BY <1>1, <3>1
    <3>. QED BY <3>2 DEF Nest
  <2>5. Len(calls) \in 1 .. Len(calls)  BY <1>1, <2>4
  <2>. QED BY <2>3, <2>4, <2>5 DEF RunsAtTop
<1>9. \A b \in 1 .. Len(cstk') : b = m + 1 \/ (m > 0 /\ b \in 1 .. m)  BY <1>1
<1>. QED BY <1>5, <1>6, <1>7, <1>8, <1>9 DEF ActsLinked

LEMMA StackOnOpen ==
    ASSUME CoreInv, Nest, Nest', StackInv, NEW a, NEW f, Opens(a, f) PROVE StackInv'
<1>. BasesChain /\ RunsAtTop /\ ActsLinked /\ FramesFit  BY DEF StackInv, FramesFit
<1>1. /\ ActPushed(a) /\ MayOpen(a) /\ a.base = stackbase /\ a.top = top
      /\ EntersFrame(f, top + Pushed(a.via))
      /\ BringsNothing(f) \/ \E g \in Gen : BringsGenerator(f, g)
      /\ susp' = susp /\ ~ susp.on
  BY DEF Opens, MayOpen
<1>2. FramesFit'  BY <1>1, FitOnEnter
<1>3. /\ FramePushed(f) /\ top' = f.top /\ f.ptop = (top + Pushed(a.via)) - stackbase
  BY <1>1 DEF EntersFrame
<1>4. /\ Len(calls') = Len(calls) + 1
      /\ \A i \in 1 .. Len(calls) : calls'[i] = calls[i]
      /\ calls'[Len(calls) + 1].ptop = (top + Pushed(a.via)) - stackbase
  BY <1>3 DEF FramePushed
<1>5. ActsLinked'  BY <1>1, <1>4, LinkedOnOpen
<1>6. RunsAtTop' /\ SuspendedTops'
  <2>1. ci' = f  BY <1>3, PushBelow
  <2>. QED BY <1>1, <1>3, <2>1 DEF RunsAtTop, SuspendedTops
<1>. QED BY <1>2, <1>5, <1>6 DEF StackInv, FramesFit

LEMMA StackOnOpenEmpty ==
    ASSUME CoreInv, Nest, Nest', StackInv, NEW a, OpensEmpty(a) PROVE StackInv'
<1>. BasesChain /\ RunsAtTop /\ ActsLinked /\ FramesFit  BY DEF StackInv, FramesFit
<1>1. /\ ActPushed(a) /\ MayOpen(a) /\ a.base = stackbase /\ a.top = top
      /\ top' = top + Pushed(a.via) /\ mode' = "raise" /\ ~ susp'.on
      /\ calls' = calls /\ etraps' = etraps /\ stackbase' = stackbase /\ gens' = gens
  BY DEF OpensEmpty, MayOpen
<1>2. FramesFit'
  <2>1. SavedTrapsRelative'  BY <1>1 DEF FramesFit, SavedTrapsRelative
  <2>. QED BY <1>1, <2>1, FitOnStay
<1>3. ActsLinked'
  <2>1. Len(calls') = Len(calls) /\ \A i \in 1 .. Len(calls) : calls'[i] = calls[i]
    BY <1>1
  <2>. QED BY <1>1, <2>1, LinkedOnOpen
<1>4. RunsAtTop' /\ SuspendedTops'  BY <1>1 DEF RunsAtTop, SuspendedTops, InExec
<1>. QED BY <1>2, <1>3, <1>4 DEF StackInv, FramesFit

LEMMA StackOnWake ==
    ASSUME CoreInv, Nest, Nest', StackInv, NEW a, NEW f, Wakes(a, f) PROVE StackInv'
<1>. /\ BasesChain /\ RunsAtTop /\ SuspendedTops /\ FramesFit
  BY DEF StackInv, FramesFit
<1>1. FramesFit'  BY FitOnWake
<1>2. /\ Len(cstk) = 0 /\ susp.on /\ ActPushed(a) /\ a.via = "wakeup" /\ a.low = 0
      /\ Len(calls) > 0 /\ Len(calls') = Len(calls)
      /\ \A i \in 1 .. Len(calls) - 1 : calls'[i] = calls[i]
      /\ calls'[Len(calls)] = f /\ f.ptop = ci.ptop /\ f.base = ci.base /\ f.top = ci.top
      /\ top' = top /\ ~ susp'.on
  BY DEF Wakes
<1>3. ci = calls[Len(calls)] /\ Len(calls) \in 1 .. Len(calls) /\ Len(calls) \in Nat
  BY <1>2 DEF Nest
<1>4. RunsAtTop' /\ SuspendedTops'
  <2>1. ci' = f  BY <1>2 DEF ci
  <2>. QED BY <1>2, <2>1 DEF RunsAtTop, SuspendedTops
<1>5. Len(cstk') = 1 /\ cstk'[1] = a  BY <1>2 DEF ActPushed
<1>6. TopsRestored(1)'
  <2>1. \A i \in 1 .. Len(calls) :
            /\ calls'[i].base = calls[i].base /\ calls'[i].ptop = calls[i].ptop
            /\ calls'[i].top = calls[i].top
    <3>. SUFFICES ASSUME NEW i \in 1 .. Len(calls)
                  PROVE  /\ calls'[i].base = calls[i].base /\ calls'[i].ptop = calls[i].ptop
                         /\ calls'[i].top = calls[i].top
      OBVIOUS
    <3>1. CASE i = Len(calls)  BY <1>2, <1>3, <3>1
    <3>2. CASE i # Len(calls)
      <4>1. i \in 1 .. Len(calls) - 1  BY <1>3, <3>2
      <4>. QED BY <1>2, <4>1
    <3>. QED BY <3>1, <3>2
  <2>2. ASSUME NEW i \in 2 .. Len(calls)
        PROVE  calls'[i - 1].base + calls'[i].ptop = calls'[i - 1].top
    <3>1. i \in 1 .. Len(calls) /\ i - 1 \in 1 .. Len(calls)  BY <1>3
    <3>2. calls[i - 1].base + calls[i].ptop = calls[i - 1].top
      BY <1>2 DEF SuspendedTops
    <3>. QED BY <2>1, <3>1, <3>2
  <2>3. High(1)' = Len(calls) /\ cstk'[1].low + 2 = 2  BY <1>2, <1>5 DEF High
  <2>. QED BY <2>2, <2>3 DEF TopsRestored
<1>7. TopLed(1)' /\ Remembered(1)'  BY <1>2, <1>5 DEF TopLed, Remembered
<1>8. ActsLinked'
  <2>1. \A b \in 1 .. Len(cstk') : b = 1  BY <1>5
  <2>. QED BY <1>6, <1>7, <2>1 DEF ActsLinked
<1>. QED BY <1>1, <1>4, <1>8 DEF StackInv, FramesFit

\* The traps, frames and activations stay: the C API on its own part of the
\* stack, an error on its way, and a generator that is created.
LEMMA StackOnKeep ==
    ASSUME CoreInv, CoreInv', Nest, Nest', StackInv, Keeps PROVE StackInv'
<1>. RunsAtTop /\ SuspendedTops /\ ActsLinked /\ FramesFit  BY DEF StackInv, FramesFit
<1>1. FramesFit'  BY FitOnKeep
<1>2. /\ calls' = calls /\ cstk' = cstk /\ susp' = susp
      /\ Len(calls') = Len(calls) /\ Len(cstk') = Len(cstk) /\ ci' = ci /\ act' = act
  BY DEF Keeps, ci, act
<1>3. \/ top' = top /\ mode' = mode
      \/ /\ top' = top /\ Len(cstk) > 0 /\ mode \in {"run", "raise"}
         /\ mode' \in {"raise", "unwind", "suspend"}
      \/ mode' = mode /\ MayCallApi
  BY DEF Keeps
<1>4. RunsAtTop' /\ SuspendedTops'
  <2>1. SuspendedTops'  BY <1>2 DEF SuspendedTops
  <2>2. InExec' \/ susp'.on => top' = top /\ (InExec \/ susp.on)
    <3>1. MayCallApi => ~ susp.on /\ ~ InExec
      BY DEF MayCallApi, InExec, InNative, InHost, Nest
    <3>2. mode' = mode => InExec' = InExec  BY <1>2 DEF InExec
    <3>3. Len(cstk) > 0 => ~ susp.on  BY DEF Nest
    <3>4. InExec' => mode' = "run"  BY DEF InExec
    <3>. QED BY <1>2, <1>3, <3>1, <3>2, <3>3, <3>4
  <2>3. RunsAtTop'  BY <1>2, <2>2 DEF RunsAtTop
  <2>. QED BY <2>1, <2>3
<1>5. ASSUME NEW a \in 1 .. Len(cstk)
      PROVE  /\ (cstk[a].kind = "exec" => TopsRestored(a))'
             /\ TopLed(a)' /\ Remembered(a)'
  <2>1. High(a)' = High(a)  BY <1>2 DEF High
  <2>2. \A n : BaseAt(n)' = BaseAt(n)  BY <1>2 DEF BaseAt
  <2>3. TopLed(a)'  BY <1>2 DEF ActsLinked, TopLed
  <2>4. Remembered(a)'
    <3>1. Remembered(a)  BY DEF ActsLinked
    <3>2. top' # top => ~ (High(a) = cstk[a].low /\ a = Len(cstk))
      <4>1. top' # top => MayCallApi  BY <1>3
      <4>2. MayCallApi => InNative  BY DEF MayCallApi, Nest
      <4>3. InNative => Len(calls) > act.low /\ act = cstk[Len(cstk)]
                        /\ High(Len(cstk)) = Len(calls) /\ act.low \in Nat
                        /\ Len(calls) \in Nat
        BY DEF Nest
      <4>. QED BY <4>1, <4>2, <4>3
    <3>. QED BY <1>2, <2>1, <2>2, <3>1, <3>2 DEF Remembered
  <2>5. ASSUME cstk[a].kind = "exec"  PROVE TopsRestored(a)'
    <3>1. TopsRestored(a)  BY <2>5 DEF ActsLinked
    <3>2. Unwinds(a) => Unwinds(a)'
      <4>1. a = Len(cstk) => act = cstk[a] /\ cstk' # <<>> /\ Len(cstk') > 0
        BY <1>2 DEF Nest
      <4>2. mode' = "suspend" /\ Len(cstk') > 0 => act'.kind = "native"
        BY CoreFacts DEF CoreInv, WellNested, ModeFits
      <4>3. a = Len(cstk) /\ mode' = "suspend" => FALSE
        BY <1>2, <2>5, <4>1, <4>2
      <4>4. mode \in {"raise", "unwind"} /\ mode' # "suspend" => mode' \in {"raise", "unwind"}
        BY <1>3
      <4>. QED BY <1>2, <4>3, <4>4 DEF Unwinds
    <3>. QED BY <1>2, <2>1, <3>1, <3>2 DEF TopsRestored
  <2>. QED BY <1>2, <2>3, <2>4, <2>5
<1>6. ActsLinked'  BY <1>2, <1>5 DEF ActsLinked
<1>. QED BY <1>1, <1>4, <1>6 DEF StackInv, FramesFit

----------------------------------------------------------------------------
(* The return of an activation.                                            *)

\* Where the stack is when the innermost activation has left its last frame:
\* what lv_call, CallMetaMethod and CallErrorHandler have after their pops.
BackAt(ok) ==
    act.via # "wakeup" =>
        stackbase' = act.base /\ top' = (act.top + Pushed(act.via)) - Popped(act, ok)

LEMMA ReturnsBack ==
    ASSUME CoreInv, Nest, StackInv, NEW ok, Returns(ok)
    PROVE  /\ BackAt(ok) /\ Len(calls') = act.low
           /\ \A i \in 1 .. act.low : calls'[i] = calls[i]
<1>. BasesChain /\ ActsLinked  BY DEF StackInv
<1>0. PICK m \in Nat : m = Len(cstk)  BY DEF Nest
<1>1. /\ m \in 1 .. Len(cstk) /\ act = cstk[m] /\ High(m) = Len(calls)
      /\ Len(calls) = act.low + 1 /\ act.low \in Nat /\ LeavesFrame
      /\ ci = calls[Len(calls)] /\ Len(calls) \in 1 .. Len(calls)
      /\ top' = LeftTop - Popped(act, ok) /\ stackbase' = LeftBase
      /\ m = Len(cstk)
  BY <1>0 DEF Returns, LeavesFrame, Nest
<1>2. /\ Len(calls') = act.low
      /\ \A i \in 1 .. act.low : calls'[i] = calls[i]
  BY SMTT(30), <1>1 DEF LeavesFrame, FrameLeft
<1>3. LeftBase = BaseAt(act.low)
  <2>1. Len(calls) - 1 = act.low  BY <1>1
  <2>. QED BY <1>1, <2>1, BasesOnLeave
<1>4. Remembered(m)  BY <1>1 DEF ActsLinked
<1>5. ASSUME act.via # "wakeup"
      PROVE  act.base = BaseAt(act.low) /\ LeftTop = act.top + Pushed(act.via)
  <2>1. Len(calls) > act.low  BY <1>1
  <2>2. BaseAt(act.low) + calls[act.low + 1].ptop = act.top + Pushed(act.via)
        /\ act.base = BaseAt(act.low)
    BY <1>1, <1>4, <1>5, <2>1 DEF Remembered
  <2>. QED BY <1>1, <1>3, <2>2 DEF LeftTop
<1>. QED BY <1>1, <1>2, <1>3, <1>5 DEF BackAt

LEMMA ReturnErrorBack ==
    ASSUME CoreInv, Nest, StackInv, ReturnsEmpty, mode # "abandon"
    PROVE  /\ BackAt(FALSE) /\ Len(calls') = act.low
           /\ \A i \in 1 .. act.low : calls'[i] = calls[i]
<1>. BasesChain /\ ActsLinked  BY DEF StackInv
<1>0. PICK m \in Nat : m = Len(cstk)  BY DEF Nest
<1>1. /\ m \in 1 .. Len(cstk) /\ act = cstk[m] /\ High(m) = Len(calls)
      /\ Len(calls) = act.low /\ calls' = calls
      /\ top' = top - Popped(act, FALSE) /\ stackbase' = stackbase
      /\ m = Len(cstk)
  BY <1>0 DEF ReturnsEmpty, Nest
<1>2. Remembered(m)  BY <1>1 DEF ActsLinked
<1>3. stackbase = BaseAt(act.low)  BY <1>1 DEF BasesChain
<1>4. BackAt(FALSE)  BY <1>1, <1>2, <1>3 DEF Remembered, BackAt
<1>. QED BY <1>1, <1>4

\* The caller of an activation finds what it remembers, and its top.
LEMMA LinkedOnReturn ==
    ASSUME CoreInv, Nest, Nest', ActsLinked, NEW ok \in BOOLEAN, Len(cstk) > 0, ActLeft,
           BackAt(ok), Len(calls') = act.low,
           \A i \in 1 .. act.low : calls'[i] = calls[i],
           mode' = Continues(act, ok), susp' = susp
    PROVE  ActsLinked' /\ RunsAtTop' /\ SuspendedTops'
<1>0. PICK m \in Nat : m + 1 = Len(cstk)
  <2>1. Len(cstk) \in Nat /\ Len(cstk) - 1 \in Nat /\ (Len(cstk) - 1) + 1 = Len(cstk)
    BY DEF Nest
  <2>. QED BY <2>1
<1>1. /\ m + 1 \in 1 .. Len(cstk) /\ act = cstk[m + 1] /\ m = Len(cstk')
      /\ \A a \in 1 .. m : cstk'[a] = cstk[a] /\ a \in 1 .. Len(cstk)
      /\ act.low \in Nat /\ ~ susp.on
  BY <1>0, NestTop, LeftActs
<1>2. TopLed(m + 1) /\ Remembered(m + 1)  BY <1>1 DEF ActsLinked
<1>3. SuspendedTops'  BY <1>1 DEF SuspendedTops
<1>4. CASE m = 0
  <2>1. ActsLinked'  BY <1>1, <1>4 DEF ActsLinked
  <2>2. ~ InExec'  BY <1>1, <1>4 DEF InExec, Nest
  <2>. QED BY <1>1, <1>3, <2>1, <2>2 DEF RunsAtTop
<1>5. CASE m # 0
  <2>0. PICK n \in Nat : m = n + 1
    <3>1. m - 1 \in Nat /\ m = (m - 1) + 1  BY <1>5
    <3>. QED BY <3>1
  <2>1. /\ m \in 1 .. Len(cstk) /\ m # Len(cstk) /\ m \in 1 .. Len(cstk')
        /\ cstk[m].low \in Nat /\ High(m) = act.low /\ cstk[m].low <= act.low
        /\ cstk'[m] = cstk[m]
    <3>1. /\ m \in 1 .. Len(cstk) /\ m # Len(cstk) /\ m \in 1 .. Len(cstk')
          /\ cstk'[m] = cstk[m]
      BY <1>0, <1>1, <1>5
    <3>. QED BY <1>1, <3>1 DEF Nest
  <2>2. act'= cstk[m] /\ High(m)' = act.low  BY <1>1, <2>1 DEF act, High
  <2>3. ActsBelow(n)
    <3>1. n < Len(cstk) /\ n < Len(cstk') /\ n + 1 = m  BY <1>0, <1>1, <2>0
    <3>2. \A a \in 1 .. n + 1 : cstk'[a] = cstk[a]  BY <1>1, <3>1
    <3>3. \A i \in 1 .. cstk[m].low : i \in 1 .. act.low  BY <1>1, <2>1
    <3>. QED BY <3>1, <3>2, <3>3 DEF ActsBelow
  <2>4. /\ \A a \in 1 .. n : /\ (cstk[a].kind = "exec" => TopsRestored(a))'
                             /\ TopLed(a)' /\ Remembered(a)'
        /\ TopLed(m)'
    BY <2>0, <2>3, LinkedBelow
  <2>5. (cstk[m].kind = "exec" => TopsRestored(m))'
    <3>. SUFFICES ASSUME cstk[m].kind = "exec" PROVE TopsRestored(m)'  BY <2>1
    <3>1. TopsRestored(m)  BY <2>1 DEF ActsLinked
    <3>2. Unwinds(m) => Unwinds(m)'
      <4>1. Unwinds(m) => act.via = "handler"  BY <1>1, <2>1 DEF Unwinds
      <4>2. act.via = "handler" => mode' = "unwind"  BY DEF Continues
      <4>. QED BY <1>1, <4>1, <4>2 DEF Unwinds
    <3>3. \A i \in cstk[m].low + 2 .. act.low :
              /\ calls'[i] = calls[i] /\ calls'[i - 1] = calls[i - 1]
              /\ \A j \in i .. act.low : calls'[j] = calls[j]
      <4>1. \A i \in cstk[m].low + 2 .. act.low :
                i \in 1 .. act.low /\ i - 1 \in 1 .. act.low
                /\ \A j \in i .. act.low : j \in 1 .. act.low
        <5>1. act.low <= act.low  BY <1>1
        <5>. QED BY <1>1, <2>1, <5>1, RangeFacts
      <4>. QED BY <4>1
    <3>. QED BY SMTT(60), <2>1, <2>2, <3>1, <3>2, <3>3 DEF TopsRestored
  <2>6. Remembered(m)'
    <3>1. Remembered(m)  BY <2>1 DEF ActsLinked
    <3>2. \A k : k = cstk[m].low => BaseAt(k)' = BaseAt(k)  BY <1>1, <2>1, BaseBelow
    <3>3. act.low > cstk[m].low => calls'[cstk[m].low + 1] = calls[cstk[m].low + 1]
      <4>1. act.low > cstk[m].low => cstk[m].low + 1 \in 1 .. act.low
        BY <1>1, <2>1
      <4>. QED BY <4>1
    <3>4. act.low = cstk[m].low /\ act.top = cstk[m].top + Pushed(cstk[m].via) =>
              top' = cstk[m].top + Pushed(cstk[m].via)
      <4>. SUFFICES ASSUME act.low = cstk[m].low
                    PROVE  top' = act.top
        OBVIOUS
      <4>1. act.via = "handler"
        <5>1. m + 1 > 1 /\ (m + 1) - 1 = m  BY <1>1, <1>5
        <5>2. act.via # "handler" => cstk[m].low < act.low
          BY <1>1, <5>1, CoreFacts DEF WellNested, ActivationsNest
        <5>. QED BY <2>1, <5>2
      <4>2. Pushed(act.via) = 2 /\ Popped(act, ok) = 2 /\ act.via # "wakeup"
        BY <4>1 DEF Pushed, Popped
      <4>3. act.top \in Int  BY <1>1 DEF Nest
      <4>. QED BY <4>2, <4>3 DEF BackAt
    <3>. QED BY <1>1, <2>1, <2>2, <3>1, <3>2, <3>3, <3>4 DEF Remembered
  <2>7. ActsLinked'
    <3>1. \A a \in 1 .. Len(cstk') : a \in 1 .. n \/ a = m  BY <1>1, <2>0
    <3>. QED BY <2>4, <2>5, <2>6, <3>1 DEF ActsLinked
  <2>8. ASSUME InExec'  PROVE top' = ci'.top
    <3>1. mode' = "run" /\ cstk[m].kind = "exec"  BY <2>2, <2>8 DEF InExec
    <3>2. act.via \in {"op", "meta"}
      <4>1. m + 1 > 1 /\ (m + 1) - 1 = m /\ m + 1 # 1  BY <1>1, <1>5
      <4>2. act.via \notin {"api", "resume", "wakeup"}
        BY <1>1, <3>1, <4>1, CoreFacts DEF WellNested, CallersFit
      <4>3. act.via # "handler"  BY <3>1 DEF Continues
      <4>4. act \in Activation  BY <1>1, CoreFacts, SeqFacts
      <4>. QED BY <4>2, <4>3, <4>4 DEF Activation
    <3>3. act.low > 0 /\ act.top = calls[act.low].top
      <4>1. (m + 1) - 1 = m  BY <1>1
      <4>. QED BY <1>1, <1>2, <3>1, <3>2, <4>1 DEF TopLed
    <3>4. Pushed(act.via) = Popped(act, ok) /\ Pushed(act.via) \in Int
      BY <3>2 DEF Pushed, Popped
    <3>5. act.top \in Int /\ act.via # "wakeup"  BY <1>1, <3>2 DEF Nest
    <3>6. top' = act.top  BY <3>4, <3>5 DEF BackAt
    <3>7. ci' = calls[act.low]
      <4>1. act.low \in 1 .. act.low  BY <1>1, <3>3
      <4>. QED BY <4>1 DEF ci
    <3>. QED BY <3>3, <3>6, <3>7
  <2>. QED BY <1>1, <1>3, <2>7, <2>8 DEF RunsAtTop
<1>. QED BY <1>4, <1>5

LEMMA StackOnReturn ==
    ASSUME CoreInv, Nest, Nest', StackInv, NEW ok \in BOOLEAN, Returns(ok) PROVE StackInv'
<1>. RunsAtTop /\ ActsLinked /\ FramesFit  BY DEF StackInv, FramesFit
<1>1. FramesFit'  BY FitOnLeave DEF Returns
<1>2. /\ BackAt(ok) /\ Len(calls') = act.low
      /\ \A i \in 1 .. act.low : calls'[i] = calls[i]
  BY ReturnsBack
<1>3. Len(cstk) > 0 /\ ActLeft /\ mode' = Continues(act, ok) /\ susp' = susp
  BY DEF Returns
<1>4. ActsLinked' /\ RunsAtTop' /\ SuspendedTops'  BY <1>2, <1>3, LinkedOnReturn
<1>. QED BY <1>1, <1>4 DEF StackInv, FramesFit

\* A call that EnterFrame refused leaves its frame to the caller, which is
\* an Execute and unwinds it.
LEMMA LinkedOnAbandon ==
    ASSUME CoreInv, Nest, Nest', ActsLinked, ReturnsEmpty, mode = "abandon"
    PROVE  ActsLinked' /\ RunsAtTop' /\ SuspendedTops'
<1>0. PICK n \in Nat : n + 2 = Len(cstk)
  <2>1. Len(cstk) > 1 /\ Len(cstk) \in Nat
    BY CoreFacts DEF ReturnsEmpty, WellNested, ModeFits, Nest
  <2>2. Len(cstk) - 2 \in Nat /\ (Len(cstk) - 2) + 2 = Len(cstk)  BY <2>1
  <2>. QED BY <2>2
<1>. DEFINE m == n + 1
<1>1. /\ act = cstk[n + 2] /\ Len(cstk') = m /\ m = n + 1
      /\ \A a \in 1 .. m : cstk'[a] = cstk[a] /\ a \in 1 .. Len(cstk)
      /\ m \in 1 .. Len(cstk) /\ m # Len(cstk)
      /\ act.low \in Nat /\ ~ susp.on /\ susp' = susp /\ calls' = calls
      /\ cstk[m].low \in Nat /\ High(m) = act.low /\ m + 1 = n + 2
  <2>1. m \in Nat /\ m + 1 = n + 2 /\ m + 1 = Len(cstk) /\ Len(cstk) > 0
    BY <1>0
  <2>2. ActLeft /\ susp' = susp /\ calls' = calls
    BY DEF ReturnsEmpty
  <2>3. m \in 1 .. Len(cstk) /\ m # Len(cstk)
    BY <2>1
  <2>4. cstk[m].low \in Nat /\ High(m) = cstk[m + 1].low
    BY <2>3, NestAct
  <2>5. act = cstk[m + 1] /\ act.low \in Nat /\ ~ susp.on
    BY <2>1, NestTop
  <2>. HIDE DEF m
  <2>6. Len(cstk') = m /\ \A a \in 1 .. m : cstk'[a] = cstk[a] /\ a \in 1 .. Len(cstk)
    BY <2>1, <2>2, LeftActs
  <2>. QED BY <2>1, <2>2, <2>3, <2>4, <2>5, <2>6 DEF m
<1>2. /\ cstk[m].kind = "exec" /\ cstk[m].low < act.low
  <2>1. Len(cstk) - 1 = m  BY <1>0
  <2>. QED BY <1>0, <2>1, CoreFacts DEF ReturnsEmpty, WellNested, ModeFits
<1>3. Len(calls) = act.low + 1 /\ ci.etraps = 0 /\ ci = calls[Len(calls)]
  <2>1. cstk # <<>>  BY <1>0, <1>1, CoreFacts DEF Stacks
  <2>2. AbandonedHasOneFrame  BY CoreFacts DEF WellNested
  <2>. QED BY <2>1, <2>2 DEF AbandonedHasOneFrame, ci
<1>. HIDE DEF m
<1>4. mode' \in {"raise", "unwind"}
  <2>1. Len(cstk) - 1 = m /\ Len(cstk) > 1  BY <1>0, <1>1
  <2>. QED BY <1>2, <2>1 DEF ReturnsEmpty, Continues
<1>5. RunsAtTop' /\ SuspendedTops'  BY <1>1, <1>4 DEF RunsAtTop, SuspendedTops, InExec
<1>6. ActsBelow(n)
  <2>1. n < Len(cstk) /\ n < Len(cstk')  BY <1>0, <1>1
  <2>. QED BY <1>1, <2>1 DEF ActsBelow
<1>7. /\ \A a \in 1 .. n : /\ (cstk[a].kind = "exec" => TopsRestored(a))'
                           /\ TopLed(a)' /\ Remembered(a)'
      /\ TopLed(m)'
  BY <1>1, <1>6, LinkedBelow
<1>8. m \in 1 .. m /\ cstk'[m] = cstk[m] /\ High(m)' = Len(calls) /\ Unwinds(m)'
  BY <1>1, <1>4 DEF High, Unwinds
<1>9. TopsRestored(m)'
  <2>1. TopsRestored(m)  BY <1>1, <1>2 DEF ActsLinked
  <2>2. ASSUME NEW i \in cstk[m].low + 2 .. Len(calls)
        PROVE  \/ calls[i - 1].base + calls[i].ptop = calls[i - 1].top
               \/ \A j \in i .. Len(calls) : calls[j].etraps = 0
    <3>1. CASE i = Len(calls)
      <4>1. \A j \in i .. Len(calls) : j = Len(calls)  BY <1>1, <1>3, <3>1
      <4>. QED BY <1>3, <4>1
    <3>2. CASE i # Len(calls)
      <4>1. i \in cstk[m].low + 2 .. act.low  BY <1>1, <1>3, <3>2
      <4>2. \A j \in i .. Len(calls) : j \in i .. act.low \/ j = Len(calls)
        BY <1>1, <1>3, <4>1
      <4>. QED BY <1>1, <1>3, <2>1, <4>1, <4>2 DEF TopsRestored
    <3>. QED BY <3>1, <3>2
  <2>. QED BY <1>1, <1>8, <2>2 DEF TopsRestored
<1>10. Remembered(m)'
  <2>1. Remembered(m)  BY <1>1 DEF ActsLinked
  <2>2. \A k : BaseAt(k)' = BaseAt(k)  BY <1>1 DEF BaseAt
  <2>3. Len(calls) > cstk[m].low /\ Len(calls) # cstk[m].low  BY <1>1, <1>2, <1>3
  <2>. QED BY <1>1, <1>2, <1>8, <2>1, <2>2, <2>3 DEF Remembered
<1>11. ActsLinked'
  <2>1. \A a \in 1 .. Len(cstk') : a \in 1 .. n \/ a = m  BY <1>1
  <2>. QED BY <1>7, <1>9, <1>10, <2>1 DEF ActsLinked
<1>. QED BY <1>5, <1>11

LEMMA StackOnReturnEmpty ==
    ASSUME CoreInv, Nest, Nest', StackInv, ReturnsEmpty PROVE StackInv'
<1>. RunsAtTop /\ ActsLinked /\ FramesFit  BY DEF StackInv, FramesFit
<1>1. /\ calls' = calls /\ etraps' = etraps /\ stackbase' = stackbase /\ gens' = gens
      /\ Len(cstk) > 0 /\ ActLeft /\ mode' = Continues(act, FALSE) /\ susp' = susp
  BY DEF ReturnsEmpty
<1>2. FramesFit'
  <2>1. SavedTrapsRelative'  BY <1>1 DEF FramesFit, SavedTrapsRelative
  <2>. QED BY <1>1, <2>1, FitOnStay
<1>3. CASE mode = "abandon"
  <2>1. ActsLinked' /\ RunsAtTop' /\ SuspendedTops'  BY <1>3, LinkedOnAbandon
  <2>. QED BY <1>2, <2>1 DEF StackInv, FramesFit
<1>4. CASE mode # "abandon"
  <2>1. /\ BackAt(FALSE) /\ Len(calls') = act.low
        /\ \A i \in 1 .. act.low : calls'[i] = calls[i]
    BY <1>4, ReturnErrorBack
  <2>2. PICK ok \in BOOLEAN : ok = FALSE  BY Zenon
  <2>3. ActsLinked' /\ RunsAtTop' /\ SuspendedTops'
    BY <1>1, <2>1, <2>2, LinkedOnReturn
  <2>. QED BY <1>2, <2>3 DEF StackInv, FramesFit
<1>. QED BY <1>3, <1>4

\* The native above a suspended Execute returns, and both are gone.
LEMMA StackOnSuspend ==
    ASSUME CoreInv, Nest, Nest', StackInv, Suspends PROVE StackInv'
<1>. BasesChain /\ RunsAtTop /\ ActsLinked /\ FramesFit  BY DEF StackInv, FramesFit
<1>1. /\ Len(cstk) = 2 /\ act.via = "op" /\ Len(calls) = act.low + 1 /\ act.low > 0
      /\ cstk[1].kind = "exec" /\ cstk[1].low = 0 /\ LeavesFrame /\ top' = LeftTop
      /\ Len(cstk') = 0
  BY DEF Suspends
<1>2. FramesFit'  BY <1>1, FitOnLeave
<1>3. ActsLinked'  BY <1>1 DEF ActsLinked
<1>4. /\ act = cstk[2] /\ act.low \in Nat /\ act.top \in Int /\ High(2) = Len(calls)
      /\ High(1) = act.low /\ ci = calls[act.low + 1]
      /\ Len(calls') = act.low /\ \A i \in 1 .. act.low : calls'[i] = calls[i]
      /\ 2 \in 1 .. Len(cstk) /\ 1 \in 1 .. Len(cstk) /\ 1 # Len(cstk) /\ 2 - 1 = 1
  <2>1. /\ 2 \in 1 .. Len(cstk) /\ 1 \in 1 .. Len(cstk) /\ 1 # Len(cstk) /\ 2 - 1 = 1
        /\ 1 + 1 = 2
    BY <1>1
  <2>2. act = cstk[2] /\ act.low \in Nat /\ act.top \in Int /\ High(2) = Len(calls)
    BY <1>1, <2>1 DEF Nest
  <2>3. High(1) = act.low  BY <2>1, <2>2 DEF Nest
  <2>4. /\ ci = calls[act.low + 1] /\ Len(calls') = act.low
        /\ \A i \in 1 .. act.low : calls'[i] = calls[i]
    BY <1>1, <2>2 DEF LeavesFrame, FrameLeft, ci
  <2>. QED BY <2>1, <2>2, <2>3, <2>4
<1>5. TopLed(2) /\ Remembered(2) /\ TopsRestored(1)  BY <1>1, <1>4 DEF ActsLinked
<1>6. RunsAtTop'
  <2>1. act.top = calls[act.low].top  BY <1>1, <1>4, <1>5 DEF TopLed
  <2>2. LeftBase = BaseAt(act.low)
    <3>1. Len(calls) - 1 = act.low  BY <1>1, <1>4
    <3>. QED BY <1>1, <3>1, BasesOnLeave
  <2>3. BaseAt(act.low) + ci.ptop = act.top + 0
    <3>1. Len(calls) > act.low /\ Pushed("op") = 0  BY <1>1, <1>4 DEF Pushed
    <3>. QED BY <1>1, <1>4, <1>5, <3>1 DEF Remembered
  <2>4. ci' = calls[act.low]
    <3>1. act.low \in 1 .. act.low  BY <1>1, <1>4
    <3>. QED BY <1>4, <3>1 DEF ci
  <2>. QED BY <1>1, <1>4, <2>1, <2>2, <2>3, <2>4 DEF RunsAtTop, LeftTop
<1>7. SuspendedTops'
  <2>1. ~ Unwinds(1)  BY <1>1, <1>4 DEF Unwinds
  <2>2. ASSUME NEW i \in 2 .. act.low
        PROVE  calls'[i - 1].base + calls'[i].ptop = calls'[i - 1].top
    <3>1. i \in 1 .. act.low /\ i - 1 \in 1 .. act.low /\ i \in 0 + 2 .. act.low
      BY <1>4
    <3>2. calls[i - 1].base + calls[i].ptop = calls[i - 1].top
      BY <1>1, <1>4, <1>5, <2>1, <3>1 DEF TopsRestored
    <3>. QED BY <1>4, <3>1, <3>2
  <2>. QED BY <1>4, <2>2 DEF SuspendedTops
<1>. QED BY <1>2, <1>3, <1>6, <1>7 DEF StackInv, FramesFit

----------------------------------------------------------------------------
(* StackInv holds in every reachable state.                                *)

LEMMA StackInit == ASSUME Init PROVE StackInv
<1>1. /\ Len(calls) = 0 /\ Len(cstk) = 0 /\ stackbase = 0 /\ ~ susp.on
      /\ \A g \in Gen : gens[g].traps = <<>>
  BY DEF Init
<1>2. ~ InExec  BY <1>1 DEF InExec, Init
<1>. QED BY <1>1, <1>2 DEF StackInv, BasesChain, BaseAt, TrapsHeld, TrapsOrdered,
            SavedTrapsRelative, RunsAtTop, ActsLinked, SuspendedTops

LEMMA StackKeeps ==
    ASSUME CoreInv, CoreInv', Tame, StackInv, [Next]_vars PROVE StackInv'
<1>. Nest /\ Nest'  BY NestHolds, NestAfter
<1>1. CASE \E f \in Frame, d \in Int : Enters(f, d)  BY <1>1, StackOnEnter
<1>2. CASE \E a \in Activation : OpensEmpty(a) \/ \E f \in Frame : Opens(a, f)
  BY <1>2, StackOnOpen, StackOnOpenEmpty
<1>3. CASE \E f \in Frame : Reuses(f) \/ Arms(f)  BY <1>3, StackOnReuse, StackOnArm
<1>4. CASE \E f \in Frame, d \in Int : Disarms(f, d)  BY <1>4, StackOnDisarm
<1>5. CASE Leaves  BY <1>5, StackOnLeave
<1>6. CASE Returns(TRUE) \/ Returns(FALSE)
  <2>1. \E ok \in BOOLEAN : Returns(ok)  BY <1>6, Zenon
  <2>. QED BY <2>1, StackOnReturn
<1>7. CASE ReturnsEmpty  BY <1>7, StackOnReturnEmpty
<1>8. CASE Suspends  BY <1>8, StackOnSuspend
<1>9. CASE \E a \in Activation, f \in Frame : Wakes(a, f)  BY <1>9, StackOnWake
<1>10. CASE Keeps  BY <1>10, StackOnKeep
<1>. QED BY <1>1, <1>2, <1>3, <1>4, <1>5, <1>6, <1>7, <1>8, <1>9, <1>10, StepKinds

\* For every set of generators and every bound: while host and scripts do not
\* resume the same generator and no call made by a native overflows the stack,
\* EnterFrame, LeaveFrame, Yield, Resume and the catch of an error keep
\* _stackbase, _top and the stacks in _etraps where the frames say they are,
\* and every activation can lead back to the stack of its caller.
THEOREM StackInvariance == ASSUME Tame PROVE Spec => [](CoreInv /\ StackInv)
<1>1. Init => CoreInv /\ StackInv  BY InitEstablishes, StackInit
<1>2. CoreInv /\ StackInv /\ [Next]_vars => (CoreInv /\ StackInv)'
  <2>. SUFFICES ASSUME CoreInv, StackInv, [Next]_vars PROVE CoreInv' /\ StackInv'
    OBVIOUS
  <2>1. CoreInv'  BY NextKeeps
  <2>. QED BY <2>1, StackKeeps
<1>. QED BY <1>1, <1>2, PTL DEF Spec

\* A catch, a return to an instruction and a yield all find the stack of the
\* frame they go on in: _etraps holds frame by frame the traps each counts,
\* with that frame's own _stackbase and _top, whatever generators carried
\* away and brought back (LVGenerator::Yield and Resume, vm.cpp:1325-1350).
THEOREM TrapsFollowFrames == ASSUME Tame PROVE Spec => []TrapsMatchFrames
<1>1. CoreInv /\ StackInv => TrapsMatchFrames  BY StackInvParts
<1>. QED BY <1>1, StackInvariance, PTL

\* Code always runs on the stack of its own frame, a native has one frame, and
\* the host gets an empty stack back (LVVM::EnterFrame, LeaveFrame).
THEOREM CodeRunsOnOwnStack == ASSUME Tame PROVE Spec => []RunsOnOwnStack
<1>1. ASSUME CoreInv, StackInv  PROVE RunsOnOwnStack
  <2>. Nest /\ BasesChain /\ RunsAtTop  BY <1>1, NestHolds DEF StackInv
  <2>1. ASSUME Len(calls) > 0  PROVE stackbase = ci.base
    <3>1. Len(calls) # 0 /\ ci = calls[Len(calls)]  BY <2>1 DEF Nest
    <3>. QED BY <3>1 DEF BasesChain, BaseAt
  <2>2. InExec \/ InNative => Len(calls) > 0
    <3>1. InExec \/ InNative => Len(calls) > act.low /\ act.low \in Nat /\ Len(calls) \in Nat
      BY DEF Nest
    <3>. QED BY <3>1
  <2>3. InExec => stackbase = ci.base /\ top = ci.top  BY <2>1, <2>2 DEF RunsAtTop
  <2>4. InNative => Len(calls) = act.low + 1
    <3>. SUFFICES ASSUME InNative PROVE Len(calls) = act.low + 1  OBVIOUS
    <3>1. /\ act.kind = "native" /\ Len(cstk) \in 1 .. Len(cstk)
          /\ act = cstk[Len(cstk)] /\ High(Len(cstk)) = Len(calls)
      BY DEF Nest
    <3>. QED BY <1>1, <3>1, CoreFacts DEF WellNested, NativesHaveOneFrame
  <2>5. InHost /\ ~ susp.on => calls = <<>> /\ stackbase = 0
    <3>. SUFFICES ASSUME InHost, ~ susp.on PROVE calls = <<>> /\ stackbase = 0  OBVIOUS
    <3>1. ~ (Len(calls) > 0)  BY <1>1, CoreFacts DEF WellNested, ModeFits, Nest
    <3>2. Len(calls) = 0  BY <3>1 DEF Nest
    <3>3. calls = <<>>  BY <1>1, <3>2, CoreFacts
    <3>. QED BY <3>2, <3>3 DEF BasesChain, BaseAt
  <2>. QED BY <2>1, <2>2, <2>3, <2>4, <2>5 DEF RunsOnOwnStack
<1>. QED BY <1>1, StackInvariance, PTL

----------------------------------------------------------------------------
(* A generator runs in one frame.                                          *)

\* GeneratorsRunOnce, frame by frame.
GensPlaced ==
    /\ \A i, j \in 1 .. Len(calls) :
          calls[i].gen \in Gen /\ calls[i].gen = calls[j].gen => i = j
    /\ \A i \in 1 .. Len(calls) :
          calls[i].gen \in Gen => gens[calls[i].gen].state = "running"
    /\ \A g \in Gen :
          gens[g].state = "running" => \E i \in 1 .. Len(calls) : calls[i].gen = g

LEMMA GensPlacedOnce == ASSUME GensPlaced PROVE GeneratorsRunOnce
<1>. SUFFICES ASSUME NEW g \in Gen
              PROVE  LET frames == {i \in 1 .. Len(calls) : calls[i].gen = g}
                     IN  /\ gens[g].state = "running" <=> frames # {}
                         /\ \A i, j \in frames : i = j
  BY DEF GeneratorsRunOnce
<1>. DEFINE frames == {i \in 1 .. Len(calls) : calls[i].gen = g}
<1>1. \A i, j \in frames : i = j  BY DEF GensPlaced
<1>2. gens[g].state = "running" => frames # {}  BY DEF GensPlaced
<1>3. frames # {} => gens[g].state = "running"  BY DEF GensPlaced
<1>. QED BY <1>1, <1>2, <1>3

\* A frame comes without a generator, or with one that no frame had.
LEMMA GensOnPush ==
    ASSUME Nest, GensPlaced, NEW f, FramePushed(f),
           BringsNothing(f) \/ \E g \in Gen : BringsGenerator(f, g)
    PROVE  GensPlaced'
<1>1. /\ Len(calls) \in Nat /\ Len(calls') = Len(calls) + 1
      /\ \A i \in 1 .. Len(calls) : calls'[i] = calls[i] /\ i \in 1 .. Len(calls')
      /\ calls'[Len(calls) + 1] = f /\ Len(calls) + 1 \in 1 .. Len(calls')
      /\ \A i \in 1 .. Len(calls') : i \in 1 .. Len(calls) \/ i = Len(calls) + 1
  BY DEF Nest, FramePushed
<1>2. CASE BringsNothing(f)
  <2>1. f.gen \notin Gen /\ gens' = gens
    BY <1>2, ExecFramesAssumption DEF BringsNothing
  <2>2. ASSUME NEW i \in 1 .. Len(calls'), calls'[i].gen \in Gen
        PROVE  i \in 1 .. Len(calls) /\ calls'[i] = calls[i]
    BY <1>1, <2>1, <2>2
  <2>3. \A i, j \in 1 .. Len(calls') :
            calls'[i].gen \in Gen /\ calls'[i].gen = calls'[j].gen => i = j
    <3>. SUFFICES ASSUME NEW i \in 1 .. Len(calls'), NEW j \in 1 .. Len(calls'),
                         calls'[i].gen \in Gen, calls'[i].gen = calls'[j].gen
                  PROVE  i = j
      OBVIOUS
    <3>1. calls'[j].gen \in Gen  OBVIOUS
    <3>. QED BY <2>2, <3>1 DEF GensPlaced
  <2>4. \A i \in 1 .. Len(calls') :
            calls'[i].gen \in Gen => gens'[calls'[i].gen].state = "running"
    BY <2>1, <2>2 DEF GensPlaced
  <2>5. \A g \in Gen : gens'[g].state = "running" =>
            \E i \in 1 .. Len(calls') : calls'[i].gen = g
    BY <1>1, <2>1 DEF GensPlaced
  <2>. QED BY <2>3, <2>4, <2>5 DEF GensPlaced
<1>3. ASSUME NEW g \in Gen, BringsGenerator(f, g)  PROVE GensPlaced'
  <2>1. /\ gens[g].state = "suspended" /\ f.gen = g /\ gens'[g].state = "running"
        /\ \A h \in Gen \ {g} : gens'[h] = gens[h]
    BY <1>3 DEF BringsGenerator
  <2>2. \A i \in 1 .. Len(calls) : calls[i].gen # g  BY <2>1 DEF GensPlaced
  <2>3. \A i, j \in 1 .. Len(calls') :
            calls'[i].gen \in Gen /\ calls'[i].gen = calls'[j].gen => i = j
    BY <1>1, <2>1, <2>2 DEF GensPlaced
  <2>4. \A i \in 1 .. Len(calls') :
            calls'[i].gen \in Gen => gens'[calls'[i].gen].state = "running"
    BY <1>1, <2>1, <2>2 DEF GensPlaced
  <2>5. \A h \in Gen : gens'[h].state = "running" =>
            \E i \in 1 .. Len(calls') : calls'[i].gen = h
    BY <1>1, <2>1 DEF GensPlaced
  <2>. QED BY <2>3, <2>4, <2>5 DEF GensPlaced
<1>. QED BY <1>2, <1>3

\* The innermost frame goes: its generator is dead or suspended.
LEMMA GensOnLeave ==
    ASSUME Nest, GensPlaced, LeavesFrame
    PROVE  GensPlaced'
<1>1. /\ Len(calls) \in Nat /\ Len(calls') = Len(calls) - 1
      /\ \A i \in 1 .. Len(calls') : /\ calls'[i] = calls[i] /\ i \in 1 .. Len(calls)
                                     /\ i # Len(calls)
      /\ \A i \in 1 .. Len(calls) : i \in 1 .. Len(calls') \/ i = Len(calls)
      /\ Len(calls) \in 1 .. Len(calls) /\ ci = calls[Len(calls)]
  BY SMTT(30) DEF Nest, LeavesFrame, FrameLeft
<1>2. \A h \in Gen : h # ci.gen => gens'[h] = gens[h]
  BY DEF LeavesFrame
<1>3. ci.gen \in Gen => gens'[ci.gen].state # "running"
  BY ExecFramesAssumption DEF LeavesFrame
<1>4. \A i \in 1 .. Len(calls') : calls'[i].gen \in Gen => calls'[i].gen # ci.gen
  BY <1>1 DEF GensPlaced
<1>5. \A i, j \in 1 .. Len(calls') :
          calls'[i].gen \in Gen /\ calls'[i].gen = calls'[j].gen => i = j
  BY <1>1 DEF GensPlaced
<1>6. \A i \in 1 .. Len(calls') :
          calls'[i].gen \in Gen => gens'[calls'[i].gen].state = "running"
  BY <1>1, <1>2, <1>4 DEF GensPlaced
<1>7. ASSUME NEW h \in Gen, gens'[h].state = "running"
      PROVE  \E i \in 1 .. Len(calls') : calls'[i].gen = h
  <2>1. h # ci.gen /\ gens[h].state = "running"  BY <1>2, <1>3, <1>7
  <2>2. PICK i \in 1 .. Len(calls) : calls[i].gen = h  BY <2>1 DEF GensPlaced
  <2>3. i \in 1 .. Len(calls') /\ calls'[i] = calls[i]  BY <1>1, <2>1, <2>2
  <2>. QED BY <2>2, <2>3
<1>. QED BY <1>5, <1>6, <1>7 DEF GensPlaced

\* The frames stay with their generators.
LEMMA GensOnStay ==
    ASSUME Nest, GensPlaced, Len(calls') = Len(calls),
           \A i \in 1 .. Len(calls) : calls'[i].gen = calls[i].gen,
           \A g \in Gen : gens'[g].state = "running" <=> gens[g].state = "running"
    PROVE  GensPlaced'
<1>1. \A i, j \in 1 .. Len(calls') :
          calls'[i].gen \in Gen /\ calls'[i].gen = calls'[j].gen => i = j
  BY DEF GensPlaced
<1>2. \A i \in 1 .. Len(calls') :
          calls'[i].gen \in Gen => gens'[calls'[i].gen].state = "running"
  BY DEF GensPlaced
<1>3. \A g \in Gen : gens'[g].state = "running" =>
          \E i \in 1 .. Len(calls') : calls'[i].gen = g
  BY DEF GensPlaced
<1>. QED BY <1>1, <1>2, <1>3 DEF GensPlaced

LEMMA GensOnReplace ==
    ASSUME Nest, GensPlaced, NEW f, Replaces(f), gens' = gens
    PROVE  GensPlaced'
<1>1. ci = calls[Len(calls)] /\ Len(calls) \in Nat  BY ReplaceBelow DEF Nest
<1>2. ASSUME NEW i \in 1 .. Len(calls)  PROVE calls'[i].gen = calls[i].gen
  <2>1. CASE i = Len(calls)  BY <1>1, <2>1 DEF Replaces
  <2>2. CASE i # Len(calls)
    <3>1. i \in 1 .. Len(calls) - 1  BY <1>1, <2>2
    <3>. QED BY <3>1 DEF Replaces
  <2>. QED BY <2>1, <2>2
<1>3. Len(calls') = Len(calls)  BY DEF Replaces
<1>. QED BY <1>2, <1>3, GensOnStay

LEMMA GensKeep ==
    ASSUME CoreInv, Tame, GensPlaced, [Next]_vars PROVE GensPlaced'
<1>. Nest  BY NestHolds
<1>1. ASSUME NEW f \in Frame, NEW d \in Int, Enters(f, d)  PROVE GensPlaced'
  BY <1>1, GensOnPush DEF Enters, EntersFrame
<1>2. ASSUME NEW a, NEW f \in Frame, Opens(a, f)  PROVE GensPlaced'
  BY <1>2, GensOnPush DEF Opens, EntersFrame
<1>3. ASSUME NEW f, NEW d, Changes(f, d)  PROVE GensPlaced'
  BY <1>3, ChangesReplace, GensOnReplace DEF Changes
<1>4. CASE \E f \in Frame : Reuses(f) \/ Arms(f)  BY <1>3, <1>4 DEF Reuses, Arms
<1>5. CASE \E f \in Frame, d \in Int : Disarms(f, d)  BY <1>3, <1>5 DEF Disarms
<1>6. CASE Leaves \/ Returns(TRUE) \/ Returns(FALSE) \/ Suspends
  BY <1>6, GensOnLeave DEF Leaves, Returns, Suspends
<1>7. CASE ReturnsEmpty \/ \E a \in Activation : OpensEmpty(a)
  BY <1>7, GensOnStay DEF ReturnsEmpty, OpensEmpty
<1>8. ASSUME NEW a, NEW f, Wakes(a, f)  PROVE GensPlaced'
  <2>1. Replaces(f) /\ gens' = gens  BY <1>8 DEF Wakes, Replaces
  <2>. QED BY <2>1, GensOnReplace
<1>9. CASE Keeps
  <2>1. \A g \in Gen : gens'[g].state = "running" <=> gens[g].state = "running"
    <3>1. CASE gens' = gens  BY <3>1
    <3>2. ASSUME NEW g \in Gen, gens[g].state = "none", gens'[g].state = "suspended",
                 \A h \in Gen \ {g} : gens'[h] = gens[h], NEW h \in Gen
          PROVE  gens'[h].state = "running" <=> gens[h].state = "running"
      <4>1. CASE h = g  BY <3>2, <4>1
      <4>2. CASE h # g  BY <3>2, <4>2
      <4>. QED BY <4>1, <4>2
    <3>. QED BY <1>9, <3>1, <3>2 DEF Keeps
  <2>. QED BY <1>9, <2>1, GensOnStay DEF Keeps
<1>. QED BY <1>1, <1>2, <1>4, <1>5, <1>6, <1>7, <1>8, <1>9, StepKinds

\* LVGenerator is resumed only when it is suspended and leaves its frame when
\* it yields, returns or dies: a generator runs in one frame, one that does
\* not run in none, and the frames keep the stacks of their owners.
THEOREM FramesStayInPlace == ASSUME Tame PROVE Spec => []FramesInPlace
<1>1. Init => CoreInv /\ GensPlaced
  <2>. SUFFICES ASSUME Init PROVE CoreInv /\ GensPlaced  OBVIOUS
  <2>1. Len(calls) = 0 /\ \A g \in Gen : gens[g].state = "none"  BY DEF Init
  <2>. QED BY <2>1, InitEstablishes DEF GensPlaced
<1>2. CoreInv /\ GensPlaced /\ [Next]_vars => (CoreInv /\ GensPlaced)'
  BY NextKeeps, GensKeep
<1>3. CoreInv /\ GensPlaced => GeneratorsRunOnce  BY GensPlacedOnce
<1>4. Spec => []GeneratorsRunOnce  BY <1>1, <1>2, <1>3, PTL DEF Spec
<1>5. GeneratorsRunOnce /\ RunsOnOwnStack => FramesInPlace  BY DEF FramesInPlace
<1>. QED BY <1>4, <1>5, CodeRunsOnOwnStack, PTL

----------------------------------------------------------------------------
(* The local traps of Execute.                                             *)

\* LocalTrapsAgree for activation a.
LocalAgrees(a) ==
    cstk[a].kind = "exec" =>
        cstk[a].traps = TrapsUpTo(High(a)) - TrapsUpTo(cstk[a].low)

LEMMA TrapsUpToNat ==
    ASSUME Nest PROVE \A n \in 0 .. Len(calls) : TrapsUpTo(n) \in Nat
<1>. SUFFICES ASSUME NEW n \in 0 .. Len(calls) PROVE TrapsUpTo(n) \in Nat  OBVIOUS
<1>1. n = 0 \/ n \in 1 .. Len(calls)  BY DEF Nest
<1>. QED BY <1>1 DEF TrapsUpTo, Nest

LEMMA TrapsUpToBelow ==
    ASSUME NEW low \in Nat, NEW high \in Nat, low <= high,
           \A i \in 1 .. high : calls'[i] = calls[i]
    PROVE  TrapsUpTo(low)' = TrapsUpTo(low)
<1>1. low = 0 \/ low \in 1 .. high  OBVIOUS
<1>. QED BY <1>1 DEF TrapsUpTo

LEMMA LocalBelow ==
    ASSUME Nest, Nest', LocalTrapsAgree, NEW n, ActsBelow(n),
           \A a \in 1 .. n : cstk'[a].traps = cstk[a].traps
    PROVE  \A a \in 1 .. n : LocalAgrees(a)'
<1>. SUFFICES ASSUME NEW a \in 1 .. n PROVE LocalAgrees(a)'  OBVIOUS
<1>1. /\ n \in Nat /\ n + 1 \in 1 .. Len(cstk)
      /\ a \in 1 .. Len(cstk) /\ a + 1 \in 1 .. n + 1 /\ a \in 1 .. n + 1
      /\ a # Len(cstk) /\ a # Len(cstk') /\ a + 1 \in 1 .. Len(cstk) /\ a + 1 <= n + 1
  <2>1. n \in Nat /\ n < Len(cstk) /\ n < Len(cstk')  BY DEF ActsBelow
  <2>2. Len(cstk) \in Nat  BY DEF Nest
  <2>3. Len(cstk') \in Nat  BY DEF Nest
  <2>. QED BY <2>1, <2>2, <2>3
<1>2. High(a) = cstk[a + 1].low /\ High(a)' = cstk'[a + 1].low  BY <1>1 DEF High
<1>3. cstk'[a + 1].low = cstk[a + 1].low /\ cstk'[a].low = cstk[a].low
      /\ cstk'[a].kind = cstk[a].kind
  BY <1>1 DEF ActsBelow
<1>4. cstk[a].low \in Nat /\ High(a) \in Nat /\ cstk[a].low <= High(a)
  BY <1>1 DEF Nest
<1>5. cstk[n + 1].low \in Nat /\ High(a) <= cstk[n + 1].low /\ cstk[a].low <= cstk[n + 1].low
  <2>1. cstk[a + 1].low <= cstk[n + 1].low /\ cstk[n + 1].low \in Nat
    BY <1>1 DEF Nest
  <2>. QED BY <1>2, <1>4, <2>1
<1>6. \A k : k = High(a) \/ k = cstk[a].low => TrapsUpTo(k)' = TrapsUpTo(k)
  BY <1>4, <1>5, TrapsUpToBelow DEF ActsBelow
<1>7. LocalAgrees(a)  BY <1>1 DEF LocalTrapsAgree, LocalAgrees
<1>. QED BY <1>2, <1>3, <1>6, <1>7 DEF LocalAgrees

\* Execute goes on with d more traps in its frames and in its local traps.
LEMMA LocalInPlace ==
    ASSUME Nest, Nest', LocalTrapsAgree, Len(cstk) > 0, NEW d \in Int, ActStays(d),
           Len(calls) > act.low,
           \A i \in 1 .. act.low : calls'[i] = calls[i],
           act.kind = "exec" => \A k, l : k = Len(calls) /\ l = Len(calls') =>
                                    TrapsUpTo(l)' = TrapsUpTo(k) + d
    PROVE  LocalTrapsAgree'
<1>0. PICK m \in Nat : m = Len(cstk)  BY DEF Nest
<1>1. PICK n \in Nat :
        /\ m = n + 1 /\ m \in 1 .. Len(cstk) /\ act = cstk[m] /\ Len(cstk') = m
        /\ act.low \in Nat /\ High(m) = Len(calls) /\ m = Len(cstk)
  <2>1. /\ m \in 1 .. Len(cstk) /\ act = cstk[m] /\ Len(cstk') = m
        /\ act.low \in Nat /\ High(m) = Len(calls)
    BY <1>0 DEF Nest, ActStays
  <2>2. m - 1 \in Nat /\ m = (m - 1) + 1  BY <1>0
  <2>. QED BY <1>0, <2>1, <2>2
<1>2. ActsBelow(n)  BY <1>1 DEF ActsBelow, ActStays
<1>3. \A a \in 1 .. n : cstk'[a].traps = cstk[a].traps
  <2>. SUFFICES ASSUME NEW a \in 1 .. n PROVE cstk'[a].traps = cstk[a].traps  OBVIOUS
  <2>1. a \in 1 .. Len(cstk) /\ a # Len(cstk)  BY <1>1
  <2>2. cstk'[a].traps = cstk[a].traps + 0  BY <2>1 DEF ActStays
  <2>3. cstk[a].traps \in Int  BY <2>1 DEF Nest
  <2>. QED BY <2>2, <2>3
<1>4. \A a \in 1 .. n : LocalAgrees(a)'  BY <1>2, <1>3, LocalBelow
<1>5. LocalAgrees(m)'
  <2>. SUFFICES ASSUME act.kind = "exec"
                PROVE  cstk'[m].traps = TrapsUpTo(High(m))' - TrapsUpTo(cstk[m].low)'
    BY <1>1 DEF LocalAgrees, ActStays
  <2>1. act.traps = TrapsUpTo(Len(calls)) - TrapsUpTo(act.low)
    BY <1>1 DEF LocalTrapsAgree
  <2>2. \A k : k = Len(calls) \/ k = act.low => TrapsUpTo(k) \in Nat
    <3>1. Len(calls) \in 0 .. Len(calls) /\ act.low \in 0 .. Len(calls)
      BY SMTT(30), <1>1 DEF Nest
    <3>. QED BY <3>1, TrapsUpToNat
  <2>3. \A k : k = act.low => TrapsUpTo(k)' = TrapsUpTo(k)
    <3>1. act.low <= act.low  BY <1>1
    <3>. QED BY <1>1, <3>1, TrapsUpToBelow
  <2>4. cstk'[m].traps = act.traps + d /\ cstk'[m].low = act.low
    BY <1>1 DEF ActStays
  <2>5. TrapsUpTo(High(m))' = TrapsUpTo(Len(calls)) + d
    <3>1. High(m)' = Len(calls')  BY <1>1 DEF High
    <3>2. TrapsUpTo(High(m))' = TrapsUpTo(Len(calls))'  BY <3>1 DEF TrapsUpTo
    <3>3. PICK l \in Nat : l = Len(calls')  BY DEF Nest
    <3>4. PICK k \in Nat : k = Len(calls)  BY DEF Nest
    <3>5. TrapsUpTo(l)' = TrapsUpTo(k) + d  BY <3>3, <3>4
    <3>6. TrapsUpTo(Len(calls))' = TrapsUpTo(l)'  BY <3>3 DEF TrapsUpTo
    <3>. QED BY <3>2, <3>4, <3>5, <3>6
  <2>. QED BY <1>1, <2>1, <2>2, <2>3, <2>4, <2>5
<1>6. \A a \in 1 .. Len(cstk') : a \in 1 .. n \/ a = m  BY <1>1
<1>7. ~ susp'.on
  <2>1. Len(cstk') > 0  BY <1>1
  <2>. QED BY <2>1 DEF Nest
<1>. QED BY <1>4, <1>5, <1>6, <1>7 DEF LocalTrapsAgree, LocalAgrees

LEMMA LocalOnEnter ==
    ASSUME CoreInv, Nest, Nest', ~ TryInForeach, LocalTrapsAgree,
           NEW f \in Frame, NEW d \in Int, Enters(f, d)
    PROVE  LocalTrapsAgree'
<1>1. /\ InExec /\ ActStays(d) /\ d = f.etraps /\ FramePushed(f) /\ f.tlow = Len(etraps)
  BY DEF Enters, EntersFrame
<1>2. /\ Len(cstk) > 0 /\ Len(calls) > act.low /\ act.low \in Nat /\ Len(calls) \in Nat
      /\ \A i \in 1 .. Len(calls) : calls'[i] = calls[i]
      /\ Len(calls') = Len(calls) + 1
  BY <1>1 DEF Nest, FramePushed
<1>3. \A i \in 1 .. act.low : calls'[i] = calls[i]  BY <1>2
<1>4. \A k, l : k = Len(calls) /\ l = Len(calls') => TrapsUpTo(l)' = TrapsUpTo(k) + d
  <2>1. Len(etraps) = TrapsUpTo(Len(calls))  BY CoreFacts DEF TrapCounts
  <2>2. TrapsUpTo(Len(calls))' = f.tlow + f.etraps  BY <1>1, PushBelow
  <2>3. \A l : l = Len(calls') => TrapsUpTo(l)' = TrapsUpTo(Len(calls))'
    BY DEF TrapsUpTo
  <2>. QED BY <1>1, <2>1, <2>2, <2>3
<1>. QED BY <1>1, <1>2, <1>3, <1>4, LocalInPlace

LEMMA LocalOnChange ==
    ASSUME CoreInv, Nest, Nest', LocalTrapsAgree, NEW f, NEW d, Changes(f, d)
    PROVE  LocalTrapsAgree'
<1>1. /\ Len(cstk) > 0 /\ Len(calls) > act.low /\ ActStays(d) /\ d \in Int /\ Replaces(f)
      /\ f.etraps = ci.etraps + d /\ Len(calls') = Len(calls)
      /\ \A i \in 1 .. Len(calls) - 1 : calls'[i] = calls[i]
  BY ChangesReplace DEF Changes
<1>2. act.low \in Nat /\ Len(calls) \in Nat /\ Len(calls) > 0 /\ ci = calls[Len(calls)]
      /\ ci.etraps \in Nat /\ ci.tlow \in Nat
  BY <1>1 DEF Nest, Replaces
<1>3. \A i \in 1 .. act.low : calls'[i] = calls[i]  BY <1>1, <1>2
<1>4. \A k, l : k = Len(calls) /\ l = Len(calls') => TrapsUpTo(l)' = TrapsUpTo(k) + d
  <2>1. TrapsUpTo(Len(calls)) = ci.tlow + ci.etraps  BY <1>2 DEF TrapsUpTo
  <2>2. TrapsUpTo(Len(calls))' = ci.tlow + f.etraps  BY <1>1, ReplaceBelow
  <2>3. \A l : l = Len(calls') => TrapsUpTo(l)' = TrapsUpTo(Len(calls))'
    BY DEF TrapsUpTo
  <2>. QED BY <1>1, <1>2, <2>1, <2>2, <2>3
<1>. QED BY <1>1, <1>3, <1>4, LocalInPlace

LEMMA LocalOnLeave ==
    ASSUME CoreInv, Nest, Nest', LocalTrapsAgree, Leaves PROVE LocalTrapsAgree'
<1>1. /\ Len(cstk) > 0 /\ Len(calls) > act.low + 1 /\ LeavesFrame /\ FrameLeft
      /\ Len(calls) > 0
  BY DEF Leaves, LeavesFrame
<1>2. PICK d \in Int : d + ci.etraps = 0 /\ ActStays(d)  BY DEF Leaves
<1>3. /\ act.low \in Nat /\ Len(calls) \in Nat /\ ci = calls[Len(calls)]
      /\ Len(calls) \in 1 .. Len(calls) /\ Len(calls) # 0
      /\ ci.etraps \in Nat /\ ci.tlow \in Nat
  BY SMTT(30), <1>1 DEF Nest
<1>4. Len(calls) > act.low /\ \A i \in 1 .. act.low : i \in 1 .. Len(calls) - 1
  BY <1>1, <1>3
<1>5. \A i \in 1 .. act.low : calls'[i] = calls[i]  BY <1>1, <1>4 DEF FrameLeft
<1>6. \A k, l : k = Len(calls) /\ l = Len(calls') => TrapsUpTo(l)' = TrapsUpTo(k) + d
  <2>1. TrapsUpTo(Len(calls)) = ci.tlow + ci.etraps  BY <1>3 DEF TrapsUpTo
  <2>2. ci.tlow = TrapsUpTo(Len(calls) - 1)  BY <1>3, CoreFacts DEF TrapCounts
  <2>3. Len(calls') = Len(calls) - 1 /\ Len(calls) - 1 \in 0 .. Len(calls) - 1
    BY <1>1, <1>3 DEF FrameLeft
  <2>4. \A l : l = Len(calls) - 1 => TrapsUpTo(l)' = TrapsUpTo(l)
    BY <1>1, <2>3, LeaveBelow
  <2>. QED BY <1>2, <1>3, <2>1, <2>2, <2>3, <2>4
<1>. QED BY <1>1, <1>2, <1>4, <1>5, <1>6, LocalInPlace

\* A new activation.
LEMMA LocalOnOpen ==
    ASSUME Nest, Nest', LocalTrapsAgree, NEW a, ActPushed(a), a.low = Len(calls),
           \A i \in 1 .. Len(calls) : calls'[i] = calls[i], Len(calls') >= Len(calls),
           a.kind = "exec" => \A k, l : k = Len(calls) /\ l = Len(calls') =>
                                  a.traps = TrapsUpTo(l)' - TrapsUpTo(k)'
    PROVE  LocalTrapsAgree'
<1>0. PICK m \in Nat : m = Len(cstk)  BY DEF Nest
<1>1. /\ Len(cstk') = m + 1 /\ cstk'[m + 1] = a /\ m + 1 \in 1 .. Len(cstk')
      /\ \A b \in 1 .. m : cstk'[b] = cstk[b]
  BY <1>0 DEF ActPushed
<1>2. LocalAgrees(m + 1)'
  <2>1. High(m + 1)' = Len(calls')  BY <1>1 DEF High
  <2>. QED BY <1>1, <2>1 DEF LocalAgrees
<1>3. ASSUME NEW b \in 1 .. m  PROVE LocalAgrees(b)'
  <2>1. /\ b \in 1 .. Len(cstk) /\ b # Len(cstk') /\ cstk'[b] = cstk[b]
        /\ cstk[b].low \in Nat /\ High(b) \in Nat /\ cstk[b].low <= High(b)
        /\ High(b) <= Len(calls)
    <3>1. /\ b \in 1 .. Len(cstk) /\ b # Len(cstk') /\ cstk'[b] = cstk[b]
      BY ONLY <1>0, <1>1, <1>3
    <3>2. /\ cstk[b].low \in Nat /\ High(b) \in Nat /\ cstk[b].low <= High(b)
          /\ High(b) <= Len(calls)
      BY ONLY <3>1, Nest DEF Nest
    <3>. QED BY ONLY <3>1, <3>2
  <2>2. High(b)' = High(b)
    <3>1. CASE b = m  BY <1>0, <1>1, <2>1, <3>1 DEF High
    <3>2. CASE b # m
      <4>1. b + 1 \in 1 .. m  BY <3>2
      <4>. QED BY <1>0, <1>1, <2>1, <3>2, <4>1 DEF High
    <3>. QED BY <3>1, <3>2
  <2>3. \A k : k = High(b) \/ k = cstk[b].low => TrapsUpTo(k)' = TrapsUpTo(k)
    <3>1. \A i \in 1 .. High(b) : i \in 1 .. Len(calls)  BY <2>1 DEF Nest
    <3>2. High(b) <= High(b)  BY <2>1
    <3>. QED BY <2>1, <3>1, <3>2, TrapsUpToBelow
  <2>4. LocalAgrees(b)  BY <2>1 DEF LocalTrapsAgree, LocalAgrees
  <2>. QED BY <2>1, <2>2, <2>3, <2>4 DEF LocalAgrees
<1>4. \A b \in 1 .. Len(cstk') : b = m + 1 \/ b \in 1 .. m  BY <1>1
<1>5. ~ susp'.on
  <2>1. Len(cstk') > 0  BY <1>1
  <2>. QED BY <2>1 DEF Nest
<1>. QED BY <1>2, <1>3, <1>4, <1>5 DEF LocalTrapsAgree, LocalAgrees

LEMMA LocalOnCall ==
    ASSUME CoreInv, Nest, Nest', LocalTrapsAgree, NEW a, NEW f \in Frame, Opens(a, f)
    PROVE  LocalTrapsAgree'
<1>1. /\ ActPushed(a) /\ a.low = Len(calls) /\ FramePushed(f) /\ f.tlow = Len(etraps)
      /\ a.kind = "exec" => a.traps = f.etraps
      /\ f.etraps \in Nat
  BY DEF Opens, MayOpen, EntersFrame, Frame
<1>2. /\ \A i \in 1 .. Len(calls) : calls'[i] = calls[i]
      /\ Len(calls') >= Len(calls)
  BY <1>1 DEF FramePushed, Nest
<1>3. \A k, l : k = Len(calls) /\ l = Len(calls') => TrapsUpTo(l)' - TrapsUpTo(k)' = f.etraps
  <2>0. Len(calls) \in 0 .. Len(calls)  BY DEF Nest
  <2>1. \A k : k = Len(calls) => TrapsUpTo(k)' = TrapsUpTo(k)  BY <1>1, <2>0, PushBelow
  <2>2. Len(etraps) = TrapsUpTo(Len(calls)) /\ Len(etraps) \in Nat
    BY CoreFacts DEF TrapCounts, Nest
  <2>3. TrapsUpTo(Len(calls))' = f.tlow + f.etraps  BY <1>1, PushBelow
  <2>4. \A l : l = Len(calls') => TrapsUpTo(l)' = TrapsUpTo(Len(calls))'
    BY DEF TrapsUpTo
  <2>5. \A x, y : x = f.tlow + f.etraps /\ y = f.tlow => x - y = f.etraps
    BY <1>1, <2>2
  <2>. QED BY <1>1, <2>1, <2>2, <2>3, <2>4, <2>5
<1>. QED BY <1>1, <1>2, <1>3, LocalOnOpen

LEMMA LocalOnCallEmpty ==
    ASSUME CoreInv, Nest, Nest', LocalTrapsAgree, NEW a, OpensEmpty(a)
    PROVE  LocalTrapsAgree'
<1>1. ActPushed(a) /\ a.low = Len(calls) /\ a.traps = 0 /\ calls' = calls
  BY DEF OpensEmpty, MayOpen
<1>2. Len(calls') >= Len(calls) /\ Len(calls) \in 0 .. Len(calls)  BY <1>1 DEF Nest
<1>3. \A k, l : k = Len(calls) /\ l = Len(calls') => 0 = TrapsUpTo(l)' - TrapsUpTo(k)'
  <2>1. TrapsUpTo(Len(calls)) \in Nat  BY <1>2, TrapsUpToNat
  <2>2. \A k : TrapsUpTo(k)' = TrapsUpTo(k)  BY <1>1 DEF TrapsUpTo
  <2>. QED BY <1>1, <2>1, <2>2
<1>. QED BY <1>1, <1>2, <1>3, LocalOnOpen

\* An activation returns: its frames are gone, or hold no traps.
LEMMA LocalOnBack ==
    ASSUME Nest, Nest', LocalTrapsAgree, Len(cstk) > 0, ActLeft, susp' = susp,
           Len(calls') >= act.low, \A i \in 1 .. act.low : calls'[i] = calls[i],
           \A k, l : k = act.low /\ l = Len(calls') => TrapsUpTo(l)' = TrapsUpTo(k)
    PROVE  LocalTrapsAgree'
<1>0. PICK m \in Nat : m + 1 = Len(cstk)
  <2>1. Len(cstk) \in Nat /\ Len(cstk) - 1 \in Nat /\ (Len(cstk) - 1) + 1 = Len(cstk)
    BY DEF Nest
  <2>. QED BY <2>1
<1>1. /\ m + 1 \in 1 .. Len(cstk) /\ act = cstk[m + 1] /\ m = Len(cstk')
      /\ \A a \in 1 .. m : cstk'[a] = cstk[a] /\ a \in 1 .. Len(cstk) /\ a # Len(cstk)
      /\ act.low \in Nat /\ ~ susp.on
  BY <1>0, NestTop, LeftActs
<1>2. ASSUME NEW a \in 1 .. m  PROVE LocalAgrees(a)'
  <2>1. /\ cstk'[a] = cstk[a] /\ cstk[a].low \in Nat /\ High(a) \in Nat
        /\ cstk[a].low <= High(a)
    BY <1>1 DEF Nest
  <2>2. LocalAgrees(a)  BY <1>1 DEF LocalTrapsAgree, LocalAgrees
  <2>3. High(a) <= act.low
    <3>1. a + 1 \in 1 .. Len(cstk) /\ a + 1 <= m + 1 /\ High(a) = cstk[a + 1].low
      BY <1>0, <1>1 DEF Nest
    <3>. QED BY <1>1, <3>1 DEF Nest
  <2>4. \A k : k = High(a) \/ k = cstk[a].low => TrapsUpTo(k)' = TrapsUpTo(k)
    <3>1. cstk[a].low <= act.low  BY <1>1, <2>1, <2>3
    <3>. QED BY <1>1, <2>1, <2>3, <3>1, TrapsUpToBelow
  <2>5. CASE a = m
    <3>1. High(a) = act.low  BY <1>0, <1>1, <2>5 DEF High
    <3>2. High(a)' = Len(calls')  BY <1>1, <2>5 DEF High
    <3>3. TrapsUpTo(High(a))' = TrapsUpTo(High(a))
      <4>1. PICK l : l = Len(calls')  OBVIOUS
      <4>2. TrapsUpTo(l)' = TrapsUpTo(High(a))  BY <3>1, <4>1
      <4>3. TrapsUpTo(High(a))' = TrapsUpTo(l)'  BY <3>2, <4>1 DEF TrapsUpTo
      <4>. QED BY <4>2, <4>3
    <3>. QED BY <2>1, <2>2, <2>4, <3>3 DEF LocalAgrees
  <2>6. CASE a # m
    <3>1. a + 1 \in 1 .. m  BY <2>6
    <3>2. a # Len(cstk') /\ a # Len(cstk)  BY <1>1, <2>6
    <3>3. High(a)' = High(a)  BY <1>1, <3>1, <3>2 DEF High
    <3>. QED BY <2>1, <2>2, <2>4, <3>3 DEF LocalAgrees
  <2>. QED BY <2>5, <2>6
<1>. QED BY <1>1, <1>2 DEF LocalTrapsAgree, LocalAgrees

LEMMA LocalOnReturn ==
    ASSUME CoreInv, Nest, Nest', LocalTrapsAgree, NEW ok, Returns(ok)
    PROVE  LocalTrapsAgree'
<1>1. /\ Len(cstk) > 0 /\ ActLeft /\ susp' = susp /\ Len(calls) = act.low + 1
      /\ FrameLeft /\ act.low \in Nat
  BY DEF Returns, LeavesFrame, Nest
<1>2. /\ Len(calls') = act.low /\ Len(calls') >= act.low
      /\ \A i \in 1 .. act.low : calls'[i] = calls[i]
  BY <1>1 DEF FrameLeft
<1>3. \A k, l : k = act.low /\ l = Len(calls') => TrapsUpTo(l)' = TrapsUpTo(k)
  <2>1. act.low <= act.low  BY <1>1
  <2>. QED BY <1>1, <1>2, <2>1, TrapsUpToBelow
<1>. QED BY <1>1, <1>2, <1>3, LocalOnBack

LEMMA LocalOnReturnEmpty ==
    ASSUME CoreInv, Nest, Nest', LocalTrapsAgree, ReturnsEmpty
    PROVE  LocalTrapsAgree'
<1>1. /\ Len(cstk) > 0 /\ ActLeft /\ susp' = susp /\ calls' = calls
      /\ act.low \in Nat /\ Len(calls) >= act.low /\ Len(calls) \in Nat
  BY DEF ReturnsEmpty, Nest
<1>2. \A k, l : k = act.low /\ l = Len(calls') => TrapsUpTo(l)' = TrapsUpTo(k)
  <2>1. \A k : TrapsUpTo(k)' = TrapsUpTo(k)  BY <1>1 DEF TrapsUpTo
  <2>2. CASE Len(calls) = act.low  BY <1>1, <2>1, <2>2
  <2>3. CASE mode = "abandon" /\ Len(calls) = act.low + 1
    <3>1. ci.etraps = 0 /\ ci = calls[Len(calls)]
      <4>1. cstk # <<>>  BY <1>1, CoreFacts DEF Stacks
      <4>2. AbandonedHasOneFrame  BY CoreFacts DEF WellNested
      <4>. QED BY <2>3, <4>1, <4>2 DEF AbandonedHasOneFrame, ci
    <3>2. Len(calls) # 0 /\ Len(calls) \in 1 .. Len(calls) /\ Len(calls) - 1 = act.low
          /\ ci.tlow \in Nat
      <4>1. Len(calls) # 0 /\ Len(calls) \in 1 .. Len(calls) /\ Len(calls) - 1 = act.low
        BY <1>1, <2>3
      <4>2. calls[Len(calls)].tlow \in Nat  BY <4>1 DEF Nest
      <4>. QED BY <3>1, <4>1, <4>2
    <3>3. TrapsUpTo(Len(calls)) = ci.tlow + 0  BY <3>1, <3>2 DEF TrapsUpTo
    <3>4. ci.tlow = TrapsUpTo(act.low)  BY <3>1, <3>2, CoreFacts DEF TrapCounts
    <3>. QED BY <1>1, <2>1, <3>2, <3>3, <3>4
  <2>. QED BY <2>2, <2>3 DEF ReturnsEmpty
<1>. QED BY <1>1, <1>2, LocalOnBack

\* LVVM::Suspend keeps the local traps, lv_wakeupvm gives them back.
LEMMA LocalOnSuspend ==
    ASSUME CoreInv, Nest, Nest', LocalTrapsAgree, Suspends
    PROVE  LocalTrapsAgree'
<1>1. /\ Len(cstk) = 2 /\ Len(calls) = act.low + 1 /\ cstk[1].kind = "exec"
      /\ cstk[1].low = 0 /\ FrameLeft /\ Len(cstk') = 0 /\ susp'.traps = cstk[1].traps
  BY DEF Suspends, LeavesFrame
<1>2. /\ 1 \in 1 .. Len(cstk) /\ 1 # Len(cstk) /\ High(1) = act.low
      /\ act.low \in Nat /\ act.low \in 0 .. Len(calls)
  <2>1. 1 \in 1 .. Len(cstk) /\ 1 # Len(cstk) /\ 1 + 1 = 2  BY <1>1
  <2>2. act = cstk[2] /\ act.low \in Nat  BY <1>1 DEF Nest
  <2>3. High(1) = act.low  BY <2>1, <2>2 DEF Nest
  <2>. QED BY <1>1, <2>1, <2>2, <2>3
<1>3. susp'.traps = TrapsUpTo(act.low) - TrapsUpTo(0)
  BY <1>1, <1>2 DEF LocalTrapsAgree
<1>4. TrapsUpTo(0) = 0 /\ TrapsUpTo(act.low) \in Nat  BY <1>2, TrapsUpToNat DEF TrapsUpTo
<1>5. TrapsUpTo(Len(calls))' = TrapsUpTo(act.low)
  <2>1. /\ Len(calls') = act.low /\ act.low <= act.low
        /\ \A i \in 1 .. act.low : calls'[i] = calls[i]
    BY <1>1, <1>2 DEF FrameLeft
  <2>2. \A k : k = act.low => TrapsUpTo(k)' = TrapsUpTo(k)  BY <1>2, <2>1, TrapsUpToBelow
  <2>3. PICK l : l = act.low  OBVIOUS
  <2>4. TrapsUpTo(Len(calls))' = TrapsUpTo(l)'  BY <2>1, <2>3 DEF TrapsUpTo
  <2>. QED BY <2>2, <2>3, <2>4
<1>6. \A a : a \notin 1 .. Len(cstk')  BY <1>1
<1>. QED BY <1>3, <1>4, <1>5, <1>6 DEF LocalTrapsAgree

LEMMA LocalOnWake ==
    ASSUME CoreInv, Nest, Nest', LocalTrapsAgree, NEW a, NEW f, Wakes(a, f)
    PROVE  LocalTrapsAgree'
<1>1. /\ Len(cstk') = 1 /\ cstk'[1] = a /\ a.low = 0 /\ a.traps = susp.traps
      /\ susp.on /\ Len(calls') = Len(calls) /\ Replaces(f)
      /\ f.etraps = ci.etraps /\ ~ susp'.on
  BY DEF Wakes, ActPushed, Replaces
<1>2. a.traps = TrapsUpTo(Len(calls))  BY <1>1 DEF LocalTrapsAgree
<1>3. TrapsUpTo(Len(calls))' = TrapsUpTo(Len(calls))
  <2>1. Len(calls) # 0 /\ ci = calls[Len(calls)]  BY <1>1 DEF Replaces, Nest
  <2>. QED BY <1>1, <2>1, ReplaceBelow DEF TrapsUpTo
<1>4. TrapsUpTo(Len(calls)) \in Nat
  <2>1. Len(calls) \in 0 .. Len(calls)  BY DEF Nest
  <2>. QED BY <2>1, TrapsUpToNat
<1>5. High(1)' = Len(calls')  BY <1>1 DEF High
<1>6. TrapsUpTo(High(1))' = TrapsUpTo(Len(calls))'  BY <1>5 DEF TrapsUpTo
<1>7. \A k : k = 0 => TrapsUpTo(k)' = 0  BY DEF TrapsUpTo
<1>8. LocalAgrees(1)'  BY <1>1, <1>2, <1>3, <1>4, <1>6, <1>7 DEF LocalAgrees
<1>9. \A b \in 1 .. Len(cstk') : b = 1  BY <1>1
<1>. QED BY <1>1, <1>8, <1>9 DEF LocalTrapsAgree, LocalAgrees

LEMMA LocalKeep ==
    ASSUME CoreInv, CoreInv', Disciplined, LocalTrapsAgree, [Next]_vars
    PROVE  LocalTrapsAgree'
<1>. Nest /\ Nest' /\ Tame /\ ~ TryInForeach
  BY NestHolds, NestAfter DEF Disciplined, Tame
<1>1. CASE \E f \in Frame, d \in Int : Enters(f, d)  BY <1>1, LocalOnEnter
<1>2. CASE \E a \in Activation : OpensEmpty(a) \/ \E f \in Frame : Opens(a, f)
  BY <1>2, LocalOnCall, LocalOnCallEmpty
<1>3. CASE \E f \in Frame : Reuses(f) \/ Arms(f)  BY <1>3, LocalOnChange DEF Reuses, Arms
<1>4. CASE \E f \in Frame, d \in Int : Disarms(f, d)  BY <1>4, LocalOnChange DEF Disarms
<1>5. CASE Leaves  BY <1>5, LocalOnLeave
<1>6. CASE Returns(TRUE) \/ Returns(FALSE)  BY <1>6, LocalOnReturn
<1>7. CASE ReturnsEmpty  BY <1>7, LocalOnReturnEmpty
<1>8. CASE Suspends  BY <1>8, LocalOnSuspend
<1>9. CASE \E a \in Activation, f \in Frame : Wakes(a, f)  BY <1>9, LocalOnWake
<1>10. CASE Keeps
  BY <1>10 DEF Keeps, LocalTrapsAgree, TrapsUpTo, High
<1>. QED BY <1>1, <1>2, <1>3, <1>4, <1>5, <1>6, <1>7, <1>8, <1>9, <1>10, StepKinds

\* The inductive invariant of all of them together: with foreach kept away
\* from generators that yield inside a try, as well as what Tame keeps apart.
THEOREM FramesInvariance == ASSUME Disciplined PROVE Spec => []IInv
<1>. Tame  BY DEF Disciplined, Tame
<1>1. Init => CoreInv /\ StackInv /\ LocalTrapsAgree
  <2>. SUFFICES ASSUME Init PROVE CoreInv /\ StackInv /\ LocalTrapsAgree  OBVIOUS
  <2>1. LocalTrapsAgree  BY DEF Init, LocalTrapsAgree
  <2>. QED BY <2>1, InitEstablishes, StackInit
<1>2. CoreInv /\ StackInv /\ LocalTrapsAgree /\ [Next]_vars
        => (CoreInv /\ StackInv /\ LocalTrapsAgree)'
  <2>. SUFFICES ASSUME CoreInv, StackInv, LocalTrapsAgree, [Next]_vars
                PROVE  CoreInv' /\ StackInv' /\ LocalTrapsAgree'
    OBVIOUS
  <2>1. CoreInv'  BY NextKeeps
  <2>. QED BY <2>1, StackKeeps, LocalKeep
<1>3. ASSUME CoreInv, StackInv, LocalTrapsAgree, GeneratorsRunOnce  PROVE IInv
  <2>1. /\ BasesChain /\ TrapsMatchFrames /\ SavedTrapsRelative /\ TopsChain
        /\ CallersRemembered
    BY <1>3, StackInvParts
  <2>2. TypeOK /\ SavedRoots /\ WellNested  BY <1>3 DEF CoreInv
  <2>. QED BY <1>3, <2>1, <2>2 DEF IInv, WellNested
<1>4. FramesInPlace => GeneratorsRunOnce  BY DEF FramesInPlace
<1>. QED BY <1>1, <1>2, <1>3, <1>4, FramesStayInPlace, PTL DEF Spec

\* The traps on _etraps are those of the frames and the local traps of every
\* Execute is the number of traps its own frames have, so that an error is
\* caught in the activation whose count says it will be, and where the counts
\* are used to decide whether the error handler is told (vm.cpp:1325-1350).
THEOREM TrapsAlwaysAgree == ASSUME Disciplined PROVE Spec => []TrapsAgree
<1>1. IInv => TrapsAgree  BY DEF IInv, TrapsAgree
<1>. QED BY <1>1, FramesInvariance, PTL

\* assert(traps == 0) at _OP_RETURN and _OP_YIELD holds: when the root frame
\* has closed its traps, the local traps of its Execute is zero.
THEOREM NoTrapsLeftAtReturn == ASSUME Disciplined PROVE Spec => []NoTrapsAtReturn
<1>1. ASSUME CoreInv, LocalTrapsAgree, InExec, ci.root, ci.etraps = 0
      PROVE  act.traps = 0
  <2>. Nest  BY <1>1, NestHolds
  <2>1. /\ Len(cstk) \in 1 .. Len(cstk) /\ act = cstk[Len(cstk)] /\ act.kind = "exec"
        /\ High(Len(cstk)) = Len(calls) /\ act.low \in Nat /\ Len(calls) \in Nat
        /\ Len(calls) > act.low
    BY <1>1 DEF Nest
  <2>2. Len(calls) \in act.low + 1 .. Len(calls) /\ Len(calls) # 0 /\ ci = calls[Len(calls)]
        /\ Len(calls) \in 1 .. Len(calls) /\ ci.tlow \in Nat
    BY <2>1 DEF Nest
  <2>3. Len(calls) = act.low + 1
    BY <1>1, <2>1, <2>2, CoreFacts DEF WellNested, RootsDelimitActivations
  <2>4. act.traps = TrapsUpTo(Len(calls)) - TrapsUpTo(act.low)
    BY <1>1, <2>1 DEF LocalTrapsAgree
  <2>5. TrapsUpTo(Len(calls)) = ci.tlow + 0  BY <1>1, <2>2 DEF TrapsUpTo
  <2>6. TrapsUpTo(act.low) = ci.tlow
    <3>1. Len(calls) - 1 = act.low  BY <2>1, <2>3
    <3>. QED BY <1>1, <2>2, <3>1, CoreFacts DEF TrapCounts
  <2>. QED BY <2>2, <2>4, <2>5, <2>6
<1>2. IInv => LocalTrapsAgree  BY DEF IInv
<1>3. CoreInv /\ LocalTrapsAgree => NoTrapsAtReturn  BY <1>1 DEF NoTrapsAtReturn
<1>4. Tame  BY DEF Disciplined, Tame
<1>. QED BY <1>2, <1>3, <1>4, FramesInvariance, CoreInvariance, PTL

\* lv_call, lv_resume, CallMetaMethod and CallNative give their caller the
\* frames and the stack back that it had (assert(_stackbase == prevstackbase),
\* vm.cpp:1867), with one value more for lv_call, whether the callee returned,
\* threw, yielded or could not start.
THEOREM CallersAlwaysResume == ASSUME Tame PROVE Spec => CallersResume
<1>. DEFINE Resumes ==
       (Len(cstk') < Len(cstk) /\ mode' = "run" /\ ~ susp'.on /\ act.via # "wakeup") =>
          /\ stackbase' = act.base
          /\ Len(calls') = act.low
          /\ top' - act.top \in CASE act.via = "api" -> {1}
                                  [] act.via = "resume" -> {0, 1}
                                  [] OTHER -> {0}
<1>1. ASSUME CoreInv, StackInv, [Next]_vars  PROVE Resumes
  <2>. SUFFICES ASSUME Len(cstk') < Len(cstk), mode' = "run", ~ susp'.on,
                       act.via # "wakeup"
                PROVE  /\ stackbase' = act.base
                       /\ Len(calls') = act.low
                       /\ top' - act.top \in CASE act.via = "api" -> {1}
                                               [] act.via = "resume" -> {0, 1}
                                               [] OTHER -> {0}
    OBVIOUS
  <2>. Nest /\ CoreInv /\ StackInv  BY <1>1, NestHolds
  <2>1. Len(cstk) \in Nat /\ act.top \in Int /\ act \in Activation
    <3>1. Len(cstk') \in Nat  BY <1>1, NextKeeps, NestHolds, NestAfter DEF Nest
    <3>2. Len(cstk) \in Nat /\ Len(cstk) > 0  BY <3>1 DEF Nest
    <3>. QED BY <3>2, CoreFacts DEF Activation
  <2>2. \E ok \in BOOLEAN : BackAt(ok) /\ Len(calls') = act.low
    <3>1. CASE \E ok \in BOOLEAN : Returns(ok)  BY <3>1, ReturnsBack
    <3>2. CASE ReturnsEmpty
      <4>1. mode # "abandon"
        <5>1. mode = "abandon" => Len(cstk) > 1 /\ cstk[Len(cstk) - 1].kind = "exec"
          BY <3>2, CoreFacts DEF ReturnsEmpty, WellNested, ModeFits
        <5>2. mode' = Continues(act, FALSE)  BY <3>2 DEF ReturnsEmpty
        <5>. QED BY <5>1, <5>2 DEF Continues
      <4>2. BackAt(FALSE) /\ Len(calls') = act.low  BY <3>2, <4>1, ReturnErrorBack
      <4>3. \E ok \in BOOLEAN : ok = FALSE  BY Zenon
      <4>. QED BY <4>2, <4>3
    <3>3. ~ Suspends  BY DEF Suspends
    <3>4. Len(cstk') # Len(cstk) /\ Len(cstk') # Len(cstk) + 1  BY <2>1
    <3>5. \A f, d : ~ Enters(f, d) /\ ~ Changes(f, d)
      BY <3>4 DEF Enters, Changes, ActStays
    <3>6. \A a, f : ~ Opens(a, f) /\ ~ OpensEmpty(a) /\ ~ Wakes(a, f)
      BY <3>4 DEF Opens, OpensEmpty, Wakes, ActPushed
    <3>7. ~ Leaves /\ ~ Keeps  BY <3>4 DEF Leaves, Keeps, ActStays
    <3>8. \A f, d : ~ Reuses(f) /\ ~ Arms(f) /\ ~ Disarms(f, d)
      BY <3>5 DEF Reuses, Arms, Disarms
    <3>9. Returns(TRUE) \/ Returns(FALSE) => \E ok \in BOOLEAN : Returns(ok)
      BY Zenon
    <3>. QED BY <1>1, <3>1, <3>2, <3>3, <3>5, <3>6, <3>7, <3>8, <3>9, StepKinds
  <2>3. PICK ok \in BOOLEAN : BackAt(ok) /\ Len(calls') = act.low  BY <2>2
  <2>4. stackbase' = act.base /\ top' = (act.top + Pushed(act.via)) - Popped(act, ok)
    BY <2>3 DEF BackAt
  <2>5. /\ Pushed(act.via) \in Int /\ Popped(act, ok) \in Int
        /\ Pushed(act.via) - Popped(act, ok) \in CASE act.via = "api" -> {1}
                                                   [] act.via = "resume" -> {0, 1}
                                                   [] OTHER -> {0}
    BY <2>1 DEF Pushed, Popped, Activation
  <2>6. top' - act.top = Pushed(act.via) - Popped(act, ok)  BY <2>1, <2>4, <2>5
  <2>. QED BY <2>3, <2>4, <2>5, <2>6
<1>. HIDE DEF Resumes
<1>2. CoreInv /\ StackInv /\ [Next]_vars => [Resumes]_vars  BY <1>1
<1>3. Spec => [][Resumes]_vars  BY <1>2, StackInvariance, PTL DEF Spec
<1>. QED BY <1>3 DEF CallersResume, Resumes
=============================================================================
