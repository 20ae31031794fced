-------------------------- MODULE SynthAudioProofs --------------------------
(* Proofs about Opl2Core and SynthAudio for every number of operators and     *)
(* channels, every assignment of operators to channels and drums, and every   *)
(* length of the sample.                                                      *)
EXTENDS SynthAudioInv, WellFoundedInduction, TLAPS

-----------------------------------------------------------------------------
(* Numbers.                                                                   *)

\* Sample numbers, modulo four.
LEMMA SampleNumbers ==
  ASSUME NEW n \in Sample
  PROVE  /\ (n + 1) % 4 \in Sample /\ Former((n + 1) % 4) = n
         /\ Former(n) \in Sample /\ Former(Former(n)) \in Sample
<1>1. n = 0 \/ n = 1 \/ n = 2 \/ n = 3
  BY DEF Sample
<1>2. /\ 1 % 4 = 1 /\ 2 % 4 = 2 /\ 3 % 4 = 3 /\ 4 % 4 = 0 /\ 5 % 4 = 1 /\ 6 % 4 = 2
  OBVIOUS
<1> QED BY <1>1, <1>2 DEF Sample, Former

\* The sample counter goes round once a period.
LEMMA Wraps ==
  ASSUME NEW m \in Nat \ {0}, NEW c \in 0 .. m - 1
  PROVE  (c + 1) % m = IF c = m - 1 THEN 0 ELSE c + 1
<1>1. CASE c = m - 1
  <2>1. m % m = 0
    OBVIOUS
  <2> QED BY <1>1, <2>1
<1>2. CASE c < m - 1
  <2>1. c + 1 \in 0 .. m - 1
    BY <1>2
  <2>2. \A x \in 0 .. m - 1 : x % m = x
    OBVIOUS
  <2> QED BY <1>2, <2>1, <2>2
<1> QED BY <1>1, <1>2

\* The first of the operators that play a drum.
LEMMA FirstPlays ==
  ASSUME NEW o \in Ops
  PROVE  LET f == FirstOf(RhythmOf[o]) IN
           /\ f \in Ops /\ RhythmOf[f] = RhythmOf[o]
           /\ \A p \in Ops : RhythmOf[p] = RhythmOf[o] => p >= f
<1> DEFINE d == RhythmOf[o]
           T == {p \in Ops : RhythmOf[p] = d}
           R == OpToRel(<, Nat)
<1>1. T \subseteq Nat /\ T # {} /\ Ops \subseteq Nat
  BY GeometryAssumption DEF Ops
<1>2. PICK f \in T : \A p \in T : ~(<<p, f>> \in R)
  <2> HIDE DEF T, R
  <2>1. IsWellFoundedOn(R, Nat)
    BY NatLessThanWellFounded DEF R
  <2> QED BY <1>1, <2>1, WFMin
<1>3. \A p \in T : p >= f
  <2>1. ASSUME NEW p \in T, ~(p >= f)
        PROVE  FALSE
    <3>1. p \in Nat /\ f \in Nat
      BY <1>1
    <3>2. p < f
      BY <2>1, <3>1
    <3>3. <<p, f>> \in R
      BY <3>1, <3>2 DEF OpToRel
    <3> QED BY <1>2, <3>3
  <2> QED BY <2>1
<1>4. f \in Ops /\ RhythmOf[f] = d /\ \A p \in Ops : RhythmOf[p] = d => p >= f
  BY <1>3
<1> QED BY <1>4 DEF FirstOf

-----------------------------------------------------------------------------
(* The sequencer.                                                             *)

\* The numbers of the slots and the ticks.
LEMMA Sizes ==
  /\ NumOps \in Nat /\ NumOps > 0 /\ Period \in Nat /\ Period > 7 * NumOps + 1
  /\ NumChannels \in Nat /\ NumChannels > 0 /\ NumChannels <= NumOps
  /\ PipelineDelay = 7 /\ 0 \in Ops
  /\ \A o \in Ops : o \in Nat /\ o < NumOps
<1>1. PipelineDelay = 7
  BY DEF PipelineDelay
<1>2. /\ NumOps \in Nat \ {0} /\ NumChannels \in 1 .. NumOps
      /\ Period \in Nat /\ Period > NumOps * 7 + 1
  BY <1>1, GeometryAssumption
<1>3. 0 \in Ops /\ \A o \in Ops : o \in Nat /\ o < NumOps
  BY <1>2 DEF Ops
<1> QED BY <1>1, <1>2, <1>3

LEMMA Numbers ==
  ASSUME CoreInv
  PROVE  /\ cntr \in Nat /\ cntr < Period /\ delayState \in Nat /\ delayState <= NumOps
         /\ delayCounter \in Nat /\ delayCounter <= 6
         /\ LastTick <=> delayCounter = 6
         /\ sampleClkEn <=> cntr = 1
         /\ sampleClkEn => delayState = 0
         /\ delayState # 0 => cntr = 7 * delayState - 5 + delayCounter
         /\ delayState = 0 => cntr < 2 \/ cntr > 7 * NumOps + 1
<1>1. TypeOK /\ SeqInv
  BY DEF CoreInv
<1>2. /\ cntr \in Nat /\ cntr < Period /\ delayState \in Nat /\ delayState <= NumOps
      /\ delayCounter \in Nat /\ delayCounter <= 6
  BY <1>1, Sizes DEF TypeOK
<1>3. LastTick <=> delayCounter = 6
  BY <1>2, Sizes DEF LastTick
<1>4. /\ sampleClkEn <=> cntr = 1
      /\ delayState # 0 => cntr = 7 * delayState - 5 + delayCounter
      /\ delayState = 0 => cntr < 2 \/ cntr > 7 * NumOps + 1
  BY <1>1, Sizes DEF SeqInv
<1>5. sampleClkEn => delayState = 0
  BY <1>2, <1>4
<1> QED BY <1>2, <1>3, <1>4, <1>5

\* The sample counter at one tick.
LEMMA CntrStep ==
  ASSUME CoreInv, Tick
  PROVE  /\ cntr' = IF cntr = Period - 1 THEN 0 ELSE cntr + 1
         /\ sampleClkEn' <=> cntr = 0
         /\ sampleClkEn' \in BOOLEAN
         /\ cntr' \in 0 .. Period - 1
<1>1. cntr' = (cntr + 1) % Period /\ sampleClkEn' = (cntr = 0)
  BY DEF Tick, SampleClock
<1>2. Period \in Nat \ {0} /\ cntr \in 0 .. Period - 1
  BY Numbers, Sizes
<1>3. (cntr + 1) % Period = IF cntr = Period - 1 THEN 0 ELSE cntr + 1
  BY <1>2, Wraps
<1>4. cntr' = IF cntr = Period - 1 THEN 0 ELSE cntr + 1
  BY <1>1, <1>3
<1>5. cntr' \in 0 .. Period - 1
  BY <1>2, <1>4
<1>6. (sampleClkEn' <=> cntr = 0) /\ sampleClkEn' \in BOOLEAN
  BY <1>1
<1> QED BY <1>4, <1>5, <1>6

\* Where the sequencer goes at one tick.
LEMMA Moves ==
  ASSUME CoreInv, Tick
  PROVE  /\ sampleClkEn => delayState' = 1 /\ delayCounter' = 0
         /\ ~sampleClkEn /\ ~LastTick => delayState' = delayState
                                        /\ delayCounter' = delayCounter + 1
         /\ ~sampleClkEn /\ LastTick =>
              /\ delayCounter' = 0
              /\ delayState' = IF delayState = 0 \/ delayState = NumOps THEN 0 ELSE delayState + 1
         /\ delayState' \in 0 .. NumOps /\ delayCounter' \in 0 .. 6
<1>0. LastTick <=> delayCounter = 6
  BY Numbers
<1>1. /\ delayState' = NextDelayState
      /\ delayCounter' = IF delayState' # delayState \/ LastTick THEN 0 ELSE delayCounter + 1
  BY DEF Tick, Sequence
<1> HIDE DEF LastTick
<1>2. CASE delayState = 0
  BY <1>0, <1>1, <1>2, Numbers, Sizes DEF NextDelayState
<1>3. CASE delayState # 0 /\ ~LastTick
  BY <1>0, <1>1, <1>3, Numbers, Sizes DEF NextDelayState
<1>4. CASE delayState # 0 /\ LastTick
  BY <1>0, <1>1, <1>4, Numbers, Sizes DEF NextDelayState
<1> QED BY <1>2, <1>3, <1>4

LEMMA SeqStep ==
  ASSUME CoreInv, Tick
  PROVE  SeqInv'
<1>1. sampleClkEn' <=> cntr' = 1
  BY CntrStep, Numbers, Sizes
<1>2. CASE sampleClkEn
  BY <1>1, <1>2, CntrStep, Moves, Numbers, Sizes DEF SeqInv
<1>3. CASE ~sampleClkEn /\ delayState = 0
  BY <1>1, <1>3, CntrStep, Moves, Numbers, Sizes DEF SeqInv
<1>4. CASE delayState # 0 /\ ~LastTick
  BY <1>1, <1>4, CntrStep, Moves, Numbers, Sizes DEF SeqInv
<1>5. CASE delayState # 0 /\ LastTick
  BY <1>1, <1>5, CntrStep, Moves, Numbers, Sizes DEF SeqInv
<1> QED BY <1>2, <1>3, <1>4, <1>5

\* The sample registers at one tick.
LEMMA SampleStep ==
  ASSUME CoreInv, Tick
  PROVE  /\ sampleClkEn => now' = reg /\ before' = now /\ Former(sampleNo') = sampleNo
         /\ ~sampleClkEn => now' = now /\ before' = before /\ sampleNo' = sampleNo
         /\ now' \in Registers /\ before' \in Registers /\ sampleNo' \in Sample
<1>1. now \in Registers /\ before \in Registers /\ reg \in Registers
  BY DEF CoreInv, TypeOK
<1>2. SampleRegisters
  BY DEF Tick
<1>3. sampleNo \in Sample
  BY DEF CoreInv, TypeOK
<1> QED BY <1>1, <1>2, <1>3, SampleNumbers DEF SampleRegisters

\* How far each operator has come, at one tick.
LEMMA SlotMoves ==
  ASSUME CoreInv, Tick, NEW o \in Ops
  PROVE  /\ sampleClkEn => Ended(o) /\ Passed(o) /\ ~Ended(o)' /\ ~Passed(o)'
         /\ ~sampleClkEn => /\ Ended(o)' <=> Ended(o) \/ (InSlot(o) /\ LastTick)
                            /\ Passed(o)' <=> Passed(o) \/ (InSlot(o) /\ SlotEn)
         /\ InSlot(o)' /\ delayCounter' > 0 => /\ InSlot(o) /\ ~LastTick /\ ~sampleClkEn
                                               /\ delayCounter' = delayCounter + 1
         /\ InSlot(o) => OpNum = o /\ delayState # 0 /\ ~Ended(o) /\ ~sampleClkEn
         /\ delayState # 0 /\ OpNum = o => InSlot(o)
         /\ InSlot(o) => (Passed(o) <=> ~SlotEn)
<1>1. o \in Nat /\ o < NumOps
  BY Sizes
<1>2. sampleClkEn => Ended(o) /\ Passed(o) /\ ~Ended(o)' /\ ~Passed(o)'
  BY <1>1, Moves, Numbers DEF Ended, Passed, InSlot
<1>3. ~sampleClkEn => (Ended(o)' <=> Ended(o) \/ (InSlot(o) /\ LastTick))
  BY <1>1, Moves, Numbers DEF Ended, InSlot
<1>4. InSlot(o)' /\ delayCounter' > 0 => /\ InSlot(o) /\ ~LastTick /\ ~sampleClkEn
                                       /\ delayCounter' = delayCounter + 1
  BY <1>1, Moves, Numbers DEF InSlot
<1>5. ~sampleClkEn => (Passed(o)' <=> Passed(o) \/ (InSlot(o) /\ SlotEn))
  BY <1>1, <1>3, Moves, Numbers DEF Passed, InSlot, SlotEn
<1>6. /\ InSlot(o) => OpNum = o /\ delayState # 0 /\ ~Ended(o) /\ ~sampleClkEn
      /\ delayState # 0 /\ OpNum = o => InSlot(o)
      /\ InSlot(o) => (Passed(o) <=> ~SlotEn)
  BY <1>1, Numbers DEF Ended, InSlot, OpNum, Passed, SlotEn
<1> QED BY <1>2, <1>3, <1>4, <1>5, <1>6

-----------------------------------------------------------------------------
(* Key events.                                                                *)

\* The types of the sampled registers and of the detectors of an operator.
LEMMA KeyTypes ==
  ASSUME CoreInv, NEW o \in Ops
  PROVE  /\ ChannelOf[o] \in Channels
         /\ now.kon[ChannelOf[o]] \in BOOLEAN /\ before.kon[ChannelOf[o]] \in BOOLEAN
         /\ now.ryt \in BOOLEAN /\ before.ryt \in BOOLEAN
         /\ onEdge \in [Ops -> Edge] /\ offEdge \in [Ops -> Edge]
         /\ drumEdge \in [Drums -> Edge]
         /\ RhythmOf[o] # None =>
              /\ RhythmOf[o] \in Drums
              /\ now.drum[RhythmOf[o]] \in BOOLEAN /\ before.drum[RhythmOf[o]] \in BOOLEAN
<1>1. TypeOK
  BY DEF CoreInv
<1>2. ChannelOf[o] \in Channels
  BY GeometryAssumption
<1>3. RhythmOf[o] # None => RhythmOf[o] \in Drums
  BY DEF Drums
<1> QED BY <1>1, <1>2, <1>3 DEF TypeOK, Registers

\* What the slot of an operator does to its detectors.
LEMMA DetectStep ==
  ASSUME CoreInv, Tick, NEW o \in Ops
  PROVE  LET c == ChannelOf[o] IN
         /\ InSlot(o) /\ SlotEn => onEdge'[o] = [r0 |-> now.kon[c], r1 |-> onEdge[o].r0]
         /\ ~(InSlot(o) /\ SlotEn) => onEdge'[o] = onEdge[o] /\ offEdge'[o] = offEdge[o]
         /\ InSlot(o) /\ SlotEn /\ ~Rhythm(o)
              => offEdge'[o] = [r0 |-> now.kon[c], r1 |-> offEdge[o].r0]
<1>1. Detect /\ onEdge \in [Ops -> Edge] /\ offEdge \in [Ops -> Edge]
  BY KeyTypes DEF Tick
<1>2. CASE InSlot(o) /\ SlotEn
  <2>1. OpNum = o
    BY <1>2, SlotMoves
  <2> QED BY <1>1, <1>2, <2>1 DEF Detect, Clocked
<1>3. CASE ~(InSlot(o) /\ SlotEn)
  <2>1. SlotEn => OpNum # o
    BY <1>3, SlotMoves DEF SlotEn
  <2> QED BY <1>1, <1>3, <2>1 DEF Detect
<1> QED BY <1>2, <1>3

LEMMA OnStep ==
  ASSUME CoreInv, Tick
  PROVE  OnInv'
<1> SUFFICES ASSUME NEW o \in Ops
             PROVE  IF Passed(o)'
                    THEN onEdge'[o] = [r0 |-> now'.kon[ChannelOf[o]],
                                       r1 |-> before'.kon[ChannelOf[o]]]
                    ELSE onEdge'[o].r0 = before'.kon[ChannelOf[o]]
  BY DEF OnInv
<1> DEFINE c == ChannelOf[o]
<1>1. IF Passed(o) THEN onEdge[o] = [r0 |-> now.kon[c], r1 |-> before.kon[c]]
                   ELSE onEdge[o].r0 = before.kon[c]
  BY DEF CoreInv, KeyInv, OnInv
<1>2. CASE sampleClkEn
  <2>1. ~Passed(o)' /\ Passed(o) /\ ~InSlot(o)
    BY <1>2, SlotMoves
  <2>2. onEdge'[o] = onEdge[o] /\ before' = now
    BY <1>2, <2>1, SampleStep, DetectStep
  <2>3. onEdge[o].r0 = now.kon[c]
    BY <1>1, <2>1
  <2> QED BY <2>1, <2>2, <2>3
<1>3. CASE ~sampleClkEn /\ InSlot(o) /\ SlotEn
  <2>1. Passed(o)' /\ ~Passed(o)
    BY <1>3, SlotMoves
  <2> QED BY <1>1, <1>3, <2>1, SampleStep, DetectStep
<1>4. CASE ~sampleClkEn /\ ~(InSlot(o) /\ SlotEn)
  <2>1. Passed(o)' <=> Passed(o)
    BY <1>4, SlotMoves
  <2> QED BY <1>1, <1>4, <2>1, SampleStep, DetectStep
<1> QED BY <1>2, <1>3, <1>4

LEMMA OffStep ==
  ASSUME CoreInv, Tick
  PROVE  OffInv'
<1> SUFFICES ASSUME NEW o \in Ops
             PROVE  LET c == ChannelOf[o] IN
                    IF Passed(o)'
                    THEN ~Drumming(now', o) =>
                           /\ offEdge'[o].r0 = now'.kon[c]
                           /\ ~Drumming(before', o) => offEdge'[o].r1 = before'.kon[c]
                    ELSE ~Drumming(before', o) => offEdge'[o].r0 = before'.kon[c]
  BY DEF OffInv, Drumming
<1> DEFINE c == ChannelOf[o]
<1>1. IF Passed(o)
      THEN ~Drumming(now, o) => /\ offEdge[o].r0 = now.kon[c]
                                /\ ~Drumming(before, o) => offEdge[o].r1 = before.kon[c]
      ELSE ~Drumming(before, o) => offEdge[o].r0 = before.kon[c]
  BY DEF CoreInv, KeyInv, OffInv
<1>2. CASE sampleClkEn
  <2>1. ~Passed(o)' /\ Passed(o) /\ ~InSlot(o)
    BY <1>2, SlotMoves
  <2> QED BY <1>1, <1>2, <2>1, SampleStep, DetectStep
<1>3. CASE ~sampleClkEn /\ InSlot(o) /\ SlotEn
  <2>1. Passed(o)' /\ ~Passed(o) /\ now' = now /\ before' = before
    BY <1>3, SlotMoves, SampleStep
  <2>2. ASSUME ~Drumming(now, o)
        PROVE  offEdge'[o].r0 = now.kon[c] /\ offEdge'[o].r1 = offEdge[o].r0
    <3>1. offEdge'[o] = [r0 |-> now.kon[c], r1 |-> offEdge[o].r0]
      BY <1>3, <2>2, DetectStep DEF Rhythm, Drumming
    <3> QED BY <3>1
  <2> QED BY <1>1, <2>1, <2>2
<1>4. CASE ~sampleClkEn /\ ~(InSlot(o) /\ SlotEn)
  <2>1. Passed(o)' <=> Passed(o)
    BY <1>4, SlotMoves
  <2> QED BY <1>1, <1>4, <2>1, SampleStep, DetectStep
<1> QED BY <1>2, <1>3, <1>4

\* What the slots of the operators that play a drum do to its detector.
LEMMA DrumMoves ==
  ASSUME CoreInv, Tick, NEW d \in Drums
  PROVE  /\ ~SlotEn \/ ~now.ryt \/ RhythmOf[OpNum] # d => drumEdge'[d] = drumEdge[d]
         /\ SlotEn /\ now.ryt /\ RhythmOf[OpNum] = d
              => drumEdge'[d] = [r0 |-> now.drum[d], r1 |-> drumEdge[d].r0]
<1>1. Detect /\ drumEdge \in [Drums -> Edge] /\ d # None
  BY DEF Tick, CoreInv, TypeOK, Drums
<1> QED BY <1>1 DEF Detect, Clocked, Rhythm

LEMMA DrumStep ==
  ASSUME CoreInv, Tick
  PROVE  DrumInv'
<1> SUFFICES ASSUME NEW o \in Ops, RhythmOf[o] # None
             PROVE  LET d == RhythmOf[o] IN
                    /\ now'.ryt /\ Passed(o)' => drumEdge'[d].r0 = now'.drum[d]
                    /\ before'.ryt /\ (\A p \in Ops : RhythmOf[p] = d => ~Passed(p)')
                         => drumEdge'[d].r0 = before'.drum[d]
                    /\ o = FirstOf(d) /\ now'.ryt /\ before'.ryt /\ InSlot(o)' /\ delayCounter' > 0
                         => drumEdge'[d].r1 = before'.drum[d]
  BY DEF DrumInv
<1> DEFINE d == RhythmOf[o]
<1>1. d \in Drums /\ drumEdge \in [Drums -> Edge]
  BY KeyTypes
<1>2. \A q \in Ops : RhythmOf[q] = d =>
        /\ now.ryt /\ Passed(q) => drumEdge[d].r0 = now.drum[d]
        /\ before.ryt /\ (\A p \in Ops : RhythmOf[p] = d => ~Passed(p))
             => drumEdge[d].r0 = before.drum[d]
        /\ q = FirstOf(d) /\ now.ryt /\ before.ryt /\ InSlot(q) /\ delayCounter > 0
             => drumEdge[d].r1 = before.drum[d]
  BY DEF CoreInv, KeyInv, DrumInv
<1>3. CASE sampleClkEn
  <2>1. ~Passed(o)' /\ Passed(o) /\ ~SlotEn
    BY <1>3, SlotMoves, Numbers DEF SlotEn
  <2>2. drumEdge'[d] = drumEdge[d]
    BY <1>1, <2>1, DrumMoves
  <2>3. ~(InSlot(o)' /\ delayCounter' > 0)
    BY <1>3, SlotMoves
  <2> QED BY <1>2, <1>3, <2>1, <2>2, <2>3, SampleStep
<1>4. CASE ~sampleClkEn /\ (~SlotEn \/ ~now.ryt \/ RhythmOf[OpNum] # d)
  <2>0. now' = now /\ before' = before
    BY <1>4, SampleStep
  <2>1. drumEdge'[d] = drumEdge[d]
    BY <1>1, <1>4, DrumMoves
  <2>2. now.ryt => \A p \in Ops : RhythmOf[p] = d => (Passed(p)' <=> Passed(p))
    BY <1>4, SlotMoves
  <2>3. \A p \in Ops : Passed(p) => Passed(p)'
    BY <1>4, SlotMoves
  <2>4. now.ryt /\ InSlot(o)' /\ delayCounter' > 0 => InSlot(o) /\ delayCounter > 0
    <3>1. SUFFICES ASSUME now.ryt, InSlot(o)', delayCounter' > 0
                   PROVE  InSlot(o) /\ delayCounter > 0
      OBVIOUS
    <3>2. InSlot(o) /\ OpNum = o
      BY <3>1, SlotMoves
    <3>3. ~SlotEn
      BY <1>4, <3>1, <3>2
    <3> QED BY <3>2, <3>3, Numbers, Sizes DEF SlotEn, InSlot
  <2> QED BY <1>2, <2>0, <2>1, <2>2, <2>3, <2>4
<1>5. CASE SlotEn /\ now.ryt /\ RhythmOf[OpNum] = d
  <2>0. ~sampleClkEn /\ now' = now /\ before' = before
    BY <1>5, SampleStep, Numbers DEF SlotEn
  <2>1. drumEdge'[d] = [r0 |-> now.drum[d], r1 |-> drumEdge[d].r0]
    BY <1>1, <1>5, DrumMoves
  <2>2. PICK q \in Ops : q = OpNum /\ InSlot(q)
    <3>1. delayState # 0 /\ delayState \in 1 .. NumOps
      BY <1>5, Sizes, Numbers DEF SlotEn
    <3>2. OpNum \in Ops /\ delayState = OpNum + 1
      BY <3>1, Sizes DEF OpNum, Ops
    <3> QED BY <3>2 DEF InSlot
  <2>3. Passed(q)' /\ RhythmOf[q] = d
    BY <1>5, <2>0, <2>2, SlotMoves
  <2>4. ASSUME o = FirstOf(d), before.ryt, InSlot(o)', delayCounter' > 0
        PROVE  drumEdge'[d].r1 = before.drum[d]
    <3>1. OpNum = o
      BY <2>4, SlotMoves
    <3>2. \A p \in Ops : RhythmOf[p] = d => p >= o
      BY <2>4, FirstPlays
    <3>3. \A p \in Ops : RhythmOf[p] = d => ~Passed(p)
      BY <1>5, <2>2, <3>1, <3>2, Sizes, Numbers DEF Passed, Ended, InSlot, SlotEn
    <3> QED BY <1>2, <2>1, <2>4, <3>3
  <2> QED BY <1>5, <2>0, <2>1, <2>2, <2>3, <2>4
<1> QED BY <1>3, <1>4, <1>5, Numbers DEF SlotEn

\* From the second tick of its slot an operator sees the pulse of a note that starts.
LEMMA PulseOn ==
  ASSUME CoreInv, NEW o \in Ops, InSlot(o), delayCounter > 0
  PROVE  /\ NoteStarts(o) => KeyOnPulse
         /\ KeyUp(o) => ~KeyOnPulse /\ KeyOffPulse
<1>1. OpNum = o /\ Passed(o)
  BY Sizes, Numbers DEF InSlot, OpNum, Passed
<1>2. onEdge[o] = [r0 |-> now.kon[ChannelOf[o]], r1 |-> before.kon[ChannelOf[o]]]
  BY <1>1 DEF CoreInv, KeyInv, OnInv
<1>3. CASE NoteStarts(o)
  <2>1. now.kon[ChannelOf[o]] /\ ~before.kon[ChannelOf[o]] => KeyOnPulse
    BY <1>1, <1>2 DEF KeyOnPulse, Rising
  <2>2. ASSUME /\ Rhythm(o) /\ before.ryt /\ o = FirstOf(RhythmOf[o])
               /\ now.drum[RhythmOf[o]] /\ ~before.drum[RhythmOf[o]]
        PROVE  KeyOnPulse
    <3>1. now.ryt /\ RhythmOf[o] # None
      BY <2>2 DEF Rhythm
    <3>2. /\ drumEdge[RhythmOf[o]].r0 = now.drum[RhythmOf[o]]
          /\ drumEdge[RhythmOf[o]].r1 = before.drum[RhythmOf[o]]
      BY <1>1, <2>2, <3>1 DEF CoreInv, KeyInv, DrumInv
    <3> QED BY <1>1, <2>2, <3>2 DEF KeyOnPulse, Rising
  <2>3. ~KeyUp(o)
    BY <1>3 DEF NoteStarts, KeyUp, Rhythm
  <2> QED BY <1>3, <2>1, <2>2, <2>3 DEF NoteStarts
<1>4. CASE KeyUp(o)
  <2>1. ~NoteStarts(o) /\ ~Rhythm(o) /\ ~Drumming(now, o) /\ ~Drumming(before, o)
    BY <1>4 DEF NoteStarts, KeyUp, Rhythm, Drumming
  <2>2. ~KeyOnPulse
    BY <1>1, <1>2, <1>4, <2>1 DEF KeyOnPulse, Rising, KeyUp
  <2>3. /\ offEdge[o].r0 = now.kon[ChannelOf[o]] /\ offEdge[o].r1 = before.kon[ChannelOf[o]]
    BY <1>1, <2>1 DEF CoreInv, KeyInv, OffInv
  <2>4. KeyOffPulse
    BY <1>1, <1>4, <2>3 DEF KeyOffPulse, Falling, KeyUp
  <2> QED BY <2>1, <2>2, <2>4
<1> QED BY <1>3, <1>4

LEMMA EnvStep ==
  ASSUME CoreInv, Tick
  PROVE  EnvInv'
<1> SUFFICES ASSUME NEW o \in Ops, InSlot(o)', delayCounter' > 1
             PROVE  /\ NoteStarts(o)' => env'[o] = "ATTACK"
                    /\ KeyUp(o)' => env'[o] = "RELEASE"
                    /\ delayCounter' > 2 /\ NoteStarts(o)' => phase'[o].restarted
  BY DEF EnvInv
<1>1. /\ InSlot(o) /\ ~sampleClkEn /\ OpNum = o /\ delayState # 0
      /\ delayCounter' = delayCounter + 1 /\ delayCounter > 0
  BY SlotMoves, Numbers, Moves
<1>2. /\ now' = now /\ before' = before
      /\ NoteStarts(o)' <=> NoteStarts(o)
      /\ KeyUp(o)' <=> KeyUp(o)
  BY <1>1, SampleStep DEF NoteStarts, KeyUp, Rhythm
<1>3. Envelope /\ Phase /\ env \in [Ops -> {"RELEASE", "ATTACK", "DECAY", "SUSTAIN"}]
      /\ phase \in [Ops -> [restarted : BOOLEAN, sample : Sample]]
  BY DEF Tick, CoreInv, TypeOK
<1>4. KeyOnPulse => env'[o] = "ATTACK"
  BY <1>1, <1>3 DEF Envelope
<1>5. ~KeyOnPulse /\ KeyOffPulse => env'[o] = "RELEASE"
  BY <1>1, <1>3 DEF Envelope
<1>6. delayCounter' > 2 /\ KeyOnPulse => (NoteStarts(o) => phase'[o].restarted)
  <2>1. CASE delayCounter = 2
    BY <1>1, <1>3, <2>1 DEF Phase, SlotEn2
  <2>2. CASE delayCounter > 2
    BY <1>1, <1>3, <2>2, Numbers DEF Phase, SlotEn2, CoreInv, KeyInv, EnvInv
  <2> QED BY <1>1, <2>1, <2>2, Numbers
<1> QED BY <1>1, <1>2, <1>4, <1>5, <1>6, PulseOn

-----------------------------------------------------------------------------
(* The data path.                                                             *)

LEMMA PathTypes ==
  ASSUME CoreInv
  PROVE  /\ OpNum \in Ops /\ sampleNo \in Sample
         /\ phase \in [Ops -> [restarted : BOOLEAN, sample : Sample]]
         /\ sine \in Tag /\ exp \in Tag /\ out \in Tag
         /\ operatorOut \in [Ops -> Tag] /\ feedback1 \in [Ops -> Tag]
         /\ feedback2 \in [Ops -> Tag]
<1>1. OpNum \in Ops
  BY Sizes, Numbers DEF OpNum, Ops
<1> QED BY <1>1 DEF CoreInv, TypeOK

LEMMA PhaseStep ==
  ASSUME CoreInv, Tick
  PROVE  PhaseInv'
<1> SUFFICES ASSUME NEW o \in Ops, Ended(o)' \/ (InSlot(o)' /\ delayCounter' > 2)
             PROVE  phase'[o].sample = sampleNo'
  BY DEF PhaseInv
<1>1. ~sampleClkEn /\ sampleNo' = sampleNo
  <2>1. ~sampleClkEn
    BY SlotMoves, Moves
  <2> QED BY <2>1, SampleStep
<1>2. Phase
  BY DEF Tick
<1>3. CASE InSlot(o) /\ delayCounter = 2
  <2>1. SlotEn2 /\ OpNum = o
    BY <1>3, SlotMoves DEF SlotEn2
  <2> QED BY <1>1, <1>2, <2>1, PathTypes DEF Phase
<1>4. CASE ~(InSlot(o) /\ delayCounter = 2)
  <2>1. ~(SlotEn2 /\ OpNum = o)
    BY <1>4, SlotMoves DEF SlotEn2
  <2>2. phase'[o] = phase[o]
    BY <1>2, <2>1, PathTypes DEF Phase
  <2>3. Ended(o) \/ (InSlot(o) /\ delayCounter > 2)
    <3>1. CASE Ended(o)'
      BY <1>1, <3>1, SlotMoves, Numbers
    <3>2. CASE InSlot(o)' /\ delayCounter' > 2
      <4>1. InSlot(o) /\ delayCounter' = delayCounter + 1
        BY <3>2, SlotMoves, Moves
      <4> QED BY <1>4, <3>2, <4>1, Numbers
    <3> QED BY <3>1, <3>2
  <2> QED BY <1>1, <2>2, <2>3 DEF CoreInv, PhaseInv
<1> QED BY <1>3, <1>4

LEMMA PipeStep ==
  ASSUME CoreInv, Tick
  PROVE  PipeInv'
<1> DEFINE tag == [op |-> OpNum, sample |-> sampleNo]
<1>1. /\ sine' = [op |-> OpNum, sample |-> phase[OpNum].sample]
      /\ exp' = sine /\ out' = exp
  BY DEF Tick, Output
<1>2. /\ Filled > 0 => sine = tag
      /\ Filled > 1 => exp = tag
      /\ Filled \in Int
  BY Numbers DEF CoreInv, PipeInv, Filled
<1>3. ASSUME Filled' > 0
      PROVE  /\ Filled' = Filled + 1 /\ OpNum' = OpNum /\ sampleNo' = sampleNo
             /\ phase[OpNum].sample = sampleNo
  <2>1. /\ ~sampleClkEn /\ ~LastTick /\ delayState' = delayState
        /\ delayCounter' = delayCounter + 1
    BY <1>3, Moves, Numbers DEF Filled
  <2>2. Filled' = Filled + 1 /\ OpNum' = OpNum
    BY <2>1, Numbers DEF Filled, OpNum
  <2>3. Ended(OpNum) \/ (InSlot(OpNum) /\ delayCounter > 2)
    BY <1>3, <2>1, Numbers DEF Filled, Ended, InSlot, OpNum
  <2> QED BY <2>1, <2>2, <2>3, SampleStep, PathTypes DEF CoreInv, PhaseInv
<1>4. /\ Filled' > 0 => sine' = tag
      /\ Filled' > 1 => exp' = tag
      /\ Filled' > 2 => out' = tag
  <2>1. Filled' \in Int
    BY Moves DEF Filled
  <2> QED BY <1>1, <1>2, <1>3, <2>1
<1>5. Filled' \in Int
  BY Moves DEF Filled
<1> QED BY <1>3, <1>4, <1>5 DEF PipeInv

\* What stands before the output registers whenever they open.
LEMMA Settled ==
  ASSUME CoreInv, LastTick
  PROVE  out = [op |-> OpNum, sample |-> sampleNo]
<1>1. Filled > 2
  BY Numbers DEF Filled
<1> QED BY <1>1 DEF CoreInv, PipeInv

LEMMA OutStep ==
  ASSUME CoreInv, Tick
  PROVE  OutInv'
<1> SUFFICES ASSUME NEW o \in Ops
             PROVE  /\ operatorOut'[o] = [op |-> o, sample |-> IF Ended(o)' THEN sampleNo'
                                                              ELSE Former(sampleNo')]
                    /\ o # 0 =>
                         /\ feedback1'[o].sample = IF Ended(o)' THEN sampleNo'
                                                   ELSE Former(sampleNo')
                         /\ feedback2'[o].sample = IF Ended(o)' THEN Former(sampleNo')
                                                   ELSE Former(Former(sampleNo'))
  BY DEF OutInv
<1>1. /\ operatorOut[o] = [op |-> o, sample |-> IF Ended(o) THEN sampleNo ELSE Former(sampleNo)]
      /\ o # 0 => /\ feedback1[o].sample = IF Ended(o) THEN sampleNo ELSE Former(sampleNo)
                  /\ feedback2[o].sample = IF Ended(o) THEN Former(sampleNo)
                                           ELSE Former(Former(sampleNo))
  BY DEF CoreInv, OutInv
<1>2. Output
  BY DEF Tick
<1>3. CASE LastTick /\ InSlot(o)
  <2>1. /\ OpNum = o /\ ~Ended(o) /\ Ended(o)' /\ sampleNo' = sampleNo
        /\ out = [op |-> o, sample |-> sampleNo]
    BY <1>3, SlotMoves, SampleStep, Settled
  <2>2. operatorOut'[o] = out /\ feedback1'[o] = out /\ feedback2'[o] = feedback1[o]
    BY <1>2, <1>3, <2>1, PathTypes DEF Output
  <2> QED BY <1>1, <2>1, <2>2
<1>4. CASE ~(LastTick /\ InSlot(o))
  <2>1. operatorOut'[o] = operatorOut[o]
    <3>1. CASE LastTick /\ OpNum = o
      <4>1. delayState = 0
        BY <1>4, <3>1, SlotMoves
      <4>2. Ended(o) /\ out = [op |-> o, sample |-> sampleNo]
        BY <3>1, <4>1, Settled DEF Ended
      <4> QED BY <1>1, <1>2, <3>1, <4>2, PathTypes DEF Output
    <3>2. CASE ~(LastTick /\ OpNum = o)
      BY <1>2, <3>2, PathTypes DEF Output
    <3> QED BY <3>1, <3>2
  <2>2. o # 0 => feedback1'[o] = feedback1[o] /\ feedback2'[o] = feedback2[o]
    <3>1. o # 0 => ~(LastTick /\ OpNum = o)
      BY <1>4, SlotMoves DEF OpNum
    <3> QED BY <1>2, <3>1, PathTypes DEF Output
  <2>3. CASE sampleClkEn
    <3>1. Ended(o) /\ ~Ended(o)' /\ Former(sampleNo') = sampleNo
      BY <2>3, SlotMoves, SampleStep
    <3> QED BY <1>1, <2>1, <2>2, <3>1
  <2>4. CASE ~sampleClkEn
    <3>1. (Ended(o)' <=> Ended(o)) /\ sampleNo' = sampleNo
      BY <1>4, <2>4, SlotMoves, SampleStep
    <3> QED BY <1>1, <2>1, <2>2, <3>1
  <2> QED BY <2>3, <2>4
<1> QED BY <1>3, <1>4

-----------------------------------------------------------------------------
(* The mixer.                                                                 *)

\* One more channel.
LEMMA MixedMore ==
  ASSUME NEW s, NEW c \in Nat
  PROVE  /\ Mixed(s, 0 .. c - 1) \cup Mixed(s, {c}) = Mixed(s, 0 .. c)
         /\ Mixed(s, 0 .. 0 - 1) = {}
<1>1. 0 .. c = (0 .. c - 1) \cup {c} /\ 0 .. 0 - 1 = {}
  OBVIOUS
<1>2. Mixed(s, 0 .. c - 1) \cup Mixed(s, {c}) = Mixed(s, (0 .. c - 1) \cup {c})
  BY DEF Mixed
<1>3. Mixed(s, {}) = {}
  BY DEF Mixed
<1> QED BY <1>1, <1>2, <1>3

\* What the mixer finds in a channel before the slots have come to its operators.
LEMMA MixIn ==
  ASSUME CoreInv, Tick, NEW c \in Channels, NEW s,
         \A o \in Ops : ChannelOf[o] = c => operatorOut[o] = [op |-> o, sample |-> s]
  PROVE  mixIn'[c] = Mixed(s, {c})
<1>1. mixIn'[c] = {operatorOut[o] : o \in {p \in Ops : ChannelOf[p] = c}}
  BY DEF Tick, Accumulate
<1> QED BY <1>1 DEF Mixed

LEMMA MixStep ==
  ASSUME CoreInv, Tick
  PROVE  MixInv' /\ calcState' \in {"IDLE", "CALC"} /\ channel' \in Channels
<1>0. /\ NumChannels \in Nat /\ NumChannels > 0 /\ Channels = 0 .. NumChannels - 1
      /\ channel \in Nat /\ channel < NumChannels /\ calcState \in {"IDLE", "CALC"}
      /\ sampleNo \in Sample
  BY Sizes DEF Channels, CoreInv, TypeOK
<1>1. Accumulate
  BY DEF Tick
<1>2. MixInv
  BY DEF CoreInv
<1>3. CASE sampleClkEn
  <2>1. /\ calcState = "IDLE" /\ cntr = 1 /\ cntr' = 2 /\ Former(sampleNo') = sampleNo
    BY <1>0, <1>2, <1>3, Numbers, Sizes, CntrStep, SampleStep DEF MixInv
  <2>2. /\ calcState' = "CALC" /\ channel' = 0 /\ mix' = {} /\ channelA' = mix
    BY <1>1, <1>3, <2>1 DEF Accumulate
  <2>3. mixIn'[0] = Mixed(sampleNo, {0})
    <3>1. \A o \in Ops : operatorOut[o] = [op |-> o, sample |-> sampleNo]
      BY <1>3, SlotMoves DEF CoreInv, OutInv
    <3> QED BY <1>0, <3>1, MixIn
  <2>4. OneSamplePlayed'
    <3>1. mix = Mixed(Former(sampleNo), Channels)
      BY <1>2, <2>1 DEF MixInv
    <3>2. mix = {[op |-> o, sample |-> Former(sampleNo)] : o \in Ops}
      BY <3>1, GeometryAssumption DEF Mixed
    <3> QED BY <2>1, <2>2, <3>2 DEF OneSamplePlayed
  <2>5. mix' = Mixed(sampleNo, 0 .. channel' - 1)
    BY <2>2, MixedMore
  <2> QED BY <1>0, <2>1, <2>2, <2>3, <2>4, <2>5 DEF MixInv
<1>4. CASE ~sampleClkEn
  <2>0. /\ sampleNo' = sampleNo /\ channelA' = channelA /\ OneSamplePlayed'
    BY <1>1, <1>2, <1>4, SampleStep DEF Accumulate, MixInv, OneSamplePlayed
  <2>1. CASE calcState = "IDLE"
    <3>1. calcState' = "IDLE" /\ channel' = 0 /\ mix' = mix
      BY <1>1, <1>4, <2>1 DEF Accumulate
    <3>2. cntr' < 2 \/ cntr' > NumChannels + 1
      BY <1>0, <1>2, <1>4, <2>1, Numbers, Sizes, CntrStep DEF MixInv
    <3> QED BY <1>0, <1>2, <2>0, <2>1, <3>1, <3>2 DEF MixInv
  <2>2. CASE calcState = "CALC"
    <3>1. cntr = channel + 2 /\ cntr' = channel + 3
      BY <1>0, <1>2, <2>2, Numbers, Sizes, CntrStep DEF MixInv
    <3>2. mix' = Mixed(Former(sampleNo), 0 .. channel)
      <4>1. mix' = mix \cup mixIn[channel]
        BY <1>1, <1>4, <2>2 DEF Accumulate
      <4>2. /\ mix = Mixed(Former(sampleNo), 0 .. channel - 1)
            /\ mixIn[channel] = Mixed(Former(sampleNo), {channel})
        BY <1>2, <2>2 DEF MixInv
      <4> QED BY <1>0, <4>1, <4>2, MixedMore
    <3>3. CASE channel = NumChannels - 1
      <4>1. calcState' = "IDLE" /\ channel' = 0
        BY <1>1, <2>2, <3>3 DEF Accumulate
      <4> QED BY <1>0, <2>0, <3>1, <3>2, <3>3, <4>1 DEF MixInv
    <3>4. CASE channel # NumChannels - 1
      <4>1. calcState' = "CALC" /\ channel' = channel + 1 /\ channel + 1 \in Channels
        BY <1>0, <1>1, <2>2, <3>4 DEF Accumulate
      <4>2. ASSUME NEW o \in Ops, ChannelOf[o] = channel + 1
            PROVE  ~Ended(o)
        <5>1. channel + 1 <= 7 * (o + 1)
          BY <4>2, MixerAssumption, Sizes
        <5> QED BY <1>0, <3>1, <5>1, Sizes, Numbers DEF Ended
      <4>3. mixIn'[channel + 1] = Mixed(Former(sampleNo), {channel + 1})
        <5>1. \A o \in Ops : ChannelOf[o] = channel + 1 =>
                operatorOut[o] = [op |-> o, sample |-> Former(sampleNo)]
          BY <4>2 DEF CoreInv, OutInv
        <5> QED BY <4>1, <5>1, MixIn
      <4>4. channel' - 1 = channel /\ cntr' = channel' + 2
        BY <1>0, <3>1, <4>1
      <4> QED BY <2>0, <3>2, <4>1, <4>3, <4>4 DEF MixInv
    <3> QED BY <3>3, <3>4
  <2> QED BY <1>0, <2>1, <2>2
<1> QED BY <1>3, <1>4

-----------------------------------------------------------------------------
(* Types, and the invariant of the core.                                      *)

LEMMA DetectorTypes ==
  ASSUME CoreInv, Tick
  PROVE  /\ onEdge' \in [Ops -> Edge] /\ offEdge' \in [Ops -> Edge]
         /\ drumEdge' \in [Drums -> Edge]
<1>1. /\ onEdge \in [Ops -> Edge] /\ offEdge \in [Ops -> Edge] /\ drumEdge \in [Drums -> Edge]
      /\ OpNum \in Ops /\ Detect
  BY PathTypes DEF Tick, CoreInv, TypeOK
<1>2. ASSUME NEW e \in Edge, NEW b \in BOOLEAN
      PROVE  Clocked(e, b) \in Edge
  BY <1>2 DEF Clocked, Edge
<1>3. now.kon[ChannelOf[OpNum]] \in BOOLEAN
  BY <1>1, KeyTypes
<1>4. onEdge' \in [Ops -> Edge]
  <2>1. Clocked(onEdge[OpNum], now.kon[ChannelOf[OpNum]]) \in Edge
    BY <1>1, <1>2, <1>3
  <2> QED BY <1>1, <2>1 DEF Detect
<1>5. offEdge' \in [Ops -> Edge]
  <2>1. Clocked(offEdge[OpNum], now.kon[ChannelOf[OpNum]]) \in Edge
    BY <1>1, <1>2, <1>3
  <2> QED BY <1>1, <2>1 DEF Detect
<1>6. drumEdge' \in [Drums -> Edge]
  <2>1. CASE SlotEn /\ Rhythm(OpNum)
    <3>1. RhythmOf[OpNum] \in Drums /\ now.drum[RhythmOf[OpNum]] \in BOOLEAN
      BY <1>1, <2>1, KeyTypes DEF Rhythm
    <3>2. Clocked(drumEdge[RhythmOf[OpNum]], now.drum[RhythmOf[OpNum]]) \in Edge
      BY <1>1, <1>2, <3>1
    <3> QED BY <1>1, <2>1, <3>1, <3>2 DEF Detect
  <2>2. CASE ~(SlotEn /\ Rhythm(OpNum))
    BY <1>1, <2>2 DEF Detect
  <2> QED BY <2>1, <2>2
<1> QED BY <1>4, <1>5, <1>6

LEMMA GeneratorTypes ==
  ASSUME CoreInv, Tick
  PROVE  /\ env' \in [Ops -> {"RELEASE", "ATTACK", "DECAY", "SUSTAIN"}]
         /\ phase' \in [Ops -> [restarted : BOOLEAN, sample : Sample]]
<1>1. /\ env \in [Ops -> {"RELEASE", "ATTACK", "DECAY", "SUSTAIN"}] /\ OpNum \in Ops
      /\ phase \in [Ops -> [restarted : BOOLEAN, sample : Sample]] /\ sampleNo \in Sample
      /\ Envelope /\ Phase
  BY PathTypes DEF Tick, CoreInv, TypeOK
<1>2. \A t \in {"RELEASE", "ATTACK", "DECAY", "SUSTAIN"} :
        Onward(t) \subseteq {"RELEASE", "ATTACK", "DECAY", "SUSTAIN"}
  BY DEF Onward
<1>3. env' \in [Ops -> {"RELEASE", "ATTACK", "DECAY", "SUSTAIN"}]
  <2>1. PICK t \in {"RELEASE", "ATTACK", "DECAY", "SUSTAIN"} : env' = [env EXCEPT ![OpNum] = t]
    <3>1. env[OpNum] \in {"RELEASE", "ATTACK", "DECAY", "SUSTAIN"}
      BY <1>1
    <3>2. CASE KeyOnPulse
      BY <1>1, <3>2 DEF Envelope
    <3>3. CASE ~KeyOnPulse /\ KeyOffPulse
      BY <1>1, <3>3 DEF Envelope
    <3>4. CASE ~KeyOnPulse /\ ~KeyOffPulse
      <4>1. PICK t \in IF SlotEn THEN Onward(env[OpNum]) ELSE {env[OpNum]} :
              env' = [env EXCEPT ![OpNum] = t]
        BY <1>1, <3>4 DEF Envelope
      <4> QED BY <1>2, <3>1, <4>1
    <3> QED BY <3>2, <3>3, <3>4
  <2> QED BY <1>1, <2>1
<1>4. phase' \in [Ops -> [restarted : BOOLEAN, sample : Sample]]
  <2>1. KeyOnPulse \in BOOLEAN
    <3>1. onEdge[OpNum] \in Edge
      BY <1>1, KeyTypes
    <3>2. Rhythm(OpNum) => drumEdge[RhythmOf[OpNum]] \in Edge
      BY <1>1, KeyTypes DEF Rhythm
    <3> QED BY <3>1, <3>2 DEF KeyOnPulse
  <2>2. [restarted |-> KeyOnPulse, sample |-> sampleNo] \in [restarted : BOOLEAN, sample : Sample]
    BY <1>1, <2>1
  <2> QED BY <1>1, <2>2 DEF Phase
<1> QED BY <1>3, <1>4

LEMMA PathTypesStep ==
  ASSUME CoreInv, Tick
  PROVE  /\ sine' \in Tag /\ exp' \in Tag /\ out' \in Tag
         /\ operatorOut' \in [Ops -> Tag] /\ feedback1' \in [Ops -> Tag]
         /\ feedback2' \in [Ops -> Tag]
         /\ mixIn' \in [Channels -> SUBSET Tag] /\ mix' \subseteq Tag /\ channelA' \subseteq Tag
<1>1. Output /\ Accumulate
  BY DEF Tick
<1>2. sine' \in Tag /\ exp' \in Tag /\ out' \in Tag
  <2>1. phase[OpNum].sample \in Sample
    BY PathTypes
  <2> QED BY <1>1, <2>1, PathTypes DEF Output, Tag
<1>3. operatorOut' \in [Ops -> Tag] /\ feedback1' \in [Ops -> Tag] /\ feedback2' \in [Ops -> Tag]
  <2>1. feedback1[OpNum] \in Tag
    BY PathTypes
  <2> QED BY <1>1, <2>1, PathTypes DEF Output
<1>4. mixIn' \in [Channels -> SUBSET Tag]
  <2>1. \A c \in Channels : {operatorOut[o] : o \in {p \in Ops : ChannelOf[p] = c}} \in SUBSET Tag
    BY PathTypes
  <2> QED BY <1>1, <2>1 DEF Accumulate
<1>5. mix' \subseteq Tag /\ channelA' \subseteq Tag
  BY <1>1 DEF Accumulate, CoreInv, TypeOK
<1> QED BY <1>2, <1>3, <1>4, <1>5

LEMMA TypeStep ==
  ASSUME CoreInv, Tick
  PROVE  TypeOK'
<1>1. reg' \in Registers /\ pace' \in 0 .. Gap
  <2>1. /\ reg' = reg /\ pace' = IF pace = Gap THEN Gap ELSE pace + 1
        /\ reg \in Registers /\ pace \in 0 .. Gap /\ Gap \in Nat
    BY GeometryAssumption DEF Tick, CoreInv, TypeOK
  <2> QED BY <2>1
<1>2. now' \in Registers /\ before' \in Registers /\ sampleNo' \in Sample
  BY SampleStep
<1>3. cntr' \in 0 .. Period - 1 /\ sampleClkEn' \in BOOLEAN
  BY CntrStep
<1>4. delayState' \in 0 .. NumOps /\ delayCounter' \in 0 .. PipelineDelay - 1
  BY Moves, Sizes
<1>5. {sine', exp', out'} \subseteq Tag
  BY PathTypesStep
<1>6. calcState' \in {"IDLE", "CALC"} /\ channel' \in Channels
  BY MixStep
<1> QED BY <1>1, <1>2, <1>3, <1>4, <1>5, <1>6, DetectorTypes, GeneratorTypes, PathTypesStep
        DEF TypeOK

\* A write of the CPU moves its own registers only.
LEMMA Quiet ==
  ASSUME CoreInv, reg' \in Registers, pace' \in 0 .. Gap,
         UNCHANGED <<seqVars, keyVars, outVars, mixVars>>
  PROVE  CoreInv'
<1>1. UNCHANGED seqVars /\ UNCHANGED keyVars /\ UNCHANGED outVars /\ UNCHANGED mixVars
  OBVIOUS
<1>2. /\ UNCHANGED cntr /\ UNCHANGED sampleClkEn /\ UNCHANGED now /\ UNCHANGED delayState
      /\ UNCHANGED delayCounter /\ UNCHANGED sampleNo /\ UNCHANGED before
      /\ UNCHANGED <<onEdge, offEdge, drumEdge, env, phase>>
      /\ UNCHANGED <<sine, exp, out, operatorOut, feedback1, feedback2>>
      /\ UNCHANGED <<calcState, channel, mixIn, mix, channelA>>
  BY <1>1 DEF seqVars, keyVars, outVars, mixVars
<1>3. TypeOK'
  BY <1>2 DEF CoreInv, TypeOK
<1>4. SeqInv'
  BY <1>2 DEF CoreInv, SeqInv
<1>5. \A o \in Ops : /\ Ended(o)' <=> Ended(o)
                     /\ Passed(o)' <=> Passed(o)
                     /\ InSlot(o)' <=> InSlot(o)
  BY <1>2 DEF Ended, Passed, InSlot
<1>6. KeyInv'
  <2>1. OnInv' /\ OffInv'
    BY <1>2, <1>5 DEF CoreInv, KeyInv, OnInv, OffInv
  <2>2. DrumInv'
    BY <1>2, <1>5 DEF CoreInv, KeyInv, DrumInv
  <2>3. EnvInv'
    BY <1>2, <1>5 DEF CoreInv, KeyInv, EnvInv, NoteStarts, KeyUp, Rhythm
  <2> QED BY <2>1, <2>2, <2>3 DEF KeyInv
<1>7. PhaseInv' /\ OutInv'
  BY <1>2, <1>5 DEF CoreInv, PhaseInv, OutInv
<1>8. PipeInv'
  BY <1>2 DEF CoreInv, PipeInv, Filled, OpNum
<1>9. MixInv'
  BY <1>2 DEF CoreInv, MixInv, OneSamplePlayed
<1> QED BY <1>3, <1>4, <1>6, <1>7, <1>8, <1>9 DEF CoreInv

LEMMA CoreStep ==
  ASSUME CoreInv, [Next]_vars
  PROVE  CoreInv'
<1>0. reg \in Registers /\ pace \in 0 .. Gap /\ Gap \in Nat
  BY GeometryAssumption DEF CoreInv, TypeOK
<1>1. CASE Tick
  BY <1>1, TypeStep, SeqStep, OnStep, OffStep, DrumStep, EnvStep, PhaseStep, PipeStep, OutStep,
     MixStep DEF CoreInv, KeyInv
<1>2. ASSUME NEW new \in Registers, Write(new)
      PROVE  CoreInv'
  BY <1>0, <1>2, Quiet DEF Write
<1>3. CASE WriteKey
  <2>1. PICK c \in Keys, b \in BOOLEAN : Write([reg EXCEPT !.kon[c] = b])
    BY <1>3 DEF WriteKey
  <2>2. c \in Channels
    BY GeometryAssumption
  <2>3. [reg EXCEPT !.kon[c] = b] \in Registers
    BY <1>0, <2>2 DEF Registers
  <2> QED BY <1>2, <2>1, <2>3
<1>4. CASE WriteRhythm
  <2>1. PICK r \in BOOLEAN, d \in [Drums -> BOOLEAN] : Write([reg EXCEPT !.ryt = r, !.drum = d])
    BY <1>4 DEF WriteRhythm
  <2>2. [reg EXCEPT !.ryt = r, !.drum = d] \in Registers
    BY <1>0 DEF Registers
  <2> QED BY <1>2, <2>1, <2>2
<1>5. CASE UNCHANGED vars
  <2>1. reg' = reg /\ pace' = pace /\ UNCHANGED <<seqVars, keyVars, outVars, mixVars>>
    BY <1>5 DEF vars
  <2> QED BY <1>0, <2>1, Quiet
<1> QED BY <1>1, <1>3, <1>4, <1>5 DEF Next

LEMMA CoreInit ==
  ASSUME Init
  PROVE  CoreInv
<1>1. /\ reg = Silent /\ pace = Gap /\ Gap \in Nat
      /\ cntr = 0 /\ sampleClkEn = FALSE /\ now = Silent /\ before = Silent
      /\ delayState = 0 /\ delayCounter = 0 /\ sampleNo = 0
      /\ onEdge = [o \in Ops |-> [r0 |-> FALSE, r1 |-> FALSE]] /\ offEdge = onEdge
      /\ drumEdge = [d \in Drums |-> [r0 |-> FALSE, r1 |-> FALSE]]
      /\ env = [o \in Ops |-> "RELEASE"]
      /\ phase = [o \in Ops |-> [restarted |-> FALSE, sample |-> 0]]
  BY GeometryAssumption DEF Init
<1>2. /\ operatorOut = [o \in Ops |-> [op |-> o, sample |-> 0]]
      /\ feedback1 = operatorOut
      /\ feedback2 = [o \in Ops |-> [op |-> o, sample |-> Former(0)]]
      /\ sine = operatorOut[0] /\ exp = sine /\ out = sine
      /\ calcState = "IDLE" /\ channel = 0
      /\ mix = {[op |-> o, sample |-> Former(0)] : o \in Ops}
      /\ channelA = {[op |-> o, sample |-> Former(Former(0))] : o \in Ops}
      /\ mixIn = [c \in Channels |-> {}]
  BY DEF Init
<1>3. 0 \in Sample /\ Former(0) \in Sample /\ Former(Former(0)) \in Sample
  BY SampleNumbers DEF Sample
<1>4. sine = [op |-> 0, sample |-> 0] /\ sine \in Tag
  BY <1>2, <1>3, Sizes DEF Tag
<1>5. TypeOK
  <2>1. Silent \in Registers
    BY DEF Silent, Registers
  <2>2. cntr \in 0 .. Period - 1 /\ delayState \in 0 .. NumOps
        /\ delayCounter \in 0 .. PipelineDelay - 1 /\ pace \in 0 .. Gap
    BY <1>1, Sizes
  <2>3. /\ onEdge \in [Ops -> Edge] /\ offEdge \in [Ops -> Edge] /\ drumEdge \in [Drums -> Edge]
    BY <1>1 DEF Edge
  <2>4. /\ env \in [Ops -> {"RELEASE", "ATTACK", "DECAY", "SUSTAIN"}]
        /\ phase \in [Ops -> [restarted : BOOLEAN, sample : Sample]]
    BY <1>1, <1>3
  <2>5. /\ operatorOut \in [Ops -> Tag] /\ feedback1 \in [Ops -> Tag]
        /\ feedback2 \in [Ops -> Tag]
    BY <1>2, <1>3 DEF Tag
  <2>6. mix \subseteq Tag /\ channelA \subseteq Tag
    BY <1>2, <1>3 DEF Tag
  <2>7. mixIn \in [Channels -> SUBSET Tag]
    BY <1>2
  <2>8. channel \in Channels
    BY <1>2, Sizes DEF Channels
  <2>9. {sine, exp, out} \subseteq Tag
    BY <1>2, <1>4
  <2>10. sampleClkEn \in BOOLEAN /\ calcState \in {"IDLE", "CALC"} /\ sampleNo \in Sample
    BY <1>1, <1>2, <1>3
  <2> QED BY <1>1, <2>1, <2>2, <2>3, <2>4, <2>5, <2>6, <2>7, <2>8, <2>9, <2>10 DEF TypeOK
<1>6. SeqInv
  BY <1>1 DEF SeqInv
<1>7. \A o \in Ops : Ended(o) /\ Passed(o) /\ ~InSlot(o)
  BY <1>1, Sizes DEF Ended, Passed, InSlot
<1>8. KeyInv
  <2>1. OnInv /\ OffInv
    BY <1>1, <1>7, GeometryAssumption DEF OnInv, OffInv, Silent
  <2>2. DrumInv
    BY <1>1, <1>7 DEF DrumInv, Silent
  <2>3. EnvInv
    BY <1>7 DEF EnvInv
  <2> QED BY <2>1, <2>2, <2>3 DEF KeyInv
<1>9. PhaseInv
  BY <1>1 DEF PhaseInv
<1>10. PipeInv
  BY <1>1, <1>2, <1>4 DEF PipeInv, Filled, OpNum
<1>11. OutInv
  BY <1>1, <1>2, <1>7 DEF OutInv
<1>12. MixInv
  <2>1. mix = Mixed(Former(sampleNo), Channels)
    BY <1>1, <1>2, GeometryAssumption DEF Mixed
  <2> QED BY <1>1, <1>2, <2>1 DEF MixInv, OneSamplePlayed
<1> QED BY <1>5, <1>6, <1>8, <1>9, <1>10, <1>11, <1>12 DEF CoreInv

LEMMA CoreInvariant == Spec => []CoreInv
<1>1. Init => CoreInv
  BY CoreInit
<1>2. CoreInv /\ [Next]_vars => CoreInv'
  BY CoreStep
<1> QED BY <1>1, <1>2, PTL DEF Spec

\* A key event that is sampled is heard in its sample by the envelope and the phase
\* of every operator of the channel, in rhythm mode or not, whatever was pending and
\* however the operators share drums (operator.v 106-186).
THEOREM KeyEventsHeard == Spec => []KeysHeard
<1>1. ASSUME CoreInv
      PROVE  KeysHeard
  <2>1. LastTick => delayCounter > 2
    BY <1>1, Numbers
  <2>2. KeyOnHeard
    BY <1>1, <2>1, Numbers DEF CoreInv, KeyInv, EnvInv, KeyOnHeard
  <2>3. PhaseRestarts
    BY <1>1, Numbers DEF CoreInv, KeyInv, EnvInv, PhaseRestarts
  <2>4. KeyOffHeard
    BY <1>1, <2>1, Numbers DEF CoreInv, KeyInv, EnvInv, KeyOffHeard, KeyUp
  <2> QED BY <2>2, <2>3, <2>4 DEF KeysHeard
<1> QED BY <1>1, CoreInvariant, PTL

\* The operators share one pipeline and three output registers, and each gets and
\* gives its own results of its own sample (opl2.v 531-609, operator.v 178-217).
THEOREM SlotsKept == Spec => []SlotsInOrder
<1>1. ASSUME CoreInv
      PROVE  SlotsInOrder
  <2>1. OutputSettled
    BY <1>1, Settled DEF OutputSettled
  <2>2. ModulatorFirst
    <3>1. SUFFICES ASSUME SlotEn2, Modulator[OpNum] # None
                   PROVE  operatorOut[Modulator[OpNum]]
                            = [op |-> Modulator[OpNum], sample |-> sampleNo]
      BY DEF ModulatorFirst
    <3>2. OpNum \in Ops /\ OpNum = delayState - 1 /\ delayState # 0
      BY <1>1, <3>1, PathTypes DEF SlotEn2, OpNum
    <3>3. Modulator[OpNum] \in 0 .. OpNum - 1
      BY <3>1, <3>2, GeometryAssumption
    <3>4. Modulator[OpNum] \in Ops /\ Ended(Modulator[OpNum])
      BY <1>1, <3>2, <3>3, Sizes, Numbers DEF Ops, Ended
    <3> QED BY <1>1, <3>4 DEF CoreInv, OutInv
  <2>3. FeedbackPairs
    <3>1. SUFFICES ASSUME NEW o \in Ops \ {0}, SlotEn2, OpNum = o
                   PROVE  /\ feedback1[o].sample = Former(sampleNo)
                          /\ feedback2[o].sample = Former(Former(sampleNo))
      BY DEF FeedbackPairs, FeedbackOf
    <3>2. ~Ended(o)
      BY <1>1, <3>1, Sizes, Numbers DEF SlotEn2, OpNum, Ended
    <3> QED BY <1>1, <3>2 DEF CoreInv, OutInv
  <2> QED BY <2>1, <2>2, <2>3 DEF SlotsInOrder
<1> QED BY <1>1, CoreInvariant, PTL

-----------------------------------------------------------------------------
(* The serializer.                                                            *)

LEMMA AudioTick ==
  ASSUME AudioInv, AudioNext
  PROVE  /\ CoreInv /\ CoreInv' /\ Tick
         /\ cntr \in Nat /\ cntr < Period /\ Period \in Nat /\ Period > 66
         /\ HighTicks \in Nat /\ HighTicks > 0 /\ HighTicks < Period /\ Bits = 32
         /\ cntr' = IF cntr = Period - 1 THEN 0 ELSE cntr + 1
         /\ cntr # 1 => channelA' = channelA
         /\ stored' = (stored \/ cntr = 1)
         /\ channelA \subseteq Tag /\ channelA' \subseteq Tag
<1>1. CoreInv /\ Tick /\ stored' = (stored \/ sampleClkEn)
  BY DEF AudioInv, AudioNext
<1>2. CoreInv'
  BY <1>1, CoreStep DEF Next
<1>3. Bits = 32 /\ Period \in Nat /\ Period > 66
  BY FrameAssumption, Sizes DEF Bits
<1>4. HighTicks \in Nat /\ HighTicks > 0 /\ HighTicks < Period
  BY <1>3, HighTicksAssumption
<1>5. cntr \in Nat /\ cntr < Period /\ (sampleClkEn <=> cntr = 1)
  BY <1>1, Numbers
<1>6. cntr # 1 => channelA' = channelA
  BY <1>1, <1>5 DEF Tick, Accumulate
<1>7. channelA \subseteq Tag /\ channelA' \subseteq Tag
  BY <1>1, <1>2 DEF CoreInv, TypeOK
<1>8. stored' = (stored \/ cntr = 1)
  <2>1. sampleClkEn \in BOOLEAN /\ stored \in BOOLEAN
    BY <1>1 DEF CoreInv, TypeOK, AudioInv, AudioTypeOK
  <2> QED BY <1>1, <1>5, <2>1
<1> QED BY <1>1, <1>2, <1>3, <1>4, <1>5, <1>6, <1>7, <1>8, CntrStep

\* Even and odd.
LEMMA Parity ==
  ASSUME NEW n \in Nat
  PROVE  /\ n % 2 = 0 <=> n % 2 # 1
         /\ n % 2 = 0 <=> (n + 1) % 2 = 1
         /\ 0 % 2 = 0 /\ 1 % 2 = 1 /\ 2 % 2 = 0 /\ 4 % 2 = 0 /\ 66 % 2 = 0
OBVIOUS

\* The edges that the serializer and the codec see: bclk turns at every tick.
LEMMA Edges ==
  ASSUME AudioInv, AudioNext
  PROVE  /\ bclk' <=> cntr % 2 = 0
         /\ cntr > 0 => (bclk' <=> ~bclk)
         /\ cntr = 0 => bclk'
         /\ cntr > 1 => (lastBclk <=> ~bclk)
         /\ cntr \in {1, 3} => bclk
         /\ cntr \in {2, 4, 66} => ~bclk
         /\ sampleClk' <=> cntr < HighTicks
         /\ lastBclk' = bclk /\ lastSampleClk' = sampleClk
         /\ {bclk', sampleClk', lastBclk', lastSampleClk'} \subseteq BOOLEAN
<1>1. /\ sampleClk' = (cntr < HighTicks) /\ bclk' = (cntr % 2 = 0)
      /\ lastBclk' = bclk /\ lastSampleClk' = sampleClk
      /\ bclk \in BOOLEAN /\ sampleClk \in BOOLEAN
  BY DEF AudioNext, AudioClock, Serialize, AudioInv, AudioTypeOK
<1>2. /\ cntr > 0 => (bclk <=> cntr % 2 = 1)
      /\ cntr > 1 => (lastBclk <=> ~bclk)
  BY DEF AudioInv, ClockInv
<1>3. cntr \in Nat
  BY AudioTick
<1>4. bclk' <=> cntr % 2 = 0
  BY <1>1
<1>5. cntr > 0 => (bclk' <=> ~bclk)
  BY <1>2, <1>3, <1>4, Parity
<1>6. /\ cntr = 0 => bclk'
      /\ cntr \in {1, 3} => bclk
      /\ cntr \in {2, 4, 66} => ~bclk
  <2>1. 3 % 2 = 1
    OBVIOUS
  <2> QED BY <1>2, <1>3, <1>4, <2>1, Parity
<1>7. sampleClk' <=> cntr < HighTicks
  BY <1>1
<1>8. {bclk', sampleClk', lastBclk', lastSampleClk'} \subseteq BOOLEAN
  BY <1>1
<1> QED BY <1>1, <1>2, <1>4, <1>5, <1>6, <1>7, <1>8

\* What one tick does to the serializer.
LEMMA SerialStep ==
  ASSUME AudioInv, AudioNext
  PROVE  /\ startCycle' \in BOOLEAN /\ lrc' \in BOOLEAN
         /\ startCycle' <=> cntr = 1
         /\ cntr = 2 => lrc' /\ dacdat' = [of |-> channelA, bit |-> 0] /\ bitCntr' = 1
         /\ cntr # 2 /\ (bclk \/ ~lastBclk) => (lrc' <=> lrc)
         /\ cntr # 2 /\ ~bclk /\ lastBclk => ~lrc'
         /\ cntr # 2 /\ ~lrc => ~lrc'
         /\ cntr # 2 /\ (bclk \/ ~lastBclk \/ bitCntr = 32)
              => dacdat' = dacdat /\ bitCntr' = bitCntr
         /\ cntr # 2 /\ ~bclk /\ lastBclk /\ bitCntr # 32
              => dacdat' = [of |-> channelA, bit |-> bitCntr] /\ bitCntr' = bitCntr + 1
<1>1. Serialize(sampleClk, bclk, channelA) /\ Bits = 32
  BY AudioTick DEF AudioNext
<1>2. /\ startCycle <=> cntr = 2
      /\ startCycle \in BOOLEAN /\ bitCntr \in 0 .. 32 /\ bclk \in BOOLEAN /\ lastBclk \in BOOLEAN
      /\ sampleClk \in BOOLEAN /\ lastSampleClk \in BOOLEAN /\ lrc \in BOOLEAN
  BY <1>1 DEF AudioInv, ClockInv, AudioTypeOK
<1>3. sampleClk /\ ~lastSampleClk <=> cntr = 1
  <2>1. /\ cntr = 0 => ~sampleClk
        /\ cntr > 0 => (sampleClk <=> cntr <= HighTicks)
        /\ cntr = 1 => ~lastSampleClk
        /\ cntr > 1 => (cntr - 1 <= HighTicks => lastSampleClk)
    BY DEF AudioInv, ClockInv
  <2> QED BY <2>1, AudioTick
<1>4. CASE cntr = 2
  <2>1. ~bclk /\ lastBclk /\ startCycle = TRUE /\ ~(sampleClk /\ ~lastSampleClk)
    BY <1>2, <1>3, <1>4, Edges
  <2>2. startCycle' = FALSE /\ lrc' = TRUE
    BY <1>1, <2>1 DEF Serialize
  <2>3. dacdat' = [of |-> channelA, bit |-> 0] /\ bitCntr' = 1
    BY <1>1, <2>1 DEF Serialize
  <2>4. startCycle' \in BOOLEAN /\ lrc' \in BOOLEAN /\ ~startCycle' /\ lrc'
    BY <2>2
  <2>5. startCycle' <=> cntr = 1
    BY <1>4, <2>4
  <2> QED BY <1>4, <2>3, <2>4, <2>5
<1>5. CASE cntr # 2
  <2>1. startCycle = FALSE
    BY <1>2, <1>5
  <2>2. startCycle' = (sampleClk /\ ~lastSampleClk)
    BY <1>1, <1>2, <2>1 DEF Serialize
  <2>3. startCycle' \in BOOLEAN /\ (startCycle' <=> cntr = 1)
    BY <1>3, <2>2
  <2>4. CASE bclk \/ ~lastBclk
    <3>1. lrc' = lrc /\ dacdat' = dacdat /\ bitCntr' = bitCntr
      BY <1>1, <2>4 DEF Serialize
    <3>2. lrc' \in BOOLEAN /\ (lrc' <=> lrc)
      BY <1>2, <3>1
    <3> QED BY <1>5, <2>3, <2>4, <3>1, <3>2
  <2>5. CASE ~bclk /\ lastBclk
    <3>1. lrc' = FALSE
      BY <1>1, <2>1, <2>5 DEF Serialize
    <3>2. CASE bitCntr = 32
      <4>1. dacdat' = dacdat /\ bitCntr' = bitCntr
        BY <1>1, <2>1, <3>2 DEF Serialize
      <4> QED BY <1>5, <2>3, <2>5, <3>1, <3>2, <4>1
    <3>3. CASE bitCntr # 32
      <4>1. dacdat' = [of |-> channelA, bit |-> bitCntr] /\ bitCntr' = bitCntr + 1
        BY <1>1, <1>2, <2>1, <2>5, <3>3 DEF Serialize
      <4> QED BY <1>5, <2>3, <2>5, <3>1, <3>3, <4>1
    <3> QED BY <3>2, <3>3
  <2> QED BY <2>4, <2>5
<1> QED BY <1>4, <1>5

LEMMA ClockStep ==
  ASSUME AudioInv, AudioNext
  PROVE  ClockInv'
<1>1. cntr' = 0 => ~sampleClk'
  BY AudioTick, Edges
<1>2. cntr' > 0 => (bclk' <=> cntr' % 2 = 1) /\ (sampleClk' <=> cntr' <= HighTicks)
  <2>1. SUFFICES ASSUME cntr' > 0
                 PROVE  (bclk' <=> cntr' % 2 = 1) /\ (sampleClk' <=> cntr' <= HighTicks)
    OBVIOUS
  <2>2. cntr' = cntr + 1 /\ cntr \in Nat
    BY <2>1, AudioTick
  <2>3. bclk' <=> (cntr + 1) % 2 = 1
    BY <2>2, Edges, Parity
  <2>4. sampleClk' <=> cntr + 1 <= HighTicks
    BY <2>2, AudioTick, Edges
  <2> QED BY <2>2, <2>3, <2>4
<1>3. cntr' = 1 => ~lastSampleClk'
  <2>1. cntr = 0 => ~sampleClk
    BY DEF AudioInv, ClockInv
  <2> QED BY <2>1, AudioTick, Edges
<1>4. cntr' > 1 => (lastBclk' <=> ~bclk') /\ (cntr' - 1 <= HighTicks => lastSampleClk')
  <2>1. cntr > 0 => (sampleClk <=> cntr <= HighTicks)
    BY DEF AudioInv, ClockInv
  <2> QED BY <2>1, AudioTick, Edges
<1>5. startCycle' <=> cntr' = 2
  BY AudioTick, SerialStep
<1>6. cntr' > 1 => stored'
  <2>1. cntr > 1 => stored
    BY DEF AudioInv, ClockInv
  <2>2. stored' <=> stored \/ cntr = 1
    BY AudioTick
  <2>3. cntr' > 1 => cntr = 1 \/ cntr > 1
    BY AudioTick
  <2> QED BY <2>1, <2>2, <2>3
<1> QED BY <1>1, <1>2, <1>3, <1>4, <1>5, <1>6, Zenon DEF ClockInv

LEMMA LineStep ==
  ASSUME AudioInv, AudioNext
  PROVE  LineInv' /\ bitCntr' \in 0 .. Bits /\ dacdat'.bit \in 0 .. Bits - 1
         /\ dacdat'.of \subseteq Tag
<1>1. /\ cntr < 3 \/ cntr > 64 => bitCntr = 32
      /\ cntr \in 3 .. 66 => /\ bitCntr > 0
                             /\ 2 * bitCntr = IF bclk THEN cntr - 1 ELSE cntr - 2
                             /\ dacdat = [of |-> channelA, bit |-> bitCntr - 1]
      /\ cntr > 2 => (lrc <=> cntr < 5)
      /\ bitCntr \in 0 .. 32 /\ dacdat.bit \in 0 .. 31 /\ dacdat.of \subseteq Tag
  BY AudioTick DEF AudioInv, LineInv, AudioTypeOK
<1> SUFFICES /\ cntr' < 3 \/ cntr' > 64 => bitCntr' = 32
             /\ cntr' \in 3 .. 66 => /\ bitCntr' > 0
                                     /\ 2 * bitCntr' = IF bclk' THEN cntr' - 1 ELSE cntr' - 2
                                     /\ dacdat' = [of |-> channelA', bit |-> bitCntr' - 1]
             /\ cntr' > 2 => (lrc' <=> cntr' < 5)
             /\ bitCntr' \in 0 .. 32 /\ dacdat'.bit \in 0 .. 31 /\ dacdat'.of \subseteq Tag
  BY AudioTick DEF LineInv
<1>2. CASE cntr < 2 \/ cntr > 66
  <2>1. bitCntr' = 32 /\ dacdat' = dacdat
    BY <1>1, <1>2, AudioTick, SerialStep
  <2>2. cntr' < 3 \/ cntr' > 66
    BY <1>2, AudioTick
  <2>3. ~(cntr' \in 3 .. 66)
    BY <2>2
  <2>4. cntr' > 2 => (lrc' <=> cntr' < 5)
    <3>1. SUFFICES ASSUME cntr' > 2
                   PROVE  ~lrc' /\ ~(cntr' < 5)
      OBVIOUS
    <3>2. cntr > 66 /\ ~(cntr' < 5)
      BY <1>2, <2>2, <3>1, AudioTick
    <3>3. ~lrc
      BY <1>1, <3>2, AudioTick
    <3> QED BY <3>2, <3>3, SerialStep
  <2> QED BY <1>1, <2>1, <2>3, <2>4
<1>3. CASE cntr = 2
  BY <1>3, AudioTick, SerialStep, Edges
<1>4. CASE cntr \in 3 .. 64 /\ bclk
  <2>1. bitCntr' = bitCntr /\ dacdat' = dacdat /\ (lrc' <=> lrc) /\ ~bclk' /\ cntr' = cntr + 1
    BY <1>4, AudioTick, SerialStep, Edges
  <2>2. cntr # 4
    BY <1>4, Edges
  <2>3. 2 * bitCntr = cntr - 1 /\ bitCntr > 0 /\ channelA' = channelA
    BY <1>1, <1>4, AudioTick
  <2>4. cntr' \in 4 .. 65 /\ (cntr' > 64 => bitCntr' = 32)
    BY <1>1, <1>4, <2>1, <2>3
  <2> QED BY <1>1, <1>4, <2>1, <2>2, <2>3, <2>4
<1>5. CASE cntr \in 3 .. 64 /\ ~bclk
  <2>1. 2 * bitCntr = cntr - 2 /\ bitCntr > 0 /\ bitCntr < 32 /\ channelA' = channelA
        /\ bitCntr \in Nat
    BY <1>1, <1>5, AudioTick
  <2>2. /\ bitCntr' = bitCntr + 1 /\ dacdat' = [of |-> channelA, bit |-> bitCntr]
        /\ ~lrc' /\ bclk' /\ cntr' = cntr + 1
    BY <1>5, <2>1, AudioTick, SerialStep, Edges
  <2>3. cntr' \in 4 .. 65 /\ cntr' > 4
    BY <1>5, <2>2, Edges
  <2>4. bitCntr' > 0 /\ 2 * bitCntr' = cntr' - 1 /\ bitCntr' - 1 = bitCntr
    <3>1. cntr \in Nat /\ bitCntr \in Nat
      BY <2>1, AudioTick
    <3> QED BY <2>1, <2>2, <3>1
  <2>5. dacdat' = [of |-> channelA', bit |-> bitCntr' - 1]
    BY <2>1, <2>2, <2>4
  <2>6. cntr' > 64 => bitCntr' = 32
    <3>1. bitCntr' \in Nat
      BY <2>1, <2>2
    <3> QED BY <2>3, <2>4, <3>1
  <2>7. cntr' > 2 => (lrc' <=> cntr' < 5)
    BY <2>2, <2>3
  <2>8. bitCntr' \in 0 .. 32 /\ dacdat'.bit \in 0 .. 31 /\ dacdat'.of \subseteq Tag
    BY <2>1, <2>2, AudioTick
  <2> QED BY <2>2, <2>3, <2>4, <2>5, <2>6, <2>7, <2>8
<1>6. CASE cntr \in 65 .. 66
  <2>1. bitCntr' = 32 /\ dacdat' = dacdat /\ ~lrc'
    BY <1>1, <1>6, AudioTick, SerialStep
  <2>2. channelA' = channelA /\ (cntr' = 0 \/ cntr' = cntr + 1) /\ bitCntr = 32
    BY <1>1, <1>6, AudioTick
  <2>3. cntr = 65 => bclk /\ ~bclk'
    BY <1>1, <1>6, <2>2, Edges
  <2> QED BY <1>1, <1>6, <2>1, <2>2, <2>3
<1> QED BY <1>2, <1>3, <1>4, <1>5, <1>6, AudioTick

LEMMA FrameStep ==
  ASSUME AudioInv, AudioNext
  PROVE  /\ FrameInv' /\ codec'.got \in 0 .. Bits /\ codec'.ok \in BOOLEAN
         /\ codec'.of \subseteq Tag
<1>0. Bits = 32 /\ cntr \in Nat /\ Period > 66 /\ Period \in Nat
  BY AudioTick
<1>1. /\ codec.got > 0 /\ (codec.of # {} => codec.ok)
      /\ cntr < 3 => IF lrc THEN dacdat.of = {} /\ codec.of = {} ELSE codec.got = 32
      /\ cntr = 0 /\ lrc => ~lastBclk
      /\ cntr \in 5 .. 66 =>
           /\ codec = [of |-> channelA, got |-> codec.got, ok |-> TRUE]
           /\ 2 * codec.got = IF bclk THEN cntr - 3 ELSE cntr - 4
      /\ cntr > 66 \/ (cntr < 2 /\ stored) =>
           ~lrc /\ codec = [of |-> channelA, got |-> 32, ok |-> TRUE]
      /\ codec.got \in 0 .. 32 /\ codec.ok \in BOOLEAN /\ codec.of \subseteq Tag
      /\ dacdat.of \subseteq Tag /\ lrc \in BOOLEAN
  BY <1>0 DEF AudioInv, FrameInv, AudioTypeOK
<1>2. codec' = IF bclk \/ (~lrc /\ codec.got = 32) THEN codec
               ELSE IF lrc THEN [of |-> dacdat.of, got |-> 1, ok |-> dacdat.bit = 0]
               ELSE [of |-> codec.of, got |-> codec.got + 1,
                     ok |-> codec.ok /\ dacdat = [of |-> codec.of, bit |-> codec.got]]
  <2>1. ~bclk /\ bclk' <=> ~bclk
    BY <1>0, Edges
  <2> QED BY <1>0, <2>1 DEF AudioNext, Codec
<1>3. cntr \in 3 .. 66 => /\ 2 * bitCntr = IF bclk THEN cntr - 1 ELSE cntr - 2
                         /\ dacdat = [of |-> channelA, bit |-> bitCntr - 1]
                         /\ bitCntr \in Nat
                         /\ (lrc <=> cntr < 5)
  BY <1>0 DEF AudioInv, LineInv, AudioTypeOK
<1> SUFFICES /\ codec'.got > 0 /\ (codec'.of # {} => codec'.ok)
             /\ cntr' < 3 => IF lrc' THEN dacdat'.of = {} /\ codec'.of = {} ELSE codec'.got = 32
             /\ cntr' = 0 /\ lrc' => ~lastBclk'
             /\ cntr' \in 5 .. 66 =>
                  /\ codec' = [of |-> channelA', got |-> codec'.got, ok |-> TRUE]
                  /\ 2 * codec'.got = IF bclk' THEN cntr' - 3 ELSE cntr' - 4
             /\ cntr' > 66 \/ (cntr' < 2 /\ stored') =>
                  ~lrc' /\ codec' = [of |-> channelA', got |-> 32, ok |-> TRUE]
             /\ codec'.got \in 0 .. 32 /\ codec'.ok \in BOOLEAN /\ codec'.of \subseteq Tag
  BY <1>0 DEF FrameInv
<1>4. CASE cntr = 0
  <2>1. dacdat' = dacdat /\ cntr' = 1 /\ channelA' = channelA /\ stored' = stored
    <3>1. bitCntr = 32
      BY <1>0, <1>4 DEF AudioInv, LineInv
    <3>2. stored \in BOOLEAN
      BY DEF AudioInv, AudioTypeOK
    <3> QED BY <1>0, <1>4, <3>1, <3>2, AudioTick, SerialStep
  <2>2. CASE lrc
    <3>1. lrc' <=> lrc
      BY <1>0, <1>1, <1>4, <2>2, SerialStep
    <3>2. /\ codec'.of = {} /\ codec'.got \in 1 .. 32 /\ codec'.ok \in BOOLEAN
      <4>1. CASE bclk
        <5>1. codec' = codec
          BY <1>2, <4>1
        <5> QED BY <1>1, <1>4, <2>2, <5>1
      <4>2. CASE ~bclk
        <5>1. codec' = [of |-> dacdat.of, got |-> 1, ok |-> dacdat.bit = 0]
          BY <1>2, <2>2, <4>2
        <5> QED BY <1>1, <1>4, <2>2, <5>1
      <4> QED BY <4>1, <4>2
    <3>3. ~stored
      BY <1>1, <1>4, <2>2
    <3> QED BY <1>1, <1>4, <2>1, <2>2, <3>1, <3>2, <3>3
  <2>3. CASE ~lrc
    <3>1. ~lrc'
      BY <1>0, <1>1, <1>4, <2>3, SerialStep
    <3>2. codec' = codec /\ codec.got = 32
      BY <1>1, <1>2, <1>4, <2>3
    <3> QED BY <1>1, <1>4, <2>1, <3>1, <3>2
  <2> QED BY <2>2, <2>3
<1>5. CASE cntr = 1
  <2>1. codec' = codec /\ dacdat' = dacdat /\ cntr' = 2
    BY <1>0, <1>2, <1>5, AudioTick, SerialStep, Edges
  <2>2. lrc' <=> lrc
    BY <1>5, SerialStep, Edges
  <2>3. IF lrc THEN dacdat.of = {} /\ codec.of = {} ELSE codec.got = 32
    BY <1>1, <1>5
  <2>4. ~(cntr' \in 5 .. 66) /\ ~(cntr' > 66 \/ (cntr' < 2 /\ stored')) /\ cntr' # 0
    BY <2>1
  <2> QED BY <1>1, <2>1, <2>2, <2>3, <2>4
<1>6. CASE cntr \in {2, 3}
  <2>1. cntr' = cntr + 1 /\ cntr' \in {3, 4}
    BY <1>0, <1>6, AudioTick
  <2> DEFINE first == [of |-> dacdat.of, got |-> 1, ok |-> dacdat.bit = 0]
  <2>2. CASE cntr = 2
    <3>1. CASE lrc
      <4>1. codec' = first
        BY <1>2, <2>2, <3>1, Edges
      <4>2. first.of = {} /\ first.got = 1 /\ first.ok \in BOOLEAN
        BY <1>1, <2>2, <3>1
      <4> HIDE DEF first
      <4> QED BY <2>1, <4>1, <4>2
    <3>2. CASE ~lrc
      <4>1. codec' = codec
        BY <1>1, <1>2, <2>2, <3>2
      <4> QED BY <1>1, <2>1, <4>1
    <3> QED BY <3>1, <3>2
  <2>3. CASE cntr = 3
    <3>1. codec' = codec
      BY <1>2, <2>3, Edges
    <3> QED BY <1>1, <2>1, <3>1
  <2> QED BY <1>6, <2>2, <2>3
<1>7. CASE cntr = 4
  <2>1. /\ cntr' = 5 /\ channelA' = channelA /\ bclk' /\ ~bclk
    BY <1>0, <1>7, AudioTick, Edges
  <2>2. codec' = [of |-> channelA, got |-> 1, ok |-> TRUE]
    <3>1. lrc /\ dacdat = [of |-> channelA, bit |-> 0]
      <4>1. 2 * bitCntr = 2 /\ bitCntr \in Nat /\ dacdat = [of |-> channelA, bit |-> bitCntr - 1]
        BY <1>3, <1>7, <2>1
      <4>2. bitCntr = 1
        BY <4>1
      <4> QED BY <1>3, <1>7, <4>1, <4>2
    <3> QED BY <1>2, <2>1, <3>1
  <2> QED BY <2>1, <2>2, AudioTick
<1>8. CASE cntr \in 5 .. 66 /\ bclk
  <2>1. /\ codec' = codec /\ channelA' = channelA /\ ~bclk' /\ cntr # 66 /\ cntr' = cntr + 1
    BY <1>0, <1>2, <1>8, AudioTick, Edges
  <2>2. cntr' \in 6 .. 66 /\ 2 * codec.got = cntr - 3
    BY <1>1, <1>8, <2>1
  <2> QED BY <1>1, <1>8, <2>1, <2>2
<1>9. CASE cntr \in 5 .. 66 /\ ~bclk
  <2>1. /\ codec = [of |-> channelA, got |-> codec.got, ok |-> TRUE] /\ ~lrc
        /\ 2 * codec.got = cntr - 4 /\ codec.got \in Nat /\ codec.got < 32
    BY <1>1, <1>3, <1>9
  <2>2. dacdat = [of |-> codec.of, bit |-> codec.got]
    <3>1. 2 * bitCntr = cntr - 2 /\ dacdat = [of |-> channelA, bit |-> bitCntr - 1]
          /\ bitCntr \in Nat
      BY <1>3, <1>9
    <3>2. bitCntr - 1 = codec.got
      BY <2>1, <3>1, <1>0
    <3>3. codec.of = channelA
      BY <2>1
    <3> QED BY <3>1, <3>2, <3>3
  <2>3. codec' = [of |-> channelA, got |-> codec.got + 1, ok |-> TRUE]
    <3>1. codec' = [of |-> codec.of, got |-> codec.got + 1,
                    ok |-> codec.ok /\ dacdat = [of |-> codec.of, bit |-> codec.got]]
      BY <1>2, <1>9, <2>1
    <3>2. codec.ok = TRUE /\ codec.of = channelA
      BY <2>1
    <3>3. (codec.ok /\ dacdat = [of |-> codec.of, bit |-> codec.got]) = TRUE
      BY <2>2, <3>2
    <3> QED BY <3>1, <3>2, <3>3
  <2>4. channelA' = channelA /\ bclk' /\ channelA \subseteq Tag
    BY <1>0, <1>9, AudioTick, Edges
  <2>5. CASE cntr # 66
    <3>1. cntr' = cntr + 1 /\ cntr' \in 6 .. 66
      BY <1>9, <2>5, AudioTick
    <3> QED BY <1>0, <2>1, <2>3, <2>4, <3>1
  <2>6. CASE cntr = 66
    <3>1. codec.got = 31 /\ (cntr' = 0 \/ cntr' = 67)
      BY <2>1, <2>6, AudioTick
    <3>2. ~lrc'
      BY <1>0, <2>1, <2>6, SerialStep
    <3>3. codec' = [of |-> channelA', got |-> 32, ok |-> TRUE]
      BY <2>3, <2>4, <3>1
    <3> QED BY <2>4, <3>1, <3>2, <3>3
  <2> QED BY <2>5, <2>6
<1>10. CASE cntr > 66
  <2>1. codec' = codec /\ ~lrc' /\ channelA' = channelA /\ (cntr' = 0 \/ cntr' > 66)
    BY <1>0, <1>1, <1>2, <1>10, AudioTick, SerialStep
  <2> QED BY <1>0, <1>1, <1>10, <2>1
<1> QED BY <1>0, <1>4, <1>5, <1>6, <1>7, <1>8, <1>9, <1>10

LEMMA AudioStep ==
  ASSUME AudioInv, [AudioNext]_synthVars
  PROVE  AudioInv'
<1>1. CASE AudioNext
  <2>1. /\ {lastSampleClk', lastBclk', startCycle', lrc', sampleClk', bclk', stored'} \subseteq BOOLEAN
    <3>1. stored' \in BOOLEAN
      BY <1>1, AudioTick
    <3> QED BY <1>1, <3>1, Edges, SerialStep, LineStep
  <2>2. AudioTypeOK'
    BY <1>1, <2>1, LineStep, FrameStep DEF AudioTypeOK
  <2> QED BY <1>1, <2>2, AudioTick, ClockStep, LineStep, FrameStep DEF AudioInv
<1>2. CASE UNCHANGED synthVars
  <2>1. UNCHANGED vars /\ UNCHANGED serVars /\ UNCHANGED <<sampleClk, bclk, stored>>
    BY <1>2 DEF synthVars, audioVars
  <2>2. CoreInv'
    BY <2>1, CoreStep DEF AudioInv
  <2>3. cntr' = cntr /\ channelA' = channelA
    BY <2>1 DEF vars, seqVars, mixVars
  <2> QED BY <2>1, <2>2, <2>3 DEF serVars, AudioInv, AudioTypeOK, ClockInv, LineInv, FrameInv
<1> QED BY <1>1, <1>2

LEMMA AudioInitInv ==
  ASSUME AudioInit
  PROVE  AudioInv
<1>1. /\ Init /\ cntr = 0 /\ Bits = 32 /\ sampleClk = FALSE /\ bclk \in BOOLEAN /\ stored = FALSE
      /\ lastSampleClk = FALSE /\ lastBclk = FALSE /\ startCycle = FALSE
      /\ bitCntr = 32 /\ lrc \in BOOLEAN
      /\ dacdat = [of |-> {}, bit |-> 0] /\ codec = [of |-> {}, got |-> 32, ok |-> TRUE]
  BY DEF AudioInit, SerializerInit, Init, Bits
<1>2. CoreInv
  BY <1>1, CoreInit
<1>3. AudioTypeOK
  <2>1. {lastSampleClk, lastBclk, startCycle, lrc, sampleClk, bclk, stored} \subseteq BOOLEAN
    BY <1>1
  <2> QED BY <1>1, <2>1 DEF AudioTypeOK
<1>4. ClockInv /\ LineInv /\ FrameInv
  BY <1>1 DEF ClockInv, LineInv, FrameInv
<1> QED BY <1>2, <1>3, <1>4 DEF AudioInv

LEMMA AudioInvariant == AudioSpec => []AudioInv
<1>1. AudioInit => AudioInv
  BY AudioInitInv
<1>2. AudioInv /\ [AudioNext]_synthVars => AudioInv'
  BY AudioStep
<1> QED BY <1>1, <1>2, PTL DEF AudioSpec

\* Every register of the core and of the serializer stays in its range.
THEOREM SynthTypeCorrect == AudioSpec => []SynthTypeOK
<1>1. AudioInv => SynthTypeOK
  BY DEF AudioInv, CoreInv, SynthTypeOK
<1> QED BY <1>1, AudioInvariant, PTL

\* The codec gets every sample once, with all its operators, and nothing made of two,
\* for every length of the sample that leaves room for the slots and for the frame
\* (opl2.v 188-191, 618-727, audio.v 28-67).
THEOREM SamplesArrive == AudioSpec => []SamplesDelivered
<1>1. ASSUME AudioInv
      PROVE  SamplesDelivered
  <2>1. OneSamplePlayed
    BY <1>1 DEF AudioInv, CoreInv, MixInv
  <2>2. FramesWhole
    BY <1>1 DEF AudioInv, FrameInv, FramesWhole
  <2>3. EverySampleSent
    <3>1. sampleClkEn <=> cntr = 1
      BY <1>1 DEF AudioInv, CoreInv, SeqInv
    <3> QED BY <1>1, <3>1 DEF AudioInv, FrameInv, EverySampleSent
  <2> QED BY <2>1, <2>2, <2>3 DEF SamplesDelivered
<1> QED BY <1>1, AudioInvariant, PTL
=============================================================================
