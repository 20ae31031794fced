------------------------------ MODULE Opl2Core ------------------------------
(* fpga/opl3/opl2.v with operator.v and the control of its generators: one    *)
(* operator is computed in each time slot of a sample.  A step of Tick is one *)
(* edge of the 25 MHz clock.  Values of the data path are tags: which         *)
(* operator, in which sample.                                                 *)
EXTENDS Integers, FiniteSets

CONSTANTS
  NumOps,       \* operator slots in a sample (18)
  NumChannels,  \* channels (9)
  Period,       \* ticks in a sample (500)
  Gap,          \* ticks from one register write of the CPU to the next, at least
  ChannelOf,    \* the channel an operator belongs to
  Modulator,    \* the operator that modulates it, or None
  RhythmOf,     \* the instrument it plays in rhythm mode, or None
  Keys,         \* the channels whose key bits are written
  None

PipelineDelay == 7

Ops == 0 .. NumOps - 1
Channels == 0 .. NumChannels - 1
Drums == {RhythmOf[o] : o \in Ops} \ {None}
Sample == 0 .. 3  \* sample numbers, modulo 4
Tag == [op : Ops, sample : Sample]
Former(n) == (n + 3) % 4

ASSUME GeometryAssumption ==
  /\ NumOps \in Nat \ {0} /\ NumChannels \in 1 .. NumOps /\ Gap \in Nat \ {0}
  /\ Period \in Nat /\ Period > NumOps * PipelineDelay + 1
  /\ ChannelOf \in [Ops -> Channels] /\ Keys \subseteq Channels
  /\ \A o \in Ops : Modulator[o] \in 0 .. o - 1 \/ Modulator[o] = None

\* The mixer reads the outputs of a channel before the slots have come to it.
ASSUME MixerAssumption == \A o \in Ops : ChannelOf[o] <= PipelineDelay * (o + 1)

VARIABLES
  reg,       \* the register file: [kon, ryt, drum]
  pace,      \* ticks since the last write, up to Gap
  cntr, sampleClkEn,
  now,       \* the sampled registers: [kon, ryt, drum]
  delayState, delayCounter,
  onEdge, offEdge, drumEdge,  \* edge detectors: [r0, r1]
  env,       \* the envelope state of each operator
  phase,     \* [restarted, sample] of each operator's phase
  sine, exp, out,             \* the output pipeline
  operatorOut, feedback1, feedback2,
  calcState, channel, mixIn, mix, channelA, \* the accumulation of the channels
  sampleNo,  \* history: the number of the sample
  before     \* history: the sampled registers of the sample before

keyVars == <<onEdge, offEdge, drumEdge, env, phase>>
outVars == <<sine, exp, out, operatorOut, feedback1, feedback2>>
mixVars == <<calcState, channel, mixIn, mix, channelA>>
seqVars == <<cntr, sampleClkEn, now, delayState, delayCounter, sampleNo, before>>
vars == <<reg, pace, seqVars, keyVars, outVars, mixVars>>

Registers == [kon : [Channels -> BOOLEAN], ryt : BOOLEAN, drum : [Drums -> BOOLEAN]]
Edge      == [r0 : BOOLEAN, r1 : BOOLEAN]
Silent    == [kon |-> [c \in Channels |-> FALSE], ryt |-> FALSE, drum |-> [d \in Drums |-> FALSE]]

-----------------------------------------------------------------------------
(* Wires.                                                                     *)

OpNum == IF delayState = 0 THEN 0 ELSE delayState - 1
LastTick == delayCounter = PipelineDelay - 1
SlotEn   == delayState # 0 /\ delayCounter = 0    \* sample_clk_en of the operator
SlotEn2  == delayState # 0 /\ delayCounter = 2    \* the same, two registers later
Rhythm(o) == now.ryt /\ RhythmOf[o] # None        \* op_type is not OP_NORMAL

Rising(e)  == e.r0 /\ ~e.r1
Falling(e) == ~e.r0 /\ e.r1
KeyOnPulse  == Rising(onEdge[OpNum]) \/ (Rhythm(OpNum) /\ Rising(drumEdge[RhythmOf[OpNum]]))
KeyOffPulse == Falling(offEdge[OpNum])

NextDelayState ==
  IF delayState = 0 THEN (IF sampleClkEn THEN 1 ELSE 0)
  ELSE IF ~LastTick THEN delayState
  ELSE IF delayState = NumOps THEN 0 ELSE delayState + 1

-----------------------------------------------------------------------------
(* The CPU's writes.  Whole registers: a key bit, or register BD.             *)

Init ==
  /\ reg = Silent /\ pace = Gap
  /\ cntr = 0 /\ sampleClkEn = FALSE /\ now = Silent
  /\ delayState = 0 /\ delayCounter = 0
  /\ onEdge = [o \in Ops |-> [r0 |-> FALSE, r1 |-> FALSE]] /\ offEdge = onEdge
  /\ drumEdge = [d \in Drums |-> [r0 |-> FALSE, r1 |-> FALSE]]
  /\ env = [o \in Ops |-> "RELEASE"]
  /\ phase = [o \in Ops |-> [restarted |-> FALSE, sample |-> 0]]
  /\ operatorOut = [o \in Ops |-> [op |-> o, sample |-> 0]]
  /\ feedback1 = operatorOut
  /\ feedback2 = [o \in Ops |-> [op |-> o, sample |-> Former(0)]]
  /\ sine = operatorOut[0] /\ exp = sine /\ out = sine
  /\ calcState = "IDLE" /\ channel = 0
  /\ mix = {[op |-> o, sample |-> Former(0)] : o \in Ops}
  /\ channelA = {[op |-> o, sample |-> Former(Former(0))] : o \in Ops}
  /\ mixIn = [c \in Channels |-> {}]
  /\ sampleNo = 0 /\ before = Silent

Write(new) ==
  /\ pace = Gap
  /\ reg' = new
  /\ pace' = 0
  /\ UNCHANGED <<seqVars, keyVars, outVars, mixVars>>

WriteKey == \E c \in Keys, b \in BOOLEAN : Write([reg EXCEPT !.kon[c] = b])
WriteRhythm ==
  \E r \in BOOLEAN, d \in [Drums -> BOOLEAN] : Write([reg EXCEPT !.ryt = r, !.drum = d])

-----------------------------------------------------------------------------
(* The sample clock and the sequencer of the slots.                           *)

\* The counter also runs, round and round, while no slot is open.
Sequence ==
  /\ delayState' = NextDelayState
  /\ delayCounter' = IF delayState' # delayState \/ LastTick THEN 0 ELSE delayCounter + 1

SampleClock ==
  /\ cntr' = (cntr + 1) % Period
  /\ sampleClkEn' = (cntr = 0)

SampleRegisters ==
  IF sampleClkEn
  THEN now' = reg /\ before' = now /\ sampleNo' = (sampleNo + 1) % 4
  ELSE UNCHANGED <<now, before, sampleNo>>

-----------------------------------------------------------------------------
(* Key events.                                                                *)

Clocked(e, in) == [r0 |-> in, r1 |-> e.r0]

\* Every detector moves only in the slot of its operator; the key-off detectors
\* stop in rhythm mode, the drum detectors outside it.  Both operators of the
\* bass drum clock its one detector.
Detect ==
  /\ onEdge' = IF SlotEn THEN [onEdge EXCEPT ![OpNum] = Clocked(@, now.kon[ChannelOf[OpNum]])] ELSE onEdge
  /\ offEdge' = IF SlotEn /\ ~Rhythm(OpNum)
                THEN [offEdge EXCEPT ![OpNum] = Clocked(@, now.kon[ChannelOf[OpNum]])] ELSE offEdge
  /\ drumEdge' = IF SlotEn /\ Rhythm(OpNum)
                 THEN [drumEdge EXCEPT ![RhythmOf[OpNum]] = Clocked(@, now.drum[RhythmOf[OpNum]])]
                 ELSE drumEdge

\* Where the envelope goes by itself; the level decides when.
Onward(s) == CASE s = "ATTACK" -> {s, "DECAY"}
               [] s = "DECAY" -> {s, "SUSTAIN"}
               [] s = "SUSTAIN" -> {s, "RELEASE"}
               [] OTHER -> {s}

\* Mutant of Envelope: a key-off is looked at before a key-on.
EnvelopeOffFirst ==
  env' \in {[env EXCEPT ![OpNum] = s] : s \in
    IF KeyOffPulse THEN {"RELEASE"} ELSE IF KeyOnPulse THEN {"ATTACK"}
    ELSE IF SlotEn THEN Onward(env[OpNum]) ELSE {env[OpNum]}}

Envelope ==
  env' \in {[env EXCEPT ![OpNum] = s] : s \in
    IF KeyOnPulse THEN {"ATTACK"} ELSE IF KeyOffPulse THEN {"RELEASE"}
    ELSE IF SlotEn THEN Onward(env[OpNum]) ELSE {env[OpNum]}}

\* Mutant of Phase: the pulse is looked at when the slot opens.
PhaseEarly ==
  phase' = IF SlotEn
           THEN [phase EXCEPT ![OpNum] = [restarted |-> KeyOnPulse, sample |-> sampleNo]]
           ELSE phase

Phase ==
  phase' = IF SlotEn2
           THEN [phase EXCEPT ![OpNum] = [restarted |-> KeyOnPulse, sample |-> sampleNo]]
           ELSE phase

-----------------------------------------------------------------------------
(* The data path: sine table, exponent table, output register; the latches    *)
(* open at the last tick of a slot, and every seven ticks between samples.    *)

\* Mutant of Output: the result is taken one tick early.
OutputEarly ==
  /\ sine' = [op |-> OpNum, sample |-> phase[OpNum].sample]
  /\ exp' = sine
  /\ out' = exp
  /\ IF delayCounter = PipelineDelay - 2
     THEN /\ operatorOut' = [operatorOut EXCEPT ![OpNum] = out]
          /\ feedback1' = [feedback1 EXCEPT ![OpNum] = out]
          /\ feedback2' = [feedback2 EXCEPT ![OpNum] = feedback1[OpNum]]
     ELSE UNCHANGED <<operatorOut, feedback1, feedback2>>

Output ==
  /\ sine' = [op |-> OpNum, sample |-> phase[OpNum].sample]
  /\ exp' = sine
  /\ out' = exp
  /\ IF LastTick
     THEN /\ operatorOut' = [operatorOut EXCEPT ![OpNum] = out]
          /\ feedback1' = [feedback1 EXCEPT ![OpNum] = out]
          /\ feedback2' = [feedback2 EXCEPT ![OpNum] = feedback1[OpNum]]
     ELSE UNCHANGED <<operatorOut, feedback1, feedback2>>

\* The channels are added one by one from the start of the sample, while the
\* first slots already compute the next outputs.
Accumulate ==
  /\ calcState' = IF calcState = "IDLE" THEN (IF sampleClkEn THEN "CALC" ELSE "IDLE")
                  ELSE IF channel = NumChannels - 1 THEN "IDLE" ELSE "CALC"
  /\ channel' = IF calcState = "IDLE" \/ channel = NumChannels - 1 THEN 0 ELSE channel + 1
  /\ mixIn' = [c \in Channels |-> {operatorOut[o] : o \in {p \in Ops : ChannelOf[p] = c}}]
  /\ mix' = IF sampleClkEn THEN {} ELSE IF calcState = "CALC" THEN mix \union mixIn[channel] ELSE mix
  /\ channelA' = IF sampleClkEn THEN mix ELSE channelA

Tick ==
  /\ SampleClock /\ SampleRegisters /\ Sequence
  /\ Detect /\ Envelope /\ Phase
  /\ Output /\ Accumulate
  /\ pace' = IF pace = Gap THEN Gap ELSE pace + 1
  /\ UNCHANGED reg

Next == WriteKey \/ WriteRhythm \/ Tick

Spec == Init /\ [][Next]_vars
Live == Spec /\ WF_vars(Tick)

-----------------------------------------------------------------------------
(* Properties.                                                                *)

TypeOK ==
  /\ reg \in Registers /\ now \in Registers /\ before \in Registers
  /\ pace \in 0 .. Gap /\ cntr \in 0 .. Period - 1 /\ sampleClkEn \in BOOLEAN
  /\ delayState \in 0 .. NumOps /\ delayCounter \in 0 .. PipelineDelay - 1
  /\ onEdge \in [Ops -> Edge] /\ offEdge \in [Ops -> Edge] /\ drumEdge \in [Drums -> Edge]
  /\ env \in [Ops -> {"RELEASE", "ATTACK", "DECAY", "SUSTAIN"}]
  /\ phase \in [Ops -> [restarted : BOOLEAN, sample : Sample]]
  /\ {sine, exp, out} \subseteq Tag
  /\ operatorOut \in [Ops -> Tag] /\ feedback1 \in [Ops -> Tag] /\ feedback2 \in [Ops -> Tag]
  /\ calcState \in {"IDLE", "CALC"} /\ channel \in Channels
  /\ mixIn \in [Channels -> SUBSET Tag] /\ mix \subseteq Tag /\ channelA \subseteq Tag
  /\ sampleNo \in Sample

InSlot(o) == delayState = o + 1

\* Seven ticks are just enough: what is latched at the end of a slot has come
\* all the way through the two tables from this sample's phase of this operator
\* (opl2.v 606-609, operator.v 188-191: "so out has had a chance to propagate").
OutputSettled ==
  delayState # 0 /\ LastTick => out = [op |-> OpNum, sample |-> sampleNo]

\* The mixer and the operators share the outputs without a lock: the mixer is
\* ahead of the first slots, so what goes to the DAC is one sample, complete:
\* the one before the sample that has just ended (opl2.v 618-727, 606-609).
OneSamplePlayed ==
  channelA = {[op |-> o, sample |-> Former(Former(sampleNo))] : o \in Ops}

\* When a carrier takes its modulation (two ticks into its slot) the modulator
\* has already been computed in the same sample (opl2.v 375-529).
ModulatorFirst ==
  SlotEn2 /\ Modulator[OpNum] # None =>
    operatorOut[Modulator[OpNum]] = [op |-> Modulator[OpNum], sample |-> sampleNo]

\* The feedback of an operator is the sum of its last two outputs: when it takes
\* them they are those of the two samples before this one (operator.v 188-211).
FeedbackOf(o) ==
  SlotEn2 /\ OpNum = o => /\ feedback1[o].sample = Former(sampleNo)
                          /\ feedback2[o].sample = Former(Former(sampleNo))
FeedbackPairs == \A o \in Ops \ {0} : FeedbackOf(o)

\* The same of every operator, as the comment in operator.v 188-191 has it: the
\* latch pulse comes in the last cycle of the time slot.
EveryFeedbackPairs == \A o \in Ops : FeedbackOf(o)

\* The operators share one pipeline and three output registers without mixing up two
\* operators or two samples: what an operator gets and gives belongs to its slot
\* (opl2.v 531-609, operator.v 178-217).
SlotsInOrder == OutputSettled /\ ModulatorFirst /\ FeedbackPairs

\* A note starts for an operator: its key is down in this sample and was up in
\* the one before, or so is its drum bit in rhythm mode.  The second operator of
\* the bass drum is left out: its own slot has already moved on the detector it
\* shares, so its pulse lasts one tick.
FirstOf(d) == CHOOSE o \in Ops : RhythmOf[o] = d /\ \A p \in Ops : RhythmOf[p] = d => p >= o
NoteStarts(o) ==
  \/ now.kon[ChannelOf[o]] /\ ~before.kon[ChannelOf[o]]
  \/ /\ Rhythm(o) /\ before.ryt /\ o = FirstOf(RhythmOf[o])
     /\ now.drum[RhythmOf[o]] /\ ~before.drum[RhythmOf[o]]

\* A note that starts is in its attack within that sample, in rhythm mode or not,
\* whatever its envelope was doing and whatever key-off is still pending
\* (operator.v 106-186, envelope_generator.v 109-121).
KeyOnHeard ==
  \A o \in Ops : InSlot(o) /\ LastTick /\ NoteStarts(o) => env[o] = "ATTACK"

\* It restarts the phase two ticks after the slot opened, when the pulse of this
\* sample, not the one of the last, is on the wire (phase_generator.v 116-128).
PhaseRestarts ==
  \A o \in Ops : InSlot(o) /\ delayCounter = 3 /\ NoteStarts(o) => phase[o].restarted

\* A key that is up again releases both operators, if they do not play drums.
KeyOffHeard ==
  \A o \in Ops : /\ InSlot(o) /\ LastTick /\ ~now.kon[ChannelOf[o]] /\ before.kon[ChannelOf[o]]
                 /\ ~now.ryt /\ ~before.ryt
    => env[o] = "RELEASE"

\* A key event that is sampled is heard, in its sample, by the envelope and the
\* phase of every operator of the channel.
KeysHeard == KeyOnHeard /\ PhaseRestarts /\ KeyOffHeard

\* The player writes a key-on only after the core has sampled the key-off before
\* it, so that no note is swallowed (imfplay.c 460-466: "FPGA can miss key-off,
\* key-on event").
NoKeyOffSkipped ==
  [][\A c \in Keys : reg'.kon[c] /\ ~reg.kon[c] => ~now.kon[c]]_vars
=============================================================================
