--------------------------- MODULE SynthAudioInv ---------------------------
(* The inductive invariants of Opl2Core and SynthAudio: where every register  *)
(* stands at each tick of the sample.  Checked by TLC, proved inductive in    *)
(* SynthAudioProofs.                                                          *)
EXTENDS SynthAudio

\* The slot of an operator is over; its edge detectors have moved.
Ended(o)  == delayState = 0 \/ delayState > o + 1
Passed(o) == Ended(o) \/ (InSlot(o) /\ delayCounter > 0)

\* The sequencer follows the sample counter: slot after slot from the third tick,
\* then none until the next sample.
SeqInv ==
  /\ sampleClkEn <=> cntr = 1
  /\ delayState # 0 => cntr = PipelineDelay * delayState - 5 + delayCounter
  /\ delayState = 0 => cntr < 2 \/ cntr > PipelineDelay * NumOps + 1

-----------------------------------------------------------------------------
(* Key events.                                                                *)

\* The key-on detectors: their second register is the key bit of the sample before.
OnInv ==
  \A o \in Ops : LET c == ChannelOf[o] IN
    IF Passed(o) THEN onEdge[o] = [r0 |-> now.kon[c], r1 |-> before.kon[c]]
                 ELSE onEdge[o].r0 = before.kon[c]

\* The key-off detectors, which stand still in rhythm mode.
Drumming(regs, o) == regs.ryt /\ RhythmOf[o] # None
OffInv ==
  \A o \in Ops : LET c == ChannelOf[o] IN
    IF Passed(o)
    THEN ~Drumming(now, o) => /\ offEdge[o].r0 = now.kon[c]
                              /\ ~Drumming(before, o) => offEdge[o].r1 = before.kon[c]
    ELSE ~Drumming(before, o) => offEdge[o].r0 = before.kon[c]

\* The drum detectors, one for all operators of a drum.
DrumInv ==
  \A o \in Ops : LET d == RhythmOf[o] IN d # None =>
    /\ now.ryt /\ Passed(o) => drumEdge[d].r0 = now.drum[d]
    /\ before.ryt /\ (\A p \in Ops : RhythmOf[p] = d => ~Passed(p)) => drumEdge[d].r0 = before.drum[d]
    /\ o = FirstOf(d) /\ now.ryt /\ before.ryt /\ InSlot(o) /\ delayCounter > 0
         => drumEdge[d].r1 = before.drum[d]

\* The pulse is there from the second tick of the slot, and is followed at once.
KeyUp(o) == ~now.kon[ChannelOf[o]] /\ before.kon[ChannelOf[o]] /\ ~now.ryt /\ ~before.ryt
EnvInv ==
  \A o \in Ops : InSlot(o) /\ delayCounter > 1 =>
    /\ NoteStarts(o) => env[o] = "ATTACK"
    /\ KeyUp(o) => env[o] = "RELEASE"
    /\ delayCounter > 2 /\ NoteStarts(o) => phase[o].restarted

KeyInv == OnInv /\ OffInv /\ DrumInv /\ EnvInv

-----------------------------------------------------------------------------
(* The data path.                                                             *)

PhaseInv ==
  \A o \in Ops : Ended(o) \/ (InSlot(o) /\ delayCounter > 2) => phase[o].sample = sampleNo

\* The pipeline fills while the phase stands; after the last slot the phase of
\* the first operator is already there.
Filled == IF delayState = 0 THEN delayCounter ELSE delayCounter - 3
PipeInv ==
  LET tag == [op |-> OpNum, sample |-> sampleNo] IN
    /\ Filled > 0 => sine = tag
    /\ Filled > 1 => exp = tag
    /\ Filled > 2 => out = tag

\* The output registers of an operator change at the end of its slot.
OutInv ==
  \A o \in Ops :
    /\ operatorOut[o] = [op |-> o, sample |-> IF Ended(o) THEN sampleNo ELSE Former(sampleNo)]
    /\ o # 0 => /\ feedback1[o].sample = IF Ended(o) THEN sampleNo ELSE Former(sampleNo)
                /\ feedback2[o].sample = IF Ended(o) THEN Former(sampleNo)
                                         ELSE Former(Former(sampleNo))

-----------------------------------------------------------------------------
(* The mixer.                                                                 *)

Mixed(s, chs) == {[op |-> o, sample |-> s] : o \in {p \in Ops : ChannelOf[p] \in chs}}

MixInv ==
  /\ calcState = "CALC" => /\ cntr = channel + 2
                           /\ mixIn[channel] = Mixed(Former(sampleNo), {channel})
                           /\ mix = Mixed(Former(sampleNo), 0 .. channel - 1)
  /\ calcState = "IDLE" => /\ channel = 0
                           /\ cntr < 2 \/ cntr > NumChannels + 1
                           /\ mix = Mixed(Former(sampleNo), Channels)
  /\ OneSamplePlayed

CoreInv == TypeOK /\ SeqInv /\ KeyInv /\ PhaseInv /\ PipeInv /\ OutInv /\ MixInv

-----------------------------------------------------------------------------
(* The serializer.                                                            *)

\* The clocks the serializer looks at.
ClockInv ==
  /\ cntr = 0 => ~sampleClk
  /\ cntr > 0 => (bclk <=> cntr % 2 = 1) /\ (sampleClk <=> cntr <= HighTicks)
  /\ cntr = 1 => ~lastSampleClk
  /\ cntr > 1 => (lastBclk <=> ~bclk) /\ (cntr - 1 <= HighTicks => lastSampleClk)
  /\ startCycle <=> cntr = 2
  /\ cntr > 1 => stored

\* Bit number n is put on the line at tick 2 n + 2.
LineInv ==
  /\ cntr < 3 \/ cntr > 2 * Bits => bitCntr = Bits
  /\ cntr \in 3 .. 2 * Bits + 2 => /\ bitCntr > 0
                                   /\ 2 * bitCntr = IF bclk THEN cntr - 1 ELSE cntr - 2
                                   /\ dacdat = [of |-> channelA, bit |-> bitCntr - 1]
  /\ cntr > 2 => (lrc <=> cntr < 5)

\* The codec takes it two ticks later.
FrameInv ==
  /\ codec.got > 0 /\ (codec.of # {} => codec.ok)
  /\ cntr < 3 => IF lrc THEN dacdat.of = {} /\ codec.of = {} ELSE codec.got = Bits
  /\ cntr = 0 /\ lrc => ~lastBclk
  /\ cntr \in 5 .. 2 * Bits + 2 =>
       /\ codec = [of |-> channelA, got |-> codec.got, ok |-> TRUE]
       /\ 2 * codec.got = IF bclk THEN cntr - 3 ELSE cntr - 4
  /\ cntr > 2 * Bits + 2 \/ (cntr < 2 /\ stored) =>
       ~lrc /\ codec = [of |-> channelA, got |-> Bits, ok |-> TRUE]

AudioInv == CoreInv /\ AudioTypeOK /\ ClockInv /\ LineInv /\ FrameInv

-----------------------------------------------------------------------------
(* The instance of SynthAudio with the numbers of the code, for TLC.          *)

\* The eighteen operators of opl2.v 375-529.
AllChannelOf == [o \in 0 .. 17 |-> 3 * (o \div 6) + (o % 3)]
AllModulator == [o \in 0 .. 17 |-> IF o % 6 < 3 THEN None ELSE o - 3]
AllNoDrums   == [o \in 0 .. 17 |-> None]
=============================================================================
