----------------------------- MODULE SynthAudio ------------------------------
(* The synthesiser and what carries its samples away: the sample registers and *)
(* the clocks of opl2.v drive audio.v, which drives the codec.  The CPU does   *)
(* not write here: no tag of the data path depends on it.                      *)
EXTENDS Opl2Core, AudioSerializer

CONSTANT HighTicks  \* ticks for which the sample clock is high (256)

ASSUME HighTicksAssumption == HighTicks \in 1 .. Period - 1

\* A sample lasts longer than a frame, of a bit every second tick.
ASSUME FrameAssumption == Period > 2 * Bits + 2

VARIABLES
  sampleClk, bclk,  \* opl2.v: sample_clk and sample_clk_128
  stored            \* history: a sample has been stored since the reset

audioVars == <<serVars, sampleClk, bclk, stored>>
synthVars == <<vars, audioVars>>

\* No reset reaches sample_clk_128.
AudioInit ==
  /\ Init /\ SerializerInit({})
  /\ sampleClk = FALSE /\ bclk \in BOOLEAN /\ stored = FALSE

\* Mutant of AudioClock: the sample clock rises before the sample is stored.
AudioClockEarly ==
  /\ sampleClk' = ((cntr + 4) % Period < HighTicks)
  /\ bclk' = (cntr % 2 = 0)

\* Mutant of AudioClock: the bit clock is bit 3 of the counter.
AudioClockSlowBits ==
  /\ sampleClk' = (cntr < HighTicks)
  /\ bclk' = ((cntr \div 8) % 2 = 0)

AudioClock ==
  /\ sampleClk' = (cntr < HighTicks)
  /\ bclk' = (cntr % 2 = 0)

AudioNext ==
  /\ Tick /\ AudioClock
  /\ Serialize(sampleClk, bclk, channelA)
  /\ Codec(~bclk /\ bclk')
  /\ stored' = (stored \/ sampleClkEn)

AudioSpec == AudioInit /\ [][AudioNext]_synthVars

-----------------------------------------------------------------------------
(* Properties.                                                                *)

\* Every register of the serializer stays in its range: the bit counter stops at
\* the end of the frame (audio.v 53-67).
AudioTypeOK ==
  /\ {lastSampleClk, lastBclk, startCycle, lrc, sampleClk, bclk, stored} \subseteq BOOLEAN
  /\ bitCntr \in 0 .. Bits /\ dacdat.bit \in 0 .. Bits - 1
  /\ codec.got \in 0 .. Bits /\ codec.ok \in BOOLEAN
  /\ dacdat.of \subseteq Tag /\ codec.of \subseteq Tag

SynthTypeOK == TypeOK /\ AudioTypeOK

\* The serializer picks its bits from the live sample registers, without a copy,
\* so a frame must start after they have changed and end before they change again:
\* the codec never gets a frame made of two samples, nor one with a bit missing,
\* repeated or out of place (audio.v 53-67).
FramesWhole == codec.of # {} => codec.ok

\* No sample is skipped: when the next one is about to be stored the codec has all
\* the bits of the one before (audio.v 28-31, opl2.v 188-191).
EverySampleSent == sampleClkEn /\ stored => codec.got = Bits /\ codec.of = channelA

\* What the codec hears is every sample, once, with all its channels, and nothing that is
\* made of two: mixer, operators and serializer work on the same registers at their own
\* pace (opl2.v 188-191, 618-727, audio.v 28-67).
SamplesDelivered == OneSamplePlayed /\ FramesWhole /\ EverySampleSent
=============================================================================
