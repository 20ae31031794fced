--------------------------- MODULE AudioSerializer ---------------------------
(* fpga/audio.v: both channels of each sample go to the codec bit by bit (DSP *)
(* mode, 16 bits each), picked from the live sample registers.  A step is one *)
(* edge of the 25 MHz clock.                                                  *)
EXTENDS Integers

Bits == 32           \* 16 of the left channel, then 16 of the right

VARIABLES
  lastSampleClk, lastBclk, startCycle,
  bitCntr,
  lrc,
  dacdat,         \* the bit on the line: [of, bit], of which sample, which one
  codec           \* the frame the codec takes: [of, got, ok], of which sample,
                  \* how many bits it has got, and whether they were the right ones

serVars == <<lastSampleClk, lastBclk, startCycle, bitCntr, lrc, dacdat, codec>>

\* No reset reaches audio_dacdat and audio_daclrc; old is what they are left with.
SerializerInit(old) ==
  /\ lastSampleClk = FALSE /\ lastBclk = FALSE /\ startCycle = FALSE
  /\ bitCntr = Bits /\ lrc \in BOOLEAN
  /\ dacdat = [of |-> old, bit |-> 0] /\ codec = [of |-> old, got |-> Bits, ok |-> TRUE]

\* Mutant of Serialize: the counter is not stopped at the end of the frame.
SerializeNoStop(sampleClk, bclk, sample) ==
  LET falls == ~bclk /\ lastBclk
      rises == sampleClk /\ ~lastSampleClk
      n == IF startCycle THEN 0 ELSE bitCntr
  IN  /\ lastBclk' = bclk /\ lastSampleClk' = sampleClk
      /\ startCycle' = IF falls /\ startCycle THEN FALSE ELSE startCycle \/ rises
      /\ lrc' = IF falls THEN startCycle ELSE lrc
      /\ IF falls
         THEN dacdat' = [of |-> sample, bit |-> n % Bits] /\ bitCntr' = n + 1
         ELSE UNCHANGED <<dacdat, bitCntr>>

\* On a falling bclk the next bit, the first one when the sample clock has risen.
\* A start that comes in the very tick in which one is used is overwritten.
Serialize(sampleClk, bclk, sample) ==
  LET falls == ~bclk /\ lastBclk
      rises == sampleClk /\ ~lastSampleClk
      n == IF startCycle THEN 0 ELSE bitCntr
  IN  /\ lastBclk' = bclk /\ lastSampleClk' = sampleClk
      /\ startCycle' = IF falls /\ startCycle THEN FALSE ELSE startCycle \/ rises
      /\ lrc' = IF falls THEN startCycle ELSE lrc
      /\ IF falls /\ n < Bits
         THEN dacdat' = [of |-> sample, bit |-> n] /\ bitCntr' = n + 1
         ELSE UNCHANGED <<dacdat, bitCntr>>

\* The codec takes a bit when bclk rises; lrc marks the first of a frame, and what
\* comes after the last is ignored.
Codec(rises) ==
  codec' = IF ~rises \/ (~lrc /\ codec.got = Bits) THEN codec
           ELSE IF lrc THEN [of |-> dacdat.of, got |-> 1, ok |-> dacdat.bit = 0]
           ELSE [of |-> codec.of, got |-> codec.got + 1,
                 ok |-> codec.ok /\ dacdat = [of |-> codec.of, bit |-> codec.got]]
=============================================================================
