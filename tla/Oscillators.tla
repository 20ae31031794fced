----------------------------- MODULE Oscillators -----------------------------
(* The two low-frequency oscillators of fpga/opl3, vibrato.v and tremolo.v.   *)
(* A step is one operator slot, in which sample_clk_en of opl2.v 573 is up    *)
(* for one tick.                                                              *)
EXTENDS Integers

NumOps         == 18      \* slots in a sample
VibratoLen     == 8192    \* 2 ^ VIBRATO_INDEX_WIDTH
TremoloMaxCount == 13312

VARIABLES opNum, vibratoIndex, tremoloIndex

vars == <<opNum, vibratoIndex, tremoloIndex>>

Init == opNum = 0 /\ vibratoIndex = 0 /\ tremoloIndex = 0

Vibrato == vibratoIndex' = (vibratoIndex + 1) % VibratoLen
Tremolo == tremoloIndex' = IF opNum = 0 THEN (tremoloIndex + 1) % TremoloMaxCount
                           ELSE tremoloIndex

Slot == Vibrato /\ Tremolo /\ opNum' = (opNum + 1) % NumOps

Next == Slot

Spec == Init /\ [][Next]_vars

-----------------------------------------------------------------------------

\* The vibrato is an oscillator of the sample clock: "6.07Hz (Sample Freq/2**13)"
\* (vibrato.v 69-72).  It steps once in a sample, with the tremolo.
VibratoFollowsSamples ==
  [][vibratoIndex' # vibratoIndex <=> tremoloIndex' # tremoloIndex]_vars
=============================================================================
