----------------------------- MODULE MCEnvelope -----------------------------
(* Patches for TLC: fast rates keep the counter to a few values.              *)
EXTENDS Envelope

Organ == [ar |-> 15, dr |-> 14, sl |-> 4, rr |-> 13, egt |-> TRUE, ksr |-> FALSE, bit |-> 0,
          block |-> 4, fnum |-> 8, ksl |-> 0, tl |-> 0, am |-> FALSE]
\* Everything that attenuates at once, in the highest octave.
Cymbal == [ar |-> 12, dr |-> 10, sl |-> 15, rr |-> 11, egt |-> FALSE, ksr |-> TRUE, bit |-> 1,
           block |-> 7, fnum |-> 15, ksl |-> 3, tl |-> 63, am |-> TRUE]
\* Rates of zero: a note that never falls by itself.
Drone == [ar |-> 14, dr |-> 0, sl |-> 0, rr |-> 0, egt |-> FALSE, ksr |-> FALSE, bit |-> 0,
          block |-> 0, fnum |-> 2, ksl |-> 1, tl |-> 8, am |-> FALSE]
ThreePatches == {Organ, Cymbal, Drone}
=============================================================================
