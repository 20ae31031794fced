----------------------------- MODULE MCFirmware -----------------------------
(* An instance of Firmware for TLC: two blocks of two words, three KB of memory, *)
(* the codec's address and the flash the loader wants, or another one.         *)
EXTENDS Firmware

MCFlashData == [i \in 0 .. 15 |-> 16 * i + (i % 5)]
MCFlashIds == {<<32, 32, 20>>, <<32, 32, 4>>}
MCDeviceData == [i \in {} |-> 0]
=============================================================================
