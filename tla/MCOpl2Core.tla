----------------------------- MODULE MCOpl2Core -----------------------------
(* Instances of Opl2Core for TLC.                                             *)
EXTENDS Opl2Core

\* A plain operator, and a channel of two operators that is the bass drum in
\* rhythm mode.
MCChannelOf == [o \in 0 .. 2 |-> IF o = 0 THEN 0 ELSE 1]
MCModulator == [o \in 0 .. 2 |-> IF o < 2 THEN None ELSE 1]
MCBassDrum  == [o \in 0 .. 2 |-> IF o = 0 THEN None ELSE "BD"]
MCNoDrums   == [o \in 0 .. 2 |-> None]

\* The register file is read at one edge of the sample only, so for the key
\* events the CPU may as well write at two fixed ticks.
MCKeys == Init /\ [][Next /\ (reg' # reg => cntr \in {8, 9})]_vars

\* What the key events depend on: not the data path.
KeyView ==
  <<reg, pace, cntr, sampleClkEn, now, before, delayState, delayCounter, onEdge, offEdge,
    drumEdge, env, [o \in Ops |-> delayCounter = 3 /\ phase[o].restarted]>>
=============================================================================
