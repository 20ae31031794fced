---------------------------- MODULE SampleCapture ----------------------------
(* The capture of the SIN_TEST build: CaptureData (main.c 157-206) polls the   *)
(* sample registers (pano_top.v 541-600) while the core stores a sample every  *)
(* period.  A step is one clock of the CPU; samples are numbered modulo eight. *)
EXTENDS Integers, Sequences

CONSTANTS
  SampleClocks,        \* CPU clocks in a sample (2000)
  HighClocks,          \* for which the sample clock is high (1024)
  StoreClock,          \* from its rise to the new sample in channel_a (4)
  MinPause, MaxPause,  \* bounds: clocks of the CPU between two accesses
  LogClocks,           \* bound: clocks LOG may take, more than two samples
  CaptureLen           \* CAPTURE_BUF_LEN

\* The sample is stored before a program that has seen the flag can read it, and two
\* accesses as far apart as they may be fit into a sample.
ASSUME CaptureAssumption ==
  /\ SampleClocks \in Nat /\ HighClocks \in 1 .. SampleClocks - 1
  /\ {MinPause, MaxPause, LogClocks} \subseteq Nat /\ CaptureLen \in Nat \ {0}
  /\ StoreClock \in 0 .. MinPause + 4
  /\ 2 * MaxPause + 8 <= SampleClocks

VARIABLES
  clock, sample,            \* the phase and the number of the current sample
  lastClk, rdy, ovfl,       \* opl3_last_sample_clk, opl3_data_rdy, opl3_data_ovfl
  rdata,                    \* gpio_rdata
  access,                   \* clock of the access: 0 none, 1 first, 2 second
  pause,                    \* clocks since the last access
  step,                     \* index into Clearing, then the loop
  captureBuf                \* CaptureBuf, what has been captured of it

captureVars == <<clock, sample, lastClk, rdy, ovfl, rdata, access, pause, step, captureBuf>>

\* OPL3_OUTPUT is read twice before and twice after the two lines of the log.
Clearing == <<"data", "data", "log", "data", "data">>
\* Wrong: what has come during the log is not cleared.
StepsNoClear == <<"data", "data", "log">>
Steps == Clearing

CaptureInit ==
  /\ clock \in 0 .. SampleClocks - 1 /\ sample = 0
  /\ lastClk \in BOOLEAN /\ rdy \in BOOLEAN /\ ovfl \in BOOLEAN
  /\ rdata = <<>> /\ access = 0 /\ pause = 0 /\ step = 1 /\ captureBuf = <<>>

PollStep == Len(Steps) + 1
TakeStep == Len(Steps) + 2
EndStep == Len(Steps) + 3
Here == CASE step <= Len(Steps) -> Steps[step] [] step = PollStep -> "status"
          [] step = TakeStep -> "take" [] OTHER -> "end"

-----------------------------------------------------------------------------
(* The registers.                                                             *)

SampleClk == clock < HighClocks
Channel == IF clock >= StoreClock THEN sample ELSE (sample + 7) % 8

\* The core, a quarter as fast, goes its way.
Core == /\ clock' = IF clock + 1 = SampleClocks THEN 0 ELSE clock + 1
        /\ sample' = IF clock + 1 = SampleClocks THEN (sample + 1) % 8 ELSE sample

Rises == SampleClk /\ ~lastClk

\* The select is up in both clocks of an access; a read of the data clears the flags
\* even if they are set in the same clock.
Selected(reg) == access # 0 /\ reg = (IF Here = "status" THEN "status" ELSE "data")
Registers ==
  /\ lastClk' = SampleClk
  /\ rdy' = (~Selected("data") /\ (Rises \/ rdy))
  /\ ovfl' = (~Selected("data") /\ ((Rises /\ rdy) \/ ovfl))
  /\ rdata' = IF Selected("data") THEN <<Channel>> ELSE IF Selected("status") THEN <<ovfl, rdy>> ELSE rdata

-----------------------------------------------------------------------------
(* The program.                                                               *)

LongestPause == IF Here = "log" THEN LogClocks ELSE MaxPause

Computes == /\ access = 0 /\ Here # "end" /\ pause < LongestPause /\ pause' = pause + 1
            /\ UNCHANGED <<access, step, captureBuf>>

Logged == /\ access = 0 /\ Here = "log" /\ pause >= MinPause
          /\ step' = step + 1 /\ pause' = 0 /\ UNCHANGED <<access, captureBuf>>

Accesses == /\ access = 0 /\ Here \notin {"log", "end"} /\ pause >= MinPause
            /\ access' = 1 /\ pause' = 0 /\ UNCHANGED <<step, captureBuf>>

Selects == access = 1 /\ access' = 2 /\ UNCHANGED <<pause, step, captureBuf>>

\* The CPU takes what the first clock has put into gpio_rdata.
Takes ==
  /\ access = 2 /\ access' = 0 /\ UNCHANGED pause
  /\ CASE Here = "status" -> /\ step' = IF rdata[1] THEN EndStep ELSE IF rdata[2] THEN TakeStep ELSE PollStep
                             /\ UNCHANGED captureBuf
       [] Here = "take" -> /\ captureBuf' = Append(captureBuf, rdata[1])
                           /\ step' = IF Len(captureBuf) + 1 = CaptureLen THEN EndStep ELSE PollStep
       [] OTHER -> step' = step + 1 /\ UNCHANGED captureBuf

CaptureData == Core /\ Registers /\ (Computes \/ Logged \/ Accesses \/ Selects \/ Takes)
Captured == Here = "end" /\ access = 0
CaptureSpec == CaptureInit /\ [][CaptureData]_captureVars

-----------------------------------------------------------------------------
CaptureTypeOK ==
  /\ clock \in 0 .. SampleClocks - 1 /\ sample \in 0 .. 7 /\ {lastClk, rdy, ovfl} \subseteq BOOLEAN
  /\ access \in 0 .. 2 /\ pause \in 0 .. LogClocks /\ step \in 1 .. Len(Clearing) + 3
  /\ captureBuf \in Seq(0 .. 7) /\ Len(captureBuf) <= CaptureLen

\* Every sample is captured, once and in order, and the capture never gives up: although
\* the flag is up before the sample is stored, a read clears it twice, and a sample that
\* comes with the read would be lost without an overflow.  It holds as long as the CPU
\* takes less than half a sample from one access to the next (pano_top.v 544-578).
SamplesCaptured ==
  /\ \A i \in 1 .. Len(captureBuf) - 1 : captureBuf[i + 1] = (captureBuf[i] + 1) % 8
  /\ Captured => Len(captureBuf) = CaptureLen
=============================================================================
