----------------------------- MODULE TimerDelay -----------------------------
(* The busy waits of the firmware: delay_us, delay_ms and TimerDelay           *)
(* (pano_time.c, main.c 236-241) over the cycle counter of the CPU.            *)
EXTENDS Integers

CONSTANTS
  TickRange,   \* values of ticks() (2^32)
  CyclePerUs,  \* 100
  UsPerMs,     \* 1000
  MaxGap       \* bound: cycles between two readings of the counter

ASSUME TimerAssumption == {TickRange, CyclePerUs, UsPerMs, MaxGap} \subseteq Nat \ {0}

VARIABLES
  tick,     \* ticks()
  busy,     \* a delay is running
  start,    \* its local variable
  us,       \* its parameter
  left,     \* calls of delay_us that delay_ms has still to make
  gap,      \* cycles since the counter was last read
  elapsed,  \* history: cycles since start was read
  waited,   \* history: cycles since the outermost call
  asked     \* history: cycles of the delays begun since then

timerVars == <<tick, busy, start, us, left, gap, elapsed, waited, asked>>

TimerInit ==
  /\ tick \in 0 .. TickRange - 1 /\ busy = FALSE /\ start = 0 /\ us = 0 /\ left = 0
  /\ gap = 0 /\ elapsed = 0 /\ waited = 0 /\ asked = 0

\* Unsigned subtraction.
Minus(a, b) == IF a >= b THEN a - b ELSE a - b + TickRange
Cycles(n) == CyclePerUs * n
Limit == Cycles(us) % TickRange

DelayUs(n) ==
  /\ ~busy /\ busy' = TRUE
  /\ us' = n /\ left' = 0 /\ start' = tick
  /\ gap' = 0 /\ elapsed' = 0 /\ waited' = 0 /\ asked' = Cycles(n)
  /\ UNCHANGED tick

DelayMs(n) ==
  /\ ~busy /\ n > 0 /\ busy' = TRUE
  /\ us' = UsPerMs /\ left' = n - 1 /\ start' = tick
  /\ gap' = 0 /\ elapsed' = 0 /\ waited' = 0 /\ asked' = Cycles(UsPerMs)
  /\ UNCHANGED tick

Cycle ==
  /\ busy /\ gap < MaxGap
  /\ tick' = IF tick + 1 = TickRange THEN 0 ELSE tick + 1
  /\ gap' = gap + 1 /\ elapsed' = elapsed + 1 /\ waited' = waited + 1
  /\ UNCHANGED <<busy, start, us, left, asked>>

\* Wrong: the deadline is compared, not the difference.
OverDeadline == tick >= (start + Limit) % TickRange
Over == Minus(tick, start) >= Limit

\* The condition of the loop holds: the counter is read again.
PollAgain == /\ busy /\ gap > 0 /\ ~Over /\ gap' = 0
             /\ UNCHANGED <<tick, busy, start, us, left, elapsed, waited, asked>>

Again == /\ busy /\ Over /\ left > 0
         /\ left' = left - 1 /\ start' = tick /\ elapsed' = 0 /\ gap' = 0
         /\ asked' = asked + Cycles(us)
         /\ UNCHANGED <<tick, busy, us, waited>>

Return == /\ busy /\ Over /\ left = 0
          /\ busy' = FALSE
          /\ UNCHANGED <<tick, start, us, left, gap, elapsed, waited, asked>>

TimerRuns == Cycle \/ PollAgain \/ Again \/ Return
TimerNext == TimerRuns \/ \E n \in Nat : DelayUs(n) \/ DelayMs(n)
TimerSpec == TimerInit /\ [][TimerNext]_timerVars

-----------------------------------------------------------------------------
TimerTypeOK ==
  /\ {tick, start} \subseteq 0 .. TickRange - 1
  /\ busy \in BOOLEAN /\ {us, left, elapsed, waited, asked} \subseteq Nat /\ gap \in 0 .. MaxGap

\* The product with CYCLE_PER_US does not wrap.
Fits == Cycles(us) < TickRange

\* No delay ends early, wherever the counter stands when it begins, also when it wraps
\* in the middle (pano_time.c 36-43, main.c 236-241).
DelayHolds == [][busy /\ ~busy' /\ Fits => waited >= asked]_timerVars
=============================================================================
