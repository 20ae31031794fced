--------------------------- MODULE LibraryProofs ----------------------------
(* Proofs about the player's library.  The timer: no delay ends early, for     *)
(* every width of the counter and every clock rate.  The capture: no sample is *)
(* lost, for every length of the sample, every pace of the program within a    *)
(* bound and every length of the capture.  The string functions: they do what  *)
(* C promises, for every memory and every call that C allows; and printf keeps *)
(* to its buffer.                                                              *)
EXTENDS Library, WellFoundedInduction, TLAPS

-----------------------------------------------------------------------------
(* The timer.                                                                 *)

\* The difference of the counter never exceeds the time that has passed, and the delays
\* that are over have taken their time.
Bounded ==
  /\ TimerTypeOK
  /\ busy => /\ Minus(tick, start) <= elapsed
             /\ Fits => waited - elapsed >= asked - Cycles(us)

LEMMA CyclesNat == \A k \in Nat : Cycles(k) \in Nat
  BY TimerAssumption DEF Cycles

\* A limit that fits is the product itself.
LEMMA LimitFits == ASSUME us \in Nat, Fits PROVE Limit = Cycles(us)
<1>1. TickRange \in Nat \ {0}  BY TimerAssumption
<1>2. Cycles(us) \in Nat  BY CyclesNat
<1> QED  BY <1>1, <1>2 DEF Fits, Limit

LEMMA InitBounded == TimerInit => Bounded
<1>a. TimerInit => busy \in BOOLEAN  BY Zenon DEF TimerInit
<1>b. MaxGap \in Nat /\ TickRange \in Nat \ {0}  BY TimerAssumption
<1>1. TimerInit => TimerTypeOK  BY <1>a, <1>b DEF TimerInit, TimerTypeOK
<1>2. TimerInit => ~busy  BY DEF TimerInit
<1> QED  BY <1>1, <1>2 DEF Bounded

LEMMA StepBounded == Bounded /\ [TimerNext]_timerVars => Bounded'
<1> SUFFICES ASSUME Bounded, [TimerNext]_timerVars PROVE Bounded'
  OBVIOUS
<1>a. TickRange \in Nat \ {0} /\ UsPerMs \in Nat /\ MaxGap \in Nat  BY TimerAssumption
<1>t. TimerTypeOK  BY DEF Bounded
<1>1. ASSUME NEW k \in Nat, DelayUs(k) PROVE Bounded'
  <2>1. Cycles(k) \in Nat  BY CyclesNat
  <2>2. TimerTypeOK'  BY <1>1, <1>a, <1>t, <2>1 DEF DelayUs, TimerTypeOK
  <2> QED  BY <1>1, <1>a, <1>t, <2>1, <2>2 DEF DelayUs, TimerTypeOK, Bounded, Minus
<1>2. ASSUME NEW k \in Nat, DelayMs(k) PROVE Bounded'
  <2>1. Cycles(UsPerMs) \in Nat  BY CyclesNat, <1>a
  <2>2. TimerTypeOK'  BY <1>2, <1>a, <1>t, <2>1 DEF DelayMs, TimerTypeOK
  <2> QED  BY <1>2, <1>a, <1>t, <2>1, <2>2 DEF DelayMs, TimerTypeOK, Bounded, Minus
<1>3. CASE Cycle
  <2>1. TimerTypeOK'  BY <1>3, <1>a, <1>t DEF Cycle, TimerTypeOK
  <2>2. Minus(tick, start)' <= Minus(tick, start) + 1
    BY <1>3, <1>a, <1>t DEF Cycle, TimerTypeOK, Minus
  <2>3. Minus(tick, start) <= elapsed /\ Minus(tick, start) \in Int /\ Minus(tick, start)' \in Int
    BY <1>3, <1>a, <1>t, <2>1 DEF Cycle, TimerTypeOK, Bounded, Minus
  <2>4. Minus(tick, start)' <= elapsed'
    BY <1>3, <1>t, <2>2, <2>3 DEF Cycle, TimerTypeOK
  <2>5. Cycles(us) \in Nat  BY <1>t, CyclesNat DEF TimerTypeOK
  <2>6. (Fits => waited - elapsed >= asked - Cycles(us))'
    BY <1>3, <1>t, <2>5 DEF Cycle, TimerTypeOK, Bounded, Fits, Cycles
  <2> QED  BY <2>1, <2>4, <2>6 DEF Bounded
<1>4. CASE PollAgain
  BY <1>4, <1>a, <1>t DEF PollAgain, Bounded, TimerTypeOK, Minus, Fits, Cycles
<1>5. CASE Again
  <2>1. Cycles(us) \in Nat  BY <1>t, CyclesNat DEF TimerTypeOK
  <2>2. TimerTypeOK'  BY <1>5, <1>a, <1>t, <2>1 DEF Again, TimerTypeOK
  <2>3. Minus(tick, start)' <= elapsed'  BY <1>5, <1>a, <1>t DEF Again, TimerTypeOK, Minus
  <2>4. ASSUME Fits PROVE (waited - elapsed >= asked - Cycles(us))'
    <3>1. Minus(tick, start) >= Cycles(us)
      BY <1>5, <1>t, <2>4, LimitFits DEF Again, Over, TimerTypeOK
    <3>2. Minus(tick, start) \in Int  BY <1>a, <1>t DEF TimerTypeOK, Minus
    <3>3. elapsed >= Cycles(us)
      BY <1>5, <1>t, <2>1, <3>1, <3>2 DEF Again, Bounded, TimerTypeOK
    <3>4. waited >= asked
      BY <1>5, <1>t, <2>1, <2>4, <3>3 DEF Again, Bounded, TimerTypeOK
    <3> QED  BY <1>5, <1>t, <2>1, <3>4 DEF Again, TimerTypeOK, Cycles
  <2>5. Fits' <=> Fits  BY <1>5 DEF Again, Fits, Cycles
  <2> QED  BY <2>2, <2>3, <2>4, <2>5 DEF Bounded
<1>6. CASE Return
  BY <1>6, <1>a, <1>t DEF Return, Bounded, TimerTypeOK
<1>7. CASE UNCHANGED timerVars
  BY <1>7 DEF timerVars, Bounded, TimerTypeOK, Minus, Fits, Cycles
<1> QED  BY <1>1, <1>2, <1>3, <1>4, <1>5, <1>6, <1>7 DEF TimerNext, TimerRuns

\* The counter and the times stay in their ranges and related, in every state.
THEOREM TimerInvariant == TimerSpec => []Bounded
  BY InitBounded, StepBounded, PTL DEF TimerSpec

\* A delay of which the product fits never ends early: delay_us, delay_ms and TimerDelay
\* wait at least as long as they are asked to.
THEOREM NoDelayEndsEarly == TimerSpec => DelayHolds
<1>1. Bounded /\ [TimerNext]_timerVars => [busy /\ ~busy' /\ Fits => waited >= asked]_timerVars
  <2> SUFFICES ASSUME Bounded, TimerNext, busy, ~busy', Fits PROVE waited >= asked
    OBVIOUS
  <2>t. TimerTypeOK /\ TickRange \in Nat \ {0}  BY TimerAssumption DEF Bounded
  <2>1. Return
    BY DEF TimerNext, TimerRuns, DelayUs, DelayMs, Cycle, PollAgain, Again
  <2>2. Cycles(us) \in Nat  BY <2>t, CyclesNat DEF TimerTypeOK
  <2>3. Minus(tick, start) >= Cycles(us)
    BY <2>1, <2>t, LimitFits DEF Return, Over, TimerTypeOK
  <2>4. Minus(tick, start) \in Int  BY <2>t DEF TimerTypeOK, Minus
  <2>5. elapsed >= Cycles(us)  BY <2>t, <2>2, <2>3, <2>4 DEF Bounded, TimerTypeOK
  <2> QED  BY <2>t, <2>2, <2>5 DEF Bounded, TimerTypeOK
<1> QED  BY <1>1, TimerInvariant, PTL DEF TimerSpec, DelayHolds

-----------------------------------------------------------------------------
(* The capture.                                                               *)

\* The most clocks from the first clock of an access to that of the next; pause + 2
\* have passed of them when no access is under way.
MostClocks == MaxPause + 3

\* The last sample of which the clock has risen, and the one before it.
Risen == IF clock = 0 THEN (sample + 7) % 8 ELSE sample
Before(s) == (s + 7) % 8

TypeInv ==
  /\ clock \in 0 .. SampleClocks - 1 /\ sample \in 0 .. 7
  /\ lastClk \in BOOLEAN /\ rdy \in BOOLEAN /\ ovfl \in BOOLEAN
  /\ access \in 0 .. 2 /\ pause \in Nat /\ step \in 1 .. 8
  /\ access # 0 => pause = 0 /\ Here \notin {"log", "end"}
  /\ Here # "log" => pause <= MaxPause
  /\ captureBuf \in Seq(0 .. 7) /\ Len(captureBuf) <= CaptureLen

\* After the first clock the edge detector has seen the clock before.
EdgeInv ==
  \/ step = 1 /\ access = 0 /\ pause = 0
  \/ lastClk <=> (IF clock = 0 THEN FALSE ELSE clock - 1 < HighClocks)

\* Both clocks of a read of the data clear the flags.
ClearInv ==
  /\ access = 2 /\ Here \in {"data", "take"} => ~rdy /\ ~ovfl
  /\ Here \in {"status", "take"} => ~ovfl

\* While the program polls, the flag has been up no longer than since its last access:
\* the sample it announces is not stored yet, or it is the one after the last captured.
Announced ==
  /\ rdy => clock > 0
  /\ access = 0 /\ rdy => clock <= pause + 2
  /\ access = 1 /\ rdy => clock <= MostClocks
  /\ access = 2 => \/ rdata = <<FALSE, TRUE>> /\ rdy /\ clock \in 2 .. MostClocks + 1
                   \/ rdata = <<FALSE, FALSE>> /\ (rdy => clock = 1)
PollInv ==
  Here = "status" =>
    /\ Announced
    /\ captureBuf # <<>> => captureBuf[Len(captureBuf)] = IF rdy THEN Before(Risen) ELSE Risen

\* When it takes the sample, that is stored and the next one has not risen.
TakeInv ==
  Here = "take" =>
    /\ access = 0 => rdy /\ clock > pause + 2 /\ clock <= MostClocks + pause + 2
    /\ access = 1 => rdy /\ clock > MinPause + 3 /\ clock <= 2 * MostClocks
    /\ access = 2 => clock > MinPause + 4 /\ clock <= 2 * MostClocks + 1 /\ rdata = <<sample>>
    /\ captureBuf # <<>> => captureBuf[Len(captureBuf)] = Before(sample)

BufferInv ==
  /\ \A i \in 1 .. Len(captureBuf) - 1 : captureBuf[i + 1] = (captureBuf[i] + 1) % 8
  /\ step < PollStep => captureBuf = <<>>
  /\ Here \in {"status", "take"} => Len(captureBuf) < CaptureLen
  /\ Here = "end" => Len(captureBuf) = CaptureLen

CaptureInv == TypeInv /\ EdgeInv /\ ClearInv /\ PollInv /\ TakeInv /\ BufferInv

-----------------------------------------------------------------------------
(* Numbers and places of the program.                                         *)

LEMMA Numbers ==
  /\ SampleClocks \in Nat /\ HighClocks \in Nat /\ HighClocks > 0 /\ HighClocks < SampleClocks
  /\ MinPause \in Nat /\ MaxPause \in Nat /\ CaptureLen \in Nat /\ CaptureLen > 0
  /\ StoreClock \in Nat /\ StoreClock <= MinPause + 4
  /\ MostClocks \in Nat /\ MostClocks = MaxPause + 3 /\ 2 * MostClocks + 2 <= SampleClocks
BY CaptureAssumption DEF MostClocks

Located ==
  /\ step < 6 => Here \in {"data", "log"}
  /\ step = 5 => Here = "data"
  /\ step = 6 <=> Here = "status"
  /\ step = 7 <=> Here = "take"
  /\ step = 8 <=> Here = "end"

LEMMA Where == step \in 1 .. 8 => Located
BY DEF Located, Here, Steps, Clearing, PollStep, TakeStep

LEMMA WhereNext == (step \in 1 .. 8 => Located)'
<1>1. step \in 1 .. 8 => Located
  BY Where
<1> QED BY <1>1, PTL

LEMMA Places == PollStep = 6 /\ TakeStep = 7 /\ EndStep = 8
BY DEF PollStep, TakeStep, EndStep, Steps, Clearing

\* What the registers do in a clock, in each part of the program.
LEMMA FlagSteps ==
  ASSUME CaptureInv, CaptureData
  PROVE  /\ clock \in Nat /\ clock < SampleClocks /\ sample \in 0 .. 7
         /\ clock' = IF clock + 1 = SampleClocks THEN 0 ELSE clock + 1
         /\ sample' = IF clock + 1 = SampleClocks THEN (sample + 1) % 8 ELSE sample
         /\ lastClk' <=> clock < HighClocks
         /\ lastClk' \in BOOLEAN /\ rdy' \in BOOLEAN /\ ovfl' \in BOOLEAN
         /\ access # 0 /\ Here \in {"data", "take"} =>
              ~rdy' /\ ~ovfl' /\ rdata' = <<IF clock >= StoreClock THEN sample ELSE Before(sample)>>
         /\ Here = "status" \/ (Here = "take" /\ access = 0) =>
              (rdy' <=> clock = 0 \/ rdy) /\ (ovfl' <=> ovfl \/ (clock = 0 /\ rdy))
         /\ Here = "status" /\ access # 0 => rdata' = <<ovfl, rdy>>
<1>1. Core /\ Registers
  BY DEF CaptureData
<1>2. /\ clock \in Nat /\ clock < SampleClocks /\ sample \in 0 .. 7 /\ step \in 1 .. 8
      /\ lastClk \in BOOLEAN /\ rdy \in BOOLEAN /\ ovfl \in BOOLEAN /\ access \in 0 .. 2
  BY Numbers DEF CaptureInv, TypeInv
<1>3. lastClk' = (clock < HighClocks) /\ lastClk' \in BOOLEAN
  BY <1>1 DEF Registers, SampleClk
<1>4. rdy' = (~Selected("data") /\ (Rises \/ rdy)) /\ rdy' \in BOOLEAN
  BY <1>1 DEF Registers
<1>5. ovfl' = (~Selected("data") /\ ((Rises /\ rdy) \/ ovfl)) /\ ovfl' \in BOOLEAN
  BY <1>1 DEF Registers
<1>6. Selected("data") <=> access # 0 /\ Here # "status"
  BY DEF Selected
<1>7. rdata' = IF Selected("data") THEN <<Channel>>
               ELSE IF Selected("status") THEN <<ovfl, rdy>> ELSE rdata
  BY <1>1 DEF Registers
<1>8. Here = "status" \/ (Here = "take" /\ access = 0) =>
        (rdy' <=> clock = 0 \/ rdy) /\ (ovfl' <=> ovfl \/ (clock = 0 /\ rdy))
  <2>1. SUFFICES ASSUME Here = "status" \/ (Here = "take" /\ access = 0)
                 PROVE  (rdy' <=> clock = 0 \/ rdy) /\ (ovfl' <=> ovfl \/ (clock = 0 /\ rdy))
    OBVIOUS
  <2>2. step \in {6, 7}
    BY <1>2, <2>1, Where DEF Located
  <2>3. lastClk <=> (IF clock = 0 THEN FALSE ELSE clock - 1 < HighClocks)
    BY <2>2 DEF CaptureInv, EdgeInv
  <2>4. Rises <=> clock = 0
    BY <1>2, <2>3, Numbers DEF Rises, SampleClk
  <2>5. ~Selected("data")
    BY <1>6, <2>1
  <2> QED BY <1>4, <1>5, <2>4, <2>5
<1>9. access # 0 /\ Here \in {"data", "take"} =>
        ~rdy' /\ ~ovfl' /\ rdata' = <<IF clock >= StoreClock THEN sample ELSE Before(sample)>>
  BY <1>4, <1>5, <1>6, <1>7 DEF Channel, Before
<1>10. Here = "status" /\ access # 0 => rdata' = <<ovfl, rdy>>
  BY <1>6, <1>7 DEF Selected
<1>11. /\ clock' = IF clock + 1 = SampleClocks THEN 0 ELSE clock + 1
       /\ sample' = IF clock + 1 = SampleClocks THEN (sample + 1) % 8 ELSE sample
  BY <1>1 DEF Core
<1>12. lastClk' <=> clock < HighClocks
  BY <1>3
<1> QED BY <1>2, <1>3, <1>4, <1>5, <1>8, <1>9, <1>10, <1>11, <1>12

-----------------------------------------------------------------------------
(* A step of the program, by its place.                                       *)

Keeps == step' = step /\ captureBuf' = captureBuf /\ Here # "end"
Turns == access = 2 /\ access' = 0 /\ pause' = pause

Pauses   == Keeps /\ access = 0 /\ access' = 0 /\ pause' = pause + 1 /\ (Here # "log" => pause < MaxPause)
Begins   == Keeps /\ access = 0 /\ access' = 1 /\ pause >= MinPause /\ pause' = 0 /\ Here # "log"
Proceeds == Keeps /\ access = 1 /\ access' = 2 /\ pause' = pause
Leaves   == /\ step < 6 /\ step' = step + 1 /\ captureBuf' = captureBuf /\ access' = 0
            /\ \/ access = 0 /\ pause' = 0 /\ Here = "log"
               \/ Turns /\ Here = "data"
Finds    == Turns /\ step = 6 /\ captureBuf' = captureBuf /\ rdata = <<FALSE, TRUE>> /\ step' = 7
Misses   == Turns /\ step = 6 /\ captureBuf' = captureBuf /\ rdata = <<FALSE, FALSE>> /\ step' = 6
Puts     == /\ Turns /\ step = 7 /\ captureBuf' = Append(captureBuf, sample)
            /\ step' = IF Len(captureBuf) + 1 = CaptureLen THEN 8 ELSE 6
Moves == Pauses \/ Begins \/ Proceeds \/ Leaves \/ Finds \/ Misses \/ Puts

\* What each of them leaves of the access and of the buffer.
Outlined ==
  /\ access' \in 0 .. 2
  /\ \/ access' = 0
     \/ pause' = 0 /\ Keeps /\ Here # "log" /\ access = 0
     \/ pause' = pause /\ Keeps /\ access = 1
  /\ pause' \in {0, pause} \/ Pauses
  /\ pause' = 0 \/ access # 0 \/ Pauses
  /\ captureBuf' = captureBuf \/ Puts

LEMMA Outline == Moves => Outlined
<1>1. Pauses => Outlined
  BY DEF Pauses, Keeps, Outlined
<1>2. Begins => Outlined
  BY DEF Begins, Keeps, Outlined
<1>3. Proceeds => Outlined
  BY DEF Proceeds, Keeps, Outlined
<1>4. Leaves => Outlined
  BY DEF Leaves, Turns, Outlined
<1>5. Finds => Outlined
  BY DEF Finds, Turns, Outlined
<1>6. Misses => Outlined
  BY DEF Misses, Turns, Outlined
<1>7. Puts => Outlined
  BY DEF Puts, Turns, Outlined
<1> QED BY <1>1, <1>2, <1>3, <1>4, <1>5, <1>6, <1>7 DEF Moves

LEMMA Program ==
  ASSUME CaptureInv, CaptureData
  PROVE  Moves /\ Located /\ Located' /\ step \in 1 .. 8 /\ step' \in 1 .. 8
<1>1. /\ step \in 1 .. 8 /\ access \in 0 .. 2 /\ pause \in Nat
      /\ access # 0 => Here \notin {"log", "end"}
  BY DEF CaptureInv, TypeInv
<1>2. Located
  BY <1>1, Where
<1>3. Computes \/ Logged \/ Accesses \/ Selects \/ Takes
  BY DEF CaptureData
<1>4. Moves
  <2>1. CASE Computes
    <3>1. Pauses
      BY <2>1 DEF Computes, LongestPause, Pauses, Keeps
    <3> QED BY <3>1 DEF Moves
  <2>2. CASE Logged
    <3>1. Here = "log" /\ step < 6
      BY <1>1, <1>2, <2>2 DEF Logged, Located
    <3>2. Leaves
      BY <2>2, <3>1 DEF Logged, Leaves
    <3> QED BY <3>2 DEF Moves
  <2>3. CASE Accesses
    <3>1. Begins
      BY <2>3 DEF Accesses, Begins, Keeps
    <3> QED BY <3>1 DEF Moves
  <2>4. CASE Selects
    <3>1. Proceeds
      BY <1>1, <2>4 DEF Selects, Proceeds, Keeps
    <3> QED BY <3>1 DEF Moves
  <2>5. CASE Takes
    <3>1. access = 2 /\ Turns /\ Here \notin {"log", "end"}
      BY <1>1, <2>5 DEF Takes, Turns
    <3>2. CASE Here = "status"
      <4>1. step = 6
        BY <1>2, <3>2 DEF Located
      <4>2. captureBuf' = captureBuf
             /\ step' = IF rdata[1] THEN EndStep ELSE IF rdata[2] THEN TakeStep ELSE PollStep
        BY <2>5, <3>2 DEF Takes
      <4>3. rdata = <<FALSE, TRUE>> \/ rdata = <<FALSE, FALSE>>
        BY <3>1, <3>2 DEF CaptureInv, PollInv, Announced
      <4>4. CASE rdata = <<FALSE, TRUE>>
        <5>1. step' = 7
          BY <4>2, <4>4, Places
        <5> QED BY <3>1, <4>1, <4>2, <4>4, <5>1 DEF Finds, Moves
      <4>5. CASE rdata = <<FALSE, FALSE>>
        <5>1. step' = 6
          BY <4>2, <4>5, Places
        <5> QED BY <3>1, <4>1, <4>2, <4>5, <5>1 DEF Misses, Moves
      <4> QED BY <4>3, <4>4, <4>5
    <3>3. CASE Here = "take"
      <4>1. step = 7 /\ rdata = <<sample>>
        BY <1>2, <3>1, <3>3 DEF Located, CaptureInv, TakeInv
      <4>2. /\ captureBuf' = Append(captureBuf, rdata[1])
            /\ step' = IF Len(captureBuf) + 1 = CaptureLen THEN EndStep ELSE PollStep
        BY <2>5, <3>3 DEF Takes
      <4>3. rdata[1] = sample
        BY <4>1
      <4>4. Puts
        BY <3>1, <4>1, <4>2, <4>3, Places DEF Puts
      <4> QED BY <4>4 DEF Moves
    <3>4. CASE Here \notin {"status", "take"}
      <4>1. Here = "data" /\ step < 6
        BY <1>1, <1>2, <3>1, <3>4 DEF Located
      <4>2. step' = step + 1 /\ captureBuf' = captureBuf
        BY <2>5, <4>1 DEF Takes
      <4>3. Leaves
        BY <3>1, <4>1, <4>2 DEF Leaves, Turns
      <4> QED BY <4>3 DEF Moves
    <3> QED BY <3>2, <3>3, <3>4
  <2> QED BY <1>3, <2>1, <2>2, <2>3, <2>4, <2>5
<1>5. step' \in 1 .. 8
  <2>1. step' = step \/ step' \in {6, 7, 8} \/ (step < 6 /\ step' = step + 1)
    BY <1>4 DEF Moves, Keeps, Pauses, Begins, Proceeds, Leaves, Finds, Misses, Puts
  <2> QED BY <1>1, <2>1
<1>6. Located'
  BY <1>5, WhereNext
<1> QED BY <1>1, <1>2, <1>4, <1>5, <1>6

LEMMA TypeStep ==
  ASSUME CaptureInv, CaptureData
  PROVE  TypeInv'
<1>1. /\ access \in 0 .. 2 /\ pause \in Nat /\ captureBuf \in Seq(0 .. 7)
      /\ Len(captureBuf) <= CaptureLen /\ sample \in 0 .. 7
      /\ access # 0 => pause = 0 /\ Here \notin {"log", "end"}
      /\ Here # "log" => pause <= MaxPause
  BY DEF CaptureInv, TypeInv
<1>2. Moves /\ Located /\ Located' /\ step \in 1 .. 8 /\ step' \in 1 .. 8
  BY Program
<1>3. clock' \in 0 .. SampleClocks - 1 /\ sample' \in 0 .. 7
  BY FlagSteps, Numbers
<1>4. lastClk' \in BOOLEAN /\ rdy' \in BOOLEAN /\ ovfl' \in BOOLEAN
  BY FlagSteps
<1>5. Keeps => (Here' = "log" <=> Here = "log") /\ Here' # "end"
  BY DEF Here, Keeps
<1>6. access' \in 0 .. 2 /\ pause' \in Nat
  <2>1. access' \in 0 .. 2
    BY <1>2, Outline DEF Outlined
  <2>2. pause' \in {0, pause, pause + 1}
    BY <1>2, Outline DEF Outlined, Pauses
  <2> QED BY <1>1, <2>1, <2>2
<1>7. access' # 0 => pause' = 0 /\ Here' \notin {"log", "end"}
  <2>1. access' # 0 => pause' = 0 /\ Keeps /\ Here # "log"
    BY <1>1, <1>2, Outline DEF Outlined
  <2> QED BY <1>5, <2>1
<1>8. Here' # "log" => pause' <= MaxPause
  <2>1. CASE Pauses
    BY <1>1, <1>5, <2>1, Numbers DEF Pauses
  <2>2. CASE ~Pauses
    <3>1. pause' = 0 \/ (pause' = pause /\ access # 0)
      BY <1>2, <2>2, Outline DEF Outlined
    <3> QED BY <1>1, <3>1, Numbers
  <2> QED BY <2>1, <2>2
<1>9. captureBuf' \in Seq(0 .. 7) /\ Len(captureBuf') <= CaptureLen
  <2>1. CASE Puts
    <3>1. Len(captureBuf) < CaptureLen
      BY <1>2, <2>1 DEF Puts, Located, CaptureInv, BufferInv
    <3> QED BY <1>1, <2>1, <3>1, Numbers DEF Puts
  <2>2. CASE ~Puts
    <3>1. captureBuf' = captureBuf
      BY <1>2, <2>2, Outline DEF Outlined
    <3> QED BY <1>1, <3>1
  <2> QED BY <2>1, <2>2
<1> QED BY <1>2, <1>3, <1>4, <1>6, <1>7, <1>8, <1>9 DEF TypeInv

LEMMA EdgeStep ==
  ASSUME CaptureInv, CaptureData
  PROVE  EdgeInv'
<1>1. lastClk' <=> (IF clock' = 0 THEN FALSE ELSE clock' - 1 < HighClocks)
  BY FlagSteps, Numbers
<1> QED BY <1>1 DEF EdgeInv

LEMMA ClearStep ==
  ASSUME CaptureInv, CaptureData
  PROVE  ClearInv'
<1>1. Moves /\ Located /\ Located' /\ step \in 1 .. 8 /\ step' \in 1 .. 8
  BY Program
<1>2. ASSUME access' = 2, Here' \in {"data", "take"}
      PROVE  ~rdy' /\ ~ovfl'
  <2>1. Proceeds
    BY <1>1, <1>2 DEF Moves, Pauses, Begins, Leaves, Finds, Misses, Puts, Turns
  <2>2. access = 1 /\ step' = step
    BY <2>1 DEF Proceeds, Keeps
  <2>3. Here = Here'
    BY <2>2 DEF Here
  <2> QED BY <1>2, <2>2, <2>3, FlagSteps
<1>3. ASSUME Here' \in {"status", "take"}
      PROVE  ~ovfl'
  <2>1. step' \in {6, 7}
    BY <1>1, <1>3 DEF Located
  <2>2. CASE Leaves
    <3>1. step = 5 /\ Here = "data"
      BY <1>1, <2>1, <2>2 DEF Leaves, Located
    <3>2. access = 2
      BY <2>2, <3>1 DEF Leaves, Turns
    <3> QED BY <3>1, <3>2, FlagSteps
  <2>3. CASE ~Leaves
    <3>1. step \in {6, 7}
      BY <1>1, <2>1, <2>3 DEF Moves, Keeps, Pauses, Begins, Proceeds, Finds, Misses, Puts
    <3>2. Here = "status" \/ Here = "take"
      BY <1>1, <3>1 DEF Located
    <3>3. ~ovfl
      BY <3>2 DEF CaptureInv, ClearInv
    <3>4. CASE Here = "take" /\ access # 0
      BY <3>4, FlagSteps
    <3>5. CASE Here = "status"
      <4>1. ~(clock = 0 /\ rdy)
        BY <3>5 DEF CaptureInv, PollInv, Announced
      <4> QED BY <3>3, <3>5, <4>1, FlagSteps
    <3>6. CASE Here = "take" /\ access = 0
      <4>1. clock > pause + 2 /\ pause \in Nat
        BY <3>6 DEF CaptureInv, TakeInv, TypeInv
      <4>2. clock # 0
        BY <4>1
      <4> QED BY <3>3, <3>6, <4>2, FlagSteps
    <3> QED BY <3>2, <3>4, <3>5, <3>6
  <2> QED BY <2>2, <2>3
<1> QED BY <1>2, <1>3 DEF ClearInv

-----------------------------------------------------------------------------
(* The flag and the sample it announces.                                      *)

\* In a step the sample that has risen becomes the present one.
LEMMA RisenSample ==
  ASSUME CaptureInv, CaptureData
  PROVE  /\ Risen = IF clock = 0 THEN Before(sample) ELSE sample
         /\ Risen' = sample
         /\ Before(sample) \in 0 .. 7 /\ (Before(sample) + 1) % 8 = sample
<1>1. /\ clock \in Nat /\ clock < SampleClocks /\ sample \in 0 .. 7
      /\ clock' = IF clock + 1 = SampleClocks THEN 0 ELSE clock + 1
      /\ sample' = IF clock + 1 = SampleClocks THEN ((sample + 1) % 8) ELSE sample
  BY FlagSteps
<1>2. Risen = IF clock = 0 THEN Before(sample) ELSE sample
  BY DEF Risen, Before
<1>3. Risen' = IF clock' = 0 THEN (sample' + 7) % 8 ELSE sample'
  BY DEF Risen
<1>4. (((sample + 1) % 8) + 7) % 8 = sample
  BY <1>1
<1>5. Risen' = sample
  BY <1>1, <1>3, <1>4
<1>6. Before(sample) \in 0 .. 7 /\ (Before(sample) + 1) % 8 = sample
  BY <1>1 DEF Before
<1> QED BY <1>2, <1>5, <1>6

LEMMA PollKept ==
  ASSUME CaptureInv, CaptureData
  PROVE  PollInv'
<1>1. Moves /\ Located /\ Located' /\ step \in 1 .. 8 /\ step' \in 1 .. 8
  BY Program
<1>2. SUFFICES ASSUME Here' = "status"
               PROVE  /\ Announced'
                      /\ captureBuf' # <<>> =>
                           captureBuf'[Len(captureBuf')] = IF rdy' THEN Before(sample) ELSE sample
  <2>1. Risen' = sample
    BY RisenSample
  <2> QED BY <2>1 DEF PollInv, Before
<1>3. step' = 6
  BY <1>1, <1>2 DEF Located
<1>4. /\ clock \in Nat /\ pause \in Nat /\ access \in 0 .. 2 /\ (access # 0 => pause = 0)
      /\ rdy \in BOOLEAN /\ ovfl \in BOOLEAN /\ rdy' \in BOOLEAN
  BY FlagSteps DEF CaptureInv, TypeInv
<1>5. CASE step = 6
  <2>1. Here = "status"
    BY <1>1, <1>5 DEF Located
  <2>2. /\ rdy => clock > 0
        /\ access = 0 /\ rdy => clock <= pause + 2
        /\ access = 1 /\ rdy => clock <= MostClocks
        /\ access = 2 => \/ rdata = <<FALSE, TRUE>> /\ rdy /\ clock \in 2 .. MostClocks + 1
                         \/ rdata = <<FALSE, FALSE>> /\ (rdy => clock = 1)
        /\ captureBuf # <<>> => captureBuf[Len(captureBuf)] = IF rdy THEN Before(Risen) ELSE Risen
    BY <2>1 DEF CaptureInv, PollInv, Announced
  <2>3. pause <= MaxPause /\ ovfl = FALSE
    BY <1>4, <2>1 DEF CaptureInv, TypeInv, ClearInv
  <2>4. rdy' <=> clock = 0 \/ rdy
    BY <2>1, FlagSteps
  <2>5. rdy' => clock' = clock + 1
    <3>1. rdy \/ clock = 0 => clock + 1 < SampleClocks
      <4>1. rdy => clock <= MostClocks + 1
        <5>1. CASE access = 0
          BY <1>4, <2>2, <2>3, <5>1, Numbers
        <5>2. CASE access = 1
          BY <1>4, <2>2, <5>2, Numbers
        <5>3. CASE access = 2
          <6>1. rdy => clock \in 2 .. MostClocks + 1 \/ clock = 1
            BY <2>2, <5>3, Zenon
          <6> QED BY <1>4, <6>1, Numbers
        <5> QED BY <1>4, <5>1, <5>2, <5>3
      <4> QED BY <1>4, <4>1, Numbers
    <3> QED BY <1>4, <2>4, <3>1, FlagSteps, Numbers
  <2>6. rdy' => clock' > 0
    BY <1>4, <2>5
  <2>7. captureBuf # <<>> => captureBuf[Len(captureBuf)] = IF rdy' THEN Before(sample) ELSE sample
    <3>1. CASE clock = 0
      BY <2>2, <2>4, <3>1, RisenSample
    <3>2. CASE clock # 0
      BY <2>2, <2>4, <3>2, RisenSample
    <3> QED BY <3>1, <3>2
  <2>8. captureBuf' # <<>> => captureBuf'[Len(captureBuf')] = IF rdy' THEN Before(sample) ELSE sample
    <3>1. captureBuf' = captureBuf
      BY <1>1, <1>5, Outline DEF Outlined, Puts
    <3> QED BY <2>7, <3>1
  <2>9. CASE Pauses
    <3>1. access = 0 /\ access' = 0 /\ pause' = pause + 1
      BY <2>9 DEF Pauses
    <3>2. rdy' => clock' <= pause' + 2
      BY <1>4, <2>2, <2>4, <2>5, <3>1
    <3> QED BY <2>6, <2>8, <3>1, <3>2 DEF Announced
  <2>10. CASE Begins
    <3>1. access = 0 /\ access' = 1
      BY <2>10 DEF Begins
    <3>2. rdy' => clock' <= MostClocks
      BY <1>4, <2>2, <2>3, <2>4, <2>5, <3>1, Numbers
    <3>3. MostClocks' = MostClocks
      BY DEF MostClocks
    <3> QED BY <2>6, <2>8, <3>1, <3>2, <3>3 DEF Announced
  <2>11. CASE Proceeds
    <3>1. access = 1 /\ access' = 2 /\ rdata' = <<ovfl, rdy>>
      BY <2>1, <2>11, FlagSteps DEF Proceeds
    <3>2. CASE rdy
      <4>1. rdata' = <<FALSE, TRUE>>
        BY <1>4, <2>3, <3>1, <3>2
      <4>2. rdy' /\ clock' \in 2 .. MostClocks + 1
        BY <1>4, <2>2, <2>4, <2>5, <3>1, <3>2, Numbers
      <4>3. MostClocks' = MostClocks
        BY DEF MostClocks
      <4>4. \/ rdata' = <<FALSE, TRUE>> /\ rdy' /\ clock' \in 2 .. MostClocks' + 1
            \/ rdata' = <<FALSE, FALSE>> /\ (rdy' => clock' = 1)
        BY <4>1, <4>2, <4>3, Zenon
      <4>5. access' # 0 /\ access' # 1
        BY <3>1
      <4>6. Announced'
        BY <2>6, <4>4, <4>5, Zenon DEF Announced
      <4> QED BY <2>8, <4>6
    <3>3. CASE ~rdy
      <4>1. rdata' = <<FALSE, FALSE>>
        BY <1>4, <2>3, <3>1, <3>3
      <4>2. rdy' => clock' = 1
        BY <1>4, <2>4, <2>5, <3>3
      <4>3. MostClocks' = MostClocks
        BY DEF MostClocks
      <4>4. \/ rdata' = <<FALSE, TRUE>> /\ rdy' /\ clock' \in 2 .. MostClocks' + 1
            \/ rdata' = <<FALSE, FALSE>> /\ (rdy' => clock' = 1)
        BY <4>1, <4>2, <4>3, Zenon
      <4>5. access' # 0 /\ access' # 1
        BY <3>1
      <4>6. Announced'
        BY <2>6, <4>4, <4>5, Zenon DEF Announced
      <4> QED BY <2>8, <4>6
    <3> QED BY <3>2, <3>3
  <2>12. CASE Misses
    <3>1. access = 2 /\ access' = 0 /\ pause' = pause /\ rdata = <<FALSE, FALSE>>
      BY <2>12 DEF Misses, Turns
    <3>2. rdata # <<FALSE, TRUE>>
      BY <3>1
    <3>3. rdy => clock = 1
      BY <2>2, <3>1, <3>2
    <3>4. rdy' => clock' <= pause' + 2
      BY <1>4, <2>4, <2>5, <3>1, <3>3
    <3> QED BY <2>6, <2>8, <3>1, <3>4 DEF Announced
  <2> QED BY <1>1, <1>3, <1>5, <2>9, <2>10, <2>11, <2>12 DEF Moves, Leaves, Finds, Puts
<1>6. CASE Leaves
  <2>1. step = 5 /\ Here = "data"
    BY <1>1, <1>3, <1>6 DEF Leaves, Located
  <2>2. access = 2 /\ access' = 0 /\ captureBuf' = captureBuf
    BY <1>6, <2>1 DEF Leaves, Turns
  <2>3. ~rdy'
    BY <2>1, <2>2, FlagSteps
  <2>4. captureBuf = <<>>
    BY <2>1, Places DEF CaptureInv, BufferInv
  <2> QED BY <2>2, <2>3, <2>4 DEF Announced
<1>7. CASE Puts
  <2>1. step = 7 /\ access = 2 /\ access' = 0 /\ captureBuf' = Append(captureBuf, sample)
    BY <1>7 DEF Puts, Turns
  <2>2. ~rdy'
    BY <1>1, <2>1, FlagSteps DEF Located
  <2>3. captureBuf'[Len(captureBuf')] = sample
    BY <2>1 DEF CaptureInv, TypeInv
  <2> QED BY <2>1, <2>2, <2>3 DEF Announced
<1> QED BY <1>1, <1>3, <1>5, <1>6, <1>7 DEF Moves, Keeps, Pauses, Begins, Proceeds, Finds, Misses

LEMMA TakeKept ==
  ASSUME CaptureInv, CaptureData
  PROVE  TakeInv'
<1>1. Moves /\ Located /\ Located' /\ step \in 1 .. 8 /\ step' \in 1 .. 8
  BY Program
<1>2. SUFFICES ASSUME Here' = "take"
               PROVE  /\ access' = 0 => rdy' /\ clock' > pause' + 2 /\ clock' <= MostClocks + pause' + 2
                      /\ access' = 1 => rdy' /\ clock' > MinPause + 3 /\ clock' <= 2 * MostClocks
                      /\ access' = 2 => /\ clock' > MinPause + 4 /\ clock' <= 2 * MostClocks + 1
                                        /\ rdata' = <<sample'>>
                      /\ captureBuf' # <<>> => captureBuf'[Len(captureBuf')] = Before(sample')
  <2>1. MostClocks' = MostClocks
    BY DEF MostClocks
  <2> QED BY <2>1 DEF TakeInv, Before
<1>3. step' = 7
  BY <1>1, <1>2 DEF Located
<1>4. /\ clock \in Nat /\ pause \in Nat /\ access \in 0 .. 2 /\ (access # 0 => pause = 0)
      /\ rdy \in BOOLEAN /\ rdy' \in BOOLEAN
  BY FlagSteps DEF CaptureInv, TypeInv
<1>5. ASSUME clock + 1 < SampleClocks
      PROVE  clock' = clock + 1 /\ sample' = sample
  BY <1>4, <1>5, FlagSteps, Numbers
<1>6. CASE Finds
  <2>1. step = 6 /\ access = 2 /\ access' = 0 /\ pause' = pause /\ rdata = <<FALSE, TRUE>>
        /\ captureBuf' = captureBuf
    BY <1>6 DEF Finds, Turns
  <2>2. Here = "status" /\ rdata # <<FALSE, FALSE>>
    BY <1>1, <2>1 DEF Located
  <2>3. rdy /\ clock \in 2 .. MostClocks + 1
    BY <2>1, <2>2 DEF CaptureInv, PollInv, Announced
  <2>4. captureBuf # <<>> => captureBuf[Len(captureBuf)] = Before(sample)
    <3>1. captureBuf # <<>> => captureBuf[Len(captureBuf)] = Before(Risen)
      BY <2>2, <2>3 DEF CaptureInv, PollInv, Announced
    <3>2. Risen = sample
      BY <1>4, <2>3, RisenSample, Numbers
    <3> QED BY <3>1, <3>2
  <2>5. clock' = clock + 1 /\ sample' = sample
    BY <1>4, <1>5, <2>3, Numbers
  <2>6. rdy'
    BY <2>2, <2>3, FlagSteps
  <2> QED BY <1>4, <2>1, <2>3, <2>4, <2>5, <2>6, Numbers
<1>7. CASE step = 7
  <2>1. Here = "take"
    BY <1>1, <1>7 DEF Located
  <2>2. /\ access = 0 => rdy /\ clock > pause + 2 /\ clock <= MostClocks + pause + 2
        /\ access = 1 => rdy /\ clock > MinPause + 3 /\ clock <= 2 * MostClocks
        /\ captureBuf # <<>> => captureBuf[Len(captureBuf)] = Before(sample)
        /\ pause <= MaxPause
    BY <2>1 DEF CaptureInv, TakeInv, TypeInv
  <2>3. Pauses \/ Begins \/ Proceeds
    BY <1>1, <1>3, <1>7 DEF Moves, Leaves, Finds, Misses, Puts
  <2>4. captureBuf' = captureBuf
    BY <2>3 DEF Pauses, Begins, Proceeds, Keeps
  <2>5. access = 0 => (rdy' <=> clock = 0 \/ rdy)
    BY <2>1, FlagSteps
  <2>6. access \in {0, 1} => clock' = clock + 1 /\ sample' = sample
    <3>1. ASSUME access = 0
          PROVE  clock + 1 < SampleClocks
      BY <1>4, <2>2, <2>3, <3>1, Numbers DEF Pauses, Begins, Proceeds
    <3>2. ASSUME access = 1
          PROVE  clock + 1 < SampleClocks
      BY <1>4, <2>2, <3>2, Numbers
    <3> QED BY <1>5, <3>1, <3>2
  <2>7. CASE Pauses
    BY <1>4, <2>2, <2>4, <2>5, <2>6, <2>7, Numbers DEF Pauses
  <2>8. CASE Begins
    BY <1>4, <2>2, <2>4, <2>5, <2>6, <2>8, Numbers DEF Begins
  <2>9. CASE Proceeds
    <3>1. access = 1 /\ access' = 2
      BY <2>9 DEF Proceeds
    <3>2. clock >= StoreClock
      BY <1>4, <2>2, <3>1, Numbers
    <3>3. rdata' = <<sample>>
      BY <2>1, <3>1, <3>2, FlagSteps
    <3> QED BY <1>4, <2>2, <2>4, <2>6, <3>1, <3>3, Numbers
  <2> QED BY <2>3, <2>7, <2>8, <2>9
<1> QED
  <2>1. Finds \/ step = 7
    BY <1>1, <1>3, Numbers DEF Moves, Keeps, Pauses, Begins, Proceeds, Leaves, Misses, Puts
  <2> QED BY <1>6, <1>7, <2>1

-----------------------------------------------------------------------------
(* What has been captured.                                                    *)

LEMMA BufferStays ==
  ASSUME CaptureInv, CaptureData
  PROVE  BufferInv'
<1>1. Moves /\ Located /\ Located' /\ step \in 1 .. 8 /\ step' \in 1 .. 8
  BY Program
<1>2. /\ captureBuf \in Seq(0 .. 7) /\ sample \in 0 .. 7
      /\ \A i \in 1 .. Len(captureBuf) - 1 : captureBuf[i + 1] = (captureBuf[i] + 1) % 8
      /\ step < 6 => captureBuf = <<>>
      /\ step \in {6, 7} => Len(captureBuf) < CaptureLen
      /\ step = 8 => Len(captureBuf) = CaptureLen
  BY <1>1, Places DEF CaptureInv, TypeInv, BufferInv, Located
<1>3. SUFFICES /\ \A i \in 1 .. Len(captureBuf') - 1 : captureBuf'[i + 1] = (captureBuf'[i] + 1) % 8
               /\ step' < 6 => captureBuf' = <<>>
               /\ step' \in {6, 7} => Len(captureBuf') < CaptureLen
               /\ step' = 8 => Len(captureBuf') = CaptureLen
  <2>1. PollStep' = 6
    BY Places DEF PollStep, Steps, Clearing
  <2> QED BY <1>1, <2>1 DEF BufferInv, Located
<1>4. CASE Puts
  <2>1. step = 7 /\ access = 2 /\ captureBuf' = Append(captureBuf, sample)
    BY <1>4 DEF Puts, Turns
  <2>2. captureBuf # <<>> => captureBuf[Len(captureBuf)] = Before(sample)
    BY <1>1, <2>1 DEF Located, CaptureInv, TakeInv
  <2>3. Len(captureBuf') = Len(captureBuf) + 1 /\ captureBuf'[Len(captureBuf) + 1] = sample
        /\ \A i \in 1 .. Len(captureBuf) : captureBuf'[i] = captureBuf[i]
    BY <1>2, <2>1
  <2>4. ASSUME NEW i \in 1 .. Len(captureBuf') - 1
        PROVE  captureBuf'[i + 1] = (captureBuf'[i] + 1) % 8
    <3>1. Len(captureBuf) \in Nat /\ i \in 1 .. Len(captureBuf) /\ captureBuf'[i] = captureBuf[i]
      BY <1>2, <2>3
    <3>2. CASE i = Len(captureBuf)
      <4>1. captureBuf # <<>>
        BY <1>2, <3>1, <3>2
      <4>2. captureBuf[i] = Before(sample)
        BY <2>2, <3>2, <4>1
      <4>3. captureBuf'[i + 1] = sample
        BY <2>3, <3>2
      <4> QED BY <3>1, <4>2, <4>3, RisenSample
    <3>3. CASE i # Len(captureBuf)
      <4>1. i \in 1 .. Len(captureBuf) - 1 /\ i + 1 \in 1 .. Len(captureBuf)
        BY <3>1, <3>3
      <4>2. captureBuf'[i + 1] = captureBuf[i + 1]
        BY <2>3, <4>1
      <4> QED BY <1>2, <3>1, <4>1, <4>2
    <3> QED BY <3>2, <3>3
  <2>5. step' = IF Len(captureBuf) + 1 = CaptureLen THEN 8 ELSE 6
    BY <1>4 DEF Puts
  <2>6. /\ step' < 6 => captureBuf' = <<>>
        /\ step' \in {6, 7} => Len(captureBuf') < CaptureLen
        /\ step' = 8 => Len(captureBuf') = CaptureLen
    <3>1. Len(captureBuf) \in Nat
      BY <1>2
    <3> QED BY <1>2, <2>1, <2>3, <2>5, <3>1, Numbers
  <2> QED BY <2>4, <2>6
<1>5. CASE ~Puts
  <2>1. captureBuf' = captureBuf
    BY <1>1, <1>5 DEF Moves, Keeps, Pauses, Begins, Proceeds, Leaves, Finds, Misses
  <2>2. \/ step' = step /\ Here # "end"
        \/ step < 6 /\ step' = step + 1
        \/ step = 6 /\ step' \in {6, 7}
    BY <1>1, <1>5 DEF Moves, Keeps, Pauses, Begins, Proceeds, Leaves, Finds, Misses
  <2>3. step < 6 => Len(captureBuf) = 0
    BY <1>2
  <2>4. step' # 8
    BY <1>1, <2>2 DEF Located
  <2>5. step' < 6 => step < 6
    BY <1>1, <2>2
  <2>6. step' \in {6, 7} => step < 6 \/ step \in {6, 7}
    BY <1>1, <2>2
  <2> QED BY <1>2, <2>1, <2>3, <2>4, <2>5, <2>6, Numbers
<1> QED BY <1>4, <1>5

LEMMA CaptureInvInit == CaptureInit => CaptureInv
<1>1. SUFFICES ASSUME CaptureInit
               PROVE  CaptureInv
  OBVIOUS
<1>2. /\ clock \in 0 .. SampleClocks - 1 /\ sample = 0 /\ access = 0 /\ pause = 0 /\ step = 1
      /\ lastClk \in BOOLEAN /\ rdy \in BOOLEAN /\ ovfl \in BOOLEAN /\ captureBuf = <<>>
  BY <1>1 DEF CaptureInit
<1>3. Here = "data"
  BY <1>2 DEF Here, Steps, Clearing, PollStep, TakeStep
<1>4. TypeInv
  BY <1>2, <1>3, Numbers DEF TypeInv
<1>5. EdgeInv /\ ClearInv /\ PollInv /\ TakeInv
  BY <1>2, <1>3 DEF EdgeInv, ClearInv, PollInv, Announced, TakeInv
<1>6. BufferInv
  BY <1>2, <1>3 DEF BufferInv
<1> QED BY <1>4, <1>5, <1>6 DEF CaptureInv

LEMMA CaptureInvNext == CaptureInv /\ [CaptureData]_captureVars => CaptureInv'
<1>1. SUFFICES ASSUME CaptureInv, [CaptureData]_captureVars
               PROVE  CaptureInv'
  OBVIOUS
<1>2. CASE CaptureData
  <2>1. TypeInv' /\ EdgeInv' /\ ClearInv'
    BY <1>1, <1>2, TypeStep, EdgeStep, ClearStep
  <2>2. PollInv' /\ TakeInv' /\ BufferInv'
    BY <1>1, <1>2, PollKept, TakeKept, BufferStays
  <2> QED BY <2>1, <2>2 DEF CaptureInv
<1>3. CASE UNCHANGED captureVars
  <2>1. /\ clock' = clock /\ sample' = sample /\ lastClk' = lastClk /\ rdy' = rdy /\ ovfl' = ovfl
        /\ rdata' = rdata /\ access' = access /\ pause' = pause /\ step' = step
        /\ captureBuf' = captureBuf
    BY <1>3 DEF captureVars
  <2>2. Here' = Here /\ Risen' = Risen /\ PollStep' = PollStep /\ MostClocks' = MostClocks
    BY <2>1 DEF Here, Risen, PollStep, Steps, Clearing, TakeStep, MostClocks
  <2>3. TypeInv' /\ EdgeInv' /\ ClearInv'
    BY <1>1, <2>1, <2>2 DEF CaptureInv, TypeInv, EdgeInv, ClearInv
  <2>4. PollInv'
    BY <1>1, <2>1, <2>2 DEF CaptureInv, PollInv, Announced, Before
  <2>5. TakeInv' /\ BufferInv'
    BY <1>1, <2>1, <2>2 DEF CaptureInv, TakeInv, BufferInv, Before
  <2> QED BY <2>3, <2>4, <2>5 DEF CaptureInv
<1> QED BY <1>1, <1>2, <1>3

\* What the program and the registers keep to (main.c 157-206, pano_top.v 541-600).
THEOREM CaptureInvariant == CaptureSpec => []CaptureInv
BY CaptureInvInit, CaptureInvNext, PTL DEF CaptureSpec

\* CaptureData takes every sample once and in order and does not give up before its
\* buffer is full, whatever the length of a sample, as long as two accesses as far apart
\* as they may be fit into one, and whatever is in the registers when it begins
\* (main.c 157-206, pano_top.v 541-600).
THEOREM NoSampleLost == CaptureSpec => []SamplesCaptured
<1>1. CaptureInv => SamplesCaptured
  BY DEF CaptureInv, BufferInv, SamplesCaptured, Captured
<1> QED BY <1>1, CaptureInvariant, PTL

-----------------------------------------------------------------------------
(* The string functions.                                                      *)

LEMMA NotRunning == \A v : Returned(v) # Running
<1> SUFFICES ASSUME NEW v, Returned(v) = Running
             PROVE  FALSE
  OBVIOUS
<1>1. DOMAIN Returned(v) = {"value"} /\ DOMAIN Running = {"running"}
  BY DEF Returned, Running
<1>2. "value" # "running"
  OBVIOUS
<1> QED BY <1>1, <1>2

LEMMA LeastNumber ==
  ASSUME NEW T, T \subseteq Nat, T # {}
  PROVE  \E x \in T : \A y \in T : x <= y
<1> DEFINE R == OpToRel(<, Nat)
<1>1. \A x, y \in Nat : <<x, y>> \in R <=> x < y
  BY DEF OpToRel
<1>2. IsWellFoundedOn(R, Nat)
  BY NatLessThanWellFounded DEF R
<1>3. PICK x \in T : \A y \in T : ~(<<y, x>> \in R)
  <2> HIDE DEF R
  <2> QED BY <1>2, WFMin
<1>4. \A y \in T : x <= y
  <2> TAKE y \in T
  <2>1. ~(y < x) /\ x \in Nat /\ y \in Nat
    BY <1>1, <1>3
  <2> QED BY <2>1
<1> QED BY <1>4

LEMMA MinIs ==
  ASSUME NEW T, T \subseteq Int, NEW x \in T, \A y \in T : x <= y
  PROVE  Min(T) = x
<1>1. Min(T) \in T /\ \A y \in T : Min(T) <= y
  <2>1. \E z \in T : \A y \in T : z <= y
    OBVIOUS
  <2> QED BY <2>1, Zenon DEF Min
<1>2. PICK z \in T : z = Min(T)
  BY <1>1
<1>3. z <= x /\ x <= z /\ z \in Int /\ x \in Int
  BY <1>1, <1>2
<1> QED BY <1>2, <1>3

LEMMA MinOf ==
  ASSUME NEW T, T \subseteq Nat, T # {}
  PROVE  Min(T) \in T /\ \A y \in T : Min(T) <= y
BY LeastNumber, Zenon DEF Min

\* The end of a terminated string.
LEMMA EndFound ==
  ASSUME NEW m, NEW a \in Nat, MemSize \in Nat, Terminated(m, a)
  PROVE  /\ EndOf(m, a) \in a .. MemSize - 1 /\ m[EndOf(m, a)] = 0
         /\ \A i \in a .. EndOf(m, a) - 1 : m[i] # 0
         /\ StrLen(m, a) \in Nat /\ EndOf(m, a) = a + StrLen(m, a)
<1>1. PICK T : T = {i \in a .. MemSize - 1 : m[i] = 0}
  OBVIOUS
<1>2. T # {} /\ T \subseteq Nat
  BY <1>1 DEF Terminated
<1>3. PICK e : e = Min(T)
  OBVIOUS
<1>4. e \in T /\ \A y \in T : e <= y
  BY <1>2, <1>3, MinOf
<1>5. e \in a .. MemSize - 1 /\ m[e] = 0 /\ e \in Nat
  BY <1>1, <1>4
<1>6. ASSUME NEW i \in a .. e - 1
      PROVE  m[i] # 0
  <2>1. i \in a .. MemSize - 1 /\ ~(e <= i)
    BY <1>5
  <2> QED BY <1>1, <1>4, <2>1
<1>7. EndOf(m, a) = e
  BY <1>1, <1>3 DEF EndOf
<1>8. e - a \in Nat /\ e = a + (e - a)
  BY <1>5
<1> QED BY <1>5, <1>6, <1>7, <1>8 DEF StrLen

\* A zero that has no zero before it is the end.
LEMMA EndHere ==
  ASSUME NEW m, NEW a \in Nat, MemSize \in Nat, Terminated(m, a),
         NEW k \in Nat, m[a + k] = 0, \A i \in 0 .. k - 1 : m[a + i] # 0
  PROVE  k = StrLen(m, a)
<1>1. PICK e : e = EndOf(m, a)
  OBVIOUS
<1>2. PICK l \in Nat : l = StrLen(m, a) /\ e = a + l
  BY <1>1, EndFound
<1>3. m[e] = 0 /\ \A i \in a .. e - 1 : m[i] # 0
  BY <1>1, EndFound
<1>4. ~(k < l)
  <2>1. k < l => a + k \in a .. e - 1
    BY <1>2
  <2> QED BY <1>3, <2>1
<1>5. ~(l < k)
  <2>1. l < k => l \in 0 .. k - 1
    OBVIOUS
  <2> QED BY <1>2, <1>3, <2>1
<1> QED BY <1>2, <1>4, <1>5

\* As long as no zero has been seen, the end is still ahead.
LEMMA EndAhead ==
  ASSUME NEW m, NEW a \in Nat, MemSize \in Nat, Terminated(m, a),
         NEW k \in Nat, \A i \in 0 .. k - 1 : m[a + i] # 0
  PROVE  k <= StrLen(m, a)
<1>1. PICK l \in Nat : l = StrLen(m, a) /\ EndOf(m, a) = a + l
  BY EndFound
<1>2. m[a + l] = 0
  BY <1>1, EndFound
<1>3. ~(l < k)
  <2>1. l < k => l \in 0 .. k - 1
    OBVIOUS
  <2> QED BY <1>2, <2>1
<1> QED BY <1>1, <1>3

\* The first byte in which two areas differ.
LEMMA DifferenceIs ==
  ASSUME NEW m, NEW a, NEW b, NEW k \in Nat, NEW d \in 0 .. k - 1,
         m[a + d] # m[b + d], SameBytes(m, a, b, d)
  PROVE  ~SameBytes(m, a, b, k) /\ FirstDifference(m, a, b, k) = d
<1>1. ~SameBytes(m, a, b, k)
  BY DEF SameBytes
<1>2. PICK T : T = {i \in 0 .. k - 1 : m[a + i] # m[b + i]}
  OBVIOUS
<1>3. d \in T /\ T \subseteq Int
  BY <1>2
<1>4. ASSUME NEW y \in T
      PROVE  d <= y
  <2>1. y \in 0 .. k - 1 /\ m[a + y] # m[b + y]
    BY <1>2
  <2>2. ~(y \in 0 .. d - 1)
    BY <2>1 DEF SameBytes
  <2> QED BY <2>1, <2>2
<1>5. Min(T) = d
  BY <1>3, <1>4, MinIs
<1> QED BY <1>1, <1>2, <1>5 DEF FirstDifference

\* Equal bytes before the end.
SameStart(m, a, b, k) == (\A i \in 0 .. k - 1 : m[a + i] # 0) /\ SameBytes(m, a, b, k)

\* What strcmp is to return is settled by the first byte that differs or ends both.
LEMMA ComparedAt ==
  ASSUME NEW m, NEW a \in Nat, NEW b \in Nat, MemSize \in Nat, Terminated(m, a), NEW k \in Nat,
         SameStart(m, a, b, k)
  PROVE  /\ m[a + k] # m[b + k] => Compared(m, a, b) = Ordered(m[a + k], m[b + k])
         /\ m[a + k] = m[b + k] /\ m[a + k] = 0 => Compared(m, a, b) = 0
<1>0. (\A i \in 0 .. k - 1 : m[a + i] # 0) /\ SameBytes(m, a, b, k)
  BY DEF SameStart
<1>1. PICK l \in Nat : l = StrLen(m, a) + 1 /\ k < l
  BY <1>0, EndFound, EndAhead, SMTT(30)
<1>2. ASSUME m[a + k] # m[b + k]
      PROVE  Compared(m, a, b) = Ordered(m[a + k], m[b + k])
  <2>1. ~SameBytes(m, a, b, l) /\ FirstDifference(m, a, b, l) = k
    BY <1>0, <1>1, <1>2, DifferenceIs
  <2> QED BY <1>1, <2>1 DEF Compared
<1>3. ASSUME m[a + k] = m[b + k], m[a + k] = 0
      PROVE  Compared(m, a, b) = 0
  <2>1. l = k + 1
    BY <1>0, <1>1, <1>3, EndHere
  <2>2. SameBytes(m, a, b, l)
    <3> SUFFICES ASSUME NEW i \in 0 .. l - 1
                 PROVE  m[a + i] = m[b + i]
      BY DEF SameBytes
    <3>1. CASE i = k
      BY <1>3, <3>1
    <3>2. CASE i # k
      BY <1>0, <2>1, <3>2 DEF SameBytes
    <3> QED BY <3>1, <3>2
  <2> QED BY <1>1, <2>2 DEF Compared
<1> QED BY <1>2, <1>3

-----------------------------------------------------------------------------
(* Memory as the loops leave it.                                              *)

Memories == [0 .. MemSize - 1 -> 0 .. 255]

LEMMA CopiedAt ==
  ASSUME NEW m \in Memories, NEW a \in Nat, NEW b \in Nat, NEW k \in Nat,
         NEW i \in 0 .. MemSize - 1
  PROVE  Copied(m, a, b, k)[i] = IF i \in a .. a + k - 1 THEN m[b + i - a] ELSE m[i]
BY DEF Copied, Memories

LEMMA CopiedNone ==
  ASSUME NEW m \in Memories, NEW a \in Nat, NEW b \in Nat
  PROVE  Copied(m, a, b, 0) = m
<1>1. a + 0 - 1 = a - 1 /\ \A i \in DOMAIN m : i \notin a .. a - 1
  OBVIOUS
<1>2. Copied(m, a, b, 0) = [i \in DOMAIN m |-> m[i]]
  BY <1>1 DEF Copied
<1> QED BY <1>2 DEF Memories

LEMMA CopyOne ==
  ASSUME NEW m \in Memories, NEW a \in Nat, NEW b \in Nat, NEW k \in Nat, MemSize \in Nat,
         a + k < MemSize, b + k < MemSize, b + k \notin a .. a + k - 1
  PROVE  /\ Copied(m, a, b, k)[b + k] = m[b + k]
         /\ [Copied(m, a, b, k) EXCEPT ![a + k] = Copied(m, a, b, k)[b + k]] = Copied(m, a, b, k + 1)
<1>1. PICK f : f = Copied(m, a, b, k)
  OBVIOUS
<1>2. PICK g : g = Copied(m, a, b, k + 1)
  OBVIOUS
<1>3. PICK h : h = [f EXCEPT ![a + k] = f[b + k]]
  OBVIOUS
<1>4. f[b + k] = m[b + k]
  <2>1. PICK j \in 0 .. MemSize - 1 : j = b + k
    OBVIOUS
  <2>2. f[j] = IF j \in a .. a + k - 1 THEN m[b + j - a] ELSE m[j]
    BY <1>1, CopiedAt
  <2> QED BY <2>1, <2>2
<1>5. DOMAIN f = 0 .. MemSize - 1 /\ DOMAIN g = 0 .. MemSize - 1 /\ DOMAIN h = 0 .. MemSize - 1
  BY <1>1, <1>2, <1>3 DEF Copied, Memories
<1>6. ASSUME NEW i \in 0 .. MemSize - 1
      PROVE  h[i] = g[i]
  <2>1. h[i] = IF i = a + k THEN m[b + k] ELSE f[i]
    BY <1>3, <1>4, <1>5
  <2>2. f[i] = IF i \in a .. a + k - 1 THEN m[b + i - a] ELSE m[i]
    BY <1>1, CopiedAt
  <2>3. k + 1 \in Nat /\ a + (k + 1) - 1 = a + k
    OBVIOUS
  <2>4. g[i] = IF i \in a .. a + (k + 1) - 1 THEN m[b + i - a] ELSE m[i]
    BY <1>2, <2>3, CopiedAt
  <2>5. CASE i = a + k
    <3>1. b + i - a = b + k /\ i \in a .. a + (k + 1) - 1
      BY <2>5
    <3> QED BY <2>1, <2>4, <2>5, <3>1
  <2>6. CASE i # a + k
    <3>1. i \in a .. a + (k + 1) - 1 <=> i \in a .. a + k - 1
      BY <2>6
    <3> QED BY <2>1, <2>2, <2>4, <2>6, <3>1
  <2> QED BY <2>5, <2>6
<1>7. h = g
  <2>1. h = [i \in DOMAIN h |-> h[i]] /\ g = [i \in DOMAIN g |-> g[i]]
    BY <1>2, <1>3 DEF Copied
  <2> QED BY <1>5, <1>6, <2>1
<1> QED BY <1>1, <1>2, <1>3, <1>4, <1>7

LEMMA FillOne ==
  ASSUME NEW m \in Memories, NEW a \in Nat, NEW v \in Nat, NEW k \in Nat, MemSize \in Nat,
         a + k < MemSize
  PROVE  [Filled(m, a, v, k) EXCEPT ![a + k] = v % 256] = Filled(m, a, v, k + 1)
<1>1. PICK w : w = v % 256
  OBVIOUS
<1>2. DOMAIN m = 0 .. MemSize - 1 /\ a + (k + 1) - 1 = a + k
  BY DEF Memories
<1>3. PICK f : f = Filled(m, a, v, k)
  OBVIOUS
<1>4. f = [i \in 0 .. MemSize - 1 |-> IF i \in a .. a + k - 1 THEN w ELSE m[i]]
  BY <1>1, <1>2, <1>3 DEF Filled
<1>5. Filled(m, a, v, k + 1) = [i \in 0 .. MemSize - 1 |-> IF i \in a .. a + k THEN w ELSE m[i]]
  BY <1>1, <1>2 DEF Filled
<1>6. [f EXCEPT ![a + k] = w] = [i \in 0 .. MemSize - 1 |-> IF i \in a .. a + k THEN w ELSE m[i]]
  <2>1. PICK g : g = [i \in 0 .. MemSize - 1 |-> IF i \in a .. a + k THEN w ELSE m[i]]
    OBVIOUS
  <2>2. PICK h : h = [f EXCEPT ![a + k] = w]
    OBVIOUS
  <2>3. DOMAIN f = 0 .. MemSize - 1
    BY <1>4
  <2>4. ASSUME NEW i \in 0 .. MemSize - 1
        PROVE  h[i] = g[i]
    <3>1. h[i] = IF i = a + k THEN w ELSE f[i]
      BY <2>2, <2>3
    <3>2. f[i] = IF i \in a .. a + k - 1 THEN w ELSE m[i]
      BY <1>4
    <3>3. g[i] = IF i \in a .. a + k THEN w ELSE m[i]
      BY <2>1
    <3>4. i \in a .. a + k <=> i = a + k \/ i \in a .. a + k - 1
      OBVIOUS
    <3> QED BY <3>1, <3>2, <3>3, <3>4
  <2>5. h = [i \in 0 .. MemSize - 1 |-> h[i]] /\ g = [i \in 0 .. MemSize - 1 |-> g[i]]
    BY <2>1, <2>2, <2>3
  <2> QED BY <2>1, <2>2, <2>4, <2>5
<1> QED BY <1>1, <1>3, <1>5, <1>6

-----------------------------------------------------------------------------
(* The loops over a counted number of bytes.                                  *)

Kept(c, m) == ret = Returned(Promised(c, m).value) /\ mem = Promised(c, m).mem

MemcpyAt(c, m) ==
  \E k \in 0 .. c.n : /\ p = c.p + k /\ q = c.q + k /\ n = c.n - k
                      /\ mem = Copied(m, c.p, c.q, k)

LEMMA MemcpyStep ==
  ASSUME NEW CONSTANT c, NEW CONSTANT m, MemSize \in Nat, Legal(c, m), c.fn = "memcpy",
         called.call = c, ret = Running, MemcpyAt(c, m), Memcpy
  PROVE  (ret' = Running /\ MemcpyAt(c, m)') \/ (ret' # Running /\ Kept(c, m)')
<1>1. /\ m \in Memories /\ c.p \in Nat /\ c.q \in Nat /\ c.n \in Nat
      /\ c.p + c.n <= MemSize /\ c.q + c.n <= MemSize /\ (c.p + c.n <= c.q \/ c.q + c.n <= c.p)
  BY DEF Legal, Memories, Inside, Disjoint
<1>2. PICK k \in 0 .. c.n : /\ p = c.p + k /\ q = c.q + k /\ n = c.n - k
                            /\ mem = Copied(m, c.p, c.q, k)
  BY DEF MemcpyAt
<1>3. CASE n # 0
  <2>1. mem' = [mem EXCEPT ![p] = mem[q]] /\ Goes(p + 1, q + 1, n - 1)
    BY <1>3 DEF Memcpy, Gives
  <2>2. k + 1 \in 0 .. c.n /\ k \in Nat /\ c.p + k < MemSize /\ c.q + k < MemSize
        /\ c.q + k \notin c.p .. c.p + k - 1
    BY <1>1, <1>2, <1>3
  <2>3. mem' = Copied(m, c.p, c.q, k + 1)
    <3>1. mem' = [Copied(m, c.p, c.q, k) EXCEPT ![c.p + k] = Copied(m, c.p, c.q, k)[c.q + k]]
      BY <1>2, <2>1, Zenon
    <3>2. /\ Copied(m, c.p, c.q, k)[c.q + k] = m[c.q + k]
          /\ [Copied(m, c.p, c.q, k) EXCEPT ![c.p + k] = Copied(m, c.p, c.q, k)[c.q + k]]
               = Copied(m, c.p, c.q, k + 1)
      <4>1. PICK a \in Nat, b \in Nat : a = c.p /\ b = c.q
        BY <1>1
      <4>2. m \in Memories /\ k \in Nat /\ a + k < MemSize /\ b + k < MemSize /\ b + k \notin a .. a + k - 1
        BY <1>1, <2>2, <4>1
      <4>3. /\ Copied(m, a, b, k)[b + k] = m[b + k]
            /\ [Copied(m, a, b, k) EXCEPT ![a + k] = Copied(m, a, b, k)[b + k]] = Copied(m, a, b, k + 1)
        BY <4>2, CopyOne
      <4> QED BY <4>1, <4>3, Zenon
    <3> QED BY <3>1, <3>2, Zenon
  <2>4. p' = c.p + (k + 1) /\ q' = c.q + (k + 1) /\ n' = c.n - (k + 1) /\ ret' = ret
    BY <1>1, <1>2, <2>1 DEF Goes
  <2> QED BY <2>2, <2>3, <2>4 DEF MemcpyAt
<1>4. CASE n = 0
  <2>1. k = c.n
    BY <1>1, <1>2, <1>4
  <2>2. mem' = mem /\ ret' = Returned(c.p)
    BY <1>4 DEF Memcpy, Gives, First
  <2>3. Promised(c, m) = [mem |-> Copied(m, c.p, c.q, c.n), value |-> c.p]
    BY DEF Promised
  <2> QED BY <1>2, <2>1, <2>2, <2>3, NotRunning DEF Kept
<1> QED BY <1>3, <1>4

MemsetAt(c, m) ==
  \E k \in 0 .. c.n : /\ p = c.p + k /\ q = c.q /\ n = c.n - k
                      /\ mem = Filled(m, c.p, c.q, k)

LEMMA MemsetStep ==
  ASSUME NEW CONSTANT c, NEW CONSTANT m, MemSize \in Nat, Legal(c, m), c.fn = "memset",
         called.call = c, ret = Running, MemsetAt(c, m), Memset
  PROVE  (ret' = Running /\ MemsetAt(c, m)') \/ (ret' # Running /\ Kept(c, m)')
<1>1. /\ m \in Memories /\ c.p \in Nat /\ c.q \in Nat /\ c.n \in Nat /\ c.p + c.n <= MemSize
  BY DEF Legal, Memories, Inside
<1>2. PICK k \in 0 .. c.n : /\ p = c.p + k /\ q = c.q /\ n = c.n - k
                            /\ mem = Filled(m, c.p, c.q, k)
  BY DEF MemsetAt
<1>3. CASE n # 0
  <2>1. mem' = [mem EXCEPT ![p] = q % 256] /\ Goes(p + 1, q, n - 1)
    BY <1>3 DEF Memset, Gives
  <2>2. k + 1 \in 0 .. c.n /\ k \in Nat /\ c.p + k < MemSize
    BY <1>1, <1>2, <1>3
  <2>3. mem' = Filled(m, c.p, c.q, k + 1)
    <3>1. mem' = [Filled(m, c.p, c.q, k) EXCEPT ![c.p + k] = c.q % 256]
      BY <1>2, <2>1, Zenon
    <3>2. [Filled(m, c.p, c.q, k) EXCEPT ![c.p + k] = c.q % 256] = Filled(m, c.p, c.q, k + 1)
      BY <1>1, <2>2, FillOne
    <3> QED BY <3>1, <3>2, Zenon
  <2>4. p' = c.p + (k + 1) /\ q' = c.q /\ n' = c.n - (k + 1) /\ ret' = ret
    BY <1>1, <1>2, <2>1 DEF Goes
  <2> QED BY <2>2, <2>3, <2>4 DEF MemsetAt
<1>4. CASE n = 0
  <2>1. k = c.n
    BY <1>1, <1>2, <1>4
  <2>2. mem' = mem /\ ret' = Returned(Null)
    BY <1>4 DEF Memset, Gives
  <2>3. Promised(c, m) = [mem |-> Filled(m, c.p, c.q, c.n), value |-> Null]
    BY DEF Promised
  <2> QED BY <1>2, <2>1, <2>2, <2>3, NotRunning DEF Kept
<1> QED BY <1>3, <1>4

MemcmpAt(c, m) ==
  \E k \in 0 .. c.n : /\ p = c.p + k /\ q = c.q + k /\ n = c.n - k
                      /\ mem = m /\ SameBytes(m, c.p, c.q, k)

LEMMA MemcmpStep ==
  ASSUME NEW CONSTANT c, NEW CONSTANT m, MemSize \in Nat, Legal(c, m), c.fn = "memcmp",
         called.call = c, ret = Running, MemcmpAt(c, m), Memcmp
  PROVE  (ret' = Running /\ MemcmpAt(c, m)') \/ (ret' # Running /\ Kept(c, m)')
<1>1. c.p \in Nat /\ c.q \in Nat /\ c.n \in Nat
  BY DEF Legal
<1>2. PICK k \in 0 .. c.n : /\ p = c.p + k /\ q = c.q + k /\ n = c.n - k
                            /\ mem = m /\ SameBytes(m, c.p, c.q, k)
  BY DEF MemcmpAt
<1>3. mem' = m
  BY <1>2 DEF Memcmp
<1>4. Promised(c, m) = [mem |-> m, value |->
         IF SameBytes(m, c.p, c.q, c.n) THEN 0
         ELSE m[c.p + FirstDifference(m, c.p, c.q, c.n)] - m[c.q + FirstDifference(m, c.p, c.q, c.n)]]
  BY DEF Promised
<1>5. CASE n # 0 /\ mem[p] = mem[q]
  <2>1. Goes(p + 1, q + 1, n - 1)
    BY <1>5 DEF Memcmp, Gives
  <2>2. k + 1 \in 0 .. c.n /\ p' = c.p + (k + 1) /\ q' = c.q + (k + 1) /\ n' = c.n - (k + 1) /\ ret' = ret
    BY <1>1, <1>2, <1>5, <2>1 DEF Goes
  <2>3. SameBytes(m, c.p, c.q, k + 1)
    <3> SUFFICES ASSUME NEW i \in 0 .. (k + 1) - 1
                 PROVE  m[c.p + i] = m[c.q + i]
      BY DEF SameBytes
    <3>1. CASE i = k
      BY <1>2, <1>5, <3>1
    <3>2. CASE i # k
      <4>1. i \in 0 .. k - 1
        BY <1>1, <3>2
      <4> QED BY <1>2, <4>1 DEF SameBytes
    <3> QED BY <3>1, <3>2
  <2> QED BY <1>3, <2>2, <2>3 DEF MemcmpAt
<1>6. CASE n # 0 /\ mem[p] # mem[q]
  <2>1. ret' = Returned(m[c.p + k] - m[c.q + k])
    BY <1>2, <1>6 DEF Memcmp, Gives
  <2>2. k \in 0 .. c.n - 1
    BY <1>1, <1>2, <1>6
  <2>3. ~SameBytes(m, c.p, c.q, c.n) /\ FirstDifference(m, c.p, c.q, c.n) = k
    BY <1>1, <1>2, <1>6, <2>2, DifferenceIs
  <2> QED BY <1>3, <1>4, <2>1, <2>3, NotRunning DEF Kept
<1>7. CASE n = 0
  <2>1. k = c.n
    BY <1>1, <1>2, <1>7
  <2>2. ret' = Returned(0)
    BY <1>7 DEF Memcmp, Gives
  <2> QED BY <1>2, <1>3, <1>4, <2>1, <2>2, NotRunning DEF Kept
<1> QED BY <1>5, <1>6, <1>7

-----------------------------------------------------------------------------
(* strcpy.                                                                    *)

\* A whole word or a part of one is copied at once.
LEMMA CopyMore ==
  ASSUME NEW m \in Memories, NEW a \in Nat, NEW b \in Nat, NEW k \in Nat, NEW w \in Nat, MemSize \in Nat,
         k < w, b + w <= MemSize, b + w <= a \/ a <= b, NEW x \in 0 .. MemSize - 1
  PROVE  Copied(m, a, b, w)[x] =
           IF x \in a + k .. a + w - 1 THEN Copied(m, a, b, k)[b + k + x - (a + k)] ELSE Copied(m, a, b, k)[x]
<1>2. Copied(m, a, b, w)[x] = IF x \in a .. a + w - 1 THEN m[b + x - a] ELSE m[x]
  BY CopiedAt
<1>3. Copied(m, a, b, k)[x] = IF x \in a .. a + k - 1 THEN m[b + x - a] ELSE m[x]
  BY CopiedAt
<1>4. CASE x \in a + k .. a + w - 1
  <2>1. PICK j \in 0 .. w - k - 1 : j = x - (a + k)
    BY <1>4
  <2>2. PICK y \in 0 .. MemSize - 1 : y = b + k + j
    OBVIOUS
  <2>3. y \notin a .. a + k - 1
    BY <2>2
  <2>4. Copied(m, a, b, k)[y] = IF y \in a .. a + k - 1 THEN m[b + y - a] ELSE m[y]
    BY CopiedAt
  <2>5. b + k + x - (a + k) = y /\ b + x - a = y /\ x \in a .. a + w - 1
    BY <1>4, <2>1, <2>2
  <2> QED BY <1>2, <1>4, <2>3, <2>4, <2>5, Zenon
<1>5. CASE x \notin a + k .. a + w - 1
  <2>1. x \in a .. a + w - 1 <=> x \in a .. a + k - 1
    BY <1>5
  <2> QED BY <1>2, <1>3, <1>5, <2>1, Zenon
<1> QED BY <1>4, <1>5

StrcpyAt(c, m) ==
  \E k \in 0 .. StrLen(m, c.q) : p = c.p + k /\ q = c.q + k /\ mem = Copied(m, c.p, c.q, k)

LEMMA StrcpyStep ==
  ASSUME NEW CONSTANT c, NEW CONSTANT m, MemSize \in Nat, Legal(c, m), c.fn = "strcpy",
         called.call = c, ret = Running, StrcpyAt(c, m), Strcpy
  PROVE  (ret' = Running /\ StrcpyAt(c, m)') \/ (ret' # Running /\ Kept(c, m)')
<1>1. PICK a \in Nat, b \in Nat : a = c.p /\ b = c.q
  BY DEF Legal
<1>2. m \in Memories /\ Terminated(m, b) /\ Inside(a, StrLen(m, b) + 1) /\ Disjoint(a, b, StrLen(m, b) + 1)
  BY <1>1 DEF Legal, Memories
<1>3. PICK l \in Nat : l = StrLen(m, b) /\ EndOf(m, b) = b + l
  BY <1>2, EndFound
<1>4. /\ b + l < MemSize /\ m[b + l] = 0 /\ \A i \in 0 .. l - 1 : m[b + i] # 0
      /\ a + l < MemSize /\ (a + l < b \/ b + l < a)
  <2>1. /\ EndOf(m, b) \in b .. MemSize - 1 /\ m[EndOf(m, b)] = 0
        /\ \A i \in b .. EndOf(m, b) - 1 : m[i] # 0
    BY <1>2, EndFound
  <2>2. \A i \in 0 .. l - 1 : b + i \in b .. b + l - 1
    OBVIOUS
  <2> QED BY <1>2, <1>3, <2>1, <2>2 DEF Inside, Disjoint
<1>5. PICK k \in 0 .. l : p = a + k /\ q = b + k /\ mem = Copied(m, a, b, k)
  BY <1>1, <1>3 DEF StrcpyAt
<1>6. ASSUME NEW j \in k .. l
      PROVE  mem[b + j] = m[b + j] /\ b + j \notin a .. a + k - 1 /\ (mem[b + j] = 0 <=> j = l)
  <2>1. PICK y \in 0 .. MemSize - 1 : y = b + j
    BY <1>4
  <2>2. y \notin a .. a + k - 1
    BY <1>4, <2>1
  <2>3. mem[y] = IF y \in a .. a + k - 1 THEN m[b + y - a] ELSE m[y]
    BY <1>2, <1>5, CopiedAt
  <2>4. m[b + j] = 0 <=> j = l
    <3>1. j # l => j \in 0 .. l - 1
      OBVIOUS
    <3> QED BY <1>4, <3>1
  <2> QED BY <2>1, <2>2, <2>3, <2>4
<1>7. Promised(c, m) = [mem |-> Copied(m, a, b, l + 1), value |-> a]
  BY <1>1, <1>3 DEF Promised
<1>8. First = a
  BY <1>1 DEF First
<1>9. CASE ~BothAligned
  <2>1. /\ mem' = [mem EXCEPT ![p] = mem[q]]
        /\ IF mem[q] = 0 THEN Gives(First) ELSE Goes(p + 1, q + 1, n)
    BY <1>9 DEF Strcpy
  <2>2. mem[q] = 0 <=> k = l
    BY <1>5, <1>6
  <2>3. mem' = Copied(m, a, b, k + 1)
    <3>1. k \in Nat /\ a + k < MemSize /\ b + k < MemSize /\ b + k \notin a .. a + k - 1
      BY <1>4, <1>6
    <3>2. [Copied(m, a, b, k) EXCEPT ![a + k] = Copied(m, a, b, k)[b + k]] = Copied(m, a, b, k + 1)
      BY <1>2, <3>1, CopyOne
    <3>3. mem' = [Copied(m, a, b, k) EXCEPT ![a + k] = Copied(m, a, b, k)[b + k]]
      BY <1>5, <2>1, Zenon
    <3> QED BY <3>2, <3>3, Zenon
  <2>4. CASE mem[q] = 0
    <3>1. ret' = Returned(a)
      BY <1>8, <2>1, <2>4 DEF Gives
    <3> QED BY <1>7, <2>2, <2>3, <2>4, <3>1, NotRunning DEF Kept
  <2>5. CASE mem[q] # 0
    <3>1. k + 1 \in 0 .. l /\ p' = a + (k + 1) /\ q' = b + (k + 1) /\ ret' = ret
      BY <1>5, <2>1, <2>2, <2>5 DEF Goes
    <3> QED BY <1>1, <1>3, <2>3, <3>1 DEF StrcpyAt
  <2> QED BY <2>4, <2>5
<1>10. CASE BothAligned /\ HasZero(q)
  <2>1. /\ Gives(First)
        /\ mem' = [x \in DOMAIN mem |->
                     IF x \in p .. p + Min({i \in Lane : i = 3 \/ mem[q + i] = 0}) THEN mem[q + x - p] ELSE mem[x]]
    BY <1>10 DEF Strcpy
  <2>2. PICK z \in Nat : z = l - k /\ z <= 3
    <3>1. PICK i \in 0 .. 3 : mem[b + k + i] = 0
      BY <1>5, <1>10 DEF HasZero, Lane
    <3>2. l - k > 3 => k + i \in k .. l /\ k + i # l /\ b + (k + i) = b + k + i
      BY <3>1
    <3> QED BY <1>6, <3>1, <3>2
  <2>3. PICK T : T = {i \in Lane : i = 3 \/ mem[q + i] = 0}
    OBVIOUS
  <2>4. Min(T) = z
    <3>1. z \in Lane /\ k + z \in k .. l /\ k + z = l /\ b + (k + z) = q + z
      BY <1>5, <2>2 DEF Lane
    <3>2. z \in T
      BY <1>6, <2>3, <3>1
    <3>3. ASSUME NEW y \in T
          PROVE  z <= y
      <4>1. y \in 0 .. 3 /\ (y = 3 \/ mem[q + y] = 0)
        BY <2>3 DEF Lane
      <4>2. y < z => k + y \in k .. l /\ k + y # l /\ b + (k + y) = q + y /\ y # 3
        BY <1>5, <2>2, <4>1
      <4>3. ~(y < z)
        BY <1>6, <4>1, <4>2
      <4> QED BY <4>1, <4>3
    <3>4. T \subseteq Int
      BY <2>3 DEF Lane
    <3> QED BY <3>2, <3>3, <3>4, MinIs
  <2>5. mem' = Copied(m, a, b, l + 1)
    <3>1. k \in Nat /\ b + k + z < MemSize /\ (b + k + z < a \/ a <= b)
      BY <1>4, <2>2
    <3>2. [x \in DOMAIN mem |-> IF x \in a + k .. a + k + z THEN mem[b + k + x - (a + k)] ELSE mem[x]]
            = Copied(m, a, b, k + z + 1)
      <4>1. PICK f : f = mem /\ f = Copied(m, a, b, k)
        BY <1>5
      <4>2. PICK g : g = Copied(m, a, b, k + z + 1)
        OBVIOUS
      <4>3. ASSUME NEW x \in 0 .. MemSize - 1
            PROVE  g[x] = IF x \in a + k .. a + k + z THEN f[b + k + x - (a + k)] ELSE f[x]
        <5>1. PICK w \in Nat : w = k + z + 1
          BY <3>1
        <5>2. k < w /\ b + w <= MemSize /\ (b + w <= a \/ a <= b) /\ a + k + z = a + w - 1
          BY <3>1, <5>1
        <5>3. Copied(m, a, b, w)[x] =
                IF x \in a + k .. a + w - 1 THEN Copied(m, a, b, k)[b + k + x - (a + k)] ELSE Copied(m, a, b, k)[x]
          BY <1>2, <3>1, <5>2, CopyMore
        <5> QED BY <4>1, <4>2, <5>1, <5>2, <5>3, Zenon
      <4>4. DOMAIN f = 0 .. MemSize - 1 /\ g = [x \in 0 .. MemSize - 1 |-> g[x]]
        BY <1>2, <4>1, <4>2 DEF Copied, Memories
      <4>5. [x \in DOMAIN f |-> IF x \in a + k .. a + k + z THEN f[b + k + x - (a + k)] ELSE f[x]] = g
        BY <4>3, <4>4
      <4> QED BY <4>1, <4>2, <4>5, Zenon
    <3>3. k + z + 1 = l + 1
      BY <2>2
    <3> QED BY <1>5, <2>1, <2>3, <2>4, <3>2, <3>3, Zenon
  <2>6. ret' = Returned(a)
    BY <1>8, <2>1 DEF Gives
  <2> QED BY <1>7, <2>5, <2>6, NotRunning DEF Kept
<1>11. CASE BothAligned /\ ~HasZero(q)
  <2>1. /\ Goes(p + 4, q + 4, n)
        /\ mem' = [x \in DOMAIN mem |-> IF x \in p .. p + 3 THEN mem[q + x - p] ELSE mem[x]]
    BY <1>11 DEF Strcpy
  <2>2. k + 4 <= l
    <3> SUFFICES ASSUME l - k <= 3
                 PROVE  FALSE
      BY <1>5
    <3>1. PICK i \in Lane : i = l - k
      BY DEF Lane
    <3>2. k + i = l /\ l \in k .. l /\ b + l = q + i
      BY <1>5, <3>1
    <3>3. mem[q + i] = 0
      BY <1>6, <3>2
    <3> QED BY <1>11, <3>3 DEF HasZero
  <2>3. mem' = Copied(m, a, b, k + 4)
    <3>1. k \in Nat /\ b + k + 3 < MemSize /\ (b + k + 3 < a \/ a <= b)
      BY <1>4, <2>2
    <3>2. [x \in DOMAIN mem |-> IF x \in a + k .. a + k + 3 THEN mem[b + k + x - (a + k)] ELSE mem[x]]
            = Copied(m, a, b, k + 3 + 1)
      <4>1. PICK f : f = mem /\ f = Copied(m, a, b, k)
        BY <1>5
      <4>2. PICK g : g = Copied(m, a, b, k + 3 + 1)
        OBVIOUS
      <4>3. ASSUME NEW x \in 0 .. MemSize - 1
            PROVE  g[x] = IF x \in a + k .. a + k + 3 THEN f[b + k + x - (a + k)] ELSE f[x]
        <5>1. PICK w \in Nat : w = k + 3 + 1
          BY <3>1
        <5>2. k < w /\ b + w <= MemSize /\ (b + w <= a \/ a <= b) /\ a + k + 3 = a + w - 1
          BY <3>1, <5>1
        <5>3. Copied(m, a, b, w)[x] =
                IF x \in a + k .. a + w - 1 THEN Copied(m, a, b, k)[b + k + x - (a + k)] ELSE Copied(m, a, b, k)[x]
          BY <1>2, <3>1, <5>2, CopyMore
        <5> QED BY <4>1, <4>2, <5>1, <5>2, <5>3, Zenon
      <4>4. DOMAIN f = 0 .. MemSize - 1 /\ g = [x \in 0 .. MemSize - 1 |-> g[x]]
        BY <1>2, <4>1, <4>2 DEF Copied, Memories
      <4>5. [x \in DOMAIN f |-> IF x \in a + k .. a + k + 3 THEN f[b + k + x - (a + k)] ELSE f[x]] = g
        BY <4>3, <4>4
      <4> QED BY <4>1, <4>2, <4>5, Zenon
    <3>3. k + 3 + 1 = k + 4
      OBVIOUS
    <3> QED BY <1>5, <2>1, <3>2, <3>3, Zenon
  <2>4. k + 4 \in 0 .. l /\ p' = a + (k + 4) /\ q' = b + (k + 4) /\ ret' = ret
    BY <1>5, <2>1, <2>2 DEF Goes
  <2> QED BY <1>1, <1>3, <2>3, <2>4 DEF StrcpyAt
<1> QED BY <1>9, <1>10, <1>11

-----------------------------------------------------------------------------
(* strcmp.                                                                    *)

StrcmpAt(c, m) ==
  \E k \in Nat : /\ p = c.p + k /\ q = c.q + k /\ mem = m
                 /\ SameStart(m, c.p, c.q, k)

\* Some more equal bytes.
LEMMA Longer ==
  ASSUME NEW m, NEW a \in Nat, NEW b \in Nat, NEW k \in Nat, NEW d \in Nat,
         SameStart(m, a, b, k),
         \A i \in 0 .. d - 1 : m[a + k + i] # 0 /\ m[a + k + i] = m[b + k + i]
  PROVE  SameStart(m, a, b, k + d)
<1>1. ASSUME NEW i \in 0 .. (k + d) - 1
      PROVE  m[a + i] # 0 /\ m[a + i] = m[b + i]
  <2>1. CASE i < k
    <3>1. i \in 0 .. k - 1
      BY <2>1
    <3> QED BY <3>1 DEF SameStart, SameBytes
  <2>2. CASE ~(i < k)
    <3>1. PICK j \in 0 .. d - 1 : j = i - k
      BY <2>2
    <3>2. a + k + j = a + i /\ b + k + j = b + i
      BY <3>1
    <3>3. m[a + k + j] # 0 /\ m[a + k + j] = m[b + k + j]
      OBVIOUS
    <3> QED BY <3>2, <3>3
  <2> QED BY <2>1, <2>2
<1> QED BY <1>1 DEF SameStart, SameBytes

LEMMA StrcmpStep ==
  ASSUME NEW CONSTANT c, NEW CONSTANT m, MemSize \in Nat, Legal(c, m), c.fn = "strcmp",
         called.call = c, ret = Running, StrcmpAt(c, m), Strcmp
  PROVE  (ret' = Running /\ StrcmpAt(c, m)') \/ (ret' # Running /\ Kept(c, m)')
<1>1. PICK a \in Nat, b \in Nat : a = c.p /\ b = c.q
  BY DEF Legal
<1>2. Terminated(m, a)
  BY <1>1 DEF Legal
<1>3. PICK k \in Nat : /\ p = a + k /\ q = b + k /\ mem = m
                       /\ SameStart(m, a, b, k)
  BY <1>1 DEF StrcmpAt
<1>4. mem' = m
  BY <1>3 DEF Strcmp
<1>5. Promised(c, m) = [mem |-> m, value |-> Compared(m, a, b)]
  BY <1>1 DEF Promised
<1>6. ASSUME ret' = Returned(Compared(m, a, b))
      PROVE  ret' # Running /\ Kept(c, m)'
  BY <1>4, <1>5, <1>6, NotRunning DEF Kept
<1>7. ASSUME NEW d \in Nat, Goes(p + d, q + d, n),
             \A i \in 0 .. d - 1 : m[a + k + i] # 0 /\ m[a + k + i] = m[b + k + i]
      PROVE  ret' = Running /\ StrcmpAt(c, m)'
  <2>1. SameStart(m, a, b, k + d)
    BY <1>3, <1>7, Longer
  <2>2. k + d \in Nat /\ p' = a + (k + d) /\ q' = b + (k + d) /\ ret' = ret
    BY <1>3, <1>7 DEF Goes
  <2>3. PICK w \in Nat : w = k + d
    BY <2>2
  <2>4. /\ p' = a + w /\ q' = b + w /\ mem' = m
        /\ SameStart(m, a, b, w)
    BY <1>4, <2>1, <2>2, <2>3
  <2> QED BY <1>1, <2>2, <2>4 DEF StrcmpAt
\* The byte that settles the result.
<1>8. ASSUME NEW d \in Nat, \A i \in 0 .. d - 1 : m[a + k + i] # 0 /\ m[a + k + i] = m[b + k + i]
      PROVE  /\ m[a + k + d] # m[b + k + d] => Compared(m, a, b) = Ordered(m[a + k + d], m[b + k + d])
             /\ m[a + k + d] = m[b + k + d] /\ m[a + k + d] = 0 => Compared(m, a, b) = 0
  <2>1. SameStart(m, a, b, k + d)
    BY <1>3, <1>8, Longer
  <2>2. PICK w \in Nat : w = k + d
    OBVIOUS
  <2>3. /\ m[a + w] # m[b + w] => Compared(m, a, b) = Ordered(m[a + w], m[b + w])
        /\ m[a + w] = m[b + w] /\ m[a + w] = 0 => Compared(m, a, b) = 0
    <3>1. SameStart(m, a, b, w)
      BY <2>1, <2>2
    <3> QED BY <1>2, <3>1, ComparedAt
  <2>4. a + k + d = a + w /\ b + k + d = b + w
    BY <2>2
  <2> QED BY <2>3, <2>4
<1>9. a + k + 0 = a + k /\ b + k + 0 = b + k /\ \A i : i \notin 0 .. 0 - 1
  OBVIOUS
<1>10. CASE ~BothAligned
  <2>1. /\ m[a + k] # m[b + k] => Compared(m, a, b) = Ordered(m[a + k], m[b + k])
        /\ m[a + k] = m[b + k] /\ m[a + k] = 0 => Compared(m, a, b) = 0
    BY <1>2, <1>3, ComparedAt
  <2>2. CASE mem[p] # mem[q]
    <3>1. ret' = Returned(Ordered(m[a + k], m[b + k]))
      BY <1>3, <1>10, <2>2 DEF Strcmp, Gives
    <3> QED BY <1>3, <1>6, <2>1, <2>2, <3>1
  <2>3. CASE mem[p] = mem[q] /\ mem[p] = 0
    <3>1. ret' = Returned(0)
      BY <1>10, <2>3 DEF Strcmp, Gives
    <3> QED BY <1>3, <1>6, <2>1, <2>3, <3>1
  <2>4. CASE mem[p] = mem[q] /\ mem[p] # 0
    <3>1. Goes(p + 1, q + 1, n)
      BY <1>10, <2>4 DEF Strcmp
    <3>2. \A i \in 0 .. 1 - 1 : m[a + k + i] # 0 /\ m[a + k + i] = m[b + k + i]
      BY <1>3, <1>9, <2>4
    <3> QED BY <1>7, <3>1, <3>2
  <2> QED BY <2>2, <2>3, <2>4
<1>11. CASE BothAligned /\ ~SameWord
  <2>1. PICK T : T = {i \in Lane : mem[p + i] # mem[q + i] \/ mem[p + i] = 0}
    OBVIOUS
  <2>2. T # {} /\ T \subseteq Nat
    BY <1>11, <2>1 DEF SameWord, Lane
  <2>3. PICK d \in Nat : d = Min(T) /\ d \in T /\ \A y \in T : d <= y
    BY <2>2, MinOf
  <2>4. ret' = Returned(IF mem[p + d] = mem[q + d] THEN 0 ELSE Ordered(mem[p + d], mem[q + d]))
    BY <1>11, <2>1, <2>3 DEF Strcmp, Gives
  <2>5. d \in 0 .. 3 /\ (mem[p + d] # mem[q + d] \/ mem[p + d] = 0)
    BY <2>1, <2>3 DEF Lane
  <2>6. \A i \in 0 .. d - 1 : m[a + k + i] # 0 /\ m[a + k + i] = m[b + k + i]
    <3> SUFFICES ASSUME NEW i \in 0 .. d - 1
                 PROVE  m[a + k + i] # 0 /\ m[a + k + i] = m[b + k + i]
      OBVIOUS
    <3>1. i \in Lane /\ ~(d <= i)
      BY <2>5 DEF Lane
    <3> QED BY <1>3, <2>1, <2>3, <3>1
  <2>7. /\ m[a + k + d] # m[b + k + d] => Compared(m, a, b) = Ordered(m[a + k + d], m[b + k + d])
        /\ m[a + k + d] = m[b + k + d] /\ m[a + k + d] = 0 => Compared(m, a, b) = 0
    BY <1>8, <2>6
  <2>8. mem[p + d] = m[a + k + d] /\ mem[q + d] = m[b + k + d]
    BY <1>3
  <2> QED BY <1>6, <2>4, <2>5, <2>7, <2>8
<1>12. CASE BothAligned /\ SameWord /\ HasZero(p)
  <2>1. ret' = Returned(0)
    BY <1>12 DEF Strcmp, Gives
  <2>2. PICK T : T = {i \in Lane : mem[p + i] = 0}
    OBVIOUS
  <2>3. T # {} /\ T \subseteq Nat
    BY <1>12, <2>2 DEF HasZero, Lane
  <2>4. PICK d \in Nat : d \in T /\ \A y \in T : d <= y
    BY <2>3, LeastNumber
  <2>5. d \in Lane /\ mem[p + d] = 0
    BY <2>2, <2>4
  <2>6. \A i \in 0 .. d - 1 : m[a + k + i] # 0 /\ m[a + k + i] = m[b + k + i]
    <3> SUFFICES ASSUME NEW i \in 0 .. d - 1
                 PROVE  m[a + k + i] # 0 /\ m[a + k + i] = m[b + k + i]
      OBVIOUS
    <3>1. i \in Lane /\ ~(d <= i)
      BY <2>5 DEF Lane
    <3> QED BY <1>3, <1>12, <2>2, <2>4, <3>1 DEF SameWord
  <2>7. m[a + k + d] = m[b + k + d] /\ m[a + k + d] = 0
    BY <1>3, <1>12, <2>5 DEF SameWord
  <2> QED BY <1>6, <1>8, <2>1, <2>6, <2>7
<1>13. CASE BothAligned /\ SameWord /\ ~HasZero(p)
  <2>1. Goes(p + 4, q + 4, n)
    BY <1>13 DEF Strcmp
  <2>2. \A i \in 0 .. 4 - 1 : m[a + k + i] # 0 /\ m[a + k + i] = m[b + k + i]
    <3>1. 0 .. 4 - 1 = Lane
      BY DEF Lane
    <3> QED BY <1>3, <1>13, <3>1 DEF SameWord, HasZero
  <2> QED BY <1>7, <2>1, <2>2
<1> QED BY <1>10, <1>11, <1>12, <1>13

-----------------------------------------------------------------------------
(* strstr.                                                                    *)

StrstrAt(c, m) ==
  /\ mem = m /\ q = c.q /\ p \in c.p .. EndOf(m, c.p) /\ n \in Nat
  /\ \A i \in 0 .. n - 1 : m[c.q + i] # 0
  /\ SameBytes(m, p, c.q, n)
  /\ \A x \in c.p .. p - 1 : x \notin Positions(m, c.p, c.q)

LEMMA StrstrStep ==
  ASSUME NEW CONSTANT c, NEW CONSTANT m, MemSize \in Nat, Legal(c, m), c.fn = "strstr",
         called.call = c, ret = Running, StrstrAt(c, m), Strstr
  PROVE  (ret' = Running /\ StrstrAt(c, m)') \/ (ret' # Running /\ Kept(c, m)')
<1>1. PICK a \in Nat, b \in Nat : a = c.p /\ b = c.q
  BY DEF Legal
<1>2. Terminated(m, a) /\ Terminated(m, b)
  BY <1>1 DEF Legal
<1>3. PICK e \in Nat : /\ e = EndOf(m, a) /\ a <= e /\ m[e] = 0
                       /\ \A i \in a .. e - 1 : m[i] # 0
  BY <1>2, EndFound
<1>4. PICK l \in Nat : /\ l = StrLen(m, b) /\ m[b + l] = 0
                       /\ \A i \in 0 .. l - 1 : m[b + i] # 0
  <2>1. PICK l \in Nat : /\ l = StrLen(m, b) /\ EndOf(m, b) = b + l /\ m[b + l] = 0
                         /\ \A i \in b .. EndOf(m, b) - 1 : m[i] # 0
    BY <1>2, EndFound
  <2>2. \A i \in 0 .. l - 1 : b + i \in b .. b + l - 1
    OBVIOUS
  <2> QED BY <2>1, <2>2
<1>5. PICK P : P = Positions(m, a, b) /\ P = {i \in a .. e - l : SameBytes(m, i, b, l)}
  BY <1>3, <1>4 DEF Positions
<1>6. PICK s \in a .. e, k \in Nat : /\ s = p /\ k = n /\ mem = m /\ q = b
                                     /\ \A i \in 0 .. k - 1 : m[b + i] # 0
                                     /\ SameBytes(m, s, b, k)
                                     /\ \A x \in a .. s - 1 : x \notin P
  BY <1>1, <1>3, <1>5 DEF StrstrAt
<1>7. Promised(c, m) = [mem |-> m, value |-> IF P = {} THEN Null ELSE Min(P)]
  BY <1>1, <1>5 DEF Promised
<1>8. mem' = m
  BY <1>6 DEF Strstr
<1>9. k <= l
  BY <1>2, <1>4, <1>6, EndAhead
<1>10. ASSUME ret' = Returned(IF P = {} THEN Null ELSE Min(P))
       PROVE  ret' # Running /\ Kept(c, m)'
  BY <1>7, <1>8, <1>10, NotRunning DEF Kept
<1>11. s \in P => P # {} /\ Min(P) = s
  <2> SUFFICES ASSUME s \in P
               PROVE  Min(P) = s
    OBVIOUS
  <2>1. P \subseteq Int /\ \A y \in P : s <= y
    <3>1. \A y \in P : y \in a .. e - l
      BY <1>5
    <3>2. ASSUME NEW y \in P
          PROVE  y \in Int /\ s <= y
      <4>1. y \in a .. e - l
        BY <3>1
      <4>2. ~(y \in a .. s - 1)
        BY <1>6
      <4> QED BY <4>1, <4>2
    <3> QED BY <3>2
  <2> QED BY <2>1, MinIs
<1>12. CASE mem[p] = 0
  <2>1. ret' = Returned(IF s = a /\ m[b] = 0 THEN s ELSE Null)
    BY <1>1, <1>6, <1>12 DEF Strstr, Gives, First
  <2>2. s = e
    <3>1. s # e => s \in a .. e - 1
      OBVIOUS
    <3> QED BY <1>3, <1>6, <1>12, <3>1
  <2>3. m[b] = 0 <=> l = 0
    <3>1. b + 0 = b
      OBVIOUS
    <3>2. l # 0 => 0 \in 0 .. l - 1
      OBVIOUS
    <3> QED BY <1>4, <3>1, <3>2
  <2>4. CASE s = a /\ l = 0
    <3>1. s \in a .. e - l
      BY <1>3, <2>2, <2>4
    <3>2. SameBytes(m, s, b, l)
      BY <2>4 DEF SameBytes
    <3>3. s \in P
      BY <1>5, <3>1, <3>2
    <3> QED BY <1>10, <1>11, <2>1, <2>3, <2>4, <3>3
  <2>5. CASE ~(s = a /\ l = 0)
    <3>1. P = {}
      <4> SUFFICES ASSUME NEW y \in P
                   PROVE  FALSE
        OBVIOUS
      <4>1. y \in a .. e - l /\ ~(y \in a .. s - 1)
        BY <1>5, <1>6
      <4>2. y = e /\ l = 0 /\ s # a
        BY <2>2, <2>5, <4>1
      <4>3. a \in a .. s - 1 /\ a \in a .. e - l
        BY <2>2, <4>2
      <4>4. SameBytes(m, a, b, l)
        BY <4>2 DEF SameBytes
      <4>5. a \in P
        BY <1>5, <4>3, <4>4
      <4> QED BY <1>6, <4>3, <4>5
    <3> QED BY <1>10, <2>1, <2>3, <2>5, <3>1
  <2> QED BY <2>4, <2>5
<1>13. s # e => s + 1 \in a .. e
  BY <1>3
<1>14. CASE mem[p] # 0 /\ mem[q + n] = 0
  <2>1. ret' = Returned(s)
    BY <1>6, <1>14 DEF Strstr, Gives
  <2>2. k = l
    <3>1. k < l => k \in 0 .. l - 1
      OBVIOUS
    <3>2. m[b + k] = 0
      BY <1>6, <1>14
    <3> QED BY <1>4, <1>9, <3>1, <3>2
  <2>3. s + l <= e
    <3> SUFFICES ASSUME e < s + l
                 PROVE  FALSE
      OBVIOUS
    <3>1. PICK j \in 0 .. l - 1 : j = e - s
      OBVIOUS
    <3>2. s + j = e /\ m[s + j] = m[b + j]
      BY <1>6, <2>2, <3>1 DEF SameBytes
    <3> QED BY <1>3, <1>4, <3>2
  <2>4. s \in P
    <3>1. s \in a .. e - l
      BY <2>3
    <3> QED BY <1>5, <1>6, <2>2, <3>1
  <2> QED BY <1>10, <1>11, <2>1, <2>4
<1>15. CASE mem[p] # 0 /\ mem[q + n] # 0 /\ mem[q + n] # mem[p + n]
  <2>1. Goes(p + 1, q, 0)
    BY <1>15 DEF Strstr, Gives
  <2>2. m[b + k] # 0 /\ m[b + k] # m[s + k] /\ m[s] # 0
    BY <1>6, <1>15
  <2>3. PICK t \in a .. e : t = s + 1
    BY <1>3, <1>13, <2>2
  <2>4. k < l
    BY <1>4, <1>9, <2>2
  <2>5. s \notin P
    <3>1. k \in 0 .. l - 1
      BY <2>4
    <3>2. ~SameBytes(m, s, b, l)
      BY <2>2, <3>1 DEF SameBytes
    <3> QED BY <1>5, <3>2
  <2>6. \A x \in a .. t - 1 : x \notin P
    <3>1. \A x \in a .. t - 1 : x = s \/ x \in a .. s - 1
      BY <2>3
    <3> QED BY <1>6, <2>5, <3>1
  <2>7. p' = t /\ q' = b /\ n' = 0 /\ ret' = ret
    BY <1>6, <2>1, <2>3 DEF Goes
  <2>8. SameBytes(m, t, b, 0) /\ 0 \in Nat /\ \A i \in 0 .. 0 - 1 : m[b + i] # 0
    BY DEF SameBytes
  <2>9. StrstrAt(c, m)'
    BY <1>1, <1>3, <1>5, <1>8, <2>6, <2>7, <2>8 DEF StrstrAt
  <2> QED BY <2>7, <2>9
<1>16. CASE mem[p] # 0 /\ mem[q + n] # 0 /\ mem[q + n] = mem[p + n]
  <2>1. Goes(p, q, n + 1)
    BY <1>16 DEF Strstr, Gives
  <2>2. m[b + k] # 0 /\ m[b + k] = m[s + k]
    BY <1>6, <1>16
  <2>3. PICK j \in Nat : j = k + 1
    OBVIOUS
  <2>4. \A i \in 0 .. j - 1 : i = k \/ i \in 0 .. k - 1
    BY <2>3
  <2>5. (\A i \in 0 .. j - 1 : m[b + i] # 0) /\ SameBytes(m, s, b, j)
    BY <1>6, <2>2, <2>4 DEF SameBytes
  <2>6. p' = s /\ q' = b /\ n' = j /\ ret' = ret
    BY <1>6, <2>1, <2>3 DEF Goes
  <2>7. StrstrAt(c, m)'
    BY <1>1, <1>3, <1>5, <1>6, <1>8, <2>5, <2>6 DEF StrstrAt
  <2> QED BY <2>6, <2>7
<1> QED BY <1>12, <1>14, <1>15, <1>16

-----------------------------------------------------------------------------
(* Every call.                                                                *)

\* A running call is in its loop, one that has returned has kept what C promises.
LoopAt(c, m) ==
  CASE c.fn = "memcpy" -> MemcpyAt(c, m)
    [] c.fn = "memset" -> MemsetAt(c, m)
    [] c.fn = "memcmp" -> MemcmpAt(c, m)
    [] c.fn = "strcpy" -> StrcpyAt(c, m)
    [] c.fn = "strcmp" -> StrcmpAt(c, m)
    [] c.fn = "strstr" -> StrstrAt(c, m)

StringInv ==
  \/ called.call.fn = "none" /\ ret = Running
  \/ /\ Legal(called.call, called.mem)
     /\ ret = Running => LoopAt(called.call, called.mem)
     /\ ret # Running => Kept(called.call, called.mem)

LEMMA StringFirst ==
  ASSUME NEW CONSTANT c, NEW CONSTANT m, MemSize \in Nat, Legal(c, m), CallString(c, m)
  PROVE  StringInv
<1>1. called.call = c /\ called.mem = m /\ ret = Running /\ mem = m /\ p = c.p /\ q = c.q /\ n = c.n
  BY DEF CallString
<1>2. m \in Memories /\ c.p \in Nat /\ c.q \in Nat /\ c.n \in Nat
  BY DEF Legal, Memories
<1>3. PICK a \in Nat, b \in Nat, k \in Nat : a = c.p /\ b = c.q /\ k = c.n
  BY <1>2
<1>4. a + 0 = a /\ b + 0 = b /\ k - 0 = k /\ 0 \in 0 .. k /\ (\A i : i \notin 0 .. 0 - 1)
  OBVIOUS
<1>5. SameBytes(m, a, b, 0)
  BY <1>4 DEF SameBytes
<1>6. Copied(m, a, b, 0) = m
  BY <1>2, CopiedNone
<1>7. CASE c.fn = "memcpy"
  BY <1>1, <1>3, <1>4, <1>6, <1>7 DEF StringInv, LoopAt, MemcpyAt
<1>8. CASE c.fn = "memset"
  <2>1. Filled(m, a, b, 0) = m
    <3>1. a + 0 - 1 = a - 1 /\ \A i \in DOMAIN m : i \notin a .. a - 1
      OBVIOUS
    <3>2. Filled(m, a, b, 0) = [i \in DOMAIN m |-> m[i]]
      BY <3>1 DEF Filled
    <3> QED BY <1>2, <3>2 DEF Memories
  <2> QED BY <1>1, <1>3, <1>4, <1>8, <2>1 DEF StringInv, LoopAt, MemsetAt
<1>9. CASE c.fn = "memcmp"
  BY <1>1, <1>3, <1>4, <1>5, <1>9 DEF StringInv, LoopAt, MemcmpAt
<1>10. CASE c.fn = "strcpy"
  <2>1. Terminated(m, b)
    BY <1>3, <1>10 DEF Legal
  <2>2. 0 \in 0 .. StrLen(m, b)
    BY <2>1, EndFound
  <2>3. StrcpyAt(c, m)
    BY <1>1, <1>3, <1>4, <1>6, <2>2 DEF StrcpyAt
  <2> QED BY <1>1, <1>10, <2>3 DEF StringInv, LoopAt
<1>11. CASE c.fn = "strcmp"
  BY <1>1, <1>3, <1>4, <1>5, <1>11 DEF StringInv, LoopAt, StrcmpAt, SameStart
<1>12. CASE c.fn = "strstr"
  <2>1. Terminated(m, a)
    BY <1>3, <1>12 DEF Legal
  <2>2. EndOf(m, a) \in a .. MemSize - 1 /\ EndOf(m, a) \in Nat
    BY <2>1, EndFound
  <2>3. SameBytes(m, a, b, 0) /\ a \in a .. EndOf(m, a) /\ (\A x : x \notin a .. a - 1)
    BY <1>5, <2>2
  <2>4. n = 0 /\ 0 \in Nat
    BY <1>1, <1>12 DEF Legal
  <2>5. StrstrAt(c, m)
    BY <1>1, <1>3, <1>4, <2>3, <2>4 DEF StrstrAt
  <2> QED BY <1>1, <1>12, <2>5 DEF StringInv, LoopAt
<1> QED BY <1>7, <1>8, <1>9, <1>10, <1>11, <1>12 DEF Legal

LEMMA StringMoves == StringInv /\ StringStep => StringInv'
<1> SUFFICES ASSUME StringInv, StringStep
             PROVE  StringInv'
  OBVIOUS
<1>1. PICK c : c = called.call
  OBVIOUS
<1>2. PICK m : m = called.mem
  OBVIOUS
<1>3. ret = Running /\ c.fn # "none"
  BY <1>1 DEF StringStep, Memcpy, Memset, Memcmp, Strcpy, Strcmp, Strstr, In
<1>4. Legal(c, m) /\ LoopAt(c, m) /\ MemSize \in Nat
  BY <1>1, <1>2, <1>3, StringAssumption, Zenon DEF StringInv
<1>5. called' = called
  BY DEF StringStep, Memcpy, Memset, Memcmp, Strcpy, Strcmp, Strstr, Goes, Gives
<1>6. c = called'.call /\ m = called'.mem
  BY <1>1, <1>2, <1>5
<1>7. ASSUME (ret' = Running /\ LoopAt(c, m)') \/ (ret' # Running /\ Kept(c, m)')
      PROVE  StringInv'
  BY <1>4, <1>6, <1>7, Zenon DEF StringInv
<1>8. CASE Memcpy
  <2>1. c.fn = "memcpy"
    BY <1>1, <1>8 DEF Memcpy, In
  <2>2. MemcpyAt(c, m)
    BY <1>4, <2>1 DEF LoopAt
  <2>3. (ret' = Running /\ MemcpyAt(c, m)') \/ (ret' # Running /\ Kept(c, m)')
    BY <1>1, <1>3, <1>4, <1>8, <2>1, <2>2, MemcpyStep, Zenon
  <2>4. MemcpyAt(c, m)' => LoopAt(c, m)'
    BY <2>1 DEF LoopAt
  <2> QED BY <1>7, <2>3, <2>4
<1>9. CASE Memset
  <2>1. c.fn = "memset"
    BY <1>1, <1>9 DEF Memset, In
  <2>2. MemsetAt(c, m)
    BY <1>4, <2>1 DEF LoopAt
  <2>3. (ret' = Running /\ MemsetAt(c, m)') \/ (ret' # Running /\ Kept(c, m)')
    BY <1>1, <1>3, <1>4, <1>9, <2>1, <2>2, MemsetStep, Zenon
  <2>4. MemsetAt(c, m)' => LoopAt(c, m)'
    BY <2>1 DEF LoopAt
  <2> QED BY <1>7, <2>3, <2>4
<1>10. CASE Memcmp
  <2>1. c.fn = "memcmp"
    BY <1>1, <1>10 DEF Memcmp, In
  <2>2. MemcmpAt(c, m)
    BY <1>4, <2>1 DEF LoopAt
  <2>3. (ret' = Running /\ MemcmpAt(c, m)') \/ (ret' # Running /\ Kept(c, m)')
    BY <1>1, <1>3, <1>4, <1>10, <2>1, <2>2, MemcmpStep, Zenon
  <2>4. MemcmpAt(c, m)' => LoopAt(c, m)'
    BY <2>1 DEF LoopAt
  <2> QED BY <1>7, <2>3, <2>4
<1>11. CASE Strcpy
  <2>1. c.fn = "strcpy"
    BY <1>1, <1>11 DEF Strcpy, In
  <2>2. StrcpyAt(c, m)
    BY <1>4, <2>1 DEF LoopAt
  <2>3. (ret' = Running /\ StrcpyAt(c, m)') \/ (ret' # Running /\ Kept(c, m)')
    BY <1>1, <1>3, <1>4, <1>11, <2>1, <2>2, StrcpyStep, Zenon
  <2>4. StrcpyAt(c, m)' => LoopAt(c, m)'
    BY <2>1 DEF LoopAt
  <2> QED BY <1>7, <2>3, <2>4
<1>12. CASE Strcmp
  <2>1. c.fn = "strcmp"
    BY <1>1, <1>12 DEF Strcmp, In
  <2>2. StrcmpAt(c, m)
    BY <1>4, <2>1 DEF LoopAt
  <2>3. (ret' = Running /\ StrcmpAt(c, m)') \/ (ret' # Running /\ Kept(c, m)')
    BY <1>1, <1>3, <1>4, <1>12, <2>1, <2>2, StrcmpStep, Zenon
  <2>4. StrcmpAt(c, m)' => LoopAt(c, m)'
    BY <2>1 DEF LoopAt
  <2> QED BY <1>7, <2>3, <2>4
<1>13. CASE Strstr
  <2>1. c.fn = "strstr"
    BY <1>1, <1>13 DEF Strstr, In
  <2>2. StrstrAt(c, m)
    BY <1>4, <2>1 DEF LoopAt
  <2>3. (ret' = Running /\ StrstrAt(c, m)') \/ (ret' # Running /\ Kept(c, m)')
    BY <1>1, <1>3, <1>4, <1>13, <2>1, <2>2, StrstrStep, Zenon
  <2>4. StrstrAt(c, m)' => LoopAt(c, m)'
    BY <2>1 DEF LoopAt
  <2> QED BY <1>7, <2>3, <2>4
<1> QED BY <1>8, <1>9, <1>10, <1>11, <1>12, <1>13 DEF StringStep

-----------------------------------------------------------------------------
(* The library as a whole.                                                    *)

\* printf keeps to its buffer; whoever else calls leaves it alone.
PrintInv ==
  /\ caller # "printf" => stage = "text"
  /\ sink.max \in Int /\ (\E size \in Nat : DOMAIN buffer = 0 .. size - 1)
  /\ BufferKept

LEMMA LibraryFirst == Init => StringInv /\ PrintInv
<1> SUFFICES ASSUME Init
             PROVE  StringInv /\ PrintInv
  OBVIOUS
<1>1. StringInv
  <2>1. CASE caller = "string"
    <3>1. PICK C \in StringCalls : \E c \in C : CallString(c.call, c.mem)
      BY <2>1 DEF Init, CallsString
    <3>2. PICK c \in C : CallString(c.call, c.mem)
      BY <3>1
    <3>3. Legal(c.call, c.mem) /\ MemSize \in Nat
      BY <3>1, <3>2, StringAssumption
    <3> QED BY <3>2, <3>3, StringFirst
  <2>2. CASE caller # "string"
    <3>1. CallString([fn |-> "none", p |-> 0, q |-> 0, n |-> 0], <<>>)
      BY <2>2 DEF Init, StringUnused, Unused
    <3>2. called.call.fn = "none" /\ ret = Running
      BY <3>1 DEF CallString
    <3> QED BY <3>2 DEF StringInv
  <2> QED BY <2>1, <2>2
<1>2. ASSUME NEW fct, NEW max \in Nat, NEW parts, NEW size \in Nat, Request(fct, max, parts, size)
      PROVE  PrintInv
  <2>1. stage = "text" /\ sink = [fct |-> fct, max |-> max] /\ buffer = [k \in 0 .. size - 1 |-> "?"]
    BY <1>2 DEF Request, CallPrintf
  <2>2. sink.max \in Int /\ DOMAIN buffer = 0 .. size - 1 /\ \A k \in DOMAIN buffer : buffer[k] = "?"
    BY <2>1
  <2> QED BY <2>1, <2>2 DEF PrintInv, BufferKept
<1>3. CASE caller = "printf"
  <2>1. PICK C \in PrintfCalls : \E c \in C : Request(c.fct, c.max, c.parts, c.size)
    BY <1>3 DEF Init, CallsPrintf
  <2>2. PICK c \in C : Request(c.fct, c.max, c.parts, c.size)
    BY <2>1
  <2>3. c.max \in Nat /\ c.size \in Nat
    BY <2>1, <2>2, PrintfAssumption
  <2> QED BY <1>1, <1>2, <2>2, <2>3
<1>4. CASE caller # "printf"
  <2>1. Request("null", 0, <<>>, 0)
    BY <1>4 DEF Init, PrintfUnused, Unused
  <2>2. PrintInv
    BY <1>2, <2>1
  <2> QED BY <1>1, <2>2
<1> QED BY <1>3, <1>4

\* An output function writes below maxlen only.
LEMMA OutKeeps ==
  ASSUME NEW chars, NEW i, PrintInv, Out(chars, i), sink' = sink
  PROVE  (\E size \in Nat : DOMAIN buffer' = 0 .. size - 1) /\ BufferKept'
<1>1. PICK size \in Nat : DOMAIN buffer = 0 .. size - 1
  BY DEF PrintInv
<1>2. DOMAIN buffer' = DOMAIN buffer
  BY DEF Out
<1>3. ASSUME sink.fct = "buffer", NEW k \in DOMAIN buffer, k >= sink.max
      PROVE  buffer'[k] = buffer[k]
  <2>1. ~(k < sink.max)
    <3>1. k \in Int /\ sink.max \in Int
      BY <1>1, <1>3 DEF PrintInv
    <3> QED BY <1>3, <3>1
  <2> QED BY <1>3, <2>1 DEF Out
<1>4. BufferKept'
  BY <1>2, <1>3 DEF PrintInv, BufferKept
<1> QED BY <1>1, <1>2, <1>4

LEMMA PrintMoves == PrintInv /\ PrintfStep /\ caller = "printf" /\ caller' = caller => PrintInv'
<1> SUFFICES ASSUME PrintInv, PrintfStep, caller = "printf", caller' = caller
             PROVE  PrintInv'
  OBVIOUS
<1>1. sink' = sink
  BY DEF PrintfStep, Literal, Percent, Flag, Width, NoPrecision, Point, Precision, Length, Specifier,
         ConvertSigned, ConvertUnsigned, ConvertPointer, ConvertFloat, ConvertChar, ConvertString,
         ConvertOther, Terminate, Converted, SameCall
<1>2. buffer' = buffer \/ \E chars, i : Out(chars, i)
  <2>1. CASE Literal \/ ConvertOther \/ Terminate
    BY <2>1 DEF Literal, ConvertOther, Terminate, Emit
  <2>2. CASE Percent \/ Flag \/ Width \/ NoPrecision \/ Point \/ Precision \/ Length \/ Specifier
    BY <2>2 DEF Percent, Flag, Width, NoPrecision, Point, Precision, Length, Specifier, NoOutput
  <2>3. CASE ConvertSigned \/ ConvertUnsigned \/ ConvertPointer \/ ConvertChar \/ ConvertString
    <3>1. PICK chars : Converted(chars)
      BY <2>3 DEF ConvertSigned, ConvertUnsigned, ConvertPointer, ConvertChar, ConvertString
    <3> QED BY <3>1 DEF Converted, Emit
  <2>4. CASE ConvertFloat
    <3>1. buffer' = buffer \/ \E chars : Converted(chars)
      BY <2>4 DEF ConvertFloat
    <3> QED BY <3>1 DEF Converted, Emit
  <2> QED BY <2>1, <2>2, <2>3, <2>4 DEF PrintfStep
<1>3. CASE buffer' = buffer
  BY <1>1, <1>3 DEF PrintInv, BufferKept
<1>4. CASE \E chars, i : Out(chars, i)
  <2>1. (\E size \in Nat : DOMAIN buffer' = 0 .. size - 1) /\ BufferKept'
    BY <1>1, <1>4, OutKeeps
  <2> QED BY <1>1, <2>1 DEF PrintInv
<1> QED BY <1>2, <1>3, <1>4

LEMMA LibraryNext == StringInv /\ PrintInv /\ [Next]_vars => StringInv' /\ PrintInv'
<1> SUFFICES ASSUME StringInv, PrintInv, [Next]_vars
             PROVE  StringInv' /\ PrintInv'
  OBVIOUS
<1>1. ASSUME stringVars' = stringVars
      PROVE  StringInv'
  <2>1. mem' = mem /\ p' = p /\ q' = q /\ n' = n /\ ret' = ret /\ called' = called
    BY <1>1 DEF stringVars
  <2> QED BY <2>1 DEF StringInv, LoopAt, Kept, MemcpyAt, MemsetAt, MemcmpAt, StrcpyAt, StrcmpAt, StrstrAt
<1>2. ASSUME printfVars' = printfVars, caller' = caller
      PROVE  PrintInv'
  <2>1. stage' = stage /\ sink' = sink /\ buffer' = buffer
    BY <1>2 DEF printfVars
  <2> QED BY <1>2, <2>1 DEF PrintInv, BufferKept
<1>3. CASE StringRuns
  <2>1. printfVars' = printfVars /\ caller' = caller /\ StringStep
    BY <1>3 DEF StringRuns, ownVars
  <2> QED BY <1>2, <2>1, StringMoves
<1>4. CASE PrintfRuns
  <2>1. stringVars' = stringVars /\ caller' = caller /\ caller = "printf" /\ PrintfStep
    BY <1>4 DEF PrintfRuns, ownVars
  <2> QED BY <1>1, <2>1, PrintMoves
<1>5. CASE DelayRuns \/ CaptureRuns \/ I2cCall \/ I2cWire \/ I2cLog
  <2>1. stringVars' = stringVars /\ printfVars' = printfVars /\ caller' = caller
    BY <1>5 DEF DelayRuns, CaptureRuns, I2cCall, I2cWire, I2cLog, OtherVars, ownVars
  <2> QED BY <1>1, <1>2, <2>1
<1>6. CASE UNCHANGED vars
  <2>1. stringVars' = stringVars /\ printfVars' = printfVars /\ caller' = caller
    BY <1>6 DEF vars, ownVars
  <2> QED BY <1>1, <1>2, <2>1
<1> QED BY <1>3, <1>4, <1>5, <1>6 DEF Next, Loops, Completed

\* Every call of a string function works through its loop to what C promises
\* (stdlib.c 31-195), and printf stays in its buffer.
THEOREM LibraryInvariant == Spec => [](StringInv /\ PrintInv)
BY LibraryFirst, LibraryNext, PTL DEF Spec

\* The string functions return what C promises and change no byte besides, for every
\* memory, every content of the strings and every alignment (stdlib.c 31-195).
THEOREM StringFunctionsRight == Spec => []StringsRight
<1>1. StringInv => StringsRight
  BY DEF StringInv, StringsRight, Kept
<1> QED BY <1>1, LibraryInvariant, PTL

\* printf writes nothing at or beyond maxlen, whatever the format and the arguments
\* (printf.c 107-112, 778-781).
THEOREM PrintfKeepsBuffer == Spec => []BufferKept
<1>1. PrintInv => BufferKept
  BY DEF PrintInv
<1> QED BY <1>1, LibraryInvariant, PTL

\* All that is asked of the calls of the library holds of all but printf.
THEOREM CallsRightButPrintf == Spec => [](caller # "printf" => CallsRight)
<1>1. StringInv /\ PrintInv => (caller # "printf" => CallsRight)
  <2>1. StringInv => StringsRight
    BY DEF StringInv, StringsRight, Kept
  <2>2. "text" # "done"
    OBVIOUS
  <2> QED BY <2>1, <2>2 DEF PrintInv, CallsRight, ConversionsRight
<1> QED BY <1>1, LibraryInvariant, PTL
=============================================================================
