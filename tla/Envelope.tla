------------------------------ MODULE Envelope ------------------------------
(* The level of one operator of fpga/opl3: envelope_generator.v with its rate *)
(* counter and its key scaling.  A step of Slot is one time slot of the       *)
(* operator, one in each sample; between two slots the CPU moves the key or   *)
(* rewrites the operator's registers.  Opl2Core has the clock ticks.          *)
EXTENDS Integers, Sequences

CONSTANTS
  Patches   \* register settings: [ar, dr, sl, rr, egt, ksr, bit, block, fnum, ksl, tl, am]

ASSUME PatchAssumption ==
  Patches \subseteq [ar : 0 .. 15, dr : 0 .. 15, sl : 0 .. 15, rr : 0 .. 15, egt : BOOLEAN,
                     ksr : BOOLEAN, bit : 0 .. 1, block : 0 .. 7, fnum : 0 .. 15,
                     ksl : 0 .. 3, tl : 0 .. 63, am : BOOLEAN]

CounterLen == 32768   \* 2 ^ COUNTER_WIDTH
Silence    == 511
Tremolo    == {0, 26} \* the least and the greatest value of tremolo.v

VARIABLES
  key, patch,      \* the key bit and the registers, as sampled for the next slot
  r0, r1,          \* the edge detectors of the key
  state, counter, level

vars == <<key, patch, r0, r1, state, counter, level>>

\* env_rate_counter.v: four steps to a rate, and the pitch adds up to fifteen.
\* The field bit is the bit of fnum that nts selects.
KeyScale(p) == LET n == 2 * p.block + p.bit IN IF p.ksr THEN n ELSE n \div 4
Effective(p, rate) == IF KeyScale(p) + 4 * rate > 60 THEN 60 ELSE KeyScale(p) + 4 * rate
Increment(p, rate) ==
  LET e == Effective(p, rate) IN (4 + (e % 4)) * 2 ^ (e \div 4)

RateOf(s, p) == CASE s = "ATTACK" -> p.ar
                  [] s = "DECAY" -> p.dr
                  [] s = "SUSTAIN" -> 0
                  [] OTHER -> p.rr

\* Mutant of NextState: the envelope type is read the wrong way round.
NextStateHolds(s, v, p) ==
  CASE s = "ATTACK" /\ v = 0 -> "DECAY"
    [] s = "DECAY" /\ v \div 16 >= p.sl -> "SUSTAIN"
    [] s = "SUSTAIN" /\ p.egt -> "RELEASE"
    [] OTHER -> s

NextState(s, v, p) ==
  CASE s = "ATTACK" /\ v = 0 -> "DECAY"
    [] s = "DECAY" /\ v \div 16 >= p.sl -> "SUSTAIN"
    [] s = "SUSTAIN" /\ ~p.egt -> "RELEASE"
    [] OTHER -> s

\* Mutant of NextLevel: the attack does not stop at the peak.
NextLevelRuns(s, v, overflow) ==
  CASE s = "ATTACK" /\ overflow # 0 -> (v - ((v * overflow) \div 8 + 1)) % 512
    [] s \in {"DECAY", "RELEASE"} -> IF v + overflow > Silence THEN Silence ELSE v + overflow
    [] OTHER -> v

\* Nine bits, and 0 is loudest: an attack subtracts an eighth of the level times
\* the overflow, the falling phases add the overflow.
NextLevel(s, v, overflow) ==
  CASE s = "ATTACK" /\ overflow # 0 /\ v # 0 -> (v - ((v * overflow) \div 8 + 1)) % 512
    [] s \in {"DECAY", "RELEASE"} -> IF v + overflow > Silence THEN Silence ELSE v + overflow
    [] OTHER -> v

-----------------------------------------------------------------------------
(* What the level does to the sound: ksl_add_rom.v and the sum of the module. *)

KslRom == <<0, 32, 40, 45, 48, 51, 53, 55, 56, 58, 59, 60, 61, 62, 63, 64>>
KslAdd(p) ==
  LET t == KslRom[p.fnum + 1] + 8 * (p.block - 8)   \* fnum: its four high bits
  IN  IF t <= 0 THEN 0 ELSE (t * <<0, 2, 1, 4>>[p.ksl + 1]) % 256

\* env_tmp is signed and two bits wider than the level.
Signed11(x) == ((x + 1024) % 2048) - 1024
Attenuation(v, p, trem) ==
  LET sum == Signed11(v + 4 * p.tl + KslAdd(p) + IF p.am THEN trem ELSE 0)
  IN  IF sum < 0 THEN 0 ELSE IF sum > Silence THEN Silence ELSE sum

-----------------------------------------------------------------------------

Init ==
  /\ key = FALSE /\ patch \in Patches
  /\ r0 = FALSE /\ r1 = FALSE
  /\ state = "RELEASE" /\ counter = 0 /\ level = Silence

Press   == key' = ~key /\ UNCHANGED <<patch, r0, r1, state, counter, level>>
Program == patch' \in Patches /\ UNCHANGED <<key, r0, r1, state, counter, level>>

\* The three ticks of a slot that count: the state moves on with the key pulse
\* of the sample before, the counter advances at the rate of that state while
\* the new pulse moves the state once more, and the level takes the overflow
\* that the counter is going to have next.
Slot ==
  LET early == IF r0 /\ ~r1 THEN "ATTACK" ELSE IF ~r0 /\ r1 THEN "RELEASE"
               ELSE NextState(state, level, patch)
      late  == IF key /\ ~r0 THEN "ATTACK" ELSE IF ~key /\ r0 THEN "RELEASE" ELSE early
      count == IF RateOf(early, patch) = 0 THEN counter
               ELSE (counter + Increment(patch, RateOf(early, patch))) % CounterLen
      overflow == (count + Increment(patch, RateOf(late, patch))) \div CounterLen
  IN  /\ r0' = key /\ r1' = r0
      /\ state' = late /\ counter' = count
      /\ level' = NextLevel(late, level, overflow)
      /\ UNCHANGED <<key, patch>>

Next == Press \/ Program \/ Slot

\* The sample clock never stops.
Spec == Init /\ [][Next]_vars /\ WF_vars(Slot)

-----------------------------------------------------------------------------
(* Properties.                                                                *)

\* The level never wraps: it moves to the loud side in an attack only and to the
\* silent side in the other states only (envelope_generator.v 166-182); and
\* whatever the registers add to it attenuates further, the sum of four terms
\* fitting its eleven bits by ten counts (envelope_generator.v 196-210).
LevelSane ==
  /\ [](\A p \in Patches, t \in Tremolo : Attenuation(level, p, t) >= level)
  /\ [][/\ level' < level => state' = "ATTACK"
        /\ level' > level => state' # "ATTACK"]_vars

\* Notes end: with the key up for good and a release rate, and with the key held
\* for good if the envelope type does not sustain, the operator falls silent and
\* stays so (envelope_generator.v 123-139, 166-182).
Percussive(p) == ~p.egt /\ p.ar # 0 /\ p.dr # 0 /\ p.rr # 0
NotesEnd ==
  /\ <>[](~key /\ patch.rr # 0) => <>[](level = Silence)
  /\ <>[](key /\ Percussive(patch)) => <>[](level = Silence)
=============================================================================
