--------------------------- MODULE EnvelopeProofs ---------------------------
(* The level of an operator never wraps, whatever the registers, the key and  *)
(* the counter do.                                                            *)
EXTENDS Envelope, TLAPS

States == {"ATTACK", "DECAY", "SUSTAIN", "RELEASE"}

\* Every register stays in its width; the bounds of the arithmetic rest on it.
TypeInv ==
  /\ key \in BOOLEAN /\ patch \in Patches /\ r0 \in BOOLEAN /\ r1 \in BOOLEAN
  /\ state \in States /\ counter \in 0 .. CounterLen - 1 /\ level \in 0 .. Silence

-----------------------------------------------------------------------------
(* Arithmetic.                                                                *)

\* Division of naturals.
LEMMA Division ==
  ASSUME NEW x \in Nat, NEW d \in Nat, d > 0
  PROVE  x % d \in 0 .. d - 1 /\ x \div d \in Nat
  OBVIOUS

LEMMA Modulus ==
  ASSUME NEW x \in Nat
  PROVE  x % CounterLen \in 0 .. CounterLen - 1 /\ x \div CounterLen \in Int
<1>1. CounterLen \in Nat /\ CounterLen > 0
  BY DEF CounterLen
<1>2. QED
  BY <1>1, Division

\* The range of the counter, as inequalities.
LEMMA Interval == ASSUME NEW d \in Nat, NEW x PROVE x \in 0 .. d - 1 <=> x \in Nat /\ x < d
  OBVIOUS

LEMMA CounterRange == ASSUME NEW x PROVE x \in 0 .. CounterLen - 1 <=> x \in Nat /\ x < CounterLen
<1>1. CounterLen \in Nat
  BY DEF CounterLen
<1>2. QED
  BY <1>1, Interval

LEMMA NoWrap == ASSUME NEW x \in Nat, NEW d \in Nat, x < d PROVE x % d = x
  OBVIOUS

\* The powers a rate can ask for; only the greatest needs the sixteenth bit.
Power(k) == 2 ^ k

LEMMA Powers ==
  ASSUME NEW k \in 0 .. 15
  PROVE  /\ Power(k) \in Nat
         /\ Power(k) <= 32768
         /\ k # 15 => Power(k) <= 16384
<1>1. Power(0) = 1 /\ Power(1) = 2 /\ Power(2) = 4 /\ Power(3) = 8
  BY DEF Power
<1>2. Power(4) = 16 /\ Power(5) = 32 /\ Power(6) = 64 /\ Power(7) = 128
  BY DEF Power
<1>3. Power(8) = 256 /\ Power(9) = 512 /\ Power(10) = 1024 /\ Power(11) = 2048
  BY DEF Power
<1>4. Power(12) = 4096 /\ Power(13) = 8192 /\ Power(14) = 16384 /\ Power(15) = 32768
  BY DEF Power
<1>5. CASE k \in 0 .. 3
  <2>1. k = 0 \/ k = 1 \/ k = 2 \/ k = 3
    BY <1>5
  <2>2. QED
    BY <1>1, <2>1
<1>6. CASE k \in 4 .. 7
  <2>1. k = 4 \/ k = 5 \/ k = 6 \/ k = 7
    BY <1>6
  <2>2. QED
    BY <1>2, <2>1
<1>7. CASE k \in 8 .. 11
  <2>1. k = 8 \/ k = 9 \/ k = 10 \/ k = 11
    BY <1>7
  <2>2. QED
    BY <1>3, <2>1
<1>8. CASE k \in 12 .. 15
  <2>1. k = 12 \/ k = 13 \/ k = 14 \/ k = 15
    BY <1>8
  <2>2. QED
    BY <1>4, <2>1
<1>9. k \in 0 .. 3 \/ k \in 4 .. 7 \/ k \in 8 .. 11 \/ k \in 12 .. 15
  OBVIOUS
<1>10. QED
  BY <1>5, <1>6, <1>7, <1>8, <1>9

\* The fields of a patch have the widths of the registers.
LEMMA Fields ==
  ASSUME NEW p \in Patches
  PROVE  /\ p.ar \in 0 .. 15 /\ p.dr \in 0 .. 15 /\ p.rr \in 0 .. 15 /\ p.ksr \in BOOLEAN
         /\ p.bit \in 0 .. 1 /\ p.block \in 0 .. 7 /\ p.fnum \in 0 .. 15 /\ p.ksl \in 0 .. 3
         /\ p.tl \in 0 .. 63 /\ p.am \in BOOLEAN
BY PatchAssumption

\* No rate advances the counter by more than four times its length.
LEMMA IncrementBound ==
  ASSUME NEW p \in Patches, NEW rate \in 0 .. 15
  PROVE  Increment(p, rate) \in Nat /\ Increment(p, rate) <= 4 * CounterLen
<1>1. KeyScale(p) \in 0 .. 15
  <2>1. 2 * p.block + p.bit \in 0 .. 15
    BY Fields
  <2>2. (2 * p.block + p.bit) \div 4 \in 0 .. 15
    BY <2>1
  <2>3. QED
    BY <2>1, <2>2 DEF KeyScale
<1> DEFINE e == Effective(p, rate)
           f == Power(e \div 4)
<1>2. e \in 0 .. 60
  BY <1>1 DEF Effective
<1>3. e % 4 \in 0 .. 3 /\ e \div 4 \in 0 .. 15 /\ (e \div 4 = 15 => e % 4 = 0)
  BY <1>2
<1>4. f \in Nat /\ f <= 32768 /\ (e % 4 # 0 => f <= 16384)
  BY <1>3, Powers
<1>5. Increment(p, rate) = (4 + (e % 4)) * f
  BY DEF Increment, Power
<1> HIDE DEF e, f
<1>6. e % 4 = 0 \/ e % 4 = 1 \/ e % 4 = 2 \/ e % 4 = 3
  BY <1>3
<1>7. CASE e % 4 = 0
  BY <1>4, <1>5, <1>7 DEF CounterLen
<1>8. CASE e % 4 = 1
  BY <1>4, <1>5, <1>8 DEF CounterLen
<1>9. CASE e % 4 = 2
  BY <1>4, <1>5, <1>9 DEF CounterLen
<1>10. CASE e % 4 = 3
  BY <1>4, <1>5, <1>10 DEF CounterLen
<1>11. QED
  BY <1>6, <1>7, <1>8, <1>9, <1>10

\* The overflow of the counter is at most four.
LEMMA OverflowBound ==
  ASSUME NEW count \in Nat, NEW inc \in Nat, count < CounterLen, inc <= 4 * CounterLen
  PROVE  (count + inc) \div CounterLen \in 0 .. 4
<1>1. count + inc \in Nat /\ count + inc < 163840
  BY DEF CounterLen
<1>2. \A n \in Nat : n < 163840 => n \div 32768 \in 0 .. 4
  OBVIOUS
<1>3. QED
  BY <1>1, <1>2 DEF CounterLen

\* An attack subtracts at most the level, and never nothing.
LEMMA AttackStep ==
  ASSUME NEW v \in 1 .. Silence, NEW ov \in 1 .. 4
  PROVE  (v - ((v * ov) \div 8 + 1)) % 512 \in 0 .. v - 1
<1>1. PICK w \in 0 .. v - 1 : w = v - ((v * ov) \div 8 + 1)
  <2>1. CASE ov = 1
    BY <2>1 DEF Silence
  <2>2. CASE ov = 2
    BY <2>2 DEF Silence
  <2>3. CASE ov = 3
    BY <2>3 DEF Silence
  <2>4. CASE ov = 4
    BY <2>4 DEF Silence
  <2>5. QED
    BY <2>1, <2>2, <2>3, <2>4
<1>2. w % 512 = w
  BY <1>1, NoWrap DEF Silence
<1>3. QED
  BY <1>1, <1>2

\* One step of the level: down in an attack only, up in the other states only.
LEMMA LevelStep ==
  ASSUME NEW s \in States, NEW v \in 0 .. Silence, NEW ov \in 0 .. 4
  PROVE  /\ NextLevel(s, v, ov) \in 0 .. Silence
         /\ NextLevel(s, v, ov) < v => s = "ATTACK"
         /\ NextLevel(s, v, ov) > v => s # "ATTACK"
<1>1. CASE s = "ATTACK"
  <2>1. CASE ov # 0 /\ v # 0
    BY <1>1, <2>1, AttackStep DEF NextLevel, Silence
  <2>2. CASE ~(ov # 0 /\ v # 0)
    BY <1>1, <2>2 DEF NextLevel, Silence
  <2>3. QED
    BY <2>1, <2>2
<1>2. CASE s \in {"DECAY", "RELEASE"}
  BY <1>2 DEF NextLevel, Silence
<1>3. CASE s = "SUSTAIN"
  BY <1>3 DEF NextLevel, Silence
<1>4. QED
  BY <1>1, <1>2, <1>3 DEF States

\* Key scaling adds at most 224: four times 64 less eight.
LEMMA KslBound == ASSUME NEW p \in Patches PROVE KslAdd(p) \in 0 .. 224
<1>1. KslRom[p.fnum + 1] \in 0 .. 64
  BY Fields DEF KslRom
<1>2. PICK t \in -64 .. 56 : t = KslRom[p.fnum + 1] + 8 * (p.block - 8)
  BY <1>1, Fields
<1>3. PICK k \in {0, 1, 2, 4} : k = <<0, 2, 1, 4>>[p.ksl + 1]
  BY Fields
<1>4. KslAdd(p) = IF t <= 0 THEN 0 ELSE (t * k) % 256
  BY <1>2, <1>3, Zenon DEF KslAdd
<1>5. t > 0 => t * k \in 0 .. 224
  <2>1. k = 0 \/ k = 1 \/ k = 2 \/ k = 4
    BY <1>3
  <2>2. QED
    BY <2>1
<1>6. t > 0 => (t * k) % 256 = t * k
  BY <1>5, NoWrap
<1> DEFINE u == t * k
<1> HIDE DEF u
<1>7. /\ KslAdd(p) = IF t <= 0 THEN 0 ELSE u % 256
      /\ t > 0 => u \in 0 .. 224 /\ u % 256 = u
  BY <1>4, <1>5, <1>6, Zenon DEF u
<1>8. QED
  BY <1>7

\* The registers only attenuate: the sum fits its eleven signed bits.
LEMMA AttenuationBound ==
  ASSUME NEW v \in 0 .. Silence, NEW p \in Patches, NEW t \in Tremolo
  PROVE  Attenuation(v, p, t) >= v
<1> DEFINE a == v + 4 * p.tl + KslAdd(p) + IF p.am THEN t ELSE 0
<1>1. a \in Nat /\ v <= a /\ a <= 1013
  <2> DEFINE x == KslAdd(p)
             y == 4 * p.tl
             z == IF p.am THEN t ELSE 0
  <2>1. x \in 0 .. 224 /\ y \in 0 .. 252
    BY KslBound, Fields
  <2>2. z \in 0 .. 26
    BY DEF Tremolo
  <2>3. a = v + y + x + z
    OBVIOUS
  <2> HIDE DEF a, x, y, z
  <2>4. QED
    BY <2>1, <2>2, <2>3 DEF Silence
<1>2. Signed11(a) = a
  <2> HIDE DEF a
  <2>1. (a + 1024) % 2048 = a + 1024
    BY <1>1, NoWrap
  <2>2. QED
    BY <1>1, <2>1 DEF Signed11
<1>3. Attenuation(v, p, t) = IF a < 0 THEN 0 ELSE IF a > Silence THEN Silence ELSE a
  BY <1>2 DEF Attenuation
<1> HIDE DEF a
<1>4. QED
  BY <1>1, <1>3 DEF Silence

-----------------------------------------------------------------------------
(* The registers.                                                             *)

LEMMA InitType == Init => TypeInv
<1>1. 0 \in Nat /\ 0 < CounterLen
  BY DEF CounterLen
<1>2. 0 \in 0 .. CounterLen - 1
  BY <1>1, CounterRange
<1>3. Silence \in 0 .. Silence
  BY DEF Silence
<1>4. "RELEASE" \in States
  BY DEF States
<1>5. QED
  BY <1>2, <1>3, <1>4, Zenon DEF Init, TypeInv

\* What a slot does, with its three intermediate values named.
LEMMA SlotStep ==
  ASSUME TypeInv, Slot
  PROVE  /\ TypeInv'
         /\ level' < level => state' = "ATTACK"
         /\ level' > level => state' # "ATTACK"
<1>1. PICK early \in States, late \in States, count \in 0 .. CounterLen - 1, ov \in Int :
        /\ count = IF RateOf(early, patch) = 0 THEN counter
                   ELSE (counter + Increment(patch, RateOf(early, patch))) % CounterLen
        /\ ov = (count + Increment(patch, RateOf(late, patch))) \div CounterLen
        /\ r0' = key /\ r1' = r0 /\ state' = late /\ counter' = count
        /\ level' = NextLevel(late, level, ov) /\ key' = key /\ patch' = patch
  <2> DEFINE e == IF r0 /\ ~r1 THEN "ATTACK" ELSE IF ~r0 /\ r1 THEN "RELEASE"
                  ELSE NextState(state, level, patch)
             l == IF key /\ ~r0 THEN "ATTACK" ELSE IF ~key /\ r0 THEN "RELEASE" ELSE e
             c == IF RateOf(e, patch) = 0 THEN counter
                  ELSE (counter + Increment(patch, RateOf(e, patch))) % CounterLen
             o == (c + Increment(patch, RateOf(l, patch))) \div CounterLen
  <2>1. NextState(state, level, patch) \in States
    BY DEF NextState, TypeInv, States
  <2>2. e \in States /\ l \in States
    BY <2>1 DEF States
  <2>3. RateOf(e, patch) \in 0 .. 15 /\ RateOf(l, patch) \in 0 .. 15
    BY <2>2, Fields DEF RateOf, TypeInv, States
  <2>4. Increment(patch, RateOf(e, patch)) \in Nat /\ Increment(patch, RateOf(l, patch)) \in Nat
    BY <2>3, IncrementBound DEF TypeInv, CounterLen
  <2>5. c \in 0 .. CounterLen - 1
    <3>1. counter \in 0 .. CounterLen - 1 /\ counter \in Nat
      BY CounterRange DEF TypeInv
    <3>2. counter + Increment(patch, RateOf(e, patch)) \in Nat
      BY <2>4, <3>1
    <3>3. (counter + Increment(patch, RateOf(e, patch))) % CounterLen \in 0 .. CounterLen - 1
      BY <3>2, Modulus
    <3> HIDE DEF e
    <3>4. QED
      BY <3>1, <3>3
  <2>6. o \in Int
    <3>1. c \in Nat
      BY <2>5, CounterRange
    <3> HIDE DEF c
    <3>2. c + Increment(patch, RateOf(l, patch)) \in Nat
      BY <2>4, <3>1
    <3>3. QED
      BY <3>2, Modulus
  <2>7. /\ r0' = key /\ r1' = r0 /\ state' = l /\ counter' = c
        /\ level' = NextLevel(l, level, o) /\ key' = key /\ patch' = patch
    BY DEF Slot
  <2> HIDE DEF e, l, c, o
  <2>8. QED
    BY <2>2, <2>5, <2>6, <2>7 DEF e, l, c, o
<1>2. RateOf(late, patch) \in 0 .. 15
  BY <1>1, Fields DEF RateOf, TypeInv, States
<1>3. ov \in 0 .. 4
  <2>1. count \in Nat /\ count < CounterLen
    BY CounterRange
  <2>2. /\ Increment(patch, RateOf(late, patch)) \in Nat
        /\ Increment(patch, RateOf(late, patch)) <= 4 * CounterLen
    BY <1>2, IncrementBound DEF TypeInv
  <2>3. ov = (count + Increment(patch, RateOf(late, patch))) \div CounterLen
    BY <1>1
  <2>4. QED
    BY <2>1, <2>2, <2>3, OverflowBound
<1>4. level \in 0 .. Silence
  BY DEF TypeInv
<1>5. /\ level' \in 0 .. Silence
      /\ level' < level => state' = "ATTACK"
      /\ level' > level => state' # "ATTACK"
  BY <1>1, <1>3, <1>4, LevelStep
<1>6. TypeInv'
  BY <1>1, <1>5 DEF TypeInv
<1>7. QED
  BY <1>5, <1>6

\* The key and the registers change between two slots, the level in a slot only.
LEMMA Step ==
  ASSUME TypeInv, [Next]_vars
  PROVE  /\ TypeInv'
         /\ level' < level => state' = "ATTACK"
         /\ level' > level => state' # "ATTACK"
<1>1. CASE Slot
  BY <1>1, SlotStep
<1>2. CASE Press
  BY <1>2 DEF Press, TypeInv, Silence
<1>3. CASE Program
  BY <1>3 DEF Program, TypeInv, Silence
<1>4. CASE UNCHANGED vars
  BY <1>4 DEF vars, TypeInv, Silence
<1>5. QED
  BY <1>1, <1>2, <1>3, <1>4 DEF Next

\* Key, registers, state, counter and level keep their widths in every behaviour.
THEOREM LevelTyped == Spec => []TypeInv
<1>1. TypeInv /\ [Next]_vars => TypeInv'
  BY Step
<1>2. QED
  BY InitType, <1>1, PTL DEF Spec

\* The level never wraps, and the registers only make it quieter, for every register
\* setting, every rate and every order of key and register writes
\* (envelope_generator.v 166-210).
THEOREM LevelNeverWraps == Spec => LevelSane
<1>1. TypeInv => \A p \in Patches, t \in Tremolo : Attenuation(level, p, t) >= level
  BY AttenuationBound DEF TypeInv
<1>2. TypeInv /\ [Next]_vars
        => [/\ level' < level => state' = "ATTACK"
            /\ level' > level => state' # "ATTACK"]_vars
  BY Step
<1>3. QED
  BY <1>1, <1>2, LevelTyped, PTL DEF Spec, LevelSane
=============================================================================
