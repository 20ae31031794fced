---------------------------- MODULE DroPlayerProofs ----------------------------
(* Proofs about DroPlayer: the types of its state, and that it plays the score *)
(* of the file, step by step.                                                 *)
EXTENDS DroPlayer, SequenceTheorems, WellFoundedInduction, TLAPS

-----------------------------------------------------------------------------
(* Bytes and what is read from the file.                                      *)

LEMMA Sizes ==
  /\ ByteSize \in {8, 16, 32, 64, 128, 256} /\ Half \in {4, 8, 16, 32, 64, 128}
  /\ ByteSize = 2 * Half /\ Word16 \in {64, 256, 1024, 4096, 16384, 65536}
<1>1. /\ 2 ^ 3 = 8 /\ 2 ^ 4 = 16 /\ 2 ^ 5 = 32 /\ 2 ^ 6 = 64 /\ 2 ^ 7 = 128 /\ 2 ^ 8 = 256
  OBVIOUS
<1>2. PICK k \in 3 .. 8 : ByteSize = 2 ^ k
  BY ByteSizeAssumption
<1>3. k = 3 \/ k = 4 \/ k = 5 \/ k = 6 \/ k = 7 \/ k = 8
  OBVIOUS
<1>4. ByteSize \in {8, 16, 32, 64, 128, 256}
  <2>1. k = 3 => ByteSize = 8
    BY <1>1, <1>2, Zenon
  <2>2. k = 4 => ByteSize = 16
    BY <1>1, <1>2, Zenon
  <2>3. k = 5 => ByteSize = 32
    BY <1>1, <1>2, Zenon
  <2>4. k = 6 => ByteSize = 64
    BY <1>1, <1>2, Zenon
  <2>5. k = 7 => ByteSize = 128
    BY <1>1, <1>2, Zenon
  <2>6. k = 8 => ByteSize = 256
    <3>1. k = 8 => ByteSize = 2 ^ 8
      BY <1>2
    <3>2. 2 ^ 8 = 256
      OBVIOUS
    <3> QED BY <3>1, <3>2
  <2> QED BY <1>3, <2>1, <2>2, <2>3, <2>4, <2>5, <2>6
<1> QED BY <1>4 DEF Half, Word16

LEMMA Kept ==
  ASSUME NEW x \in Nat
  PROVE  /\ x % ByteSize \in Byte /\ x % Half \in 0 .. Half - 1 /\ x % Word16 \in 0 .. Word16 - 1
         /\ x < ByteSize => x % ByteSize = x
         /\ x < Half => x % Half = x
         /\ x < Word16 => x % Word16 = x
BY Sizes DEF Byte

LEMMA FileBytes ==
  ASSUME file \in Files
  PROVE  /\ file \in Seq(Byte) /\ Len(file) \in Nat
         /\ \A n \in 1 .. Len(file) : file[n] \in Byte
BY FilesAssumption

LEMMA ByteRead ==
  ASSUME file \in Files, NEW o \in Nat, NEW i \in Nat, o + i < Len(file)
  PROVE  At(o, i) \in Byte /\ At(o, i) \in Nat /\ At(o, i) < ByteSize
<1>1. file[o + i + 1] \in Byte
  BY FileBytes
<1> QED BY <1>1, Sizes DEF At, Byte

LEMMA ChunkRead ==
  ASSUME file \in Files, NEW o \in Nat, NEW n \in Nat, o + n <= Len(file)
  PROVE  /\ Chunk(o, n) \in Seq(Byte) /\ Len(Chunk(o, n)) = n
         /\ \A i \in 1 .. n : Chunk(o, n)[i] = At(o, i - 1)
<1>1. file \in Seq(Byte) /\ Len(file) \in Nat
  BY FileBytes
<1>2. o + 1 \in 1 .. Len(file) + 1 /\ o + n \in o .. Len(file)
  BY <1>1
<1>3. /\ SubSeq(file, o + 1, o + n) \in Seq(Byte)
      /\ Len(SubSeq(file, o + 1, o + n)) = IF o + 1 <= o + n THEN (o + n) - (o + 1) + 1 ELSE 0
      /\ \A i \in 1 .. (o + n) - (o + 1) + 1 : SubSeq(file, o + 1, o + n)[i] = file[(o + 1) + i - 1]
  BY <1>1, <1>2, SubSeqProperties
<1>4. \A i \in 1 .. n : (o + 1) + i - 1 = o + (i - 1) + 1
  OBVIOUS
<1>5. \A i \in 1 .. n : SubSeq(file, o + 1, o + n)[i] = file[o + (i - 1) + 1]
  <2>1. PICK c : c = SubSeq(file, o + 1, o + n)
    OBVIOUS
  <2>2. \A i \in 1 .. n : c[i] = file[(o + 1) + i - 1]
    BY <1>3, <2>1
  <2> QED BY <1>4, <2>1, <2>2
<1>6. Len(SubSeq(file, o + 1, o + n)) = n
  BY <1>3
<1> QED BY <1>3, <1>5, <1>6 DEF Chunk, At

LEMMA TwoRead ==
  ASSUME file \in Files, 25 <= Len(file)
  PROVE  /\ Chunk(23, 2) = <<At(23, 0), At(23, 1)>> /\ Chunk(23, 2) \in Byte \X Byte
<1>0. 23 + 2 <= Len(file) /\ 1 - 1 = 0 /\ 2 - 1 = 1
  BY FileBytes
<1>1. /\ Len(Chunk(23, 2)) = 2 /\ Chunk(23, 2) \in Seq(Byte)
      /\ \A i \in 1 .. 2 : Chunk(23, 2)[i] = At(23, i - 1)
  BY <1>0, ChunkRead
<1>2. Chunk(23, 2)[1] = At(23, 0) /\ Chunk(23, 2)[2] = At(23, 1)
  <2>1. PICK c : c = Chunk(23, 2)
    OBVIOUS
  <2>2. \A i \in 1 .. 2 : c[i] = At(23, i - 1)
    BY <1>1, <2>1
  <2> QED BY <1>0, <2>1, <2>2
<1>3. PICK c \in Seq(Byte) : c = Chunk(23, 2)
  BY <1>1
<1>4. c = <<c[1], c[2]>>
  BY <1>1, <1>3
<1>5. At(23, 0) \in Byte /\ At(23, 1) \in Byte
  BY FileBytes, ByteRead
<1> QED BY <1>2, <1>3, <1>4, <1>5

LEMMA Registers ==
  ASSUME NEW f \in [Byte -> Byte], NEW r \in Nat, NEW d \in Byte
  PROVE  Opl2Out(f, r, d) \in [Byte -> Byte]
BY Kept DEF Opl2Out

LEMMA ClearedRegisters == Cleared \in [Byte -> Byte]
<1>1. 0 \in Byte /\ 1 \in Byte /\ [r \in Byte |-> 0] \in [Byte -> Byte]
  BY Sizes DEF Byte
<1> QED BY <1>1, Registers DEF Cleared

-----------------------------------------------------------------------------
(* Types.                                                                     *)

TypeInv == file \in Files /\ TypeOK

LEMMA TypesStart == Init => TypeInv
<1> SUFFICES ASSUME Init
             PROVE  TypeInv
  OBVIOUS
<1>1. file \in Files /\ Len(file) \in Nat
  BY FileBytes DEF Init
<1>2. 0 \in Byte /\ 1 \in Byte /\ 1 \in 0 .. Word16 - 1
  BY Sizes DEF Byte
<1>3. opl \in [Byte -> Byte] /\ codetable \in [Byte -> Byte]
  BY <1>2 DEF Init
<1>4. cmd \in [reg : 0 .. 2 * ByteSize - 1, data : Byte, delay : 0 .. Word16 - 1]
  <2>1. 0 \in 0 .. 2 * ByteSize - 1 /\ 0 \in 0 .. Word16 - 1
    BY Sizes
  <2> QED BY <1>2, <2>1 DEF Init, NoCmd
<1>5. /\ offset \in 0 .. Len(file) /\ pc \in {"open", "clear", "wait", "read", "apply", "over"}
      /\ type \in FileType \cup {"junk"} /\ accepted \in BOOLEAN /\ (accepted => type # "junk")
      /\ high \in BOOLEAN /\ res \in {"EOF", "NULL", "FULL", "DELAY"}
  <2>1. offset \in 0 .. Len(file) /\ pc \in {"open", "clear", "wait", "read", "apply", "over"}
    BY <1>1 DEF Init
  <2>2. accepted \in BOOLEAN /\ high \in BOOLEAN /\ ~accepted
    BY Zenon DEF Init
  <2>3. type \in FileType \cup {"junk"} /\ res \in {"EOF", "NULL", "FULL", "DELAY"}
    BY DEF Init
  <2> QED BY <2>1, <2>2, <2>3
<1>6. {nextEvent, rested} \subseteq 0 .. Word16 - 1 /\ played \in Nat /\ delaycodes \in Byte \X Byte
  <2>1. 0 \in 0 .. Word16 - 1
    BY Sizes
  <2> QED BY <1>2, <2>1 DEF Init
<1> QED BY <1>1, <1>3, <1>4, <1>5, <1>6 DEF TypeInv, TypeOK

\* What file_open leaves of the offset, the type and the tables.
LEMMA OpenTypes ==
  ASSUME TypeInv, Open
  PROVE  /\ offset' \in 0 .. Len(file) /\ accepted' \in BOOLEAN /\ type' \in FileType \cup {"junk"}
         /\ accepted' => type' # "junk"
         /\ delaycodes' \in Byte \X Byte /\ codetable' \in [Byte -> Byte]
<1> USE DEF FileType
<1>1. Len(file) \in Nat /\ delaycodes \in Byte \X Byte /\ codetable \in [Byte -> Byte]
  BY FileBytes DEF TypeInv, TypeOK
<1>2. \A o \in Nat : Refuse(o) => /\ offset' \in 0 .. Len(file) /\ accepted' = FALSE
                                  /\ type' \in FileType \cup {"junk"}
  BY <1>1 DEF Refuse, Least
<1>3. CASE OpenShort
  BY <1>1, <1>2, <1>3 DEF OpenShort
<1>4. CASE OpenImf
  <2>1. Has(0, 2) /\ delaycodes' = delaycodes /\ codetable' = codetable
    BY <1>4 DEF OpenImf
  <2>2. PICK read : read = IF Chunk(0, 2) = SubSeq(Signature, 1, 2) THEN Least(8, Len(file)) ELSE 2
    OBVIOUS
  <2>3. \/ Accept("IMF0", SeekSet(0, read))
        \/ Accept("IMF1", SeekSet(2, read))
    BY <1>4, <2>2 DEF OpenImf
  <2>4. SeekSet(0, read) = 0 /\ SeekSet(2, read) = 2 /\ 2 \in 0 .. Len(file)
    BY <1>1, <2>1 DEF SeekSet, Has
  <2>5. Accept("IMF0", 0) \/ Accept("IMF1", 2)
    BY <2>3, <2>4, Zenon
  <2>6. offset' \in 0 .. Len(file) /\ accepted' = TRUE /\ type' \in {"IMF0", "IMF1"}
    BY <1>1, <2>4, <2>5 DEF Accept
  <2>7. delaycodes' \in Byte \X Byte /\ codetable' \in [Byte -> Byte]
    BY <1>1, <2>1
  <2> QED BY <2>6, <2>7
<1>5. CASE OpenDro1
  <2>1. delaycodes' = delaycodes /\ codetable' = codetable
    BY <1>5 DEF OpenDro1
  <2>2. CASE ~Has(12, 12)
    BY <1>1, <1>2, <1>5, <2>1, <2>2 DEF OpenDro1
  <2>3. CASE Has(12, 12)
    <3>1. SeekSet(21, 24) = 21 /\ 21 \in 0 .. Len(file) /\ 24 \in 0 .. Len(file)
      BY <1>1, <2>3 DEF SeekSet, Has
    <3>2. Accept("DRO1", 21) \/ Accept("DRO1", 24)
      BY <1>5, <2>3, <3>1 DEF OpenDro1
    <3> QED BY <1>1, <2>1, <3>1, <3>2 DEF Accept
  <2> QED BY <2>2, <2>3
<1>6. CASE OpenDro2
  <2>1. CASE ~Has(12, 14) \/ Chunk(21, 2) # <<0, 0>>
    BY <1>1, <1>2, <1>6, <2>1 DEF OpenDro2
  <2>2. CASE ~(~Has(12, 14) \/ Chunk(21, 2) # <<0, 0>>)
    <3> DEFINE want == At(12, 13)
    <3> DEFINE got == Least(want, Len(file) - 26)
    <3>1. Len(file) >= 26 /\ file \in Files
      BY <1>1, <2>2 DEF Has, TypeInv
    <3>2. want \in Byte /\ want \in Nat
      BY <1>1, <3>1, ByteRead
    <3>3. got \in Nat /\ got <= Len(file) - 26 /\ (got = want => want <= Len(file) - 26)
      BY <1>1, <3>1, <3>2 DEF Least
    <3>4. delaycodes' = Chunk(23, 2)
      BY <1>6, <2>2 DEF OpenDro2
    <3>5. codetable' = [i \in Byte |-> IF i < got THEN At(26, i) ELSE codetable[i]]
      BY <1>6, <2>2 DEF OpenDro2
    <3>6. IF got = want THEN Accept("DRO2", 26 + want) ELSE Refuse(26 + got)
      BY <1>6, <2>2 DEF OpenDro2
    <3> HIDE DEF want, got
    <3>7. \A i \in Byte : i < got => At(26, i) \in Byte
      <4> TAKE i \in Byte
      <4>1. i \in Nat
        BY Sizes DEF Byte
      <4> QED BY <1>1, <3>1, <3>3, <4>1, ByteRead
    <3>8. codetable' \in [Byte -> Byte]
      BY <1>1, <3>5, <3>7
    <3>9. delaycodes' \in Byte \X Byte
      BY <1>1, <3>1, <3>4, TwoRead
    <3>10. CASE got = want
      BY <1>1, <3>1, <3>2, <3>3, <3>6, <3>8, <3>9, <3>10 DEF Accept
    <3>11. CASE got # want
      <4>1. Refuse(26 + got) /\ 26 + got \in Nat
        BY <3>3, <3>6, <3>11
      <4>2. offset' \in 0 .. Len(file) /\ accepted' = FALSE /\ type' \in FileType \cup {"junk"}
        BY <1>2, <4>1
      <4> QED BY <3>8, <3>9, <4>2
    <3> QED BY <3>10, <3>11
  <2> QED BY <2>1, <2>2
<1>7. CASE OpenUnknown
  BY <1>1, <1>2, <1>7 DEF OpenUnknown
<1> QED BY <1>3, <1>4, <1>5, <1>6, <1>7 DEF Open

\* A command that is read.
Command == [reg : 0 .. 2 * ByteSize - 1, data : Byte, delay : 0 .. Word16 - 1]

LEMMA GotTypes ==
  ASSUME TypeInv, NEW r \in {"NULL", "FULL", "DELAY"}, NEW used \in Nat, NEW n \in 0 .. 2 * ByteSize - 1,
         NEW d \in Byte, NEW ms \in Nat, offset + used <= Len(file), Got(r, used, n, d, ms)
  PROVE  /\ offset' \in 0 .. Len(file) /\ cmd' \in Command
         /\ res' \in {"EOF", "NULL", "FULL", "DELAY"}
<1>1. ms % Word16 \in 0 .. Word16 - 1
  BY Kept
<1>2. cmd' = [reg |-> n, data |-> d, delay |-> ms % Word16] /\ res' = r /\ offset' = offset + used
  BY DEF Got
<1>3. offset + used \in 0 .. Len(file)
  BY FileBytes DEF TypeInv, TypeOK
<1> QED BY <1>1, <1>2, <1>3 DEF Command

LEMMA EofTypes ==
  ASSUME TypeInv, Eof
  PROVE  offset' \in 0 .. Len(file) /\ res' \in {"EOF", "NULL", "FULL", "DELAY"}
BY FileBytes DEF TypeInv, TypeOK, Eof

LEMMA Zeroes ==
  0 \in Byte /\ 0 \in 0 .. 2 * ByteSize - 1 /\ NoCmd \in Command
<1>1. 0 \in Byte /\ 0 \in 0 .. 2 * ByteSize - 1 /\ 0 \in 0 .. Word16 - 1
  BY Sizes DEF Byte
<1> QED BY <1>1 DEF NoCmd, Command

LEMMA Dro2Types ==
  ASSUME TypeInv, NEW skip \in {0, 1}, Dro2Cmd(skip)
  PROVE  /\ offset' \in 0 .. Len(file) /\ cmd' \in Command
         /\ res' \in {"EOF", "NULL", "FULL", "DELAY"}
<1> DEFINE o == offset + skip
<1>1. Len(file) \in Nat /\ o \in Nat /\ offset \in Nat /\ file \in Files
  BY FileBytes DEF TypeInv, TypeOK
<1>2. CASE Has(o, 2)
  <2> DEFINE code == At(o, 0)
  <2> DEFINE arg == At(o, 1)
  <2>1. offset + (skip + 2) <= Len(file) /\ o + 0 < Len(file) /\ o + 1 < Len(file) /\ skip + 2 \in Nat
    BY <1>1, <1>2 DEF Has
  <2>2. code \in Byte /\ arg \in Byte /\ code \in Nat /\ arg \in Nat
    BY <1>1, <2>1, ByteRead
  <2>3. arg + 1 \in Nat /\ ByteSize * (arg + 1) \in Nat /\ code % Half \in Byte
    <3>1. \A x \in Nat : x % Half \in Byte
      <4> TAKE x \in Nat
      <4>1. x % Half \in 0 .. Half - 1
        BY Kept
      <4> QED BY <4>1, Sizes DEF Byte
    <3>2. ByteSize \in Nat
      BY Sizes
    <3> HIDE DEF code, arg
    <3> QED BY <2>2, <3>1, <3>2
  <2>4. codetable[code % Half] \in Byte
    BY <2>3 DEF TypeInv, TypeOK
  <2>5. codetable[code % Half] + (IF code >= Half THEN ByteSize ELSE 0) \in 0 .. 2 * ByteSize - 1
    <3>1. PICK c \in Byte : c = codetable[code % Half]
      BY <2>4
    <3>2. c + (IF code >= Half THEN ByteSize ELSE 0) \in 0 .. 2 * ByteSize - 1
      <4> HIDE DEF code
      <4> QED BY <2>2, Sizes DEF Byte
    <3> QED BY <3>1, <3>2
  <2>6. \/ Got("DELAY", skip + 2, 0, 0, arg + 1)
        \/ Got("DELAY", skip + 2, 0, 0, ByteSize * (arg + 1))
        \/ Got("FULL", skip + 2,
               codetable[code % Half] + (IF code >= Half THEN ByteSize ELSE 0), arg, 0)
    BY <1>2 DEF Dro2Cmd
  <2> HIDE DEF code, arg
  <2>7. CASE Got("DELAY", skip + 2, 0, 0, arg + 1)
    BY <2>1, <2>2, <2>3, <2>7, GotTypes, Zeroes
  <2>8. CASE Got("DELAY", skip + 2, 0, 0, ByteSize * (arg + 1))
    BY <2>1, <2>2, <2>3, <2>8, GotTypes, Zeroes
  <2>9. CASE Got("FULL", skip + 2,
                 codetable[code % Half] + (IF code >= Half THEN ByteSize ELSE 0), arg, 0)
    BY <2>1, <2>2, <2>5, <2>9, GotTypes, Zeroes
  <2> QED BY <2>6, <2>7, <2>8, <2>9
<1>3. CASE ~Has(o, 2)
  BY <1>3, EofTypes, Zeroes DEF Dro2Cmd
<1> QED BY <1>2, <1>3

LEMMA ReadTypes ==
  ASSUME TypeInv, ReadNextCmd
  PROVE  /\ offset' \in 0 .. Len(file) /\ cmd' \in Command /\ high' \in BOOLEAN
         /\ res' \in {"EOF", "NULL", "FULL", "DELAY"}
<1>1. /\ Len(file) \in Nat /\ offset \in Nat /\ offset \in 0 .. Len(file) /\ file \in Files
      /\ cmd \in Command /\ high \in BOOLEAN
  BY FileBytes DEF TypeInv, TypeOK, Command
<1>2. CASE ReadImf
  <2>1. CASE Has(offset, 4)
    <3>1. offset + 4 <= Len(file)
      BY <2>1 DEF Has
    <3>2. /\ At(offset, 0) \in Byte /\ At(offset, 1) \in Byte
          /\ At(offset, 2) \in Nat /\ At(offset, 3) \in Nat
      BY <1>1, <3>1, ByteRead
    <3>3. At(offset, 0) \in 0 .. 2 * ByteSize - 1 /\ At(offset, 2) + ByteSize * At(offset, 3) \in Nat
      <4>1. At(offset, 0) \in 0 .. 2 * ByteSize - 1
        BY <3>2, Sizes DEF Byte
      <4>2. ByteSize \in Nat
        BY Sizes
      <4> QED BY <3>2, <4>1, <4>2
    <3>4. Got("FULL", 4, At(offset, 0), At(offset, 1), At(offset, 2) + ByteSize * At(offset, 3))
      BY <1>2, <2>1 DEF ReadImf
    <3> QED BY <1>1, <1>2, <3>1, <3>2, <3>3, <3>4, GotTypes DEF ReadImf
  <2>2. CASE ~Has(offset, 4)
    BY <1>1, <1>2, <2>2, EofTypes DEF ReadImf
  <2> QED BY <2>1, <2>2
<1>3. CASE ReadDro1Delay
  <2>1. Has(offset, 1) /\ Dro1Code \in {0, 1} /\ high' = high
    BY <1>3 DEF ReadDro1Delay
  <2>2. PICK size \in {2, 3} : size = Dro1Code + 2
    BY <2>1
  <2>3. CASE ~Has(offset, size)
    BY <1>1, <1>3, <2>1, <2>2, <2>3, EofTypes, Zeroes DEF ReadDro1Delay
  <2>4. CASE Has(offset, size)
    <3>1. offset + size <= Len(file) /\ size \in Nat /\ offset + 1 < Len(file)
      BY <1>1, <2>4 DEF Has
    <3>2. At(offset, 1) \in Nat
      BY <1>1, <3>1, ByteRead
    <3>3. Dro1Code = 1 => At(offset, 2) \in Nat
      <4>1. Dro1Code = 1 => offset + 2 < Len(file)
        BY <1>1, <2>2, <3>1
      <4> QED BY <1>1, <4>1, ByteRead
    <3>4. PICK ms \in Nat :
            ms = 1 + At(offset, 1) + (IF Dro1Code = 1 THEN ByteSize * At(offset, 2) ELSE 0)
      <4>1. ByteSize \in Nat
        BY Sizes
      <4> QED BY <3>2, <3>3, <4>1
    <3>5. Got("DELAY", size, 0, 0, ms)
      BY <1>3, <2>2, <2>4, <3>4 DEF ReadDro1Delay
    <3> QED BY <1>1, <2>1, <3>1, <3>5, GotTypes, Zeroes
  <2> QED BY <2>3, <2>4
<1>4. CASE ReadDro1Chip
  BY <1>4, Dro2Types DEF ReadDro1Chip
<1>5. CASE ReadDro1Escape
  <2>1. offset + 1 <= Len(file) /\ Got("NULL", 1, 0, 0, 0) /\ high' = high
    BY <1>5 DEF ReadDro1Escape, Has
  <2> QED BY <1>1, <2>1, GotTypes, Zeroes
<1>6. CASE ReadDro1Write
  <2>1. CASE ~Has(offset, 2)
    BY <1>1, <1>6, <2>1, EofTypes, Zeroes DEF ReadDro1Write
  <2>2. CASE Has(offset, 2)
    <3>1. offset + 2 <= Len(file) /\ offset + 0 < Len(file) /\ offset + 1 < Len(file)
      BY <1>1, <2>2 DEF Has
    <3>2. Dro1Code \in Byte /\ At(offset, 1) \in Byte
      BY <1>1, <3>1, ByteRead DEF Dro1Code
    <3>3. PICK reg \in 0 .. 2 * ByteSize - 1 : reg = Dro1Code + (IF high THEN ByteSize ELSE 0)
      BY <3>2, Sizes DEF Byte
    <3>4. Got("FULL", 2, reg, At(offset, 1), 0) /\ high' = high
      BY <1>6, <2>2, <3>3 DEF ReadDro1Write
    <3> QED BY <1>1, <3>1, <3>2, <3>4, GotTypes
  <2> QED BY <2>1, <2>2
<1>7. CASE ReadDro1End
  BY <1>1, <1>7, EofTypes, Zeroes DEF ReadDro1End
<1>8. CASE ReadDro2
  BY <1>1, <1>8, Dro2Types DEF ReadDro2
<1>9. CASE ReadJunk
  BY <1>1, <1>9 DEF ReadJunk
<1> QED BY <1>2, <1>3, <1>4, <1>5, <1>6, <1>7, <1>8, <1>9 DEF ReadNextCmd

LEMMA TypesKept == TypeInv /\ [Next]_vars => TypeInv'
<1> SUFFICES ASSUME TypeInv, [Next]_vars
             PROVE  TypeInv'
  OBVIOUS
<1>1. /\ file \in Files /\ Len(file) \in Nat /\ opl \in [Byte -> Byte] /\ played \in Nat
      /\ cmd \in Command /\ nextEvent \in 0 .. Word16 - 1 /\ rested \in 0 .. Word16 - 1
      /\ 0 \in 0 .. Word16 - 1
  BY FileBytes, Sizes DEF TypeInv, TypeOK, Command
<1>2. CASE Open
  <2>1. /\ UNCHANGED <<file, high, res, cmd, nextEvent, rested, played>> /\ pc' = "clear"
        /\ opl' = Opl2Out(opl, 2, 1)
    BY <1>2 DEF Open, OpenShort, OpenImf, OpenDro1, OpenDro2, OpenUnknown, Opening
  <2>2. opl' \in [Byte -> Byte]
    <3>1. 1 \in Byte /\ 2 \in Nat
      BY Sizes DEF Byte
    <3> QED BY <1>1, <2>1, <3>1, Registers
  <2> QED BY <1>1, <1>2, <2>1, <2>2, OpenTypes DEF TypeInv, TypeOK
<1>3. CASE Clear
  BY <1>1, <1>3, ClearedRegisters DEF Clear, parse, TypeInv, TypeOK
<1>4. CASE Wait
  <2>1. played' \in Nat /\ rested' \in 0 .. Word16 - 1
    BY <1>1, <1>4 DEF Wait, Count
  <2> QED BY <1>1, <1>4, <2>1 DEF Wait, parse, TypeInv, TypeOK
<1>5. CASE ReadNextCmd
  <2>1. UNCHANGED <<file, parse, sound>> /\ pc' = "apply"
    BY <1>5 DEF ReadNextCmd, ReadImf, ReadDro1Delay, ReadDro1Chip, ReadDro1Escape, ReadDro1Write,
                ReadDro1End, ReadDro2, ReadJunk, Reading
  <2> QED BY <1>1, <1>5, <2>1, ReadTypes DEF parse, sound, TypeInv, TypeOK, Command
<1>6. CASE Apply
  <2>1. played' \in Nat
    BY <1>1, <1>6 DEF Apply, Count
  <2>2. cmd.reg \in Nat /\ cmd.data \in Byte /\ cmd.delay \in 0 .. Word16 - 1
    BY <1>1, Sizes DEF Command
  <2>3. opl' \in [Byte -> Byte]
    BY <1>1, <1>6, <2>2, Registers DEF Apply
  <2> QED BY <1>1, <1>6, <2>1, <2>2, <2>3 DEF Apply, parse, TypeInv, TypeOK
<1>7. CASE Stop
  BY <1>1, <1>7, ClearedRegisters DEF Stop, parse, TypeInv, TypeOK
<1>8. CASE Over \/ UNCHANGED vars
  BY <1>1, <1>8 DEF Over, vars, TypeInv, TypeOK
<1> QED BY <1>2, <1>3, <1>4, <1>5, <1>6, <1>7, <1>8 DEF Next

\* Every variable of the player stays in its range, for every file, well formed or not:
\* the offset is inside the file, a register and a delay fit the bits they have in the
\* code (imfplay.c 48-274).
THEOREM PlayerTypes == Spec => []TypeOK
<1>1. TypeInv => TypeOK
  BY DEF TypeInv
<1> QED BY <1>1, TypesStart, TypesKept, PTL DEF Spec

-----------------------------------------------------------------------------
(* Induction: a set of numbers has a least one.                               *)

LEMMA LeastNumber ==
  ASSUME NEW T, T \subseteq Nat, T # {}
  PROVE  \E x \in T : \A y \in T : x <= y
<1> DEFINE R == OpToRel(<, Nat)
<1>1. \A x, y \in Nat : <<x, y>> \in R <=> x < y
  BY DEF OpToRel
<1>2. IsWellFoundedOn(R, Nat)
  BY NatLessThanWellFounded DEF R
<1>3. PICK x \in T : \A y \in T : ~(<<y, x>> \in R)
  <2> HIDE DEF R
  <2> QED BY <1>2, WFMin
<1>4. \A y \in T : x <= y
  <2> TAKE y \in T
  <2>1. ~(y < x) /\ x \in Nat /\ y \in Nat
    BY <1>1, <1>3
  <2> QED BY <2>1
<1> QED BY <1>4

\* A set that holds 0 and the successor of each of its numbers below n holds all up to n.
LEMMA Climb ==
  ASSUME NEW n \in Nat, NEW S, 0 \in S, \A i \in 0 .. n - 1 : i \in S => i + 1 \in S
  PROVE  \A i \in 0 .. n : i \in S
<1> SUFFICES ASSUME (0 .. n) \ S # {}
             PROVE  FALSE
  OBVIOUS
<1>1. PICK x \in (0 .. n) \ S : \A y \in (0 .. n) \ S : x <= y
  <2>1. PICK T : T = (0 .. n) \ S
    OBVIOUS
  <2>2. T \subseteq Nat /\ T # {}
    BY <2>1
  <2>3. \E x \in T : \A y \in T : x <= y
    BY <2>2, LeastNumber
  <2> QED BY <2>1, <2>3
<1>2. x # 0 /\ x \in Nat /\ x - 1 \in 0 .. n - 1 /\ ~(x <= x - 1)
  BY <1>1
<1>3. x - 1 \in S
  BY <1>1, <1>2
<1>4. (x - 1) + 1 = x
  BY <1>2
<1> QED BY <1>1, <1>2, <1>3, <1>4

-----------------------------------------------------------------------------
(* The commands of a DRO 1 song, cut off one after the other.                 *)

\* The function g cuts right from offset o on.
Cuts(g, o) ==
  g[o] = IF ~Has(o, 1) \/ ~Has(o, Dro1Size(o)) THEN <<>>
         ELSE <<Chunk(o, Dro1Size(o))>> \o g[o + Dro1Size(o)]

LEMMA CutFrom ==
  ASSUME file \in Files, NEW n \in 0 .. Len(file),
         NEW g, g = [o \in Len(file) - n .. Len(file) |-> g[o]],
         \A o \in Len(file) - n .. Len(file) : Cuts(g, o), n + 1 <= Len(file)
  PROVE  \E h : /\ h = [o \in Len(file) - (n + 1) .. Len(file) |-> h[o]]
                /\ \A o \in Len(file) - (n + 1) .. Len(file) : Cuts(h, o)
<1> DEFINE a == Len(file) - (n + 1)
<1> DEFINE first == IF ~Has(a, 1) \/ ~Has(a, Dro1Size(a)) THEN <<>>
                    ELSE <<Chunk(a, Dro1Size(a))>> \o g[a + Dro1Size(a)]
<1> DEFINE h == [o \in a .. Len(file) |-> IF o = a THEN first ELSE g[o]]
<1>1. Len(file) \in Nat /\ a \in Nat /\ a + 1 = Len(file) - n
  BY FileBytes
<1> HIDE DEF a
<1>2. h = [o \in a .. Len(file) |-> h[o]] /\ h[a] = first
  <2> HIDE DEF first
  <2> QED BY <1>1
<1>3. \A o \in a + 1 .. Len(file) : h[o] = g[o]
  <2> HIDE DEF first
  <2> QED BY <1>1
<1> HIDE DEF h
<1>4. \A o \in a .. Len(file) : Has(o, Dro1Size(o)) => o + Dro1Size(o) \in a + 1 .. Len(file)
  BY <1>1 DEF Has, Dro1Size
<1>5. Cuts(h, a)
  <2>1. CASE ~Has(a, 1) \/ ~Has(a, Dro1Size(a))
    BY <1>2, <2>1 DEF Cuts
  <2>2. CASE Has(a, 1) /\ Has(a, Dro1Size(a))
    <3>1. a \in a .. Len(file)
      BY <1>1
    <3>2. a + Dro1Size(a) \in a + 1 .. Len(file)
      BY <1>4, <2>2, <3>1
    <3>3. h[a + Dro1Size(a)] = g[a + Dro1Size(a)]
      BY <1>3, <3>2
    <3>4. first = <<Chunk(a, Dro1Size(a))>> \o g[a + Dro1Size(a)]
      BY <2>2
    <3> QED BY <1>2, <2>2, <3>3, <3>4, Zenon DEF Cuts
  <2> QED BY <2>1, <2>2
<1>6. \A o \in a + 1 .. Len(file) : Cuts(h, o)
  <2> TAKE o \in a + 1 .. Len(file)
  <2>1. Cuts(g, o)
    BY <1>1
  <2>2. h[o] = g[o] /\ o \in a .. Len(file)
    BY <1>1, <1>3
  <2>3. CASE ~Has(o, 1) \/ ~Has(o, Dro1Size(o))
    BY <2>1, <2>2, <2>3 DEF Cuts
  <2>4. CASE Has(o, 1) /\ Has(o, Dro1Size(o))
    <3>1. h[o + Dro1Size(o)] = g[o + Dro1Size(o)]
      BY <1>1, <1>3, <1>4, <2>2, <2>4
    <3>2. g[o] = <<Chunk(o, Dro1Size(o))>> \o g[o + Dro1Size(o)]
      BY <2>1, <2>4 DEF Cuts
    <3> QED BY <2>2, <2>4, <3>1, <3>2, Zenon DEF Cuts
  <2> QED BY <2>3, <2>4
<1>7. \A o \in a .. Len(file) : Cuts(h, o)
  <2>1. \A o \in a .. Len(file) : o = a \/ o \in a + 1 .. Len(file)
    BY <1>1
  <2> QED BY <1>5, <1>6, <2>1
<1> QED BY <1>2, <1>7 DEF a

LEMMA CutUnfolds ==
  ASSUME file \in Files
  PROVE  \A o \in 0 .. Len(file) : Cuts(Dro1Cut, o)
<1> DEFINE Right(n, g) == /\ g = [o \in Len(file) - n .. Len(file) |-> g[o]]
                          /\ \A o \in Len(file) - n .. Len(file) : Cuts(g, o)
<1> DEFINE S == {n \in 0 .. Len(file) : \E g : Right(n, g)}
<1>1. Len(file) \in Nat
  BY FileBytes
<1>2. 0 \in S
  <2> DEFINE g == [o \in Len(file) .. Len(file) |-> <<>>]
  <2>1. g = [o \in Len(file) - 0 .. Len(file) |-> g[o]]
    BY <1>1
  <2>2. \A o \in Len(file) - 0 .. Len(file) : ~Has(o, 1) /\ g[o] = <<>>
    BY <1>1 DEF Has
  <2>3. \A o \in Len(file) - 0 .. Len(file) : Cuts(g, o)
    <3> HIDE DEF g
    <3> QED BY <2>2 DEF Cuts
  <2> HIDE DEF g
  <2>4. Right(0, g)
    BY <2>1, <2>3
  <2>5. 0 \in 0 .. Len(file)
    BY <1>1
  <2> QED BY <2>4, <2>5
<1>3. \A n \in 0 .. Len(file) - 1 : n \in S => n + 1 \in S
  <2> SUFFICES ASSUME NEW n \in 0 .. Len(file) - 1, n \in S
               PROVE  n + 1 \in S
    OBVIOUS
  <2>1. PICK g : Right(n, g)
    OBVIOUS
  <2>2. n \in 0 .. Len(file) /\ n + 1 <= Len(file) /\ n + 1 \in 0 .. Len(file)
    BY <1>1
  <2>3. \E h : Right(n + 1, h)
    BY <2>1, <2>2, CutFrom
  <2> QED BY <2>2, <2>3
<1>4. Len(file) \in S
  <2> HIDE DEF S
  <2>1. \A i \in 0 .. Len(file) : i \in S
    BY <1>1, <1>2, <1>3, Climb
  <2> QED BY <1>1, <2>1
<1>5. PICK g : Right(Len(file), g)
  BY <1>4
<1>6. Len(file) - Len(file) = 0
  BY <1>1
<1>7. g = [o \in 0 .. Len(file) |-> g[o]] /\ \A o \in 0 .. Len(file) : Cuts(g, o)
  BY <1>5, <1>6
<1>8. g = [o \in 0 .. Len(file) |->
             IF ~Has(o, 1) \/ ~Has(o, Dro1Size(o)) THEN <<>>
             ELSE <<Chunk(o, Dro1Size(o))>> \o g[o + Dro1Size(o)]]
  <2>1. \A o \in 0 .. Len(file) :
          g[o] = IF ~Has(o, 1) \/ ~Has(o, Dro1Size(o)) THEN <<>>
                 ELSE <<Chunk(o, Dro1Size(o))>> \o g[o + Dro1Size(o)]
    BY <1>7 DEF Cuts
  <2> QED BY <1>7, <2>1, Zenon
<1>9. Dro1Cut = [o \in 0 .. Len(file) |->
             IF ~Has(o, 1) \/ ~Has(o, Dro1Size(o)) THEN <<>>
             ELSE <<Chunk(o, Dro1Size(o))>> \o Dro1Cut[o + Dro1Size(o)]]
  BY <1>8, Zenon DEF Dro1Cut
<1> QED BY <1>9, Zenon DEF Cuts

\* What is cut off is a sequence of commands.
LEMMA CutTyped ==
  ASSUME file \in Files
  PROVE  \A o \in 0 .. Len(file) : Dro1Cut[o] \in Seq(Seq(Byte))
<1> DEFINE S == {n \in 0 .. Len(file) : \A o \in Len(file) - n .. Len(file) : Dro1Cut[o] \in Seq(Seq(Byte))}
<1>1. Len(file) \in Nat
  BY FileBytes
<1>2. \A o \in 0 .. Len(file) :
        /\ ~Has(o, 1) \/ ~Has(o, Dro1Size(o)) => Dro1Cut[o] \in Seq(Seq(Byte))
        /\ Has(o, Dro1Size(o)) => o + Dro1Size(o) \in o + 1 .. Len(file)
        /\ Has(o, 1) /\ Has(o, Dro1Size(o)) /\ Dro1Cut[o + Dro1Size(o)] \in Seq(Seq(Byte))
             => Dro1Cut[o] \in Seq(Seq(Byte))
  <2> TAKE o \in 0 .. Len(file)
  <2>1. Cuts(Dro1Cut, o)
    BY CutUnfolds
  <2>2. Dro1Size(o) \in {2, 3} /\ o \in Nat
    BY DEF Dro1Size
  <2>3. ~Has(o, 1) \/ ~Has(o, Dro1Size(o)) => Dro1Cut[o] \in Seq(Seq(Byte))
    <3>1. ~Has(o, 1) \/ ~Has(o, Dro1Size(o)) => Dro1Cut[o] = <<>>
      BY <2>1 DEF Cuts
    <3>2. <<>> \in Seq(Seq(Byte))
      OBVIOUS
    <3> QED BY <3>1, <3>2
  <2>4. Has(o, Dro1Size(o)) => o + Dro1Size(o) \in o + 1 .. Len(file)
    BY <1>1, <2>2 DEF Has
  <2>5. ASSUME Has(o, 1), Has(o, Dro1Size(o)), Dro1Cut[o + Dro1Size(o)] \in Seq(Seq(Byte))
        PROVE  Dro1Cut[o] \in Seq(Seq(Byte))
    <3>1. Chunk(o, Dro1Size(o)) \in Seq(Byte)
      BY <1>1, <2>2, <2>5, ChunkRead DEF Has
    <3>2. PICK c \in Seq(Byte) : c = Chunk(o, Dro1Size(o))
      BY <3>1
    <3>3. PICK r \in Seq(Seq(Byte)) : r = Dro1Cut[o + Dro1Size(o)]
      BY <2>5
    <3>4. Dro1Cut[o] = <<c>> \o r
      BY <2>1, <2>5, <3>2, <3>3 DEF Cuts
    <3>5. <<c>> \in Seq(Seq(Byte))
      BY <3>2
    <3> QED BY <3>3, <3>4, <3>5, ConcatProperties
  <2> QED BY <2>3, <2>4, <2>5
<1>3. 0 \in S
  <2>1. \A o \in Len(file) - 0 .. Len(file) : o \in 0 .. Len(file) /\ ~Has(o, 1)
    BY <1>1 DEF Has
  <2>2. \A o \in Len(file) - 0 .. Len(file) : Dro1Cut[o] \in Seq(Seq(Byte))
    BY <1>2, <2>1
  <2> QED BY <1>1, <2>2
<1>4. \A n \in 0 .. Len(file) - 1 : n \in S => n + 1 \in S
  <2> SUFFICES ASSUME NEW n \in 0 .. Len(file) - 1, n \in S
               PROVE  n + 1 \in S
    OBVIOUS
  <2> DEFINE a == Len(file) - (n + 1)
  <2>1. a \in 0 .. Len(file) /\ a + 1 = Len(file) - n /\ n + 1 \in 0 .. Len(file)
    BY <1>1
  <2> HIDE DEF a
  <2>2. \A o \in a + 1 .. Len(file) : Dro1Cut[o] \in Seq(Seq(Byte))
    BY <2>1
  <2>3. Dro1Cut[a] \in Seq(Seq(Byte))
    BY <1>2, <2>1, <2>2
  <2>4. \A o \in a .. Len(file) : o = a \/ o \in a + 1 .. Len(file)
    BY <1>1, <2>1
  <2>5. \A o \in a .. Len(file) : Dro1Cut[o] \in Seq(Seq(Byte))
    BY <2>2, <2>3, <2>4
  <2> QED BY <2>1, <2>5 DEF a
<1>5. Len(file) \in S
  <2> HIDE DEF S
  <2>1. \A i \in 0 .. Len(file) : i \in S
    BY <1>1, <1>3, <1>4, Climb
  <2> QED BY <1>1, <2>1
<1>6. Len(file) - Len(file) = 0
  BY <1>1
<1> QED BY <1>5, <1>6

\* The commands from offset o on: none, or one and those behind it.
LEMMA CutsOff ==
  ASSUME file \in Files, NEW o \in 0 .. Len(file)
  PROVE  /\ Len(Dro1Cut[o]) \in Nat
         /\ ~Has(o, 1) \/ ~Has(o, Dro1Size(o)) => Len(Dro1Cut[o]) = 0
         /\ Has(o, 1) /\ Has(o, Dro1Size(o)) =>
              /\ o + Dro1Size(o) \in 0 .. Len(file)
              /\ Len(Dro1Cut[o + Dro1Size(o)]) \in Nat
              /\ Len(Dro1Cut[o]) = Len(Dro1Cut[o + Dro1Size(o)]) + 1
              /\ Dro1Cut[o][1] = Chunk(o, Dro1Size(o))
              /\ \A i \in 1 .. Len(Dro1Cut[o + Dro1Size(o)]) :
                   Dro1Cut[o][i + 1] = Dro1Cut[o + Dro1Size(o)][i]
<1>1. Cuts(Dro1Cut, o) /\ Dro1Cut[o] \in Seq(Seq(Byte)) /\ Len(file) \in Nat
  BY CutUnfolds, CutTyped, FileBytes
<1>2. Len(Dro1Cut[o]) \in Nat
  BY <1>1, LenProperties
<1>3. ~Has(o, 1) \/ ~Has(o, Dro1Size(o)) => Len(Dro1Cut[o]) = 0
  <2>1. ~Has(o, 1) \/ ~Has(o, Dro1Size(o)) => Dro1Cut[o] = <<>>
    BY <1>1 DEF Cuts
  <2> QED BY <2>1
<1>4. ASSUME Has(o, 1), Has(o, Dro1Size(o))
      PROVE  /\ o + Dro1Size(o) \in 0 .. Len(file)
             /\ Len(Dro1Cut[o + Dro1Size(o)]) \in Nat
             /\ Len(Dro1Cut[o]) = Len(Dro1Cut[o + Dro1Size(o)]) + 1
             /\ Dro1Cut[o][1] = Chunk(o, Dro1Size(o))
             /\ \A i \in 1 .. Len(Dro1Cut[o + Dro1Size(o)]) :
                  Dro1Cut[o][i + 1] = Dro1Cut[o + Dro1Size(o)][i]
  <2>1. o + Dro1Size(o) \in 0 .. Len(file) /\ Dro1Size(o) \in {2, 3}
    BY <1>1, <1>4 DEF Has, Dro1Size
  <2>2. PICK r \in Seq(Seq(Byte)) : r = Dro1Cut[o + Dro1Size(o)]
    BY <2>1, CutTyped
  <2>3. Chunk(o, Dro1Size(o)) \in Seq(Byte)
    <3>1. o + Dro1Size(o) <= Len(file) /\ o \in Nat /\ Dro1Size(o) \in Nat
      BY <1>1, <1>4, <2>1 DEF Has
    <3> QED BY <3>1, ChunkRead
  <2>4. PICK c \in Seq(Byte) : c = Chunk(o, Dro1Size(o))
    BY <2>3
  <2>5. Dro1Cut[o] = <<c>> \o r
    BY <1>1, <1>4, <2>2, <2>4 DEF Cuts
  <2>6. PICK t : t = <<c>> \o r
    OBVIOUS
  <2>7. Len(t) = Len(r) + 1 /\ t[1] = c /\ Len(r) \in Nat
    BY <2>6
  <2>8. \A i \in 1 .. Len(r) : t[i + 1] = r[i]
    BY <2>6, <2>7
  <2>9. t = Dro1Cut[o]
    BY <2>5, <2>6
  <2> QED BY <2>1, <2>2, <2>4, <2>7, <2>8, <2>9
<1> QED BY <1>2, <1>3, <1>4

-----------------------------------------------------------------------------
(* Sequences put end to end.                                                  *)

\* The first i of the sequences of s end to end.
Flat(s) == CHOOSE f : f = [i \in 1 .. Len(s) |-> IF i = 1 THEN s[i] ELSE f[i - 1] \o s[i]]

Flats(g, s, i) == g[i] = IF i = 1 THEN s[i] ELSE g[i - 1] \o s[i]

LEMMA FlatUnfolds ==
  ASSUME NEW s, Len(s) \in Nat
  PROVE  \A i \in 1 .. Len(s) : Flats(Flat(s), s, i)
<1> DEFINE Right(n, g) == g = [i \in 1 .. n |-> g[i]] /\ \A i \in 1 .. n : Flats(g, s, i)
<1> DEFINE S == {n \in 0 .. Len(s) : \E g : Right(n, g)}
<1>1. 0 \in S
  <2>1. PICK g : g = [i \in 1 .. 0 |-> 0]
    OBVIOUS
  <2>2. g = [i \in 1 .. 0 |-> g[i]]
    BY <2>1
  <2>3. Right(0, g)
    BY <2>2
  <2>4. 0 \in 0 .. Len(s)
    OBVIOUS
  <2> QED BY <2>3, <2>4
<1>2. \A n \in 0 .. Len(s) - 1 : n \in S => n + 1 \in S
  <2> SUFFICES ASSUME NEW n \in 0 .. Len(s) - 1, n \in S
               PROVE  n + 1 \in S
    OBVIOUS
  <2>1. PICK g : Right(n, g)
    OBVIOUS
  <2> DEFINE last == IF n + 1 = 1 THEN s[n + 1] ELSE g[n] \o s[n + 1]
  <2> DEFINE h == [i \in 1 .. n + 1 |-> IF i = n + 1 THEN last ELSE g[i]]
  <2>2. h = [i \in 1 .. n + 1 |-> h[i]] /\ h[n + 1] = last /\ \A i \in 1 .. n : h[i] = g[i]
    <3> HIDE DEF last
    <3> QED OBVIOUS
  <2> HIDE DEF h
  <2>3. Flats(h, s, n + 1)
    <3>1. CASE n = 0
      BY <2>2, <3>1 DEF Flats
    <3>2. CASE n # 0
      <4>1. n \in 1 .. n /\ (n + 1) - 1 = n /\ n + 1 # 1
        BY <3>2
      <4>2. last = h[(n + 1) - 1] \o s[n + 1]
        BY <2>2, <4>1
      <4> HIDE DEF last
      <4> QED BY <2>2, <4>1, <4>2, Zenon DEF Flats
    <3> QED BY <3>1, <3>2
  <2>4. \A i \in 1 .. n : Flats(h, s, i)
    <3> TAKE i \in 1 .. n
    <3>1. Flats(g, s, i)
      BY <2>1
    <3>2. i # 1 => i - 1 \in 1 .. n
      OBVIOUS
    <3>3. h[i] = g[i] /\ (i # 1 => h[i - 1] = g[i - 1])
      BY <2>2, <3>2
    <3> QED BY <3>1, <3>3, Zenon DEF Flats
  <2>5. \A i \in 1 .. n + 1 : i = n + 1 \/ i \in 1 .. n
    OBVIOUS
  <2>6. \A i \in 1 .. n + 1 : Flats(h, s, i)
    BY <2>3, <2>4, <2>5
  <2>7. n + 1 \in 0 .. Len(s)
    OBVIOUS
  <2> QED BY <2>2, <2>6, <2>7
<1>3. Len(s) \in S
  <2> HIDE DEF S
  <2>1. \A i \in 0 .. Len(s) : i \in S
    BY <1>1, <1>2, Climb
  <2> QED BY <2>1
<1>4. PICK g : Right(Len(s), g)
  BY <1>3
<1>5. g = [i \in 1 .. Len(s) |-> IF i = 1 THEN s[i] ELSE g[i - 1] \o s[i]]
  <2>1. \A i \in 1 .. Len(s) : g[i] = IF i = 1 THEN s[i] ELSE g[i - 1] \o s[i]
    BY <1>4 DEF Flats
  <2> QED BY <1>4, <2>1, Zenon
<1>6. Flat(s) = [i \in 1 .. Len(s) |-> IF i = 1 THEN s[i] ELSE Flat(s)[i - 1] \o s[i]]
  BY <1>5, Zenon DEF Flat
<1> QED BY <1>6, Zenon DEF Flats

\* The number of items in the first n sequences.
Mark(s, n) == IF n = 0 THEN 0 ELSE Len(Flat(s)[n])
Begins(a, b) == Len(a) <= Len(b) /\ \A k \in 1 .. Len(a) : b[k] = a[k]

LEMMA FlatTyped ==
  ASSUME NEW X, NEW s \in Seq(Seq(X))
  PROVE  /\ \A i \in 1 .. Len(s) : Flat(s)[i] \in Seq(X)
         /\ Len(s) > 0 => Flat(s)[1] = s[1] /\ FlattenSeq(s) = Flat(s)[Len(s)]
         /\ Len(s) = 0 => FlattenSeq(s) = <<>>
         /\ \A i \in 1 .. Len(s) - 1 : Flat(s)[i + 1] = Flat(s)[i] \o s[i + 1]
<1>1. Len(s) \in Nat /\ \A i \in 1 .. Len(s) : s[i] \in Seq(X)
  OBVIOUS
<1>2. \A i \in 1 .. Len(s) : Flats(Flat(s), s, i)
  BY <1>1, FlatUnfolds
<1>3. Len(s) > 0 => Flat(s)[1] = s[1]
  <2>1. Len(s) > 0 => 1 \in 1 .. Len(s)
    BY <1>1
  <2> QED BY <1>2, <2>1 DEF Flats
<1>4. \A i \in 1 .. Len(s) - 1 : Flat(s)[i + 1] = Flat(s)[i] \o s[i + 1]
  <2> TAKE i \in 1 .. Len(s) - 1
  <2>1. i + 1 \in 1 .. Len(s) /\ i + 1 # 1 /\ (i + 1) - 1 = i
    BY <1>1
  <2>2. Flats(Flat(s), s, i + 1)
    BY <1>2, <2>1
  <2> QED BY <2>1, <2>2 DEF Flats
<1>5. \A i \in 1 .. Len(s) : Flat(s)[i] \in Seq(X)
  <2> DEFINE S == {i \in 0 .. Len(s) : i = 0 \/ Flat(s)[i] \in Seq(X)}
  <2>1. 0 \in S
    BY <1>1
  <2>2. \A i \in 0 .. Len(s) - 1 : i \in S => i + 1 \in S
    <3> TAKE i \in 0 .. Len(s) - 1
    <3>1. i + 1 \in 0 .. Len(s) /\ i + 1 \in 1 .. Len(s)
      BY <1>1
    <3>2. i = 0 => Flat(s)[i + 1] \in Seq(X)
      BY <1>1, <1>3, <3>1
    <3>3. i # 0 /\ Flat(s)[i] \in Seq(X) => Flat(s)[i + 1] \in Seq(X)
      <4>1. i # 0 => i \in 1 .. Len(s) - 1
        OBVIOUS
      <4>2. s[i + 1] \in Seq(X)
        BY <1>1, <3>1
      <4>3. \A a, b \in Seq(X) : a \o b \in Seq(X)
        BY ConcatProperties
      <4> QED BY <1>4, <4>1, <4>2, <4>3
    <3> QED BY <3>1, <3>2, <3>3
  <2> HIDE DEF S
  <2>3. \A i \in 0 .. Len(s) : i \in S
    BY <1>1, <2>1, <2>2, Climb
  <2>4. \A i \in 1 .. Len(s) : i \in 0 .. Len(s) /\ i # 0
    BY <1>1
  <2> QED BY <2>3, <2>4 DEF S
<1>6. Len(s) > 0 => FlattenSeq(s) = Flat(s)[Len(s)]
  BY <1>1 DEF FlattenSeq, Flat
<1>7. Len(s) = 0 => FlattenSeq(s) = <<>>
  BY DEF FlattenSeq
<1> QED BY <1>3, <1>4, <1>5, <1>6, <1>7

LEMMA Marked ==
  ASSUME NEW X, NEW s \in Seq(Seq(X)), NEW n \in 0 .. Len(s) - 1
  PROVE  /\ Mark(s, n) \in Nat /\ Mark(s, n + 1) \in Nat /\ Len(s[n + 1]) \in Nat
         /\ Mark(s, n + 1) = Mark(s, n) + Len(s[n + 1])
         /\ \A k \in 1 .. Len(s[n + 1]) : Flat(s)[n + 1][Mark(s, n) + k] = s[n + 1][k]
<1>1. n + 1 \in 1 .. Len(s) /\ n + 1 # 0 /\ s[n + 1] \in Seq(X)
  OBVIOUS
<1>2. PICK t \in Seq(X) : t = s[n + 1]
  BY <1>1
<1>3. PICK u \in Seq(X) : u = Flat(s)[n + 1]
  BY <1>1, FlatTyped
<1>4. CASE n = 0
  <2>1. u = t
    <3>1. n + 1 = 1 /\ Len(s) > 0
      BY <1>1, <1>4
    <3>2. Flat(s)[1] = s[1]
      BY <3>1, FlatTyped
    <3> QED BY <1>2, <1>3, <3>1, <3>2, Zenon
  <2>2. Mark(s, n) = 0 /\ Mark(s, n + 1) = Len(u)
    BY <1>1, <1>3, <1>4 DEF Mark
  <2>3. \A k \in 1 .. Len(t) : 0 + k = k
    OBVIOUS
  <2> QED BY <1>2, <1>3, <2>1, <2>2, <2>3
<1>5. CASE n # 0
  <2>1. n \in 1 .. Len(s) - 1 /\ n \in 1 .. Len(s)
    BY <1>5
  <2>2. PICK v \in Seq(X) : v = Flat(s)[n]
    BY <2>1, FlatTyped
  <2>3. u = v \o t
    BY <1>2, <1>3, <2>1, <2>2, FlatTyped
  <2>4. Mark(s, n) = Len(v) /\ Mark(s, n + 1) = Len(u)
    BY <1>1, <1>3, <1>5, <2>2 DEF Mark
  <2>5. Len(u) = Len(v) + Len(t) /\ Len(v) \in Nat /\ Len(t) \in Nat /\ Len(u) \in Nat
    BY <2>3
  <2>6. \A k \in 1 .. Len(t) : u[Len(v) + k] = t[k]
    BY <2>3, <2>5
  <2> QED BY <1>2, <1>3, <2>4, <2>5, <2>6
<1> QED BY <1>4, <1>5

\* Where the items of a sequence are in the whole.
LEMMA FlatItems ==
  ASSUME NEW X, NEW s \in Seq(Seq(X)), NEW n \in 0 .. Len(s) - 1, NEW z, z = FlattenSeq(s)
  PROVE  /\ z \in Seq(X) /\ Mark(s, Len(s)) = Len(z)
         /\ Mark(s, n) + Len(s[n + 1]) <= Len(z)
         /\ \A k \in 1 .. Len(s[n + 1]) : z[Mark(s, n) + k] = s[n + 1][k]
<1> DEFINE F == Flat(s)
<1> DEFINE N == Len(s)
<1>1. N \in Nat /\ N > 0 /\ N # 0 /\ n + 1 \in 1 .. N /\ N - (n + 1) \in Nat /\ n + 1 # 0
  OBVIOUS
<1>2. z = F[N] /\ \A i \in 1 .. N : F[i] \in Seq(X)
  BY <1>1, FlatTyped
<1> DEFINE S == {j \in 0 .. N - (n + 1) : Begins(F[n + 1], F[n + 1 + j])}
<1>3. 0 \in S
  <2>1. PICK f \in Seq(X) : f = F[n + 1]
    BY <1>1, <1>2
  <2>2. Begins(f, f)
    BY DEF Begins
  <2>3. n + 1 + 0 = n + 1 /\ 0 \in 0 .. N - (n + 1)
    BY <1>1
  <2> QED BY <2>1, <2>2, <2>3
<1>4. \A j \in 0 .. (N - (n + 1)) - 1 : j \in S => j + 1 \in S
  <2> SUFFICES ASSUME NEW j \in 0 .. (N - (n + 1)) - 1, j \in S
               PROVE  j + 1 \in S
    OBVIOUS
  <2>1. PICK i : i = n + 1 + j
    OBVIOUS
  <2>2. i \in 1 .. N - 1 /\ i \in 1 .. N /\ i + 1 \in 1 .. N /\ n + 1 + (j + 1) = i + 1
        /\ j + 1 \in 0 .. N - (n + 1)
    BY <1>1, <2>1
  <2>3. PICK a \in Seq(X) : a = F[n + 1]
    BY <1>1, <1>2
  <2>4. PICK b \in Seq(X) : b = F[i]
    BY <1>2, <2>2
  <2>5. PICK t \in Seq(X) : t = s[i + 1]
    BY <2>2
  <2>6. PICK c \in Seq(X) : c = F[i + 1]
    BY <1>2, <2>2
  <2>7. c = b \o t
    BY <2>2, <2>4, <2>5, <2>6, FlatTyped
  <2>8. Begins(a, b)
    BY <2>1, <2>3, <2>4
  <2>9. Len(c) = Len(b) + Len(t) /\ Len(b) \in Nat /\ Len(t) \in Nat /\ Len(a) \in Nat
    BY <2>7
  <2>10. \A k \in 1 .. Len(b) : c[k] = b[k]
    BY <2>7
  <2>11. Begins(a, c)
    BY <2>8, <2>9, <2>10 DEF Begins
  <2> HIDE DEF F
  <2>12. Begins(F[n + 1], F[n + 1 + (j + 1)])
    BY <2>2, <2>3, <2>6, <2>11, Zenon
  <2> QED BY <2>2, <2>12, Zenon
<1>5. Begins(F[n + 1], z)
  <2> HIDE DEF S, F
  <2>1. \A j \in 0 .. N - (n + 1) : j \in S
    BY <1>1, <1>3, <1>4, Climb
  <2>2. N - (n + 1) \in 0 .. N - (n + 1) /\ n + 1 + (N - (n + 1)) = N
    BY <1>1
  <2> QED BY <1>2, <2>1, <2>2 DEF S
<1>6. PICK u \in Seq(X) : u = F[n + 1]
  BY <1>1, <1>2
<1>7. PICK m \in Nat : m = Mark(s, n)
  BY Marked
<1>8. PICK t \in Seq(X) : t = s[n + 1]
  BY <1>1
<1>9. Len(u) = m + Len(t) /\ \A k \in 1 .. Len(t) : u[m + k] = t[k]
  <2>1. Mark(s, n + 1) = Len(u)
    BY <1>1, <1>6 DEF Mark
  <2> HIDE DEF F
  <2>2. Mark(s, n + 1) = m + Len(t)
    BY <1>7, <1>8, Marked
  <2>3. \A k \in 1 .. Len(t) : u[m + k] = t[k]
    BY <1>6, <1>7, <1>8, Marked DEF F
  <2> QED BY <2>1, <2>2, <2>3
<1>10. Mark(s, N) = Len(z) /\ z \in Seq(X) /\ N \in 1 .. N
  BY <1>1, <1>2 DEF Mark
<1>11. \A k \in 1 .. Len(t) : m + k \in 1 .. Len(u)
  BY <1>9
<1>12. Len(u) <= Len(z) /\ \A k \in 1 .. Len(u) : z[k] = u[k]
  BY <1>5, <1>6 DEF Begins
<1> QED BY <1>7, <1>8, <1>9, <1>10, <1>11, <1>12

-----------------------------------------------------------------------------
(* The inductive invariant: the player is at the beginning of a command, and   *)
(* the items before it are what has been played.                              *)

ImfStart == IF type = "IMF0" THEN 0 ELSE 2
ImfSeqs == [i \in DOMAIN Commands(ImfStart, 4) |-> ImfItems(Commands(ImfStart, 4)[i])]
Marks == [n \in 0 .. Len(ImfSeqs) |-> Mark(ImfSeqs, n)]

\* The bytes from offset o on are the items behind the first p.
AheadAt(o, p) ==
  /\ o \in 0 .. Len(file) /\ p \in Nat
  /\ type \in {"IMF0", "IMF1"} =>
       /\ ImfStart <= Len(file)
       /\ \E n \in 0 .. Len(ImfSeqs) : o = ImfStart + 4 * n /\ p = Marks[n]
  /\ type = "DRO1" =>
       /\ 24 <= Len(file) /\ Len(Dro1Cuts) = p + Len(Dro1Cut[o])
       /\ \A i \in 1 .. Len(Dro1Cut[o]) : Dro1Cuts[p + i] = Dro1Cut[o][i]
  /\ type = "DRO2" =>
       26 + At(25, 0) <= Len(file) /\ 26 <= Len(file) /\ o = 26 + At(25, 0) + 2 * p

AheadBy(k) == \E o \in {offset}, p \in {played + k} : AheadAt(o, p)

\* The command that has been read is the next items of the score.
Due ==
  \/ res = "EOF" /\ played = Len(Score)
  \/ /\ res = "FULL" /\ played + 1 <= Len(Score)
     /\ Score[played + 1] = Note(cmd.reg % ByteSize, cmd.data)
     /\ cmd.delay = 0 => AheadBy(1)
     /\ cmd.delay > 0 => played + 2 <= Len(Score) /\ Score[played + 2] = Pause(cmd.delay) /\ AheadBy(2)
  \/ /\ res = "DELAY" /\ cmd.delay > 0 /\ played + 1 <= Len(Score)
     /\ Score[played + 1] = Pause(cmd.delay) /\ AheadBy(1)
  \/ res = "NULL" /\ cmd.delay = 0 /\ AheadBy(0)  \* a song that ends with half a command

\* The wait that is due is the next item of the score.
Pending ==
  /\ nextEvent = 0 => AheadBy(0)
  /\ nextEvent > 0 => played + 1 <= Len(Score) /\ Score[played + 1] = Pause(nextEvent) /\ AheadBy(1)

ScoreInv ==
  /\ pc = "open" => played = 0 /\ ~high
  /\ pc # "open" /\ Opl2Song =>
       /\ pc \in {"clear", "wait", "read"} \/ res # "EOF" => ~high
       /\ pc = "clear" => played = 0 /\ AheadBy(0)
       /\ pc = "wait" => Pending
       /\ pc = "read" => AheadBy(0)
       /\ pc = "apply" => Due

-----------------------------------------------------------------------------
(* The score of each format.                                                  *)

CutOf(f) ==
  CHOOSE g : g = [o \in 0 .. Len(f) |->
                    IF ~(o + 1 <= Len(f)) \/ ~(o + (IF f[o + 0 + 1] = 1 THEN 3 ELSE 2) <= Len(f)) THEN <<>>
                    ELSE <<SubSeq(f, o + 1, o + (IF f[o + 0 + 1] = 1 THEN 3 ELSE 2))>>
                           \o g[o + (IF f[o + 0 + 1] = 1 THEN 3 ELSE 2)]]

LEMMA Same ==
  ASSUME UNCHANGED <<file, parse>>
  PROVE  /\ Score' = Score /\ Dro1Cut' = Dro1Cut /\ Dro1Cuts' = Dro1Cuts /\ ImfSeqs' = ImfSeqs
         /\ ImfStart' = ImfStart /\ (Opl2Song' <=> Opl2Song) /\ Len(file') = Len(file)
         /\ At(25, 0)' = At(25, 0) /\ type' = type /\ Marks' = Marks
<1>1. file' = file /\ type' = type /\ accepted' = accepted /\ delaycodes' = delaycodes
      /\ codetable' = codetable
  BY DEF parse
<1>2. At(25, 0)' = At(25, 0)
  BY <1>1, Zenon DEF At
<1>3. Dro1Cut' = Dro1Cut
  <2>1. Dro1Cut = CutOf(file) /\ Dro1Cut' = CutOf(file')
    BY DEF CutOf, Dro1Cut, Has, At, Chunk, Dro1Size
  <2> QED BY <1>1, <2>1
<1>4. Dro1Cuts' = Dro1Cuts
  BY <1>1, <1>3, Zenon DEF Dro1Cuts, Chunk
<1>5. ImfStart' = ImfStart
  BY <1>1, Zenon DEF ImfStart
<1>6. ImfSeqs' = ImfSeqs
  BY <1>1, <1>5, Zenon DEF ImfSeqs, Commands, Chunk
<1>10. Marks' = Marks
  BY <1>6, Zenon DEF Marks
<1>7. Dro2Song' = Dro2Song
  BY <1>1, Zenon DEF Dro2Song, Commands, Chunk, At
<1>8. Score' = Score
  BY <1>1, <1>4, <1>7, Zenon DEF Score, Dro1Item, Dro2Item, ImfItems, Commands, Chunk
<1>9. Opl2Song' <=> Opl2Song
  BY <1>1, <1>4, <1>7, <1>8, Zenon DEF Opl2Song
<1> QED BY <1>1, <1>2, <1>3, <1>4, <1>5, <1>6, <1>8, <1>9, <1>10

Item == [kind : {"note"}, reg : Byte, val : Byte] \cup [kind : {"rest"}, ms : Nat]

\* The places of the items of an IMF file in the whole of them.
LEMMA ItemPlaces ==
  ASSUME NEW s \in Seq(Seq(Item)), NEW z, z = FlattenSeq(s), NEW n \in 0 .. Len(s) - 1
  PROVE  /\ z \in Seq(Item) /\ Mark(s, n) + Len(s[n + 1]) <= Len(z)
         /\ Mark(s, n) \in Nat /\ Mark(s, n + 1) = Mark(s, n) + Len(s[n + 1])
         /\ \A k \in 1 .. Len(s[n + 1]) : z[Mark(s, n) + k] = s[n + 1][k]
<1>1. /\ z \in Seq(Item) /\ Mark(s, n) + Len(s[n + 1]) <= Len(z)
      /\ \A k \in 1 .. Len(s[n + 1]) : z[Mark(s, n) + k] = s[n + 1][k]
  BY FlatItems, SMTT(30)
<1>2. Mark(s, n) \in Nat /\ Mark(s, n + 1) = Mark(s, n) + Len(s[n + 1])
  BY Marked, SMTT(30)
<1> QED BY <1>1, <1>2, Zenon

LEMMA ImfScore ==
  ASSUME TypeInv, type \in {"IMF0", "IMF1"}, ImfStart <= Len(file)
  PROVE  /\ Score = FlattenSeq(ImfSeqs) /\ ImfSeqs \in Seq(Seq(Item))
         /\ Len(ImfSeqs) = (Len(file) - ImfStart) \div 4
         /\ \A n \in 0 .. Len(ImfSeqs) - 1 :
              /\ ImfStart + 4 * n + 4 <= Len(file)
              /\ ImfSeqs[n + 1] = ImfItems(Chunk(ImfStart + 4 * n, 4))
<1>1. Len(file) \in Nat /\ ImfStart \in {0, 2} /\ file \in Files
  BY FileBytes DEF ImfStart, TypeInv
<1>2. Score = FlattenSeq(ImfSeqs)
  BY DEF Score, ImfSeqs, ImfStart
<1>3. PICK N : N = (Len(file) - ImfStart) \div 4
  OBVIOUS
<1>4. N \in Nat /\ 4 * N <= Len(file) - ImfStart
  BY <1>1, <1>3
<1>5. PICK c : c = Commands(ImfStart, 4)
  OBVIOUS
<1>6. c = [i \in 1 .. N |-> Chunk(ImfStart + 4 * (i - 1), 4)]
  BY <1>3, <1>5 DEF Commands
<1>7. ImfSeqs = [i \in 1 .. N |-> ImfItems(c[i])]
  BY <1>5, <1>6 DEF ImfSeqs
<1>8. \A i \in 1 .. N : c[i] = Chunk(ImfStart + 4 * (i - 1), 4) /\ ImfItems(c[i]) \in Seq(Item)
  <2> TAKE i \in 1 .. N
  <2>1. PICK o \in Nat : o = ImfStart + 4 * (i - 1)
    BY <1>1
  <2>2. o + 4 <= Len(file)
    BY <1>1, <1>4, <2>1
  <2>3. c[i] = Chunk(o, 4)
    BY <1>6, <2>1
  <2>4. PICK d \in Seq(Byte) : d = Chunk(o, 4) /\ Len(d) = 4
    BY <1>1, <2>2, ChunkRead
  <2>5. d[1] \in Byte /\ d[2] \in Byte /\ d[3] \in Nat /\ d[4] \in Nat
    BY <2>4, Sizes DEF Byte
  <2>6. PICK wait \in Nat : wait = d[3] + ByteSize * d[4]
    <3>1. ByteSize \in Nat
      BY Sizes
    <3> QED BY <2>5, <3>1, SMTT(30)
  <2>7. Note(d[1], d[2]) \in Item /\ Pause(wait) \in Item
    BY <2>5, <2>6 DEF Note, Pause, Item
  <2>8. ImfItems(d) = IF wait = 0 THEN <<Note(d[1], d[2])>> ELSE <<Note(d[1], d[2]), Pause(wait)>>
    BY <2>6 DEF ImfItems
  <2>9. ImfItems(d) \in Seq(Item)
    BY <2>7, <2>8
  <2> QED BY <2>1, <2>3, <2>4, <2>9
<1>9. ImfSeqs \in [1 .. N -> Seq(Item)]
  BY <1>7, <1>8
<1>10. ImfSeqs \in Seq(Seq(Item)) /\ Len(ImfSeqs) = N
  BY <1>4, <1>9
<1>11. ASSUME NEW n \in 0 .. N - 1
       PROVE  /\ ImfStart + 4 * n + 4 <= Len(file)
              /\ ImfSeqs[n + 1] = ImfItems(Chunk(ImfStart + 4 * n, 4))
  <2>1. n + 1 \in 1 .. N /\ (n + 1) - 1 = n
    BY <1>4
  <2>2. c[n + 1] = Chunk(ImfStart + 4 * ((n + 1) - 1), 4)
    BY <1>8, <2>1
  <2>3. ImfSeqs[n + 1] = ImfItems(c[n + 1])
    BY <1>7, <2>1
  <2> QED BY <1>1, <1>4, <2>1, <2>2, <2>3
<1> QED BY <1>2, <1>3, <1>10, <1>11

LEMMA Dro1Score ==
  ASSUME TypeInv, type = "DRO1", 24 <= Len(file)
  PROVE  /\ Len(Dro1Cuts) \in Nat /\ Len(Score) = Len(Dro1Cuts) /\ DOMAIN Dro1Cuts = 1 .. Len(Dro1Cuts)
         /\ DOMAIN Score = 1 .. Len(Dro1Cuts)
         /\ \A i \in 1 .. Len(Dro1Cuts) : Score[i] = Dro1Item(Dro1Cuts[i])
<1>1. PICK start \in 0 .. Len(file) : Dro1Cuts = Dro1Cut[start]
  <2>1. (IF Chunk(21, 3) = <<0, 0, 0>> THEN 24 ELSE 21) \in 0 .. Len(file)
    BY FileBytes DEF TypeInv
  <2> QED BY <2>1 DEF Dro1Cuts
<1>2. PICK c \in Seq(Seq(Byte)) : c = Dro1Cuts
  BY <1>1, CutTyped DEF TypeInv
<1>3. Score = [i \in DOMAIN Dro1Cuts |-> Dro1Item(Dro1Cuts[i])]
  BY DEF Score
<1>4. DOMAIN c = 1 .. Len(c) /\ Len(c) \in Nat
  OBVIOUS
<1>5. PICK z : z = Score
  OBVIOUS
<1>6. z = [i \in 1 .. Len(c) |-> Dro1Item(c[i])]
  BY <1>2, <1>3, <1>4, <1>5
<1>7. DOMAIN z = 1 .. Len(c) /\ \A i \in 1 .. Len(c) : z[i] = Dro1Item(c[i])
  BY <1>6
<1>8. Len(z) = Len(c)
  BY <1>4, <1>6
<1> QED BY <1>2, <1>4, <1>5, <1>7, <1>8

LEMMA Dro2Score ==
  ASSUME TypeInv, type = "DRO2", 26 <= Len(file), 26 + At(25, 0) <= Len(file)
  PROVE  /\ At(25, 0) \in Nat /\ Len(Score) = (Len(file) - (26 + At(25, 0))) \div 2
         /\ Len(Score) \in Nat /\ DOMAIN Score = 1 .. Len(Score)
         /\ DOMAIN Dro2Song = 1 .. Len(Score)
         /\ \A i \in 1 .. Len(Score) :
              /\ 26 + At(25, 0) + 2 * (i - 1) + 2 <= Len(file)
              /\ Dro2Song[i] = Chunk(26 + At(25, 0) + 2 * (i - 1), 2)
              /\ Score[i] = Dro2Item(Dro2Song[i])
<1>1. Len(file) \in Nat /\ file \in Files
  BY FileBytes DEF TypeInv
<1>2. At(25, 0) \in Nat
  BY <1>1, ByteRead
<1>3. PICK s \in Nat : s = 26 + At(25, 0)
  BY <1>2
<1>4. PICK N : N = (Len(file) - s) \div 2
  OBVIOUS
<1>5. N \in Nat /\ 2 * N <= Len(file) - s
  BY <1>1, <1>3, <1>4, SMTT(30)
<1>6. PICK c : c = Dro2Song
  OBVIOUS
<1>7. c = [i \in 1 .. N |-> Chunk(s + 2 * (i - 1), 2)]
  BY <1>3, <1>4, <1>6 DEF Dro2Song, Commands
<1>8. PICK z : z = Score
  OBVIOUS
<1>9. z = [i \in DOMAIN c |-> Dro2Item(c[i])]
  BY <1>6, <1>8 DEF Score
<1>10. DOMAIN c = 1 .. N /\ DOMAIN z = 1 .. N /\ \A i \in 1 .. N : z[i] = Dro2Item(c[i])
  BY <1>7, <1>9
<1>11. Len(z) = N
  BY <1>5, <1>10
<1>12. \A i \in 1 .. N : c[i] = Chunk(s + 2 * (i - 1), 2) /\ s + 2 * (i - 1) + 2 <= Len(file)
  BY <1>1, <1>5, <1>7
<1> QED BY <1>2, <1>3, <1>4, <1>5, <1>6, <1>8, <1>10, <1>11, <1>12

-----------------------------------------------------------------------------
(* A command is read.                                                         *)

\* The result r with the command c and the next offset q: what is due.
Means(r, c, q) ==
  \/ r = "EOF" /\ played = Len(Score)
  \/ /\ r = "FULL" /\ played + 1 <= Len(Score)
     /\ Score[played + 1] = Note(c.reg % ByteSize, c.data)
     /\ c.delay = 0 => AheadAt(q, played + 1)
     /\ c.delay > 0 => played + 2 <= Len(Score) /\ Score[played + 2] = Pause(c.delay) /\ AheadAt(q, played + 2)
  \/ /\ r = "DELAY" /\ c.delay > 0 /\ played + 1 <= Len(Score)
     /\ Score[played + 1] = Pause(c.delay) /\ AheadAt(q, played + 1)
  \/ r = "NULL" /\ c.delay = 0 /\ AheadAt(q, played)

LEMMA AheadKept ==
  ASSUME UNCHANGED <<file, parse>>, NEW o, NEW p, AheadAt(o, p)
  PROVE  AheadAt(o, p)'
BY Same DEF AheadAt

LEMMA DueRead ==
  ASSUME UNCHANGED <<file, parse, played>>, played \in Nat, NEW r, NEW c, NEW q,
         r = res', c = cmd', q = offset', Means(r, c, q)
  PROVE  Due'
<1>1. played' = played /\ Score' = Score
  BY Same
<1>2. AheadAt(q, played) => AheadBy(0)'
  <2>1. PICK p : p = played
    OBVIOUS
  <2>2. AheadAt(q, p) => AheadAt(q, p)'
    BY AheadKept
  <2>3. offset' = q /\ played' + 0 = p
    BY <1>1, <2>1
  <2> QED BY <2>1, <2>2, <2>3 DEF AheadBy
<1>3. AheadAt(q, played + 1) => AheadBy(1)'
  <2>1. PICK p : p = played + 1
    OBVIOUS
  <2>2. AheadAt(q, p) => AheadAt(q, p)'
    BY AheadKept
  <2>3. offset' = q /\ played' + 1 = p
    BY <1>1, <2>1
  <2> QED BY <2>1, <2>2, <2>3 DEF AheadBy
<1>4. AheadAt(q, played + 2) => AheadBy(2)'
  <2>1. PICK p : p = played + 2
    OBVIOUS
  <2>2. AheadAt(q, p) => AheadAt(q, p)'
    BY AheadKept
  <2>3. offset' = q /\ played' + 2 = p
    BY <1>1, <2>1
  <2> QED BY <2>1, <2>2, <2>3 DEF AheadBy
<1>5. CASE res' = "EOF" /\ played = Len(Score)
  BY <1>1, <1>5, Zenon DEF Due
<1>6. CASE /\ r = "FULL" /\ played + 1 <= Len(Score)
           /\ Score[played + 1] = Note(c.reg % ByteSize, c.data)
           /\ c.delay = 0 => AheadAt(q, played + 1)
           /\ c.delay > 0 => /\ played + 2 <= Len(Score) /\ Score[played + 2] = Pause(c.delay)
                             /\ AheadAt(q, played + 2)
  BY <1>1, <1>3, <1>4, <1>6, Zenon DEF Due
<1>7. CASE /\ r = "DELAY" /\ c.delay > 0 /\ played + 1 <= Len(Score)
           /\ Score[played + 1] = Pause(c.delay) /\ AheadAt(q, played + 1)
  BY <1>1, <1>3, <1>7, Zenon DEF Due
<1>8. CASE r = "NULL" /\ c.delay = 0 /\ AheadAt(q, played)
  BY <1>1, <1>2, <1>8, Zenon DEF Due
<1> QED BY <1>5, <1>6, <1>7, <1>8, Zenon DEF Means

\* A rest of a song for one OPL2 is not cut short.
LEMMA RestFits ==
  ASSUME Opl2Song, NEW i \in 1 .. Len(Score), Score \in Seq(Item) \/ DOMAIN Score = 1 .. Len(Score),
         NEW ms \in Nat, Score[i] = Pause(ms)
  PROVE  ms < Word16 /\ ms % Word16 = ms
<1>1. i \in DOMAIN Score
  <2>1. CASE Score \in Seq(Item)
    <3>1. PICK z \in Seq(Item) : z = Score
      BY <2>1
    <3>2. DOMAIN z = 1 .. Len(z)
      OBVIOUS
    <3> QED BY <3>1, <3>2
  <2>2. CASE DOMAIN Score = 1 .. Len(Score)
    BY <2>2
  <2> QED BY <2>1, <2>2
<1>2. Pause(ms).kind = "rest" /\ Pause(ms).ms = ms
  BY DEF Pause
<1>3. ms < Word16
  BY <1>1, <1>2 DEF Opl2Song
<1> QED BY <1>3, Kept

LEMMA ImfReads ==
  ASSUME TypeInv, Opl2Song, ReadImf, NEW o, NEW p, o = offset, p = played, AheadAt(o, p),
         NEW r, NEW c, NEW q, r = res', c = cmd', q = offset'
  PROVE  Means(r, c, q)
<1>1. /\ type \in {"IMF0", "IMF1"} /\ ImfStart <= Len(file) /\ o \in Nat /\ p \in Nat /\ file \in Files
      /\ Len(file) \in Nat /\ ImfStart \in {0, 2}
  BY FileBytes DEF AheadAt, ReadImf, ImfStart, TypeInv
<1>2. PICK s : s = ImfSeqs
  OBVIOUS
<1>3. PICK z : z = Score
  OBVIOUS
<1>4. /\ z = FlattenSeq(s) /\ s \in Seq(Seq(Item)) /\ Len(s) = (Len(file) - ImfStart) \div 4
      /\ \A n \in 0 .. Len(s) - 1 : s[n + 1] = ImfItems(Chunk(ImfStart + 4 * n, 4))
  BY <1>1, <1>2, <1>3, ImfScore
<1>5. PICK n \in 0 .. Len(s) : o = ImfStart + 4 * n /\ p = Marks[n]
  BY <1>1, <1>2 DEF AheadAt
<1>6. /\ Len(s) \in Nat /\ 4 * Len(s) <= Len(file) - ImfStart /\ Len(file) - ImfStart < 4 * Len(s) + 4
      /\ n \in Nat
  BY <1>1, <1>4, <1>5
<1>7. \A m \in 0 .. Len(s) : Marks[m] = Mark(s, m)
  BY <1>2 DEF Marks
<1>8. CASE Has(offset, 4)
  <2>1. o + 4 <= Len(file) /\ n \in 0 .. Len(s) - 1 /\ n + 1 \in 0 .. Len(s)
    BY <1>1, <1>5, <1>6, <1>8 DEF Has
  <2>2. PICK d : d = Chunk(o, 4)
    OBVIOUS
  <2>3. \A i \in 1 .. 4 : d[i] = At(o, i - 1)
    BY <1>1, <2>1, <2>2, ChunkRead
  <2>4. 1 - 1 = 0 /\ 2 - 1 = 1 /\ 3 - 1 = 2 /\ 4 - 1 = 3
    OBVIOUS
  <2>5. d[1] = At(o, 0) /\ d[2] = At(o, 1) /\ d[3] = At(o, 2) /\ d[4] = At(o, 3)
    BY <2>3, <2>4
  <2>6. At(o, 0) \in Nat /\ At(o, 0) < ByteSize /\ At(o, 2) \in Nat /\ At(o, 3) \in Nat
    BY <1>1, <2>1, ByteRead
  <2>7. PICK wait \in Nat : wait = d[3] + ByteSize * d[4]
    <3>1. ByteSize \in Nat
      BY Sizes
    <3> QED BY <2>5, <2>6, <3>1
  <2>8. s[n + 1] = IF wait = 0 THEN <<Note(d[1], d[2])>> ELSE <<Note(d[1], d[2]), Pause(wait)>>
    <3>1. s[n + 1] = ImfItems(d)
      BY <1>4, <1>5, <2>1, <2>2
    <3> QED BY <2>7, <3>1 DEF ImfItems
  <2>9. Got("FULL", 4, d[1], d[2], wait)
    <3>1. Got("FULL", 4, At(offset, 0), At(offset, 1), At(offset, 2) + ByteSize * At(offset, 3))
      BY <1>8 DEF ReadImf
    <3> QED BY <2>5, <2>7, <3>1, Zenon
  <2>10. /\ z \in Seq(Item) /\ Mark(s, n) + Len(s[n + 1]) <= Len(z) /\ Mark(s, n) \in Nat
         /\ Mark(s, n + 1) = Mark(s, n) + Len(s[n + 1])
         /\ \A k \in 1 .. Len(s[n + 1]) : z[Mark(s, n) + k] = s[n + 1][k]
    <3>1. s \in Seq(Seq(Item)) /\ z = FlattenSeq(s) /\ n \in 0 .. Len(s) - 1
      BY <1>4, <2>1
    <3> QED BY <3>1, ItemPlaces, Zenon
  <2>11. p = Mark(s, n) /\ Marks[n + 1] = Mark(s, n + 1)
    BY <1>5, <1>7, <2>1
  <2>12. r = "FULL" /\ q = o + 4 /\ c.reg = d[1] /\ c.data = d[2] /\ c.delay = wait % Word16
    BY <2>9 DEF Got
  <2>13. c.reg % ByteSize = d[1]
    BY <2>5, <2>6, <2>12, Kept
  <2>14. ASSUME NEW m, m = p + Len(s[n + 1])
         PROVE  AheadAt(q, m)
    <3>1. m = Marks[n + 1] /\ m \in Nat
      <4>1. Len(s[n + 1]) \in Nat
        BY <1>4, <2>1, Marked
      <4> QED BY <2>10, <2>11, <2>14, <4>1
    <3>2. q = ImfStart + 4 * (n + 1) /\ q \in 0 .. Len(file)
      BY <1>1, <1>5, <2>1, <2>12
    <3> QED BY <1>1, <1>2, <2>1, <3>1, <3>2 DEF AheadAt
  <2>15. CASE wait = 0
    <3>1. PICK t : t = s[n + 1]
      OBVIOUS
    <3>2. t = <<Note(d[1], d[2])>>
      BY <2>8, <2>15, <3>1
    <3>3. Len(t) = 1 /\ t[1] = Note(d[1], d[2])
      BY <3>2
    <3>4. z[p + 1] = Note(d[1], d[2]) /\ p + 1 <= Len(z)
      BY <2>10, <2>11, <3>1, <3>3
    <3>5. c.delay = 0
      BY <2>12, <2>15, Sizes
    <3>6. AheadAt(q, p + 1)
      BY <2>14, <3>1, <3>3
    <3>7. ~(c.delay > 0)
      BY <3>5
    <3> QED BY <1>3, <2>12, <2>13, <3>4, <3>6, <3>7, Zenon DEF Means
  <2>16. CASE wait # 0
    <3>1. PICK t : t = s[n + 1]
      OBVIOUS
    <3>2. t = <<Note(d[1], d[2]), Pause(wait)>>
      BY <2>8, <2>16, <3>1
    <3>3. Len(t) = 2 /\ t[1] = Note(d[1], d[2]) /\ t[2] = Pause(wait)
      BY <3>2
    <3>4. z[p + 1] = Note(d[1], d[2]) /\ z[p + 2] = Pause(wait) /\ p + 2 <= Len(z) /\ Len(z) \in Nat
      BY <2>10, <2>11, <3>1, <3>3
    <3>5. p + 1 <= Len(z) /\ p + 2 \in 1 .. Len(z)
      BY <1>1, <3>4
    <3>6. wait % Word16 = wait
      BY <1>3, <2>10, <3>4, <3>5, RestFits
    <3>7. c.delay = wait /\ c.delay > 0 /\ c.delay # 0
      BY <2>12, <2>16, <3>6
    <3>8. AheadAt(q, p + 2)
      BY <2>14, <3>1, <3>3
    <3> QED BY <1>3, <2>12, <2>13, <3>4, <3>5, <3>7, <3>8, Zenon DEF Means
  <2> QED BY <2>15, <2>16
<1>9. CASE ~Has(offset, 4)
  <2>1. n = Len(s)
    BY <1>1, <1>5, <1>6, <1>9 DEF Has
  <2>2. Mark(s, Len(s)) = Len(z)
    <3>1. CASE Len(s) = 0
      <4>1. z = <<>>
        BY <1>4, <3>1, FlatTyped
      <4> QED BY <3>1, <4>1 DEF Mark
    <3>2. CASE Len(s) # 0
      <4>1. 0 \in 0 .. Len(s) - 1
        BY <1>6, <3>2
      <4> QED BY <1>4, <4>1, FlatItems
    <3> QED BY <3>1, <3>2
  <2>3. r = "EOF"
    BY <1>9 DEF ReadImf, Eof
  <2>4. p = Len(z)
    BY <1>5, <1>7, <2>1, <2>2
  <2> QED BY <1>3, <2>3, <2>4, Zenon DEF Means
<1> QED BY <1>8, <1>9


\* The next command of a DRO 1 song for one OPL2.
LEMMA Dro1Next ==
  ASSUME TypeInv, Opl2Song, type = "DRO1", NEW o, NEW p, AheadAt(o, p)
  PROVE  /\ o \in 0 .. Len(file) /\ o \in Nat /\ Len(file) \in Nat /\ p \in Nat
         /\ ~Has(o, 1) \/ ~Has(o, Dro1Size(o)) =>
              p = Len(Score) /\ \A q \in {Len(file)} : AheadAt(q, p)
         /\ Has(o, 1) /\ Has(o, Dro1Size(o)) =>
              /\ p + 1 <= Len(Score) /\ p + 1 \in 1 .. Len(Score) /\ DOMAIN Score = 1 .. Len(Score)
              /\ Score[p + 1] = Dro1Item(Chunk(o, Dro1Size(o)))
              /\ \A q \in {o + Dro1Size(o)}, m \in {p + 1} : AheadAt(q, m)
              /\ At(o, 0) \notin {2, 3, 4}
<1>1. /\ o \in 0 .. Len(file) /\ Len(file) \in Nat /\ o \in Nat /\ p \in Nat /\ file \in Files
      /\ 24 <= Len(file) /\ Len(Dro1Cuts) = p + Len(Dro1Cut[o])
      /\ \A i \in 1 .. Len(Dro1Cut[o]) : Dro1Cuts[p + i] = Dro1Cut[o][i]
  BY FileBytes DEF AheadAt, TypeInv
<1>2. /\ Len(Dro1Cuts) \in Nat /\ Len(Score) = Len(Dro1Cuts) /\ DOMAIN Dro1Cuts = 1 .. Len(Dro1Cuts)
      /\ DOMAIN Score = 1 .. Len(Score)
      /\ \A i \in 1 .. Len(Dro1Cuts) : Score[i] = Dro1Item(Dro1Cuts[i])
  BY <1>1, Dro1Score
<1>3. CASE ~Has(o, 1) \/ ~Has(o, Dro1Size(o))
  <2>1. Len(Dro1Cut[o]) = 0
    BY <1>1, <1>3, CutsOff
  <2>2. p = Len(Score)
    BY <1>1, <1>2, <2>1
  <2>3. PICK q : q = Len(file)
    OBVIOUS
  <2>4. q \in 0 .. Len(file) /\ ~Has(q, 1)
    BY <1>1, <2>3 DEF Has
  <2>5. Len(Dro1Cut[q]) = 0
    BY <1>1, <2>4, CutsOff
  <2>6. type \notin {"IMF0", "IMF1"} /\ type # "DRO2"
    OBVIOUS
  <2>7. AheadAt(q, p)
    BY <1>1, <1>2, <2>2, <2>4, <2>5, <2>6 DEF AheadAt
  <2> QED BY <1>1, <1>3, <2>2, <2>3, <2>7
<1>4. CASE Has(o, 1) /\ Has(o, Dro1Size(o))
  <2>1. PICK q : q = o + Dro1Size(o)
    OBVIOUS
  <2>2. PICK a : a = Dro1Cut[o]
    OBVIOUS
  <2>3. PICK b : b = Dro1Cut[q]
    OBVIOUS
  <2>4. /\ q \in 0 .. Len(file) /\ Len(b) \in Nat /\ Len(a) = Len(b) + 1
        /\ a[1] = Chunk(o, Dro1Size(o)) /\ \A i \in 1 .. Len(b) : a[i + 1] = b[i]
    BY <1>1, <1>4, <2>1, <2>2, <2>3, CutsOff
  <2>5. PICK m : m = p + 1
    OBVIOUS
  <2>6. m \in Nat /\ m \in 1 .. Len(Score) /\ m <= Len(Score) /\ m \in 1 .. Len(Dro1Cuts)
    BY <1>1, <1>2, <2>2, <2>4, <2>5
  <2>7. Dro1Cuts[m] = Chunk(o, Dro1Size(o))
    <3>1. 1 \in 1 .. Len(a)
      BY <2>4
    <3> QED BY <1>1, <2>2, <2>4, <2>5, <3>1
  <2>8. Score[m] = Dro1Item(Chunk(o, Dro1Size(o)))
    BY <1>2, <2>6, <2>7
  <2>9. AheadAt(q, m)
    <3>1. Len(Dro1Cuts) = m + Len(b)
      BY <1>1, <2>2, <2>4, <2>5
    <3>2. \A i \in 1 .. Len(b) : Dro1Cuts[m + i] = b[i]
      <4> TAKE i \in 1 .. Len(b)
      <4>1. i + 1 \in 1 .. Len(a) /\ p + (i + 1) = m + i
        BY <1>1, <2>4, <2>5
      <4>2. Dro1Cuts[p + (i + 1)] = a[i + 1]
        BY <1>1, <2>2, <4>1
      <4> QED BY <2>4, <4>1, <4>2
    <3>3. type \notin {"IMF0", "IMF1"} /\ type # "DRO2"
      OBVIOUS
    <3> QED BY <1>1, <2>3, <2>4, <2>6, <3>1, <3>2, <3>3 DEF AheadAt
  <2>10. At(o, 0) \notin {2, 3, 4}
    <3>1. Dro1Cuts[m][1] \notin {2, 3, 4}
      BY <1>2, <2>6 DEF Opl2Song
    <3>2. PICK n \in {2, 3} : n = Dro1Size(o)
      BY DEF Dro1Size
    <3>3. PICK c : c = Chunk(o, n)
      OBVIOUS
    <3>4. \A i \in 1 .. n : c[i] = At(o, i - 1)
      <4>1. o + n <= Len(file) /\ n \in Nat
        BY <1>4, <3>2 DEF Has
      <4> QED BY <1>1, <3>3, <4>1, ChunkRead
    <3>5. 1 \in 1 .. n /\ 1 - 1 = 0
      OBVIOUS
    <3>6. c[1] = At(o, 0)
      BY <3>4, <3>5
    <3> QED BY <2>7, <3>1, <3>2, <3>3, <3>6
  <2> QED BY <1>1, <1>2, <1>4, <2>1, <2>5, <2>6, <2>8, <2>9, <2>10
<1> QED BY <1>3, <1>4

LEMMA Dro1Reads ==
  ASSUME TypeInv, Opl2Song, ~high,
         ReadDro1Delay \/ ReadDro1Chip \/ ReadDro1Escape \/ ReadDro1Write \/ ReadDro1End,
         NEW o, NEW p, o = offset, p = played, AheadAt(o, p),
         NEW r, NEW c, NEW q, r = res', c = cmd', q = offset'
  PROVE  Means(r, c, q) /\ (r # "EOF" => ~high')
<1>1. type = "DRO1"
  BY DEF ReadDro1Delay, ReadDro1Chip, ReadDro1Escape, ReadDro1Write, ReadDro1End
<1>2. /\ o \in 0 .. Len(file) /\ o \in Nat /\ Len(file) \in Nat /\ p \in Nat /\ file \in Files
      /\ ~Has(o, 1) \/ ~Has(o, Dro1Size(o)) => p = Len(Score)
  BY <1>1, Dro1Next DEF TypeInv
<1>3. Has(o, 1) /\ Has(o, Dro1Size(o)) =>
        /\ p + 1 <= Len(Score) /\ p + 1 \in 1 .. Len(Score) /\ DOMAIN Score = 1 .. Len(Score)
        /\ Score[p + 1] = Dro1Item(Chunk(o, Dro1Size(o)))
        /\ At(o, 0) \notin {2, 3, 4}
  BY <1>1, Dro1Next
<1>4. Has(o, 1) /\ Has(o, Dro1Size(o)) /\ q = o + Dro1Size(o) => AheadAt(q, p + 1)
  <2>1. PICK m : m = p + 1
    OBVIOUS
  <2>2. Has(o, 1) /\ Has(o, Dro1Size(o)) /\ q = o + Dro1Size(o) => AheadAt(q, m)
    BY <1>1, <2>1, Dro1Next
  <2> QED BY <2>1, <2>2
<1>5. p = Len(Score) /\ Eof => Means(r, c, q)
  BY DEF Eof, Means
<1>6. Dro1Code = At(o, 0)
  BY DEF Dro1Code
<1>7. Has(o, 2) => o + 2 <= Len(file)
  BY DEF Has
<1>8. CASE ReadDro1Delay
  <2>1. Has(o, 1) /\ Dro1Code \in {0, 1} /\ high' = high /\ At(o, 0) \in {0, 1}
    BY <1>6, <1>8 DEF ReadDro1Delay
  <2>2. PICK size \in {2, 3} : size = Dro1Code + 2
    BY <2>1
  <2>3. size = Dro1Size(o)
    BY <1>6, <2>1, <2>2 DEF Dro1Size
  <2>4. CASE ~Has(o, size)
    <3>1. Eof
      BY <1>8, <2>2, <2>4 DEF ReadDro1Delay
    <3>2. p = Len(Score)
      BY <1>2, <2>3, <2>4
    <3> QED BY <1>5, <2>1, <3>1, <3>2
  <2>5. CASE Has(o, size)
    <3>1. o + size <= Len(file) /\ size \in Nat /\ o + 1 < Len(file)
      BY <1>2, <2>5 DEF Has
    <3>2. PICK d : d = Chunk(o, size)
      OBVIOUS
    <3>3. \A i \in 1 .. size : d[i] = At(o, i - 1)
      BY <1>2, <3>1, <3>2, ChunkRead
    <3>4. 1 - 1 = 0 /\ 2 - 1 = 1 /\ 3 - 1 = 2
      OBVIOUS
    <3>5. d[1] = At(o, 0) /\ d[2] = At(o, 1) /\ (size = 3 => d[3] = At(o, 2))
      <4>1. 1 \in 1 .. size /\ 2 \in 1 .. size /\ (size = 3 => 3 \in 1 .. size)
        OBVIOUS
      <4> QED BY <3>3, <3>4, <4>1
    <3>6. At(o, 1) \in Nat
      BY <1>2, <3>1, ByteRead
    <3>7. Dro1Code = 1 => At(o, 2) \in Nat
      <4>1. Dro1Code = 1 => o + 2 < Len(file)
        BY <1>2, <2>2, <3>1
      <4> QED BY <1>2, <4>1, ByteRead
    <3>8. PICK ms \in Nat : ms = 1 + At(o, 1) + (IF Dro1Code = 1 THEN ByteSize * At(o, 2) ELSE 0)
      <4>1. ByteSize \in Nat
        BY Sizes
      <4> QED BY <3>6, <3>7, <4>1
    <3>9. Got("DELAY", size, 0, 0, ms)
      <4>1. LET z == Dro1Code + 2 IN
            IF ~Has(offset, z) THEN Eof /\ cmd' = NoCmd
            ELSE Got("DELAY", z, 0, 0,
                     1 + At(offset, 1) + (IF Dro1Code = 1 THEN ByteSize * At(offset, 2) ELSE 0))
        BY <1>8 DEF ReadDro1Delay
      <4> QED BY <2>2, <2>5, <3>8, <4>1, Zenon
    <3>10. r = "DELAY" /\ q = o + size /\ c.delay = ms % Word16
      BY <3>9 DEF Got
    <3>11. Score[p + 1] = Dro1Item(d) /\ p + 1 <= Len(Score) /\ p + 1 \in 1 .. Len(Score)
           /\ DOMAIN Score = 1 .. Len(Score)
      BY <1>3, <2>1, <2>3, <2>5, <3>2
    <3>12. Dro1Item(d) = Pause(ms) /\ ms > 0
      <4>1. CASE Dro1Code = 0
        <5>1. ms = At(o, 1) + 1 /\ d[1] = 0
          BY <1>6, <3>5, <3>6, <3>8, <4>1
        <5> QED BY <3>5, <3>6, <5>1 DEF Dro1Item
      <4>2. CASE Dro1Code = 1
        <5>1. ByteSize \in Nat
          BY Sizes
        <5>2. PICK x \in Nat : x = ByteSize * At(o, 2)
          BY <3>7, <4>2, <5>1
        <5>3. ms = At(o, 1) + x + 1 /\ d[1] = 1 /\ d[3] = At(o, 2) /\ size = 3
          BY <1>6, <2>2, <3>5, <3>6, <3>8, <4>2, <5>2
        <5> QED BY <3>5, <3>6, <5>2, <5>3 DEF Dro1Item
      <4> QED BY <2>1, <4>1, <4>2
    <3>13. ms % Word16 = ms
      BY <3>11, <3>12, RestFits
    <3>14. AheadAt(q, p + 1)
      BY <1>4, <2>1, <2>3, <2>5, <3>10
    <3>15. c.delay = ms /\ Score[p + 1] = Pause(ms) /\ c.delay > 0
      BY <3>10, <3>11, <3>12, <3>13
    <3> QED BY <2>1, <3>10, <3>11, <3>14, <3>15, Zenon DEF Means
  <2> QED BY <2>4, <2>5
<1>9. CASE ReadDro1Chip
  <2>1. Has(o, 1) /\ At(o, 0) \in {2, 3} /\ Dro2Cmd(1) /\ Dro1Size(o) = 2
    BY <1>6, <1>9 DEF ReadDro1Chip, Dro1Size
  <2>2. ~Has(o, 2)
    BY <1>3, <2>1
  <2>3. p = Len(Score)
    BY <1>2, <2>1, <2>2
  <2>4. ~Has(offset + 1, 2)
    BY <1>2, <2>2 DEF Has
  <2>5. Eof
    BY <2>1, <2>4 DEF Dro2Cmd
  <2>6. r = "EOF"
    BY <2>5 DEF Eof
  <2> QED BY <1>5, <2>3, <2>5, <2>6
<1>10. CASE ReadDro1Escape
  <2>1. Has(o, 1) /\ At(o, 0) = 4 /\ Got("NULL", 1, 0, 0, 0) /\ Dro1Size(o) = 2 /\ high' = high
    BY <1>6, <1>10 DEF ReadDro1Escape, Dro1Size
  <2>2. ~Has(o, 2)
    BY <1>3, <2>1
  <2>3. q = o + 1 /\ r = "NULL" /\ c.delay = 0 % Word16
    BY <2>1 DEF Got
  <2>4. q = Len(file) /\ 0 % Word16 = 0
    BY <1>2, <2>1, <2>2, <2>3, Sizes DEF Has
  <2>5. AheadAt(q, p)
    BY <1>1, <2>1, <2>2, <2>4, Dro1Next
  <2> QED BY <2>1, <2>3, <2>4, <2>5, Zenon DEF Means
<1>11. CASE ReadDro1Write
  <2>1. Has(o, 1) /\ At(o, 0) > 4 /\ high' = high
    BY <1>6, <1>11 DEF ReadDro1Write
  <2>2. At(o, 0) \in Nat /\ At(o, 0) < ByteSize /\ At(o, 0) \in Byte
    <3>1. o + 0 < Len(file)
      BY <1>2, <2>1 DEF Has
    <3> QED BY <1>2, <3>1, ByteRead
  <2>3. Dro1Size(o) = 2 /\ At(o, 0) # 0 /\ At(o, 0) # 1
    BY <2>1, <2>2 DEF Dro1Size
  <2>4. CASE ~Has(o, 2)
    <3>1. Eof
      BY <1>11, <2>4 DEF ReadDro1Write
    <3>2. p = Len(Score)
      BY <1>2, <2>3, <2>4
    <3> QED BY <1>5, <2>1, <3>1, <3>2
  <2>5. CASE Has(o, 2)
    <3>1. Got("FULL", 2, Dro1Code + (IF high THEN ByteSize ELSE 0), At(offset, 1), 0)
      BY <1>11, <2>5 DEF ReadDro1Write
    <3>2. Dro1Code + (IF high THEN ByteSize ELSE 0) = At(o, 0)
      BY <1>6, <2>2
    <3>3. Got("FULL", 2, At(o, 0), At(o, 1), 0)
      BY <3>1, <3>2, Zenon
    <3>4. r = "FULL" /\ q = o + 2 /\ c.reg = At(o, 0) /\ c.data = At(o, 1) /\ c.delay = 0 % Word16
      BY <3>3 DEF Got
    <3>5. c.delay = 0 /\ ~(c.delay > 0)
      BY <3>4, Sizes
    <3>6. c.reg % ByteSize = At(o, 0)
      BY <2>2, <3>4, Kept
    <3>7. PICK d : d = Chunk(o, 2)
      OBVIOUS
    <3>8. \A i \in 1 .. 2 : d[i] = At(o, i - 1)
      BY <1>2, <1>7, <2>5, <3>7, ChunkRead
    <3>9. 1 - 1 = 0 /\ 2 - 1 = 1 /\ 1 \in 1 .. 2 /\ 2 \in 1 .. 2
      OBVIOUS
    <3>10. d[1] = At(o, 0) /\ d[2] = At(o, 1)
      BY <3>8, <3>9
    <3>11. Dro1Item(d) = Note(At(o, 0), At(o, 1))
      BY <2>3, <3>10 DEF Dro1Item
    <3>12. Score[p + 1] = Note(At(o, 0), At(o, 1)) /\ p + 1 <= Len(Score)
      BY <1>3, <2>1, <2>3, <2>5, <3>7, <3>11
    <3>13. AheadAt(q, p + 1)
      BY <1>4, <2>1, <2>3, <2>5, <3>4
    <3> QED BY <2>1, <3>4, <3>5, <3>6, <3>12, <3>13, Zenon DEF Means
  <2> QED BY <2>4, <2>5
<1>12. CASE ReadDro1End
  <2>1. ~Has(o, 1) /\ Eof /\ high' = high
    BY <1>12 DEF ReadDro1End
  <2>2. p = Len(Score)
    BY <1>2, <2>1
  <2> QED BY <1>5, <2>1, <2>2
<1> QED BY <1>8, <1>9, <1>10, <1>11, <1>12

LEMMA Dro2Reads ==
  ASSUME TypeInv, Opl2Song, ReadDro2, NEW o, NEW p, o = offset, p = played, AheadAt(o, p),
         NEW r, NEW c, NEW q, r = res', c = cmd', q = offset'
  PROVE  Means(r, c, q)
<1>1. /\ type = "DRO2" /\ Dro2Cmd(0) /\ 26 + At(25, 0) <= Len(file) /\ 26 <= Len(file)
      /\ o = 26 + At(25, 0) + 2 * p /\ p \in Nat /\ o \in Nat /\ Len(file) \in Nat /\ file \in Files
      /\ o \in 0 .. Len(file)
  BY FileBytes DEF AheadAt, ReadDro2, TypeInv
<1>2. PICK s \in Nat : s = 26 + At(25, 0)
  BY <1>1, Dro2Score
<1>3. PICK N : N = Len(Score)
  OBVIOUS
<1>4. /\ N = (Len(file) - s) \div 2 /\ N \in Nat /\ DOMAIN Score = 1 .. N /\ DOMAIN Dro2Song = 1 .. N
      /\ \A i \in 1 .. N : /\ Dro2Song[i] = Chunk(s + 2 * (i - 1), 2)
                           /\ Score[i] = Dro2Item(Dro2Song[i])
  BY <1>1, <1>2, <1>3, Dro2Score
<1>5. 2 * N <= Len(file) - s /\ Len(file) - s < 2 * N + 2 /\ s <= Len(file) /\ o = s + 2 * p
  <2>1. PICK n \in Nat : n = Len(file)
    BY <1>1
  <2>2. s <= n /\ o = s + 2 * p
    BY <1>1, <1>2, <2>1
  <2>3. N = (n - s) \div 2 /\ N \in Nat
    BY <1>4, <2>1
  <2>4. 2 * N <= n - s /\ n - s < 2 * N + 2
    BY <2>2, <2>3
  <2> QED BY <2>1, <2>2, <2>4
<1>6. o + 0 = o /\ offset + 0 = o
  BY <1>1
<1>7. CASE Has(o, 2)
  <2>1. o + 2 <= Len(file) /\ o + 0 < Len(file) /\ o + 1 < Len(file)
    BY <1>1, <1>7 DEF Has
  <2>2. PICK m : m = p + 1
    OBVIOUS
  <2>3. m \in 1 .. N /\ m <= N /\ m \in Nat /\ s + 2 * (m - 1) = o
    BY <1>1, <1>4, <1>5, <2>1, <2>2, SMTT(30)
  <2>4. PICK code \in Byte : code = At(o, 0) /\ code \in Nat
    BY <1>1, <2>1, ByteRead
  <2>5. PICK arg \in Byte : arg = At(o, 1) /\ arg \in Nat
    BY <1>1, <2>1, ByteRead
  <2>6. PICK d : d = Chunk(o, 2)
    OBVIOUS
  <2>7. d[1] = code /\ d[2] = arg
    <3>1. \A i \in 1 .. 2 : d[i] = At(o, i - 1)
      BY <1>1, <2>1, <2>6, ChunkRead
    <3>2. 1 - 1 = 0 /\ 2 - 1 = 1 /\ 1 \in 1 .. 2 /\ 2 \in 1 .. 2
      OBVIOUS
    <3> QED BY <2>4, <2>5, <3>1, <3>2
  <2>8. Score[m] = Dro2Item(d) /\ Dro2Song[m] = d
    BY <1>4, <2>3, <2>6
  <2>9. code \in Range(delaycodes) \cup 0 .. Half - 1
    <3>1. Dro2Song[m][1] \in Range(delaycodes) \cup 0 .. Half - 1
      BY <1>1, <1>4, <2>3 DEF Opl2Song
    <3> QED BY <2>7, <2>8, <3>1
  <2>10. code = delaycodes[1] \/ code = delaycodes[2] \/ (code < Half /\ code \in Nat)
    <3>1. PICK t \in Byte \X Byte : t = delaycodes
      BY DEF TypeInv, TypeOK
    <3>2. code \in Range(t) => code = t[1] \/ code = t[2]
      BY DEF Range
    <3>3. code \in 0 .. Half - 1 => code < Half /\ code \in Nat
      BY <2>4, Sizes
    <3> QED BY <2>9, <3>1, <3>2, <3>3
  <2>11. q = o + 2 => AheadAt(q, m)
    <3>1. type \notin {"IMF0", "IMF1"} /\ type # "DRO1"
      BY <1>1
    <3>2. q = o + 2 => q \in 0 .. Len(file) /\ q = s + 2 * m
      BY <1>1, <1>5, <2>1, <2>2, <2>3
    <3> QED BY <1>1, <1>2, <2>3, <3>1, <3>2 DEF AheadAt
  <2>12. IF code = delaycodes[1] THEN Got("DELAY", 2, 0, 0, arg + 1)
         ELSE IF code = delaycodes[2] THEN Got("DELAY", 2, 0, 0, ByteSize * (arg + 1))
         ELSE Got("FULL", 2, codetable[code % Half] + (IF code >= Half THEN ByteSize ELSE 0), arg, 0)
    <3>1. 0 + 2 = 2
      OBVIOUS
    <3>2. IF At(o, 0) = delaycodes[1] THEN Got("DELAY", 0 + 2, 0, 0, At(o, 1) + 1)
          ELSE IF At(o, 0) = delaycodes[2] THEN Got("DELAY", 0 + 2, 0, 0, ByteSize * (At(o, 1) + 1))
          ELSE Got("FULL", 0 + 2,
                   codetable[At(o, 0) % Half] + (IF At(o, 0) >= Half THEN ByteSize ELSE 0), At(o, 1), 0)
      BY <1>1, <1>6, <1>7, Zenon DEF Dro2Cmd
    <3> QED BY <2>4, <2>5, <3>1, <3>2, Zenon
  <2>13. ASSUME NEW ms \in Nat, ms > 0, Got("DELAY", 2, 0, 0, ms), Dro2Item(d) = Pause(ms)
         PROVE  Means(r, c, q)
    <3>1. r = "DELAY" /\ q = o + 2 /\ c.delay = ms % Word16
      BY <2>13 DEF Got
    <3>2. Score[m] = Pause(ms)
      BY <2>8, <2>13
    <3>3. ms % Word16 = ms
      BY <1>3, <1>4, <2>3, <3>2, RestFits
    <3>4. c.delay = ms /\ c.delay > 0 /\ AheadAt(q, m)
      BY <2>11, <2>13, <3>1, <3>3
    <3> QED BY <1>3, <2>2, <2>3, <3>1, <3>2, <3>4, Zenon DEF Means
  <2>14. CASE code = delaycodes[1]
    <3>1. Dro2Item(d) = Pause(arg + 1)
      BY <2>7, <2>14 DEF Dro2Item
    <3>2. Got("DELAY", 2, 0, 0, arg + 1) /\ arg + 1 \in Nat /\ arg + 1 > 0
      BY <2>5, <2>12, <2>14
    <3> QED BY <2>13, <3>1, <3>2
  <2>15. CASE code # delaycodes[1] /\ code = delaycodes[2]
    <3>1. PICK ms : ms = ByteSize * (arg + 1)
      OBVIOUS
    <3>2. ms \in Nat /\ ms > 0
      BY <2>5, <3>1, Sizes
    <3>3. Dro2Item(d) = Pause(ms)
      BY <2>7, <2>15, <3>1 DEF Dro2Item
    <3>4. Got("DELAY", 2, 0, 0, ms)
      BY <2>12, <2>15, <3>1
    <3> QED BY <2>13, <3>2, <3>3, <3>4
  <2>16. CASE code # delaycodes[1] /\ code # delaycodes[2]
    <3>1. code < Half /\ code \in Nat /\ ~(code >= Half) /\ code % Half = code
      <4>1. code < Half /\ code \in Nat
        BY <2>10, <2>16
      <4>2. code % Half = code
        BY <4>1, Kept
      <4> QED BY <4>1, <4>2, Sizes
    <3>2. PICK n \in Byte : n = codetable[code]
      BY DEF TypeInv, TypeOK
    <3>3. n \in Nat /\ n < ByteSize
      BY <3>2, Sizes DEF Byte
    <3>4. codetable[code % Half] + (IF code >= Half THEN ByteSize ELSE 0) = n
      <4>1. (IF code >= Half THEN ByteSize ELSE 0) = 0 /\ n + 0 = n
        BY <3>1, <3>3
      <4> QED BY <3>1, <3>2, <4>1, Zenon
    <3>5. Got("FULL", 2, n, arg, 0)
      BY <2>12, <2>16, <3>4, Zenon
    <3>6. r = "FULL" /\ q = o + 2 /\ c.reg = n /\ c.data = arg /\ c.delay = 0 % Word16
      BY <3>5 DEF Got
    <3>7. c.delay = 0 /\ ~(c.delay > 0)
      BY <3>6, Sizes
    <3>8. c.reg % ByteSize = n
      BY <3>3, <3>6, Kept
    <3>9. Score[m] = Note(n, arg)
      BY <2>7, <2>8, <2>16, <3>2 DEF Dro2Item
    <3> QED BY <1>3, <2>2, <2>3, <2>11, <3>6, <3>7, <3>8, <3>9, Zenon DEF Means
  <2> QED BY <2>14, <2>15, <2>16
<1>8. CASE ~Has(o, 2)
  <2>1. Eof
    BY <1>1, <1>6, <1>8, Zenon DEF Dro2Cmd
  <2>2. p = N
    BY <1>1, <1>4, <1>5, <1>8, SMTT(30) DEF Has
  <2> QED BY <1>3, <2>1, <2>2 DEF Eof, Means
<1> QED BY <1>7, <1>8

-----------------------------------------------------------------------------
(* The invariant is kept.                                                     *)

LEMMA AheadByKept ==
  ASSUME UNCHANGED <<file, parse, offset, played>>, NEW k, AheadBy(k)
  PROVE  AheadBy(k)'
<1>1. PICK o, p : o = offset /\ p = played + k /\ AheadAt(o, p)
  BY DEF AheadBy
<1>2. AheadAt(o, p)'
  BY <1>1, AheadKept
<1> QED BY <1>1, <1>2 DEF AheadBy

LEMMA AheadShift ==
  ASSUME UNCHANGED <<file, parse, offset>>, played \in Nat, played' = played + 1,
         NEW j \in Nat, NEW k, k = j + 1, AheadBy(k)
  PROVE  AheadBy(j)'
<1>1. PICK o, p : o = offset /\ p = played + k /\ AheadAt(o, p)
  BY DEF AheadBy
<1>2. AheadAt(o, p)'
  BY <1>1, AheadKept
<1>3. p = played' + j /\ o = offset'
  BY <1>1
<1> QED BY <1>2, <1>3 DEF AheadBy

\* Where file_open leaves a file it accepts.
LEMMA Opened ==
  ASSUME TypeInv, Open, accepted'
  PROVE  \/ type' = "IMF0" /\ offset' = 0
         \/ type' = "IMF1" /\ offset' = 2 /\ 2 <= Len(file)
         \/ /\ type' = "DRO1" /\ 24 <= Len(file)
            /\ offset' = IF Chunk(21, 3) = <<0, 0, 0>> THEN 24 ELSE 21
         \/ /\ type' = "DRO2" /\ 26 <= Len(file) /\ 26 + At(25, 0) <= Len(file)
            /\ offset' = 26 + At(25, 0)
<1>1. Len(file) \in Nat /\ file \in Files
  BY FileBytes DEF TypeInv
<1>2. \A o : ~Refuse(o)
  BY Zenon DEF Refuse
<1>3. CASE OpenImf
  <2>1. Has(0, 2)
    BY <1>3 DEF OpenImf
  <2>2. PICK read : read = IF Chunk(0, 2) = SubSeq(Signature, 1, 2) THEN Least(8, Len(file)) ELSE 2
    OBVIOUS
  <2>3. \/ Accept("IMF0", SeekSet(0, read))
        \/ Accept("IMF1", SeekSet(2, read))
    BY <1>3, <2>2 DEF OpenImf
  <2>4. SeekSet(0, read) = 0 /\ SeekSet(2, read) = 2 /\ 2 <= Len(file)
    BY <1>1, <2>1 DEF SeekSet, Has
  <2>5. Accept("IMF0", 0) \/ Accept("IMF1", 2)
    BY <2>3, <2>4, Zenon
  <2> QED BY <2>4, <2>5 DEF Accept
<1>4. CASE OpenDro1
  <2>1. Has(12, 12)
    BY <1>2, <1>4 DEF OpenDro1
  <2>2. SeekSet(21, 24) = 21 /\ 24 <= Len(file)
    BY <1>1, <2>1 DEF SeekSet, Has
  <2>3. Accept("DRO1", IF Chunk(21, 3) # <<0, 0, 0>> THEN SeekSet(21, 24) ELSE 24)
    BY <1>4, <2>1 DEF OpenDro1
  <2>4. Accept("DRO1", IF Chunk(21, 3) = <<0, 0, 0>> THEN 24 ELSE 21)
    BY <2>2, <2>3
  <2> QED BY <2>2, <2>4 DEF Accept
<1>5. CASE OpenDro2
  <2>1. Has(12, 14) /\ Chunk(21, 2) = <<0, 0>>
    BY <1>2, <1>5 DEF OpenDro2
  <2>2. PICK want : want = At(12, 13)
    OBVIOUS
  <2>3. PICK got : got = Least(want, Len(file) - 26)
    OBVIOUS
  <2>4. IF got = want THEN Accept("DRO2", 26 + want) ELSE Refuse(26 + got)
    BY <1>5, <2>1, <2>2, <2>3 DEF OpenDro2
  <2>5. got = want /\ Accept("DRO2", 26 + want)
    BY <1>2, <2>4
  <2>6. 26 <= Len(file) /\ want \in Nat /\ want = At(25, 0)
    <3>1. 26 <= Len(file) /\ 12 + 13 < Len(file)
      BY <1>1, <2>1 DEF Has
    <3>2. want \in Nat
      BY <1>1, <2>2, <3>1, ByteRead
    <3>3. 12 + 13 + 1 = 26 /\ 25 + 0 + 1 = 26
      OBVIOUS
    <3> QED BY <2>2, <3>1, <3>2, <3>3 DEF At
  <2>7. want <= Len(file) - 26
    BY <1>1, <2>3, <2>5, <2>6 DEF Least
  <2> QED BY <1>1, <2>5, <2>6, <2>7 DEF Accept
<1>6. CASE OpenShort \/ OpenUnknown
  BY <1>2, <1>6, Zenon DEF OpenShort, OpenUnknown
<1> QED BY <1>3, <1>4, <1>5, <1>6 DEF Open

LEMMA OpenAhead ==
  ASSUME TypeInv, Open, accepted', file' = file, NEW o, o = offset', NEW p, p = 0
  PROVE  AheadAt(o, p)'
<1>1. Len(file) \in Nat /\ file \in Files /\ Len(file') = Len(file) /\ o \in 0 .. Len(file')
  BY FileBytes, OpenTypes DEF TypeInv
<1>2. CASE \/ type' = "IMF0" /\ offset' = 0
           \/ type' = "IMF1" /\ offset' = 2 /\ 2 <= Len(file)
  <2>1. PICK s \in {0, 2} : s = ImfStart' /\ s = offset' /\ s <= Len(file)
    BY <1>1, <1>2 DEF ImfStart
  <2>2. PICK N \in Nat : N = (Len(file) - s) \div 4
    BY <1>1, <2>1
  <2>3. PICK c : c = Commands(ImfStart, 4)'
    OBVIOUS
  <2>4. c = [i \in 1 .. N |-> SubSeq(file', s + 4 * (i - 1) + 1, s + 4 * (i - 1) + 4)]
    BY <1>1, <2>1, <2>2, <2>3, Zenon DEF Commands, Chunk
  <2>5. PICK t : t = ImfSeqs'
    OBVIOUS
  <2>6. DOMAIN t = DOMAIN c
    BY <2>3, <2>5 DEF ImfSeqs
  <2>7. t = [i \in 1 .. N |-> t[i]]
    <3>1. t = [i \in DOMAIN c |-> ImfItems(Commands(ImfStart, 4)[i])']
      BY <2>3, <2>5, Zenon DEF ImfSeqs
    <3>2. DOMAIN c = 1 .. N
      BY <2>4
    <3> QED BY <3>1, <3>2
  <2>8. Len(t) = N
    BY <2>7
  <2>9. 0 \in 0 .. Len(t) /\ Mark(t, 0) = 0
    BY <2>8 DEF Mark
  <2>10. Marks'[0] = 0
    <3>1. Marks' = [n \in 0 .. Len(t) |-> Mark(t, n)]
      BY <2>5, Zenon DEF Marks
    <3> QED BY <2>9, <3>1
  <2>11. o = ImfStart' + 4 * 0 /\ ImfStart' <= Len(file')
    <3>1. s + 4 * 0 = s
      OBVIOUS
    <3> QED BY <1>1, <2>1, <3>1, Zenon
  <2>12. type' # "DRO1" /\ type' # "DRO2" /\ p \in Nat
    BY <1>2
  <2> QED BY <1>1, <2>5, <2>9, <2>10, <2>11, <2>12 DEF AheadAt
<1>3. CASE /\ type' = "DRO1" /\ 24 <= Len(file)
           /\ offset' = IF Chunk(21, 3) = <<0, 0, 0>> THEN 24 ELSE 21
  <2>1. Dro1Cut = CutOf(file) /\ Dro1Cut' = CutOf(file')
    BY DEF CutOf, Dro1Cut, Has, At, Chunk, Dro1Size
  <2>2. Dro1Cut' = Dro1Cut
    BY <2>1
  <2>3. Chunk(21, 3)' = Chunk(21, 3)
    BY Zenon DEF Chunk
  <2>4. Dro1Cuts' = Dro1Cut[o]
    BY <1>3, <2>2, <2>3, Zenon DEF Dro1Cuts
  <2>5. Len(Dro1Cut[o]) \in Nat
    BY <1>1, CutsOff
  <2>6. Len(Dro1Cuts') = p + Len(Dro1Cut'[o])
    BY <2>2, <2>4, <2>5
  <2>7. \A i \in 1 .. Len(Dro1Cut'[o]) : Dro1Cuts'[p + i] = Dro1Cut'[o][i]
    <3> TAKE i \in 1 .. Len(Dro1Cut'[o])
    <3>1. p + i = i
      BY <2>2, <2>5
    <3> QED BY <2>2, <2>4, <3>1, Zenon
  <2>8. type' \notin {"IMF0", "IMF1"} /\ type' # "DRO2" /\ p \in Nat
    BY <1>3
  <2> QED BY <1>1, <1>3, <2>6, <2>7, <2>8 DEF AheadAt
<1>4. CASE /\ type' = "DRO2" /\ 26 <= Len(file) /\ 26 + At(25, 0) <= Len(file)
           /\ offset' = 26 + At(25, 0)
  <2>1. At(25, 0)' = At(25, 0)
    BY Zenon DEF At
  <2>2. At(25, 0) \in Nat
    BY <1>1, <1>4, ByteRead
  <2>3. o = 26 + At(25, 0)' + 2 * p
    BY <1>4, <2>1, <2>2
  <2>4. type' \notin {"IMF0", "IMF1"} /\ type' # "DRO1" /\ p \in Nat
    BY <1>4
  <2> QED BY <1>1, <1>4, <2>1, <2>3, <2>4 DEF AheadAt
<1> QED BY <1>2, <1>3, <1>4, Opened

LEMMA ScoreStart == Init => ScoreInv
BY Zenon DEF Init, ScoreInv

\* Nothing changes that the invariant looks at.
LEMMA ScoreStays ==
  ASSUME UNCHANGED vars, ScoreInv
  PROVE  ScoreInv'
<1>1. /\ UNCHANGED <<file, parse, offset, played>> /\ pc' = pc /\ high' = high /\ res' = res
      /\ cmd' = cmd /\ nextEvent' = nextEvent
  BY DEF vars, parse
<1>2. Score' = Score /\ (Opl2Song' <=> Opl2Song)
  BY <1>1, Same
<1>3. \A k \in {0, 1, 2} : AheadBy(k) => AheadBy(k)'
  BY <1>1, AheadByKept
<1>4. /\ AheadBy(0) => AheadBy(0)'
      /\ AheadBy(1) => AheadBy(1)'
      /\ AheadBy(2) => AheadBy(2)'
  BY <1>3
<1>5. Due => Due'
  BY <1>1, <1>2, <1>4, Zenon DEF Due
<1>6. Pending => Pending'
  BY <1>1, <1>2, <1>4, Zenon DEF Pending
<1> QED BY <1>1, <1>2, <1>4, <1>5, <1>6, Zenon DEF ScoreInv

LEMMA ScoreOpen ==
  ASSUME TypeInv, Open, ScoreInv
  PROVE  ScoreInv'
<1>1. /\ pc = "open" /\ pc' = "clear" /\ file' = file /\ high' = high /\ played' = played
  BY DEF Open, OpenShort, OpenImf, OpenDro1, OpenDro2, OpenUnknown, Opening
<1>2. played' = 0 /\ ~high'
  BY <1>1, Zenon DEF ScoreInv
<1>3. Opl2Song' => AheadBy(0)'
  <2>1. SUFFICES ASSUME Opl2Song'
                 PROVE  AheadBy(0)'
    OBVIOUS
  <2>2. accepted'
    BY <2>1, Zenon DEF Opl2Song
  <2>3. PICK o, p : o = offset' /\ p = 0
    OBVIOUS
  <2>4. AheadAt(o, p)'
    BY <1>1, <2>2, <2>3, OpenAhead
  <2>5. p = played' + 0
    BY <1>2, <2>3
  <2> QED BY <2>3, <2>4, <2>5 DEF AheadBy
<1>4. pc' # "open" /\ pc' # "wait" /\ pc' # "read" /\ pc' # "apply"
  BY <1>1
<1> QED BY <1>2, <1>3, <1>4, Zenon DEF ScoreInv

LEMMA ScoreClear ==
  ASSUME TypeInv, Clear, ScoreInv
  PROVE  ScoreInv'
<1>1. /\ pc = "clear" /\ pc' = "wait" /\ UNCHANGED <<file, parse, offset, played>> /\ high' = high
      /\ nextEvent' = 0
  BY DEF Clear
<1>2. Opl2Song' <=> Opl2Song
  BY <1>1, Same
<1>3. Opl2Song' => ~high' /\ AheadBy(0)'
  <2>1. pc # "open" /\ pc \in {"clear", "wait", "read"}
    BY <1>1
  <2>2. Opl2Song => ~high /\ AheadBy(0)
    BY <1>1, <2>1, Zenon DEF ScoreInv
  <2> QED BY <1>1, <1>2, <2>2, AheadByKept
<1>4. ~(nextEvent' > 0)
  BY <1>1
<1>5. Opl2Song' => Pending'
  BY <1>3, <1>4, Zenon DEF Pending
<1>6. pc' # "open" /\ pc' # "clear" /\ pc' # "read" /\ pc' # "apply"
  BY <1>1
<1> QED BY <1>3, <1>5, <1>6, Zenon DEF ScoreInv

LEMMA ScoreWait ==
  ASSUME TypeInv, Wait, ScoreInv
  PROVE  ScoreInv'
<1>1. /\ pc = "wait" /\ pc' = "read" /\ UNCHANGED <<file, parse, offset>> /\ high' = high
      /\ nextEvent \in Nat /\ played \in Nat
  BY Sizes DEF Wait, TypeInv, TypeOK
<1>2. Opl2Song' <=> Opl2Song
  BY <1>1, Same
<1>3. Opl2Song => ~high' /\ AheadBy(0)'
  <2>1. SUFFICES ASSUME Opl2Song
                 PROVE  ~high' /\ AheadBy(0)'
    OBVIOUS
  <2>2. pc # "open" /\ pc \in {"clear", "wait", "read"}
    BY <1>1
  <2>3. ~high /\ Pending /\ accepted
    BY <1>1, <2>1, <2>2, Zenon DEF ScoreInv, Opl2Song
  <2>4. CASE nextEvent = 0
    <3>1. played' = played /\ AheadBy(0)
      BY <2>3, <2>4 DEF Wait, Pending
    <3> QED BY <1>1, <2>3, <3>1, AheadByKept
  <2>5. CASE nextEvent # 0
    <3>1. nextEvent > 0
      BY <1>1, <2>5
    <3>2. played' = played + 1 /\ AheadBy(1)
      BY <2>3, <3>1 DEF Wait, Pending, Count
    <3>3. 1 = 0 + 1
      OBVIOUS
    <3>4. AheadBy(0)'
      BY <1>1, <3>2, <3>3, AheadShift
    <3> QED BY <1>1, <2>3, <3>4, Zenon
  <2> QED BY <2>4, <2>5
<1>4. pc' # "open" /\ pc' # "clear" /\ pc' # "wait" /\ pc' # "apply"
  BY <1>1
<1> QED BY <1>2, <1>3, <1>4, Zenon DEF ScoreInv

LEMMA ScoreRead ==
  ASSUME TypeInv, ReadNextCmd, ScoreInv
  PROVE  ScoreInv'
<1>1. pc = "read" /\ pc' = "apply" /\ UNCHANGED <<file, parse, played>>
  BY DEF ReadNextCmd, ReadImf, ReadDro1Delay, ReadDro1Chip, ReadDro1Escape, ReadDro1Write,
         ReadDro1End, ReadDro2, ReadJunk, Reading, sound
<1>2. Opl2Song' <=> Opl2Song
  BY <1>1, Same
<1>3. Opl2Song => Due' /\ (res' # "EOF" => ~high')
  <2>1. SUFFICES ASSUME Opl2Song
                 PROVE  Due' /\ (res' # "EOF" => ~high')
    OBVIOUS
  <2>2. pc # "open" /\ pc \in {"clear", "wait", "read"}
    BY <1>1
  <2>3. ~high /\ AheadBy(0) /\ accepted
    BY <1>1, <2>1, <2>2, Zenon DEF ScoreInv, Opl2Song
  <2>4. PICK o, p : o = offset /\ p = played /\ AheadAt(o, p)
    <3>1. PICK o, p : o = offset /\ p = played + 0 /\ AheadAt(o, p)
      BY <2>3 DEF AheadBy
    <3>2. played + 0 = played
      BY DEF TypeInv, TypeOK
    <3> QED BY <3>1, <3>2
  <2>5. PICK r, c, q : r = res' /\ c = cmd' /\ q = offset'
    OBVIOUS
  <2>6. Means(r, c, q) /\ (res' # "EOF" => ~high')
    <3>1. CASE ReadImf
      <4>1. high' = high
        BY <3>1 DEF ReadImf
      <4>2. Means(r, c, q)
        BY <2>1, <2>4, <2>5, <3>1, ImfReads
      <4> QED BY <2>3, <4>1, <4>2, Zenon
    <3>2. CASE ReadDro1Delay \/ ReadDro1Chip \/ ReadDro1Escape \/ ReadDro1Write \/ ReadDro1End
      BY <2>1, <2>3, <2>4, <2>5, <3>2, Dro1Reads
    <3>3. CASE ReadDro2
      <4>1. high' = high
        BY <3>3 DEF ReadDro2
      <4>2. Means(r, c, q)
        BY <2>1, <2>4, <2>5, <3>3, Dro2Reads
      <4> QED BY <2>3, <4>1, <4>2, Zenon
    <3>4. ~ReadJunk
      <4>1. accepted => type # "junk"
        BY DEF TypeInv, TypeOK
      <4> QED BY <2>3, <4>1, Zenon DEF ReadJunk
    <3> QED BY <3>1, <3>2, <3>3, <3>4, Zenon DEF ReadNextCmd
  <2>7. played \in Nat
    BY DEF TypeInv, TypeOK
  <2>8. Due'
    BY <1>1, <2>5, <2>6, <2>7, DueRead
  <2> QED BY <2>6, <2>8
<1>4. pc' # "open" /\ pc' # "clear" /\ pc' # "wait" /\ pc' # "read" /\ pc' \notin {"clear", "wait", "read"}
  BY <1>1
<1> QED BY <1>2, <1>3, <1>4, Zenon DEF ScoreInv

LEMMA ScoreApply ==
  ASSUME TypeInv, Apply, ScoreInv
  PROVE  ScoreInv'
<1>1. /\ pc = "apply" /\ res # "EOF" /\ pc' = "wait" /\ UNCHANGED <<file, parse, offset>>
      /\ high' = high /\ nextEvent' = cmd.delay /\ played \in Nat /\ cmd.delay \in Nat
  BY Sizes DEF Apply, TypeInv, TypeOK
<1>2. Score' = Score /\ (Opl2Song' <=> Opl2Song)
  BY <1>1, Same
<1>3. Opl2Song => ~high' /\ Pending'
  <2>1. SUFFICES ASSUME Opl2Song
                 PROVE  ~high' /\ Pending'
    OBVIOUS
  <2>2. pc # "open"
    BY <1>1
  <2>3. ~high /\ Due /\ accepted
    BY <1>1, <2>1, <2>2, Zenon DEF ScoreInv, Opl2Song
  <2>4. CASE /\ res = "FULL" /\ played + 1 <= Len(Score)
             /\ cmd.delay = 0 => AheadBy(1)
             /\ cmd.delay > 0 => /\ played + 2 <= Len(Score) /\ Score[played + 2] = Pause(cmd.delay)
                                 /\ AheadBy(2)
    <3>1. played' = played + 1 /\ played' + 1 = played + 2
      <4>1. played' = played + 1
        BY <2>3, <2>4 DEF Apply, Count
      <4> QED BY <1>1, <4>1
    <3>2. 1 = 0 + 1 /\ 2 = 1 + 1 /\ 0 \in Nat /\ 1 \in Nat
      OBVIOUS
    <3>3. AheadBy(1) => AheadBy(0)'
      BY <1>1, <3>1, <3>2, AheadShift
    <3>4. AheadBy(2) => AheadBy(1)'
      BY <1>1, <3>1, <3>2, AheadShift
    <3>5. Pending'
      BY <1>1, <1>2, <2>4, <3>1, <3>3, <3>4, Zenon DEF Pending
    <3> QED BY <1>1, <2>3, <3>5, Zenon
  <2>5. CASE res # "FULL"
    <3>1. played' = played
      BY <2>5 DEF Apply
    <3>2. AheadBy(0) => AheadBy(0)'
      BY <1>1, <3>1, AheadByKept
    <3>3. AheadBy(1) => AheadBy(1)'
      BY <1>1, <3>1, AheadByKept
    <3>4. \/ /\ cmd.delay > 0 /\ played + 1 <= Len(Score)
             /\ Score[played + 1] = Pause(cmd.delay) /\ AheadBy(1)
          \/ cmd.delay = 0 /\ AheadBy(0)
      BY <1>1, <2>3, <2>5, Zenon DEF Due
    <3>5. ~(cmd.delay > 0) \/ cmd.delay # 0
      BY <1>1
    <3>6. Pending'
      BY <1>1, <1>2, <3>1, <3>2, <3>3, <3>4, <3>5, Zenon DEF Pending
    <3> QED BY <1>1, <2>3, <3>6, Zenon
  <2> QED BY <1>1, <2>3, <2>4, <2>5, Zenon DEF Due
<1>4. pc' # "open" /\ pc' # "clear" /\ pc' # "read" /\ pc' # "apply"
  BY <1>1
<1> QED BY <1>2, <1>3, <1>4, Zenon DEF ScoreInv

LEMMA ScoreKept == TypeInv /\ ScoreInv /\ [Next]_vars => ScoreInv'
<1> SUFFICES ASSUME TypeInv, ScoreInv, [Next]_vars
             PROVE  ScoreInv'
  OBVIOUS
<1>1. CASE Stop
  <2>1. pc' = "over" /\ res' = "EOF"
    BY <1>1 DEF Stop
  <2>2. /\ pc' # "open" /\ pc' # "clear" /\ pc' # "wait" /\ pc' # "read" /\ pc' # "apply"
        /\ pc' \notin {"clear", "wait", "read"} /\ ~(res' # "EOF")
    BY <2>1
  <2> QED BY <2>2, Zenon DEF ScoreInv
<1>2. CASE Over \/ UNCHANGED vars
  BY <1>2, ScoreStays DEF Over
<1> QED BY <1>1, <1>2, ScoreOpen, ScoreClear, ScoreWait, ScoreRead, ScoreApply DEF Next

-----------------------------------------------------------------------------
(* The refinement.                                                            *)

LEMMA ScoreLength ==
  ASSUME TypeInv, accepted, NEW k, AheadBy(k)
  PROVE  Len(Score) \in Nat
<1>1. PICK o, p : AheadAt(o, p)
  BY DEF AheadBy
<1>2. type \in FileType
  BY Zenon DEF TypeInv, TypeOK
<1>3. CASE type \in {"IMF0", "IMF1"}
  <2>1. ImfStart <= Len(file)
    BY <1>1, <1>3 DEF AheadAt
  <2>2. PICK s \in Seq(Seq(Item)) : s = ImfSeqs /\ Score = FlattenSeq(s)
    BY <1>3, <2>1, ImfScore
  <2>3. CASE Len(s) = 0
    <3>1. Score = <<>>
      BY <2>2, <2>3, FlatTyped
    <3> QED BY <3>1
  <2>4. CASE Len(s) # 0
    <3>1. 0 \in 0 .. Len(s) - 1
      BY <2>4
    <3>2. Score \in Seq(Item)
      BY <2>2, <3>1, FlatItems
    <3> QED BY <3>2, LenProperties
  <2> QED BY <2>3, <2>4
<1>4. CASE type = "DRO1"
  BY <1>1, <1>4, Dro1Score DEF AheadAt
<1>5. CASE type = "DRO2"
  BY <1>1, <1>5, Dro2Score DEF AheadAt
<1> QED BY <1>2, <1>3, <1>4, <1>5 DEF FileType

\* A step within the song that is not heard.
LEMMA Unheard ==
  ASSUME Score' = Score, played' = played, opl' = opl, rested' = rested,
         pc \notin {"open", "clear", "over"}, pc' \notin {"open", "clear", "over"}
  PROVE  UNCHANGED Song!songVars
<1>1. /\ pc # "open" /\ pc' # "open" /\ (pc \notin {"open", "clear"}) = (pc' \notin {"open", "clear"})
      /\ (pc = "over") = (pc' = "over")
  OBVIOUS
<1> QED BY <1>1 DEF Song!songVars

LEMMA PlaysClear ==
  ASSUME Clear
  PROVE  Song!Next
<1>1. /\ pc = "clear" /\ pc' = "wait" /\ UNCHANGED <<file, parse, rested, played>> /\ opl' = Cleared
  BY DEF Clear
<1>2. Score' = Score
  BY <1>1, Same
<1>3. /\ pc # "open" /\ pc' # "open" /\ ~(pc \notin {"open", "clear"}) /\ pc' \notin {"open", "clear"}
      /\ (pc' = "over") = (pc = "over") /\ (pc' \notin {"open", "clear"}) \in BOOLEAN
  BY <1>1
<1>4. Song!Prelude
  BY <1>1, <1>2, <1>3 DEF Song!Prelude
<1> QED BY <1>4 DEF Song!Next

LEMMA PlaysWait ==
  ASSUME TypeInv, ScoreInv, Wait, Opl2Song
  PROVE  Song!Next \/ UNCHANGED Song!songVars
<1>1. /\ pc = "wait" /\ pc' = "read" /\ UNCHANGED <<file, parse, opl>> /\ nextEvent \in Nat
      /\ played \in Nat /\ pc # "open"
  BY Sizes DEF Wait, TypeInv, TypeOK
<1>2. Score' = Score
  BY <1>1, Same
<1>3. Pending /\ accepted
  BY <1>1, Zenon DEF ScoreInv, Opl2Song
<1>4. CASE nextEvent = 0
  <2>1. played' = played /\ rested' = rested
    BY <1>4 DEF Wait
  <2>2. pc \notin {"open", "clear", "over"} /\ pc' \notin {"open", "clear", "over"}
    BY <1>1
  <2> QED BY <1>1, <1>2, <2>1, <2>2, Unheard
<1>5. CASE nextEvent # 0
  <2>1. nextEvent > 0
    BY <1>1, <1>5
  <2>2. played' = played + 1 /\ rested' = nextEvent
    BY <1>3, <2>1 DEF Wait, Count
  <2>3. PICK item : item = Score[played + 1]
    OBVIOUS
  <2>4. played + 1 <= Len(Score) /\ item = Pause(nextEvent)
    BY <1>3, <2>1, <2>3 DEF Pending
  <2>5. item.kind = "rest" /\ item.ms = nextEvent
    BY <2>4 DEF Pause
  <2>6. PICK n : n = Len(Score)
    OBVIOUS
  <2>7. played < Len(Score)
    <3>1. n \in Nat
      <4>1. AheadBy(1)
        BY <1>3, <2>1 DEF Pending
      <4> QED BY <1>3, <2>6, <4>1, ScoreLength
    <3> QED BY <1>1, <2>4, <2>6, <3>1
  <2>8. /\ pc' # "open" /\ pc \notin {"open", "clear"} /\ pc' \notin {"open", "clear"}
        /\ pc # "over" /\ pc' # "over"
    BY <1>1
  <2>9. Song!Rest
    BY <1>1, <1>2, <2>2, <2>3, <2>5, <2>7, <2>8 DEF Song!Rest
  <2> QED BY <2>9 DEF Song!Next
<1> QED BY <1>4, <1>5

LEMMA PlaysApply ==
  ASSUME TypeInv, ScoreInv, Apply, Opl2Song
  PROVE  Song!Next \/ UNCHANGED Song!songVars
<1>1. /\ pc = "apply" /\ pc' = "wait" /\ UNCHANGED <<file, parse, rested>> /\ cmd.delay \in Nat
      /\ played \in Nat /\ pc # "open" /\ res # "EOF"
  BY Sizes DEF Apply, TypeInv, TypeOK
<1>2. Score' = Score
  BY <1>1, Same
<1>3. Due /\ accepted
  BY <1>1, Zenon DEF ScoreInv, Opl2Song
<1>4. CASE res # "FULL"
  <2>1. played' = played /\ opl' = opl
    BY <1>4 DEF Apply
  <2>2. pc \notin {"open", "clear", "over"} /\ pc' \notin {"open", "clear", "over"}
    BY <1>1
  <2> QED BY <1>1, <1>2, <2>1, <2>2, Unheard
<1>5. CASE res = "FULL"
  <2>1. played' = played + 1 /\ opl' = [opl EXCEPT ![cmd.reg % ByteSize] = cmd.data]
    BY <1>3, <1>5 DEF Apply, Count, Opl2Out
  <2>2. PICK item : item = Score[played + 1]
    OBVIOUS
  <2>3. /\ played + 1 <= Len(Score) /\ item = Note(cmd.reg % ByteSize, cmd.data)
        /\ cmd.delay = 0 => AheadBy(1)
        /\ cmd.delay > 0 => AheadBy(2)
    BY <1>3, <1>5, <2>2 DEF Due
  <2>4. item.kind = "note" /\ item.reg = cmd.reg % ByteSize /\ item.val = cmd.data
    BY <2>3 DEF Note
  <2>5. PICK n : n = Len(Score)
    OBVIOUS
  <2>6. played < Len(Score)
    <3>1. AheadBy(1) \/ AheadBy(2)
      BY <1>1, <2>3
    <3>2. n \in Nat
      BY <1>3, <2>5, <3>1, ScoreLength
    <3> QED BY <1>1, <2>3, <2>5, <3>2
  <2>7. /\ pc' # "open" /\ pc \notin {"open", "clear"} /\ pc' \notin {"open", "clear"}
        /\ pc # "over" /\ pc' # "over"
    BY <1>1
  <2>8. opl' = [opl EXCEPT ![item.reg] = item.val]
    BY <2>1, <2>4
  <2>9. Song!Strike
    BY <1>1, <1>2, <2>1, <2>2, <2>4, <2>6, <2>7, <2>8 DEF Song!Strike
  <2> QED BY <2>9 DEF Song!Next
<1> QED BY <1>4, <1>5

LEMMA PlaysStop ==
  ASSUME ScoreInv, Stop, Opl2Song
  PROVE  Song!Next
<1>1. /\ pc = "apply" /\ pc' = "over" /\ UNCHANGED <<file, parse, rested, played>> /\ res = "EOF"
      /\ opl' = Cleared
  BY DEF Stop
<1>2. Score' = Score
  BY <1>1, Same
<1>3. Due
  BY <1>1, Zenon DEF ScoreInv
<1>4. played = Len(Score)
  BY <1>1, <1>3 DEF Due
<1>5. /\ pc # "open" /\ pc' # "open" /\ pc \notin {"open", "clear"} /\ pc' \notin {"open", "clear"}
      /\ pc # "over"
  BY <1>1
<1>6. Song!Finish
  BY <1>1, <1>2, <1>4, <1>5 DEF Song!Finish
<1> QED BY <1>6 DEF Song!Next

LEMMA PlaysStep ==
  ASSUME TypeInv, ScoreInv, [Next]_vars, pc # "open", Opl2Song
  PROVE  [Song!Next]_(Song!songVars)
<1>1. ~Open
  BY DEF Open, OpenShort, OpenImf, OpenDro1, OpenDro2, OpenUnknown, Opening
<1>2. CASE Clear
  BY <1>2, PlaysClear
<1>3. CASE Wait
  BY <1>3, PlaysWait
<1>4. CASE ReadNextCmd
  <2>1. pc = "read" /\ pc' = "apply" /\ UNCHANGED <<file, parse, played, opl, rested>>
    BY <1>4 DEF ReadNextCmd, ReadImf, ReadDro1Delay, ReadDro1Chip, ReadDro1Escape, ReadDro1Write,
                ReadDro1End, ReadDro2, ReadJunk, Reading, sound
  <2>2. Score' = Score
    BY <2>1, Same
  <2>3. pc \notin {"open", "clear", "over"} /\ pc' \notin {"open", "clear", "over"}
    BY <2>1
  <2> QED BY <2>1, <2>2, <2>3, Unheard
<1>5. CASE Apply
  BY <1>5, PlaysApply
<1>6. CASE Stop
  BY <1>6, PlaysStop
<1>7. CASE Over \/ UNCHANGED vars
  <2>1. pc' = pc /\ UNCHANGED <<file, parse, played, opl, rested>>
    BY <1>7 DEF Over, vars, parse
  <2>2. Score' = Score
    BY <2>1, Same
  <2>3. (pc' # "open") = (pc # "open") /\ (pc' \notin {"open", "clear"}) = (pc \notin {"open", "clear"})
        /\ (pc' = "over") = (pc = "over") /\ pc' # "open"
    BY <2>1
  <2> QED BY <2>1, <2>2, <2>3 DEF Song!songVars
<1> QED BY <1>1, <1>2, <1>3, <1>4, <1>5, <1>6, <1>7 DEF Next

\* For every file, of whatever length and contents: whatever the format, the player of a
\* song for one OPL2 strikes every note of the file once and in order, on cleared
\* registers, waits as long as each delay says and is silent afterwards
\* (imfplay.c 177-274, 359-480).
THEOREM PlaysTheScore == Spec => PlaysScore
<1> DEFINE Inv == TypeInv /\ ScoreInv
<1>1. Init => Inv
  BY TypesStart, ScoreStart
<1>2. Inv /\ [Next]_vars => Inv'
  BY TypesKept, ScoreKept
<1>3. Inv /\ [Next]_vars => [pc # "open" /\ Opl2Song => [Song!Next]_(Song!songVars)]_vars
  BY PlaysStep
<1> QED BY <1>1, <1>2, <1>3, PTL DEF Spec, PlaysScore
=============================================================================
