---------------------------- MODULE FirmwareProofs -----------------------------
EXTENDS Firmware, SequenceTheorems, WellFoundedInduction, FiniteSetTheorems, TLAPS

-----------------------------------------------------------------------------
(* Scripts as sequences.                                                      *)

Sequence(s) == \E S : s \in Seq(S)

\* What is left of a script after its first operation.
LEMMA TailOf ==
  ASSUME NEW s, Sequence(s), s # <<>>
  PROVE  /\ Sequence(Tail(s)) /\ Len(s) \in Nat \ {0} /\ Len(Tail(s)) = Len(s) - 1 /\ Head(s) = s[1]
         /\ \A i \in 1 .. Len(s) - 1 : Tail(s)[i] = s[i + 1]
<1>1. PICK S : s \in Seq(S)
  BY DEF Sequence
<1>2. /\ Tail(s) \in Seq(S) /\ Len(Tail(s)) = Len(s) - 1
      /\ \A i \in 1 .. Len(Tail(s)) : Tail(s)[i] = s[i + 1]
  BY <1>1, HeadTailProperties
<1>3. Len(s) \in Nat \ {0} /\ Head(s) = s[1]
  BY <1>1, EmptySeq
<1> QED BY <1>2, <1>3 DEF Sequence

\* Two scripts one after the other.
LEMMA Joined ==
  ASSUME NEW s, NEW t, Sequence(s), Sequence(t)
  PROVE  /\ Sequence(s \o t) /\ Len(s) \in Nat /\ Len(t) \in Nat /\ Len(s \o t) = Len(s) + Len(t)
         /\ \A i \in 1 .. Len(s) : (s \o t)[i] = s[i]
         /\ \A i \in 1 .. Len(t) : (s \o t)[Len(s) + i] = t[i]
         /\ \A i \in Len(s) + 1 .. Len(s) + Len(t) : (s \o t)[i] = t[i - Len(s)]
<1>1. PICK S : s \in Seq(S)
  BY DEF Sequence
<1>2. PICK T : t \in Seq(T)
  BY DEF Sequence
<1>3. s \in Seq(S \cup T) /\ t \in Seq(S \cup T)
  BY <1>1, <1>2, SeqMonotonic
<1>4. /\ s \o t \in Seq(S \cup T) /\ Len(s \o t) = Len(s) + Len(t)
      /\ \A i \in 1 .. Len(s) + Len(t) : (s \o t)[i] = IF i <= Len(s) THEN s[i] ELSE t[i - Len(s)]
  BY <1>3, ConcatProperties
<1>5. Len(s) \in Nat /\ Len(t) \in Nat
  BY <1>3, LenProperties
<1> QED BY <1>4, <1>5 DEF Sequence

\* A script given by its operations.
LEMMA Listed ==
  ASSUME NEW n \in Nat, NEW f, f = [i \in 1 .. n |-> f[i]]
  PROVE  Sequence(f) /\ Len(f) = n
<1>1. f \in [1 .. n -> {f[i] : i \in 1 .. n}]
  BY Zenon
<1>2. f \in Seq({f[i] : i \in 1 .. n})
  BY <1>1, SeqDef, Zenon
<1>3. Sequence(f)
  BY <1>2 DEF Sequence
<1>4. DOMAIN f = 1 .. Len(f) /\ Len(f) \in Nat
  BY <1>2, LenProperties
<1> QED BY <1>1, <1>3, <1>4

LEMMA Single ==
  ASSUME NEW a
  PROVE  Sequence(<<a>>) /\ Len(<<a>>) = 1 /\ <<a>>[1] = a
<1>1. <<a>> \in Seq({a})
  OBVIOUS
<1> QED BY <1>1 DEF Sequence

LEMMA Nothing == Sequence(<<>>) /\ Len(<<>>) = 0
BY EmptySeq DEF Sequence

\* A script is over when it has no operations.
LEMMA Empty ==
  ASSUME NEW s, Sequence(s)
  PROVE  s = <<>> <=> Len(s) = 0
<1>1. PICK S : s \in Seq(S)
  BY DEF Sequence
<1> QED BY <1>1, EmptySeq

-----------------------------------------------------------------------------
(* What is printed.                                                           *)

LEMMA Smallest ==
  ASSUME NEW n \in Nat, NEW T, T \subseteq 0 .. n, T # {}
  PROVE  Min(T) \in T
<1> DEFINE R == OpToRel(<, Nat)
<1>1. \A x, y \in Nat : <<x, y>> \in R <=> x < y
  BY DEF OpToRel
<1>2. IsWellFoundedOn(R, Nat)
  BY NatLessThanWellFounded DEF R
<1>3. T \subseteq Nat
  OBVIOUS
<1>4. PICK x \in T : \A y \in T : ~(<<y, x>> \in R)
  <2> HIDE DEF R
  <2> QED BY <1>2, <1>3, WFMin
<1>5. \A y \in T : x <= y
  <2> TAKE y \in T
  <2>1. ~(y < x) /\ x \in Nat /\ y \in Nat
    BY <1>1, <1>3, <1>4
  <2> QED BY <2>1
<1> QED BY <1>5 DEF Min

\* The number of characters is bounded, whatever the number.
LEMMA HexText ==
  ASSUME NEW v, NEW digits \in 0 .. 8
  PROVE  Sequence(Hex(v, digits))
<1> DEFINE D(i) == (v \div 16 ^ i) % 16
<1> DEFINE W == {n \in digits .. 8 : \A i \in n .. 7 : D(i) = 0}
<1>1. Min(W) \in W
  <2>1. 8 \in W
    OBVIOUS
  <2>2. W \subseteq 0 .. 8
    OBVIOUS
  <2> HIDE DEF W
  <2> QED BY <2>1, <2>2, Smallest
<1>2. PICK n \in 0 .. 8 : n = Min(W)
  <2>1. W \subseteq 0 .. 8
    OBVIOUS
  <2> HIDE DEF W
  <2> QED BY <1>1, <2>1
<1>3. Hex(v, digits) = [k \in 1 .. n |-> Digits[D(n - k) + 1]]
  BY <1>2 DEF Hex
<1> HIDE DEF D, W
<1>4. PICK f : f = [k \in 1 .. n |-> Digits[D(n - k) + 1]]
  OBVIOUS
<1>5. f = [k \in 1 .. n |-> f[k]]
  BY <1>4
<1> QED BY <1>3, <1>4, <1>5, Listed

LEMMA DecText ==
  ASSUME NEW v
  PROVE  Sequence(Dec(v))
<1>1. CASE v >= 100000
  <2>1. Dec(v) = <<">", "=", "1", "0", "0", "0", "0", "0">>
    BY <1>1 DEF Dec
  <2>2. <<">", "=", "1", "0", "0", "0", "0", "0">> \in Seq({">", "=", "1", "0"})
    OBVIOUS
  <2> QED BY <2>1, <2>2 DEF Sequence
<1>2. CASE ~(v >= 100000)
  <2> DEFINE F(place) == {d \in 1 .. 9 : d * place <= v % (10 * place)}
  <2> DEFINE f == [k \in 1 .. 5 |-> Digits[Cardinality(F(10 ^ (5 - k))) + 1]]
  <2>1. Dec(v) = f
    BY <1>2 DEF Dec
  <2>2. f = [k \in 1 .. 5 |-> f[k]]
    <3> HIDE DEF F
    <3> QED OBVIOUS
  <2> HIDE DEF f
  <2> QED BY <2>1, <2>2, Listed
<1> QED BY <1>1, <1>2

\* Printing a text is a script of "put" operations, one for each character.
Printing(s) == Sequence(s) /\ \A i \in 1 .. Len(s) : s[i][1] = "put"

LEMMA Printed ==
  ASSUME NEW text, Sequence(text)
  PROVE  Printing(Puts(text))
<1>1. PICK S : text \in Seq(S)
  BY DEF Sequence
<1>2. DOMAIN text = 1 .. Len(text) /\ Len(text) \in Nat
  BY <1>1
<1>3. PICK f : f = Puts(text)
  OBVIOUS
<1>4. f = [i \in 1 .. Len(text) |-> f[i]] /\ \A i \in 1 .. Len(text) : f[i] = <<"put", text[i]>>
  BY <1>2, <1>3 DEF Puts
<1>5. Sequence(f) /\ Len(f) = Len(text)
  BY <1>2, <1>4, Listed
<1> QED BY <1>3, <1>4, <1>5 DEF Printing

-----------------------------------------------------------------------------
(* The inductive invariant.                                                   *)

LoaderOps == {"put", "csn", "clk", "do", "di"}

OfLoader(s) == Sequence(s) /\ \A i \in 1 .. Len(s) : s[i][1] \in LoaderOps

\* The clock of the flash is up when the script is over.
Unclocked(s) == \A i \in 1 .. Len(s) : s[i][1] # "clk"
Up(s) == \E i \in 1 .. Len(s) : s[i] = <<"clk", 1>> /\ \A j \in i + 1 .. Len(s) : s[j][1] # "clk"
EndsUp == (clk = 1 /\ Unclocked(script)) \/ Up(script)

\* The bytes of a read command from address a, and its operations up to the first word.
CommandByte(a, q) ==
  IF q = 0 THEN ReadData
  ELSE IF q = 1 THEN (a \div 65536) % 256
  ELSE IF q = 2 THEN (a \div 256) % 256 ELSE a % 256
SendOp(b, s) == IF s % 3 = 0 THEN <<"do", BitOf(b, (s \div 3) - 1)>> ELSE <<"clk", 2 - (s % 3)>>
RecvOp(u) == IF u % 3 = 0 THEN <<"di">> ELSE <<"clk", (u % 3) - 1>>
ReadOp(a, d) ==
  IF d = 1 THEN <<"csn", 0>>
  ELSE IF d <= 101 THEN SendOp(CommandByte(a, (d - 2) \div 25), ((d - 2) % 25) + 1)
  ELSE RecvOp(d - 101)

\* The first bits of the command: q bytes and j bits of the next.
BytesSent(a, q) ==
  IF q = 0 THEN 0
  ELSE IF q = 1 THEN 3
  ELSE IF q = 2 THEN 768 + ((a \div 65536) % 256) ELSE 196608 + ((a \div 256) % 65536)
Prefix(a, q, j) == BytesSent(a, q) * 2 ^ j + (CommandByte(a, q) \div 2 ^ (8 - j))

AddressEnd == 16777216
ReadWord == 50331648   \* the command and address 0
Base == AppBase + block * 4 * Words

\* s operations of the byte q of the command are done.
Sending(q, s) ==
  LET j == IF s = 0 THEN 0 ELSE (s - 1) \div 3
  IN /\ csn = 0 /\ bits = <<>> /\ word = 0
     /\ clocks = 8 * q + j /\ head = Prefix(Base, q, j)
     /\ clk = IF s = 0 \/ s % 3 = 1 THEN 1 ELSE 0
     /\ s # 0 /\ s % 3 = 0 => mosi = BitOf(CommandByte(Base, q), (s \div 3) - 1)

\* u operations of a word are done; bit i of the image from the start of the word.
ImageBit(i) == BitOf(FlashByte(Base + 4 * word + (i \div 8)), i % 8)
Receiving(u) ==
  /\ csn = 0 /\ clocks = 32 + 32 * word + ((u + 1) \div 3) /\ head = ReadWord + Base
  /\ clk = IF u % 3 = 1 THEN 0 ELSE 1
  /\ u % 3 # 0 => miso = ImageBit(u \div 3)
  /\ Sequence(bits) /\ Len(bits) = u \div 3
  /\ \A i \in 1 .. u \div 3 : bits[i] = ImageBit(i - 1)

\* The script is a read command from its operation d on, and the flash is as far.
Reading ==
  \E d \in 0 .. 197 :
    /\ Len(script) = 197 - d
    /\ \A i \in 1 .. 197 - d : script[i] = ReadOp(Base, d + i)
    /\ d = 0 => clk = 1 /\ bits = <<>> /\ word = 0
    /\ d \in 1 .. 100 => Sending((d - 1) \div 25, (d - 1) % 25)
    /\ d >= 101 => Receiving(d - 101)

Compared(n) == \A x \in 0 .. n - 1 : ddr[x] = ImageWord(x)

LoaderInv ==
  /\ OfLoader(script)
  /\ pc \notin {"reset", "word"} => EndsUp
  /\ pc = "reset" => script = <<>>
CopyInv ==
  /\ pc = "block" => block \in 0 .. Blocks /\ (verify => Compared(block * Words))
  /\ pc = "word" =>
       /\ block \in 0 .. Blocks - 1 /\ word \in 0 .. Words - 1 /\ Reading
       /\ verify => Compared(block * Words + word)
FirmwareInv ==
  /\ pc \in Loads \cup Plays /\ verify \in BOOLEAN
  /\ pc \in Loads => LoaderInv /\ CopyInv
  /\ pc \in {"jump"} \cup Plays => Compared(Blocks * Words)

-----------------------------------------------------------------------------
(* The read command, bit by bit.                                              *)

LEMMA CommandBytes ==
  ASSUME NEW a \in Nat, NEW q
  PROVE  CommandByte(a, q) \in 0 .. 255
BY DEF CommandByte, ReadData

\* The value of a bit, for each place.
LEMMA Bits ==
  ASSUME NEW b \in 0 .. 255
  PROVE  /\ BitOf(b, 0) = b \div 128 /\ BitOf(b, 1) = (b \div 64) % 2 /\ BitOf(b, 2) = (b \div 32) % 2
         /\ BitOf(b, 3) = (b \div 16) % 2 /\ BitOf(b, 4) = (b \div 8) % 2
         /\ BitOf(b, 5) = (b \div 4) % 2 /\ BitOf(b, 6) = (b \div 2) % 2 /\ BitOf(b, 7) = b % 2
<1>1. BitOf(b, 0) = (b \div 128) % 2 /\ BitOf(b, 1) = (b \div 64) % 2
  BY DEF BitOf
<1>2. BitOf(b, 2) = (b \div 32) % 2 /\ BitOf(b, 3) = (b \div 16) % 2
  BY DEF BitOf
<1>3. BitOf(b, 4) = (b \div 8) % 2 /\ BitOf(b, 5) = (b \div 4) % 2
  BY DEF BitOf
<1>4. BitOf(b, 6) = (b \div 2) % 2 /\ BitOf(b, 7) = (b \div 1) % 2
  BY DEF BitOf
<1>5. (b \div 128) % 2 = b \div 128 /\ b \div 1 = b
  OBVIOUS
<1> QED BY <1>1, <1>2, <1>3, <1>4, <1>5

\* Each bit is what halving leaves.
LEMMA Halves ==
  ASSUME NEW b \in 0 .. 255
  PROVE  /\ b \div 128 = BitOf(b, 0) /\ b \div 64 = 2 * (b \div 128) + BitOf(b, 1)
         /\ b \div 32 = 2 * (b \div 64) + BitOf(b, 2) /\ b \div 16 = 2 * (b \div 32) + BitOf(b, 3)
         /\ b \div 8 = 2 * (b \div 16) + BitOf(b, 4) /\ b \div 4 = 2 * (b \div 8) + BitOf(b, 5)
         /\ b \div 2 = 2 * (b \div 4) + BitOf(b, 6) /\ b = 2 * (b \div 2) + BitOf(b, 7)
         /\ b \div 128 \in Nat /\ b \div 64 \in Nat /\ b \div 32 \in Nat /\ b \div 16 \in Nat
         /\ b \div 8 \in Nat /\ b \div 4 \in Nat /\ b \div 2 \in Nat
         /\ \A k \in 0 .. 7 : BitOf(b, k) \in {0, 1}
<1>1. /\ b \div 64 = 2 * (b \div 128) + ((b \div 64) % 2)
      /\ b \div 32 = 2 * (b \div 64) + ((b \div 32) % 2)
      /\ b \div 16 = 2 * (b \div 32) + ((b \div 16) % 2)
  OBVIOUS
<1>2. /\ b \div 8 = 2 * (b \div 16) + ((b \div 8) % 2)
      /\ b \div 4 = 2 * (b \div 8) + ((b \div 4) % 2)
      /\ b \div 2 = 2 * (b \div 4) + ((b \div 2) % 2) /\ b = 2 * (b \div 2) + (b % 2)
  OBVIOUS
<1>3. /\ b \div 128 \in {0, 1} /\ b \div 64 \in Nat /\ b \div 32 \in Nat /\ b \div 16 \in Nat
      /\ b \div 8 \in Nat /\ b \div 4 \in Nat /\ b \div 2 \in Nat
  OBVIOUS
<1>4. \A k \in 0 .. 7 : k = 0 \/ k = 1 \/ k = 2 \/ k = 3 \/ k = 4 \/ k = 5 \/ k = 6 \/ k = 7
  OBVIOUS
<1>5. \A k \in 0 .. 7 : BitOf(b, k) \in {0, 1}
  BY <1>3, <1>4, Bits
<1> QED BY <1>1, <1>2, <1>3, <1>5, Bits

LEMMA Reassembled ==
  ASSUME NEW b \in 0 .. 255
  PROVE  b = 128 * BitOf(b, 0) + 64 * BitOf(b, 1) + 32 * BitOf(b, 2) + 16 * BitOf(b, 3)
               + 8 * BitOf(b, 4) + 4 * BitOf(b, 5) + 2 * BitOf(b, 6) + BitOf(b, 7)
BY Halves

\* The prefixes of a command, for each number of bits of the byte that is being sent.
LEMMA FirstBits ==
  ASSUME NEW a \in Nat, NEW q \in 0 .. 3
  PROVE  LET h == BytesSent(a, q)
             b == CommandByte(a, q)
         IN /\ Prefix(a, q, 0) = h /\ Prefix(a, q, 1) = 2 * h + (b \div 128)
            /\ Prefix(a, q, 2) = 4 * h + (b \div 64) /\ Prefix(a, q, 3) = 8 * h + (b \div 32)
            /\ Prefix(a, q, 4) = 16 * h + (b \div 16) /\ Prefix(a, q, 5) = 32 * h + (b \div 8)
            /\ Prefix(a, q, 6) = 64 * h + (b \div 4) /\ Prefix(a, q, 7) = 128 * h + (b \div 2)
            /\ Prefix(a, q, 8) = 256 * h + b
<1> DEFINE h == BytesSent(a, q)
<1> DEFINE b == CommandByte(a, q)
<1>1. b \in 0 .. 255 /\ h \in Nat
  BY CommandBytes DEF BytesSent
<1>2. Prefix(a, q, 0) = h * 1 + (b \div 256) /\ Prefix(a, q, 1) = h * 2 + (b \div 128)
  BY DEF Prefix
<1>3. Prefix(a, q, 2) = h * 4 + (b \div 64) /\ Prefix(a, q, 3) = h * 8 + (b \div 32)
  BY DEF Prefix
<1>4. Prefix(a, q, 4) = h * 16 + (b \div 16) /\ Prefix(a, q, 5) = h * 32 + (b \div 8)
  BY DEF Prefix
<1>5. Prefix(a, q, 6) = h * 64 + (b \div 4) /\ Prefix(a, q, 7) = h * 128 + (b \div 2)
  BY DEF Prefix
<1>6. Prefix(a, q, 8) = h * 256 + (b \div 1)
  BY DEF Prefix
<1> HIDE DEF h, b
<1>7. b \div 256 = 0 /\ b \div 1 = b
  BY <1>1
<1>8. /\ Prefix(a, q, 0) = h /\ Prefix(a, q, 1) = 2 * h + (b \div 128)
      /\ Prefix(a, q, 2) = 4 * h + (b \div 64) /\ Prefix(a, q, 3) = 8 * h + (b \div 32)
      /\ Prefix(a, q, 4) = 16 * h + (b \div 16) /\ Prefix(a, q, 5) = 32 * h + (b \div 8)
      /\ Prefix(a, q, 6) = 64 * h + (b \div 4) /\ Prefix(a, q, 7) = 128 * h + (b \div 2)
      /\ Prefix(a, q, 8) = 256 * h + b
  BY <1>1, <1>2, <1>3, <1>4, <1>5, <1>6, <1>7
<1> QED BY <1>8 DEF h, b

\* One more bit of the command.
LEMMA NextPrefix ==
  ASSUME NEW a \in Nat, NEW q \in 0 .. 3, NEW j \in 0 .. 7
  PROVE  Prefix(a, q, j + 1) = 2 * Prefix(a, q, j) + BitOf(CommandByte(a, q), j)
<1> DEFINE b == CommandByte(a, q)
<1> DEFINE h == BytesSent(a, q)
<1>1. b \in 0 .. 255 /\ h \in Nat
  BY CommandBytes DEF BytesSent
<1> HIDE DEF b, h
<1>2. /\ Prefix(a, q, 0) = h /\ Prefix(a, q, 1) = 2 * h + (b \div 128)
      /\ Prefix(a, q, 2) = 4 * h + (b \div 64) /\ Prefix(a, q, 3) = 8 * h + (b \div 32)
      /\ Prefix(a, q, 4) = 16 * h + (b \div 16) /\ Prefix(a, q, 5) = 32 * h + (b \div 8)
      /\ Prefix(a, q, 6) = 64 * h + (b \div 4) /\ Prefix(a, q, 7) = 128 * h + (b \div 2)
      /\ Prefix(a, q, 8) = 256 * h + b
  BY FirstBits DEF b, h
<1>3. Prefix(a, q, 1) = 2 * Prefix(a, q, 0) + BitOf(b, 0)
  BY <1>1, <1>2, Halves
<1>4. Prefix(a, q, 2) = 2 * Prefix(a, q, 1) + BitOf(b, 1)
  BY <1>1, <1>2, Halves
<1>5. Prefix(a, q, 3) = 2 * Prefix(a, q, 2) + BitOf(b, 2)
  BY <1>1, <1>2, Halves
<1>6. Prefix(a, q, 4) = 2 * Prefix(a, q, 3) + BitOf(b, 3)
  BY <1>1, <1>2, Halves
<1>7. Prefix(a, q, 5) = 2 * Prefix(a, q, 4) + BitOf(b, 4)
  BY <1>1, <1>2, Halves
<1>8. Prefix(a, q, 6) = 2 * Prefix(a, q, 5) + BitOf(b, 5)
  BY <1>1, <1>2, Halves
<1>9. Prefix(a, q, 7) = 2 * Prefix(a, q, 6) + BitOf(b, 6)
  BY <1>1, <1>2, Halves
<1>10. Prefix(a, q, 8) = 2 * Prefix(a, q, 7) + BitOf(b, 7)
  BY <1>1, <1>2, Halves
<1>11. j = 0 \/ j = 1 \/ j = 2 \/ j = 3 \/ j = 4 \/ j = 5 \/ j = 6 \/ j = 7
  OBVIOUS
<1>12. Prefix(a, q, j + 1) = 2 * Prefix(a, q, j) + BitOf(b, j)
  BY <1>3, <1>4, <1>5, <1>6, <1>7, <1>8, <1>9, <1>10, <1>11
<1> QED BY <1>12 DEF b

\* A byte is sent, and the next one begins; the last one completes the command.
LEMMA NextByte ==
  ASSUME NEW a \in Nat, a < AddressEnd
  PROVE  /\ \A q \in 0 .. 2 : Prefix(a, q, 8) = Prefix(a, q + 1, 0)
         /\ Prefix(a, 3, 8) = ReadWord + a /\ Prefix(a, 0, 0) = 0
<1>1. /\ BytesSent(a, 0) = 0 /\ BytesSent(a, 1) = 3 /\ BytesSent(a, 2) = 768 + ((a \div 65536) % 256)
      /\ BytesSent(a, 3) = 196608 + ((a \div 256) % 65536)
  BY DEF BytesSent
<1>2. /\ CommandByte(a, 0) = 3 /\ CommandByte(a, 1) = (a \div 65536) % 256
      /\ CommandByte(a, 2) = (a \div 256) % 256 /\ CommandByte(a, 3) = a % 256
  BY DEF CommandByte, ReadData
<1>3. \A q \in 0 .. 3 : /\ Prefix(a, q, 8) = 256 * BytesSent(a, q) + CommandByte(a, q)
                        /\ Prefix(a, q, 0) = BytesSent(a, q)
  BY FirstBits
<1>4. Prefix(a, 0, 8) = Prefix(a, 1, 0)
  BY <1>1, <1>2, <1>3
<1>5. Prefix(a, 1, 8) = Prefix(a, 2, 0)
  BY <1>1, <1>2, <1>3
<1>6. Prefix(a, 2, 8) = Prefix(a, 3, 0)
  BY <1>1, <1>2, <1>3
<1>7. Prefix(a, 3, 8) = ReadWord + a
  <2>1. Prefix(a, 3, 8) = 256 * (196608 + ((a \div 256) % 65536)) + (a % 256)
    BY <1>1, <1>2, <1>3
  <2>2. (a \div 256) % 65536 = a \div 256
    BY SMT DEF AddressEnd
  <2>3. ReadWord = 256 * 196608
    BY SMT DEF ReadWord
  <2>4. a = 256 * (a \div 256) + (a % 256)
    OBVIOUS
  <2> QED BY <2>1, <2>2, <2>3, <2>4, SMT
<1>8. \A q \in 0 .. 2 : q = 0 \/ q = 1 \/ q = 2
  OBVIOUS
<1> QED BY <1>1, <1>3, <1>4, <1>5, <1>6, <1>7, <1>8

\* A read command is never taken for the identification.
LEMMA NotTheId ==
  ASSUME NEW a \in Nat, NEW q \in 0 .. 3, NEW j \in 0 .. 7
  PROVE  8 * q + j >= 8 => Prefix(a, q, j) # ReadId
<1> DEFINE b == CommandByte(a, q)
<1> DEFINE h == BytesSent(a, q)
<1>1. b \in 0 .. 255 /\ h \in Nat
  BY CommandBytes DEF BytesSent
<1>2. q = 1 => h = 3
  BY DEF BytesSent
<1>3. q > 1 => h >= 768
  BY DEF BytesSent
<1> HIDE DEF b, h
<1>4. /\ Prefix(a, q, 0) = h /\ Prefix(a, q, 1) = 2 * h + (b \div 128)
      /\ Prefix(a, q, 2) = 4 * h + (b \div 64) /\ Prefix(a, q, 3) = 8 * h + (b \div 32)
      /\ Prefix(a, q, 4) = 16 * h + (b \div 16) /\ Prefix(a, q, 5) = 32 * h + (b \div 8)
      /\ Prefix(a, q, 6) = 64 * h + (b \div 4) /\ Prefix(a, q, 7) = 128 * h + (b \div 2)
  BY FirstBits DEF b, h
<1>5. q >= 1 => Prefix(a, q, 0) # 159 /\ Prefix(a, q, 1) # 159 /\ Prefix(a, q, 2) # 159
  BY <1>1, <1>2, <1>3, <1>4
<1>6. q >= 1 => Prefix(a, q, 3) # 159 /\ Prefix(a, q, 4) # 159 /\ Prefix(a, q, 5) # 159
  BY <1>1, <1>2, <1>3, <1>4
<1>7. q >= 1 => Prefix(a, q, 6) # 159 /\ Prefix(a, q, 7) # 159
  BY <1>1, <1>2, <1>3, <1>4
<1>8. j = 0 \/ j = 1 \/ j = 2 \/ j = 3 \/ j = 4 \/ j = 5 \/ j = 6 \/ j = 7
  OBVIOUS
<1>9. 8 * q + j >= 8 => q >= 1
  OBVIOUS
<1> QED BY <1>5, <1>6, <1>7, <1>8, <1>9 DEF ReadId

-----------------------------------------------------------------------------
(* The scripts of the loader.                                                 *)

LEMMA SendByteIs ==
  ASSUME NEW b
  PROVE  /\ Sequence(SendByte(b)) /\ Len(SendByte(b)) = 25
         /\ \A i \in 1 .. 25 : SendByte(b)[i] = SendOp(b, i)
<1>1. PICK f : f = SendByte(b)
  OBVIOUS
<1>2. f = [i \in 1 .. 25 |-> f[i]] /\ \A i \in 1 .. 25 : f[i] = SendOp(b, i)
  BY <1>1 DEF SendByte, SendOp
<1>3. Sequence(f) /\ Len(f) = 25
  BY <1>2, Listed
<1> QED BY <1>1, <1>2, <1>3

LEMMA RecvIs ==
  ASSUME NEW n \in Nat
  PROVE  /\ Sequence(Recv(n)) /\ Len(Recv(n)) = 24 * n
         /\ \A i \in 1 .. 24 * n : Recv(n)[i] = RecvOp(i)
<1>1. PICK f : f = Recv(n)
  OBVIOUS
<1>2. PICK m \in Nat : m = 24 * n
  OBVIOUS
<1>3. f = [i \in 1 .. m |-> f[i]] /\ \A i \in 1 .. m : f[i] = RecvOp(i)
  BY <1>1, <1>2 DEF Recv, RecvOp
<1>4. Sequence(f) /\ Len(f) = m
  BY <1>3, Listed
<1> QED BY <1>1, <1>2, <1>3, <1>4

\* A byte is sent after what is in the script.
LEMMA SendThen ==
  ASSUME NEW s, Sequence(s), NEW b
  PROVE  LET r == s \o SendByte(b)
         IN /\ Sequence(r) /\ Len(r) = Len(s) + 25 /\ \A i \in 1 .. Len(s) : r[i] = s[i]
            /\ \A i \in Len(s) + 1 .. Len(s) + 25 : r[i] = SendOp(b, i - Len(s))
<1>1. PICK t : t = SendByte(b)
  OBVIOUS
<1>2. Sequence(t) /\ Len(t) = 25 /\ \A i \in 1 .. 25 : t[i] = SendOp(b, i)
  BY <1>1, SendByteIs
<1>3. PICK r : r = s \o t
  OBVIOUS
<1>4. /\ Sequence(r) /\ Len(s) \in Nat /\ Len(r) = Len(s) + Len(t)
      /\ \A i \in 1 .. Len(s) : r[i] = s[i]
      /\ \A i \in Len(s) + 1 .. Len(s) + Len(t) : r[i] = t[i - Len(s)]
  <2>1. Sequence(s) /\ Sequence(t)
    BY <1>2
  <2> QED BY <1>3, <2>1, Joined
<1>5. \A n \in Nat : \A i \in n + 1 .. n + 25 : i - n \in 1 .. 25
  OBVIOUS
<1>6. \A i \in Len(s) + 1 .. Len(s) + 25 : r[i] = SendOp(b, i - Len(s))
  BY <1>2, <1>4, <1>5
<1> QED BY <1>1, <1>2, <1>3, <1>4, <1>6

\* The operations of the pins.
LEMMA PinOps ==
  /\ \A b, s : SendOp(b, s)[1] \in LoaderOps
  /\ \A u : RecvOp(u)[1] \in LoaderOps
  /\ \A a, d : ReadOp(a, d)[1] \in LoaderOps
<1>1. \A b, s : SendOp(b, s)[1] \in LoaderOps
  BY DEF SendOp, LoaderOps
<1>2. \A u : RecvOp(u)[1] \in LoaderOps
  BY DEF RecvOp, LoaderOps
<1>3. \A a, d : ReadOp(a, d)[1] \in LoaderOps
  BY <1>1, <1>2 DEF ReadOp, LoaderOps
<1> QED BY <1>1, <1>2, <1>3

\* The script that BeginBlock leaves, operation by operation.
ReadsFrom(s, a) == OfLoader(s) /\ Len(s) = 197 /\ \A i \in 1 .. 197 : s[i] = ReadOp(a, i)
LEMMA ReadScript ==
  ASSUME NEW a \in Nat
  PROVE  ReadsFrom(ReadCommand(a) \o Recv(4), a)
<1>1. PICK s0 : s0 = SpiSelect
  OBVIOUS
<1>2. Sequence(s0) /\ Len(s0) = 1 /\ s0[1] = <<"csn", 0>>
  BY <1>1, Single DEF SpiSelect
<1>3. PICK s1 : s1 = s0 \o SendByte(CommandByte(a, 0))
  OBVIOUS
<1>4. /\ Sequence(s1) /\ Len(s1) = 26 /\ \A i \in 1 .. 1 : s1[i] = s0[i]
      /\ \A i \in 2 .. 26 : s1[i] = SendOp(CommandByte(a, 0), i - 1)
  <2>1. Sequence(s0)
    BY <1>2
  <2>2. /\ Sequence(s1) /\ Len(s1) = Len(s0) + 25
        /\ \A i \in 1 .. Len(s0) : s1[i] = s0[i]
        /\ \A i \in Len(s0) + 1 .. Len(s0) + 25 :
             s1[i] = SendOp(CommandByte(a, 0), i - Len(s0))
    BY <2>1, <1>3, SendThen, Zenon
  <2> QED BY <1>2, <2>2
<1>5. PICK s2 : s2 = s1 \o SendByte(CommandByte(a, 1))
  OBVIOUS
<1>6. /\ Sequence(s2) /\ Len(s2) = 51 /\ \A i \in 1 .. 26 : s2[i] = s1[i]
      /\ \A i \in 27 .. 51 : s2[i] = SendOp(CommandByte(a, 1), i - 26)
  <2>1. Sequence(s1)
    BY <1>4
  <2>2. /\ Sequence(s2) /\ Len(s2) = Len(s1) + 25
        /\ \A i \in 1 .. Len(s1) : s2[i] = s1[i]
        /\ \A i \in Len(s1) + 1 .. Len(s1) + 25 :
             s2[i] = SendOp(CommandByte(a, 1), i - Len(s1))
    BY <2>1, <1>5, SendThen, Zenon
  <2> QED BY <1>4, <2>2
<1>7. PICK s3 : s3 = s2 \o SendByte(CommandByte(a, 2))
  OBVIOUS
<1>8. /\ Sequence(s3) /\ Len(s3) = 76 /\ \A i \in 1 .. 51 : s3[i] = s2[i]
      /\ \A i \in 52 .. 76 : s3[i] = SendOp(CommandByte(a, 2), i - 51)
  <2>1. Sequence(s2)
    BY <1>6
  <2>2. /\ Sequence(s3) /\ Len(s3) = Len(s2) + 25
        /\ \A i \in 1 .. Len(s2) : s3[i] = s2[i]
        /\ \A i \in Len(s2) + 1 .. Len(s2) + 25 :
             s3[i] = SendOp(CommandByte(a, 2), i - Len(s2))
    BY <2>1, <1>7, SendThen, Zenon
  <2> QED BY <1>6, <2>2
<1>9. PICK s4 : s4 = s3 \o SendByte(CommandByte(a, 3))
  OBVIOUS
<1>10. /\ Sequence(s4) /\ Len(s4) = 101 /\ \A i \in 1 .. 76 : s4[i] = s3[i]
      /\ \A i \in 77 .. 101 : s4[i] = SendOp(CommandByte(a, 3), i - 76)
  <2>1. Sequence(s3)
    BY <1>8
  <2>2. /\ Sequence(s4) /\ Len(s4) = Len(s3) + 25
        /\ \A i \in 1 .. Len(s3) : s4[i] = s3[i]
        /\ \A i \in Len(s3) + 1 .. Len(s3) + 25 :
             s4[i] = SendOp(CommandByte(a, 3), i - Len(s3))
    BY <2>1, <1>9, SendThen, Zenon
  <2> QED BY <1>8, <2>2
<1>11. PICK g : g = Recv(4)
  OBVIOUS
<1>12. Sequence(g) /\ Len(g) = 96 /\ \A i \in 1 .. 96 : g[i] = RecvOp(i)
  <2>1. Sequence(Recv(4)) /\ Len(Recv(4)) = 24 * 4 /\ \A i \in 1 .. 24 * 4 : Recv(4)[i] = RecvOp(i)
    BY RecvIs
  <2> QED BY <1>11, <2>1
<1>13. PICK s5 : s5 = s4 \o g
  OBVIOUS
<1>14. /\ Sequence(s5) /\ Len(s5) = Len(s4) + Len(g) /\ \A i \in 1 .. Len(s4) : s5[i] = s4[i]
       /\ \A i \in Len(s4) + 1 .. Len(s4) + Len(g) : s5[i] = g[i - Len(s4)]
  <2>1. Sequence(s4) /\ Sequence(g)
    BY <1>10, <1>12
  <2> QED BY <2>1, <1>13, Joined
<1>15. /\ Sequence(s5) /\ Len(s5) = 197 /\ \A i \in 1 .. 101 : s5[i] = s4[i]
       /\ \A i \in 102 .. 197 : s5[i] = g[i - 101]
  BY <1>10, <1>12, <1>14
<1>16. s5 = ReadCommand(a) \o Recv(4)
  BY <1>1, <1>3, <1>5, <1>7, <1>9, <1>11, <1>13 DEF ReadCommand, CommandByte
<1>17. s5[1] = <<"csn", 0>>
  BY <1>2, <1>4, <1>6, <1>8, <1>10, <1>15
<1>18. \A i \in 2 .. 26 : s5[i] = SendOp(CommandByte(a, 0), i - 1)
  BY <1>4, <1>6, <1>8, <1>10, <1>15
<1>19. \A i \in 27 .. 51 : s5[i] = SendOp(CommandByte(a, 1), i - 26)
  BY <1>6, <1>8, <1>10, <1>15
<1>20. \A i \in 52 .. 76 : s5[i] = SendOp(CommandByte(a, 2), i - 51)
  BY <1>8, <1>10, <1>15
<1>21. \A i \in 77 .. 101 : s5[i] = SendOp(CommandByte(a, 3), i - 76)
  BY <1>10, <1>15
<1>22. \A i \in 102 .. 197 : s5[i] = RecvOp(i - 101)
  <2>1. \A i \in 102 .. 197 : i - 101 \in 1 .. 96
    OBVIOUS
  <2> QED BY <1>12, <1>15, <2>1
<1>23. \A i \in 1 .. 197 : s5[i] = ReadOp(a, i)
  <2> TAKE i \in 1 .. 197
  <2>1. CASE i = 1
    BY <1>17, <2>1 DEF ReadOp
  <2>2. CASE i \in 2 .. 26
    <3>1. (i - 2) \div 25 = 0 /\ ((i - 2) % 25) + 1 = i - 1
      BY <2>2
    <3> QED BY <1>18, <2>2, <3>1 DEF ReadOp
  <2>3. CASE i \in 27 .. 51
    <3>1. (i - 2) \div 25 = 1 /\ ((i - 2) % 25) + 1 = i - 26
      BY <2>3
    <3> QED BY <1>19, <2>3, <3>1 DEF ReadOp
  <2>4. CASE i \in 52 .. 76
    <3>1. (i - 2) \div 25 = 2 /\ ((i - 2) % 25) + 1 = i - 51
      BY <2>4
    <3> QED BY <1>20, <2>4, <3>1 DEF ReadOp
  <2>5. CASE i \in 77 .. 101
    <3>1. (i - 2) \div 25 = 3 /\ ((i - 2) % 25) + 1 = i - 76
      BY <2>5
    <3> QED BY <1>21, <2>5, <3>1 DEF ReadOp
  <2>6. CASE i \in 102 .. 197
    BY <1>22, <2>6 DEF ReadOp
  <2> QED BY <2>1, <2>2, <2>3, <2>4, <2>5, <2>6
<1>24. OfLoader(s5)
  BY <1>15, <1>23, PinOps DEF OfLoader
<1>25. ReadsFrom(s5, a)
  BY <1>15, <1>23, <1>24 DEF ReadsFrom
<1> QED BY <1>16, <1>25

\* Scripts one after the other.
LEMMA JoinedScripts ==
  ASSUME NEW s, NEW t, OfLoader(s), OfLoader(t)
  PROVE  /\ OfLoader(s \o t)
         /\ Unclocked(s) /\ Unclocked(t) => Unclocked(s \o t)
         /\ Up(t) => Up(s \o t)
         /\ Up(s) /\ Unclocked(t) => Up(s \o t)
<1>1. PICK r : r = s \o t
  OBVIOUS
<1>2. Sequence(s) /\ Sequence(t)
  BY DEF OfLoader
<1>3. /\ Sequence(r) /\ Len(s) \in Nat /\ Len(t) \in Nat /\ Len(r) = Len(s) + Len(t)
      /\ \A i \in 1 .. Len(s) : r[i] = s[i]
      /\ \A i \in 1 .. Len(t) : r[Len(s) + i] = t[i]
      /\ \A i \in Len(s) + 1 .. Len(s) + Len(t) : r[i] = t[i - Len(s)]
  BY <1>1, <1>2, Joined
<1>4. \A i \in 1 .. Len(r) :
        \/ i \in 1 .. Len(s)
        \/ i \in Len(s) + 1 .. Len(s) + Len(t) /\ i - Len(s) \in 1 .. Len(t)
  BY <1>3
<1>5. OfLoader(r)
  BY <1>3, <1>4 DEF OfLoader
<1>6. Unclocked(s) /\ Unclocked(t) => Unclocked(r)
  BY <1>3, <1>4 DEF Unclocked
<1>7. Up(t) => Up(r)
  <2> SUFFICES ASSUME Up(t) PROVE Up(r)
    OBVIOUS
  <2>1. PICK i \in 1 .. Len(t) : t[i] = <<"clk", 1>> /\ \A j \in i + 1 .. Len(t) : t[j][1] # "clk"
    BY DEF Up
  <2>2. Len(s) + i \in 1 .. Len(r) /\ r[Len(s) + i] = <<"clk", 1>>
    BY <1>3, <2>1
  <2>3. \A j \in Len(s) + i + 1 .. Len(r) : r[j][1] # "clk"
    <3> TAKE j \in Len(s) + i + 1 .. Len(r)
    <3>1. j - Len(s) \in i + 1 .. Len(t) /\ j \in Len(s) + 1 .. Len(s) + Len(t)
      BY <1>3
    <3> QED BY <1>3, <2>1, <3>1
  <2> QED BY <2>2, <2>3 DEF Up
<1>8. Up(s) /\ Unclocked(t) => Up(r)
  <2> SUFFICES ASSUME Up(s), Unclocked(t) PROVE Up(r)
    OBVIOUS
  <2>1. PICK i \in 1 .. Len(s) : s[i] = <<"clk", 1>> /\ \A j \in i + 1 .. Len(s) : s[j][1] # "clk"
    BY DEF Up
  <2>2. i \in 1 .. Len(r) /\ r[i] = <<"clk", 1>>
    BY <1>3, <2>1
  <2>3. \A j \in i + 1 .. Len(r) : r[j][1] # "clk"
    <3> TAKE j \in i + 1 .. Len(r)
    <3>1. CASE j \in 1 .. Len(s)
      BY <1>3, <2>1, <3>1
    <3>2. CASE j \in Len(s) + 1 .. Len(s) + Len(t) /\ j - Len(s) \in 1 .. Len(t)
      BY <1>3, <3>2 DEF Unclocked
    <3> QED BY <1>3, <1>4, <3>1, <3>2
  <2> QED BY <2>2, <2>3 DEF Up
<1> QED BY <1>1, <1>5, <1>6, <1>7, <1>8

\* A script that only prints, or that selects or deselects the flash.
LEMMA Unclocking ==
  /\ \A s : Printing(s) => OfLoader(s) /\ Unclocked(s)
  /\ \A v : OfLoader(<<<<"csn", v>>>>) /\ Unclocked(<<<<"csn", v>>>>)
  /\ \A v : OfLoader(<<<<"clk", v>>>>)
<1>1. \A s : Printing(s) => OfLoader(s) /\ Unclocked(s)
  BY DEF Printing, OfLoader, Unclocked, LoaderOps
<1>2. \A v : OfLoader(<<<<"csn", v>>>>) /\ Unclocked(<<<<"csn", v>>>>)
  <2> TAKE v
  <2>1. PICK a : a = <<"csn", v>>
    OBVIOUS
  <2>2. Sequence(<<a>>) /\ Len(<<a>>) = 1 /\ <<a>>[1] = a /\ a[1] = "csn"
    BY <2>1, Single
  <2> QED BY <2>1, <2>2 DEF OfLoader, Unclocked, LoaderOps
<1>3. \A v : OfLoader(<<<<"clk", v>>>>)
  <2> TAKE v
  <2>1. PICK a : a = <<"clk", v>>
    OBVIOUS
  <2>2. Sequence(<<a>>) /\ Len(<<a>>) = 1 /\ <<a>>[1] = a /\ a[1] = "clk"
    BY <2>1, Single
  <2> QED BY <2>1, <2>2 DEF OfLoader, LoaderOps
<1> QED BY <1>1, <1>2, <1>3

-----------------------------------------------------------------------------
(* The steps of a script.                                                     *)

\* Only the operation "clk" moves the clock, and the loader's are not the player's.
LEMMA LoaderPins ==
  ASSUME OfLoader(script), LoaderStep
  PROVE  /\ OfLoader(script')
         /\ Head(script)[1] = "clk" => clk' = Head(script)[2]
         /\ Head(script)[1] # "clk" => clk' = clk
<1>1. /\ OfLoader(Tail(script)) /\ script' = Tail(script)
  <2>1. Sequence(script) /\ script # <<>> /\ script' = Tail(script)
    BY DEF OfLoader, LoaderStep
  <2>2. /\ Sequence(Tail(script)) /\ Len(script) \in Nat \ {0} /\ Len(Tail(script)) = Len(script) - 1
        /\ \A i \in 1 .. Len(script) - 1 : Tail(script)[i] = script[i + 1]
    BY <2>1, TailOf
  <2>3. \A i \in 1 .. Len(script) - 1 : i + 1 \in 1 .. Len(script)
    BY <2>2
  <2>4. \A i \in 1 .. Len(script) : script[i][1] \in LoaderOps
    BY DEF OfLoader
  <2> QED BY <2>1, <2>2, <2>3, <2>4 DEF OfLoader
<1>2. CASE Put
  BY <1>1, <1>2 DEF Put, flashVars
<1>3. CASE Pin
  BY <1>1, <1>3 DEF Pin, Select, Clock, Output
<1>4. CASE Sample
  BY <1>1, <1>4 DEF Sample, flashVars
<1> QED BY <1>2, <1>3, <1>4 DEF LoaderStep

LEMMA StaysUp ==
  ASSUME OfLoader(script), LoaderStep, EndsUp
  PROVE  EndsUp'
<1>1. Sequence(script) /\ script # <<>> /\ script' = Tail(script)
  BY DEF OfLoader, LoaderStep
<1>2. /\ Len(script) \in Nat \ {0} /\ Len(script') = Len(script) - 1 /\ Head(script) = script[1]
      /\ \A i \in 1 .. Len(script) - 1 : script'[i] = script[i + 1]
  BY <1>1, TailOf
<1>3. CASE clk = 1 /\ Unclocked(script)
  <2>1. script[1][1] # "clk" /\ clk' = 1
    BY <1>2, <1>3, LoaderPins DEF Unclocked
  <2>2. \A i \in 1 .. Len(script') : i + 1 \in 1 .. Len(script) /\ script'[i] = script[i + 1]
    BY <1>2
  <2>3. Unclocked(script')
    BY <1>3, <2>2 DEF Unclocked
  <2> QED BY <2>1, <2>3 DEF EndsUp
<1>4. CASE Up(script)
  <2>1. PICK i \in 1 .. Len(script) :
          script[i] = <<"clk", 1>> /\ \A j \in i + 1 .. Len(script) : script[j][1] # "clk"
    BY <1>4 DEF Up
  <2>2. CASE i = 1
    <3>1. clk' = 1
      <4>1. Head(script) = <<"clk", 1>>
        BY <1>2, <2>1, <2>2
      <4>2. Head(script)[1] = "clk" /\ Head(script)[2] = 1
        BY <4>1
      <4> QED BY <4>2, LoaderPins
    <3>2. \A j \in 1 .. Len(script') : j + 1 \in 2 .. Len(script) /\ script'[j] = script[j + 1]
      BY <1>2
    <3>3. Unclocked(script')
      BY <2>1, <2>2, <3>2 DEF Unclocked
    <3> QED BY <3>1, <3>3 DEF EndsUp
  <2>3. CASE i # 1
    <3>1. i - 1 \in 1 .. Len(script')
      BY <1>2, <2>3
    <3>2. script'[i - 1] = <<"clk", 1>>
      BY <1>2, <2>1, <2>3
    <3>3. \A j \in i .. Len(script') : j + 1 \in i + 1 .. Len(script) /\ script'[j] = script[j + 1]
      BY <1>2
    <3>4. \A j \in (i - 1) + 1 .. Len(script') : script'[j][1] # "clk"
      BY <2>1, <3>3
    <3>5. Up(script')
      BY <3>1, <3>2, <3>4 DEF Up
    <3> QED BY <3>5 DEF EndsUp
  <2> QED BY <2>2, <2>3
<1> QED BY <1>3, <1>4 DEF EndsUp

-----------------------------------------------------------------------------
(* Reading a word.                                                            *)

\* The image has addresses of 24 bits.
LEMMA Addresses ==
  ASSUME block \in 0 .. Blocks - 1
  PROVE  Base \in Nat /\ Base < AddressEnd
<1>1. Blocks \in Nat \ {0} /\ Words \in Nat \ {0} /\ AppBase \in Nat
  BY BootAssumption, FlashAssumption
<1>2. AppBase + 4 * (Blocks * Words) <= AddressEnd
  BY BootAssumption, SMT DEF AddressEnd
<1>3. block * Words < Blocks * Words /\ block * Words \in Nat /\ Blocks * Words \in Nat
  BY <1>1
<1>4. block * 4 * Words = 4 * (block * Words)
  BY <1>1
<1>5. AddressEnd \in Nat
  BY SMT DEF AddressEnd
<1> QED BY <1>1, <1>2, <1>3, <1>4, <1>5 DEF Base

LEMMA ImageBytes ==
  ASSUME NEW a
  PROVE  FlashByte(a) \in 0 .. 255
BY FlashAssumption DEF FlashByte

\* The first operation of a script that is a read command from d on.
LEMMA ReadScriptStep ==
  ASSUME NEW d \in 0 .. 197, OfLoader(script), LoaderStep, Len(script) = 197 - d,
         \A i \in 1 .. 197 - d : script[i] = ReadOp(Base, d + i)
  PROVE  /\ d < 197 /\ Head(script) = ReadOp(Base, d + 1) /\ Len(script') = 197 - (d + 1)
         /\ \A i \in 1 .. 197 - (d + 1) : script'[i] = ReadOp(Base, (d + 1) + i)
<1>1. Sequence(script) /\ script # <<>> /\ script' = Tail(script)
  BY DEF OfLoader, LoaderStep
<1>2. /\ Len(script) \in Nat \ {0} /\ Len(script') = Len(script) - 1 /\ Head(script) = script[1]
      /\ \A i \in 1 .. Len(script) - 1 : script'[i] = script[i + 1]
  BY <1>1, TailOf
<1>3. d < 197 /\ Len(script') = 197 - (d + 1)
  BY <1>2
<1>4. Head(script) = ReadOp(Base, d + 1)
  BY <1>2, <1>3
<1>5. \A i \in 1 .. 197 - (d + 1) : script'[i] = ReadOp(Base, (d + 1) + i)
  <2> TAKE i \in 1 .. 197 - (d + 1)
  <2>1. i + 1 \in 1 .. 197 - d /\ i \in 1 .. Len(script) - 1 /\ d + (i + 1) = (d + 1) + i
    BY <1>3
  <2> QED BY <1>2, <2>1
<1> QED BY <1>3, <1>4, <1>5

\* A byte of the command goes on by one operation.
LEMMA SendStep ==
  ASSUME NEW q \in 0 .. 3, NEW s \in 0 .. 24, Base \in Nat, Base' = Base, word' = word,
         Sending(q, s), LoaderStep, Head(script) = SendOp(CommandByte(Base, q), s + 1)
  PROVE  /\ csn' = 0 /\ bits' = <<>> /\ word' = 0 /\ clocks' = 8 * q + (s \div 3)
         /\ head' = Prefix(Base, q, s \div 3)
         /\ clk' = IF (s + 1) % 3 = 1 THEN 1 ELSE 0
         /\ (s + 1) % 3 = 0 => mosi' = BitOf(CommandByte(Base, q), ((s + 1) \div 3) - 1)
<1>1. /\ csn = 0 /\ bits = <<>> /\ word = 0
      /\ s = 0 => clocks = 8 * q /\ head = Prefix(Base, q, 0) /\ clk = 1
      /\ s # 0 => clocks = 8 * q + ((s - 1) \div 3) /\ head = Prefix(Base, q, (s - 1) \div 3)
      /\ s # 0 => clk = IF s % 3 = 1 THEN 1 ELSE 0
      /\ s # 0 /\ s % 3 = 0 => mosi = BitOf(CommandByte(Base, q), (s \div 3) - 1)
  BY DEF Sending
<1>2. CASE s % 3 = 0
  <2>1. /\ (s + 1) % 3 = 1
    BY <1>2
  <2>2. Head(script) = <<"clk", 1>>
    BY <2>1 DEF SendOp
  <2>3. Clock(1) /\ UNCHANGED bits
    BY <2>2 DEF LoaderStep, Put, Pin, Sample
  <2>4. CASE s = 0
    <3>1. clk = 1 /\ clocks = 8 * q /\ head = Prefix(Base, q, 0)
      BY <1>1, <2>4
    <3>2. clocks' = clocks /\ head' = head /\ clk' = 1 /\ csn' = csn
      BY <2>3, <3>1 DEF Clock
    <3>3. s \div 3 = 0
      BY <2>4
    <3> QED BY <1>1, <2>1, <2>3, <3>1, <3>2, <3>3
  <2>5. CASE s # 0
    <3>1. PICK j \in 0 .. 7 : j = (s - 1) \div 3 /\ j + 1 = s \div 3
      BY <1>2, <2>5
    <3>2. clocks = 8 * q + j /\ head = Prefix(Base, q, j) /\ clk = 0 /\ mosi = BitOf(CommandByte(Base, q), j)
      BY <1>1, <1>2, <2>5, <3>1
    <3>3. clocks' = clocks + 1 /\ head' = Shifted /\ clk' = 1 /\ csn' = csn
      BY <1>1, <2>3, <3>2 DEF Clock
    <3>4. clocks < 32
      BY <3>2
    <3>5. ~(clocks >= 8 /\ head = ReadId)
      BY <3>2, NotTheId
    <3>6. Shifted = 2 * head + mosi
      BY <3>4, <3>5 DEF Shifted
    <3>7. head' = Prefix(Base, q, j + 1)
      BY <3>2, <3>3, <3>6, NextPrefix
    <3> QED BY <1>1, <2>1, <2>3, <3>1, <3>2, <3>3, <3>7
  <2> QED BY <2>4, <2>5
<1>3. CASE s % 3 = 1
  <2>1. (s + 1) % 3 = 2 /\ (s - 1) \div 3 = s \div 3 /\ s # 0
    BY <1>3
  <2>2. Head(script) = <<"clk", 0>>
    BY <2>1 DEF SendOp
  <2>3. Clock(0) /\ UNCHANGED bits
    BY <2>2 DEF LoaderStep, Put, Pin, Sample
  <2>4. clocks' = clocks /\ head' = head /\ clk' = 0 /\ csn' = csn
    BY <2>3 DEF Clock
  <2> QED BY <1>1, <2>1, <2>3, <2>4
<1>4. CASE s % 3 = 2
  <2>1. (s + 1) % 3 = 0 /\ (s - 1) \div 3 = s \div 3 /\ s # 0 /\ ~(s % 3 = 1)
    BY <1>4
  <2>2. Head(script) = <<"do", BitOf(CommandByte(Base, q), ((s + 1) \div 3) - 1)>>
    BY <2>1 DEF SendOp
  <2>3. Output(BitOf(CommandByte(Base, q), ((s + 1) \div 3) - 1)) /\ UNCHANGED bits
    BY <2>2 DEF LoaderStep, Put, Pin, Sample
  <2>4. /\ clocks' = clocks /\ head' = head /\ clk' = clk /\ csn' = csn
        /\ mosi' = BitOf(CommandByte(Base, q), ((s + 1) \div 3) - 1)
    BY <2>3 DEF Output
  <2> QED BY <1>1, <2>1, <2>3, <2>4
<1>5. s % 3 = 0 \/ s % 3 = 1 \/ s % 3 = 2
  OBVIOUS
<1> QED BY <1>2, <1>3, <1>4, <1>5

\* The bits of a word come in by three operations each.
LEMMA ReceiveStep ==
  ASSUME NEW u \in 0 .. 95, Base \in Nat, Base < AddressEnd, word \in Nat, Base' = Base, word' = word,
         Receiving(u), LoaderStep, Head(script) = RecvOp(u + 1)
  PROVE  Receiving(u + 1)'
<1>1. /\ csn = 0 /\ clocks = 32 + 32 * word + ((u + 1) \div 3) /\ head = ReadWord + Base
      /\ clk = IF u % 3 = 1 THEN 0 ELSE 1
      /\ u % 3 # 0 => miso = ImageBit(u \div 3)
      /\ Sequence(bits) /\ Len(bits) = u \div 3
      /\ \A i \in 1 .. u \div 3 : bits[i] = ImageBit(i - 1)
  BY DEF Receiving
<1>2. \A i : ImageBit(i)' = ImageBit(i)
  BY DEF ImageBit, BitOf, FlashByte
<1>3. CASE u % 3 = 0
  <2>1. (u + 1) % 3 = 1 /\ (u + 1) \div 3 = u \div 3 /\ (u + 2) \div 3 = u \div 3
    BY <1>3
  <2>2. Head(script) = <<"clk", 0>>
    BY <2>1 DEF RecvOp
  <2>3. Clock(0) /\ bits' = bits
    BY <2>2 DEF LoaderStep, Put, Pin, Sample
  <2>4. clk = 1
    BY <1>1, <1>3
  <2>5. clocks' = clocks /\ head' = head /\ clk' = 0 /\ csn' = csn /\ miso' = Answer(clocks)
    BY <1>1, <2>3, <2>4 DEF Clock
  <2>6. head \div 2 ^ 24 = ReadData /\ head % 2 ^ 24 = Base
    BY <1>1, SMT DEF ReadWord, AddressEnd, ReadData
  <2>7. PICK k \in 0 .. 31 : k = u \div 3
    BY <1>3
  <2>8. clocks >= 32 /\ clocks - 32 = 32 * word + k
    BY <1>1, <2>1, <2>7
  <2>9. (clocks - 32) \div 8 = 4 * word + (k \div 8) /\ (clocks - 32) % 8 = k % 8
    BY <2>8
  <2>10. Answer(clocks) = BitOf(FlashByte(Base + (4 * word + (k \div 8))), k % 8)
    BY <2>6, <2>8, <2>9 DEF Answer
  <2>11. Base + (4 * word + (k \div 8)) = Base + 4 * word + (k \div 8)
    BY <2>7
  <2>12. miso' = ImageBit(k)
    BY <2>5, <2>10, <2>11 DEF ImageBit
  <2> QED BY <1>1, <1>2, <2>1, <2>3, <2>5, <2>7, <2>12 DEF Receiving
<1>4. CASE u % 3 = 1
  <2>1. /\ (u + 1) % 3 = 2 /\ (u + 1) \div 3 = u \div 3
        /\ (u + 2) \div 3 = (u + 1) \div 3 + 1
    BY <1>4
  <2>2. Head(script) = <<"clk", 1>>
    BY <2>1 DEF RecvOp
  <2>3. Clock(1) /\ bits' = bits
    BY <2>2 DEF LoaderStep, Put, Pin, Sample
  <2>4. clk = 0
    BY <1>1, <1>4
  <2>5. clocks' = clocks + 1 /\ head' = Shifted /\ clk' = 1 /\ csn' = csn /\ miso' = miso
    BY <1>1, <2>3, <2>4 DEF Clock
  <2>6. ~(clocks < 32)
    BY <1>1
  <2>7. head' = head
    BY <2>5, <2>6 DEF Shifted
  <2>8. clocks' = 32 + 32 * word + ((u + 2) \div 3)
    BY <1>1, <2>1, <2>5
  <2>9. miso = ImageBit(u \div 3)
    BY <1>1, <1>4
  <2> QED BY <1>1, <1>2, <2>1, <2>3, <2>5, <2>7, <2>8, <2>9 DEF Receiving
<1>5. CASE u % 3 = 2
  <2>1. /\ (u + 1) % 3 = 0 /\ (u + 1) \div 3 = u \div 3 + 1 /\ (u + 2) \div 3 = (u + 1) \div 3
    BY <1>5
  <2>2. Head(script) = <<"di">>
    BY <2>1 DEF RecvOp
  <2>3. bits' = Append(bits, miso) /\ UNCHANGED flashVars
    <3>1. Head(script)[1] = "di"
      BY <2>2
    <3> QED BY <3>1 DEF LoaderStep, Put, Pin, Sample
  <2>4. clocks' = clocks /\ head' = head /\ clk' = clk /\ csn' = csn /\ miso' = miso
    BY <2>3 DEF flashVars
  <2>5. clk = 1 /\ miso = ImageBit(u \div 3)
    BY <1>1, <1>5
  <2>6. PICK S : bits \in Seq(S)
    BY <1>1 DEF Sequence
  <2>7. bits \in Seq(S \cup {miso}) /\ miso \in S \cup {miso}
    BY <2>6, SeqMonotonic
  <2>8. bits' \in Seq(S \cup {miso}) /\ Len(bits') = Len(bits) + 1
    BY <2>3, <2>7, AppendProperties
  <2>9. \A i \in 1 .. Len(bits) : bits'[i] = bits[i]
    BY <2>3, <2>7, AppendProperties
  <2>10. bits'[Len(bits) + 1] = miso
    BY <2>3, <2>7, AppendProperties
  <2>11. PICK k \in 0 .. 31 : k = u \div 3
    BY <1>5
  <2>12. \A i \in 1 .. k + 1 : bits'[i] = ImageBit(i - 1)
    <3> TAKE i \in 1 .. k + 1
    <3>1. CASE i \in 1 .. k
      BY <1>1, <2>9, <2>11, <3>1
    <3>2. CASE i = k + 1
      BY <1>1, <2>5, <2>10, <2>11, <3>2
    <3> QED BY <3>1, <3>2
  <2>13. Sequence(bits') /\ Len(bits') = k + 1
    BY <1>1, <2>8, <2>11 DEF Sequence
  <2>14. (u + 1) \div 3 = k + 1 /\ (u + 2) \div 3 = k + 1
    BY <2>1, <2>11
  <2> QED BY <1>1, <1>2, <2>1, <2>4, <2>5, <2>12, <2>13, <2>14 DEF Receiving
<1>6. u % 3 = 0 \/ u % 3 = 1 \/ u % 3 = 2
  OBVIOUS
<1> QED BY <1>3, <1>4, <1>5, <1>6

\* An operation of a read command leaves the flash and the script in step.
LEMMA ReadingStep ==
  ASSUME OfLoader(script), LoaderStep, Reading, block \in 0 .. Blocks - 1, word \in 0 .. Words - 1
  PROVE  Reading'
<1>1. Base \in Nat /\ Base < AddressEnd /\ word \in Nat
  BY Addresses, BootAssumption
<1>2. Base' = Base /\ word' = word
  BY DEF LoaderStep, Base
<1>3. PICK d \in 0 .. 197 :
        /\ Len(script) = 197 - d
        /\ \A i \in 1 .. 197 - d : script[i] = ReadOp(Base, d + i)
        /\ d = 0 => clk = 1 /\ bits = <<>> /\ word = 0
        /\ d \in 1 .. 100 => Sending((d - 1) \div 25, (d - 1) % 25)
        /\ d >= 101 => Receiving(d - 101)
  BY DEF Reading
<1>4. /\ d < 197 /\ Head(script) = ReadOp(Base, d + 1) /\ Len(script') = 197 - (d + 1)
      /\ \A i \in 1 .. 197 - (d + 1) : script'[i] = ReadOp(Base', (d + 1) + i)
  BY <1>2, <1>3, ReadScriptStep
<1>5. ASSUME d + 1 \in 1 .. 100 => Sending(d \div 25, d % 25)',
             d + 1 >= 101 => Receiving(d - 100)'
      PROVE  Reading'
  <2>1. PICK e \in 0 .. 197 : e = d + 1 /\ e - 1 = d /\ e - 101 = d - 100 /\ e # 0
    BY <1>4
  <2>2. Len(script') = 197 - e /\ \A i \in 1 .. 197 - e : script'[i] = ReadOp(Base', e + i)
    BY <1>4, <2>1
  <2>3. e \in 1 .. 100 => Sending((e - 1) \div 25, (e - 1) % 25)'
    BY <1>5, <2>1
  <2>4. e >= 101 => Receiving(e - 101)'
    BY <1>5, <2>1
  <2> QED BY <2>1, <2>2, <2>3, <2>4 DEF Reading
<1>6. CASE d = 0
  <2>1. Head(script) = <<"csn", 0>>
    BY <1>4, <1>6 DEF ReadOp
  <2>2. Select(0) /\ bits' = bits
    BY <2>1 DEF LoaderStep, Put, Pin, Sample
  <2>3. csn' = 0 /\ clocks' = 0 /\ head' = 0 /\ clk' = 1 /\ bits' = <<>> /\ word' = 0
    BY <1>2, <1>3, <1>6, <2>2 DEF Select
  <2>4. Prefix(Base, 0, 0) = 0
    BY <1>1, NextByte
  <2>5. d \div 25 = 0 /\ d % 25 = 0
    BY <1>6
  <2>6. Sending(0, 0)'
    BY <1>2, <2>3, <2>4 DEF Sending
  <2> QED BY <1>5, <1>6, <2>5, <2>6
<1>7. CASE d \in 1 .. 100
  <2>1. PICK q \in 0 .. 3, s \in 0 .. 24 : q = (d - 1) \div 25 /\ s = (d - 1) % 25 /\ d = 25 * q + s + 1
    BY <1>7
  <2>2. Sending(q, s)
    BY <1>3, <1>7, <2>1
  <2>3. Head(script) = SendOp(CommandByte(Base, q), s + 1)
    <3>1. (d + 1) - 2 = d - 1 /\ d + 1 <= 101 /\ d + 1 # 1
      BY <1>7
    <3> QED BY <1>4, <2>1, <3>1 DEF ReadOp
  <2>4. /\ csn' = 0 /\ bits' = <<>> /\ word' = 0 /\ clocks' = 8 * q + (s \div 3)
        /\ head' = Prefix(Base, q, s \div 3)
        /\ clk' = IF (s + 1) % 3 = 1 THEN 1 ELSE 0
        /\ (s + 1) % 3 = 0 => mosi' = BitOf(CommandByte(Base, q), ((s + 1) \div 3) - 1)
    BY <1>1, <1>2, <2>2, <2>3, SendStep
  <2>5. CASE s < 24
    <3>1. d \div 25 = q /\ d % 25 = s + 1 /\ d < 100
      BY <2>1, <2>5
    <3>2. s + 1 # 0 /\ (s + 1) - 1 = s
      OBVIOUS
    <3>3. Sending(q, s + 1)'
      BY <1>2, <2>4, <3>2 DEF Sending
    <3> QED BY <1>5, <3>1, <3>3
  <2>6. CASE s = 24 /\ q < 3
    <3>1. d \div 25 = q + 1 /\ d % 25 = 0 /\ d < 100 /\ q + 1 \in 0 .. 3
      BY <2>1, <2>6
    <3>2. s \div 3 = 8 /\ (s + 1) % 3 = 1
      BY <2>6
    <3>3. Prefix(Base, q, 8) = Prefix(Base, q + 1, 0)
      BY <1>1, <2>6, NextByte
    <3>4. csn' = 0 /\ bits' = <<>> /\ word' = 0 /\ clk' = 1
      BY <2>4, <3>2
    <3>5. clocks' = 8 * (q + 1) + 0
      BY <2>4, <3>2
    <3>6. head' = Prefix(Base, q + 1, 0)
      BY <2>4, <3>2, <3>3
    <3>7. Sending(q + 1, 0)'
      BY <1>2, <3>4, <3>5, <3>6 DEF Sending
    <3> QED BY <1>5, <3>1, <3>7
  <2>7. CASE s = 24 /\ q = 3
    <3>1. d = 100 /\ d - 100 = 0
      BY <2>1, <2>7
    <3>2. s \div 3 = 8 /\ (s + 1) % 3 = 1
      BY <2>7
    <3>3. csn' = 0 /\ bits' = <<>> /\ word' = 0 /\ clk' = 1 /\ clocks' = 32
      BY <2>4, <2>7, <3>2
    <3>4. head' = ReadWord + Base
      BY <1>1, <2>4, <2>7, <3>2, NextByte
    <3>5. Receiving(0)'
      <4>1. 0 % 3 = 0 /\ (0 + 1) \div 3 = 0 /\ 0 \div 3 = 0 /\ 32 + 32 * 0 + 0 = 32
        OBVIOUS
      <4>2. Sequence(bits') /\ Len(bits') = 0
        BY <3>3, Nothing
      <4>3. \A i \in 1 .. 0 : FALSE
        OBVIOUS
      <4>4. clocks' = 32 + 32 * word' + ((0 + 1) \div 3)
        BY <3>3, <4>1
      <4> QED BY <1>2, <3>3, <3>4, <4>1, <4>2, <4>3, <4>4 DEF Receiving
    <3> QED BY <1>5, <3>1, <3>5
  <2> QED BY <2>1, <2>5, <2>6, <2>7
<1>8. CASE d \in 101 .. 196
  <2>1. PICK u \in 0 .. 95 : u = d - 101 /\ u + 1 = d - 100
    BY <1>8
  <2>2. Receiving(u)
    BY <1>3, <1>8, <2>1
  <2>3. Head(script) = RecvOp(u + 1)
    <3>1. (d + 1) - 101 = u + 1 /\ ~(d + 1 <= 101) /\ d + 1 # 1
      BY <1>8, <2>1
    <3> QED BY <1>4, <3>1 DEF ReadOp
  <2>4. Receiving(u + 1)'
    BY <1>1, <1>2, <2>2, <2>3, ReceiveStep
  <2> QED BY <1>5, <1>8, <2>1, <2>4
<1> QED BY <1>4, <1>6, <1>7, <1>8

\* When the script is over, the word that was received is the one of the image.
LEMMA WordRead ==
  ASSUME Sequence(script), script = <<>>, Reading,
         block \in 0 .. Blocks - 1, word \in 0 .. Words - 1
  PROVE  /\ ReceivedWord = ImageWord(DdrPtr) /\ csn = 0 /\ clk = 1
         /\ clocks = 32 + 32 * (word + 1) /\ head = ReadWord + Base
<1>1. Base \in Nat /\ word \in Nat
  BY Addresses, BootAssumption
<1>2. Receiving(96)
  <2>1. Len(script) = 0
    BY Nothing
  <2>2. PICK d \in 0 .. 197 : Len(script) = 197 - d /\ (d >= 101 => Receiving(d - 101))
    BY DEF Reading
  <2>3. d = 197
    BY <2>1, <2>2
  <2> QED BY <2>2, <2>3
<1>3. /\ 97 \div 3 = 32 /\ 96 % 3 = 0 /\ 96 \div 3 = 32
  OBVIOUS
<1>4. /\ csn = 0 /\ clk = 1 /\ head = ReadWord + Base /\ clocks = 32 + 32 * word + 32
      /\ \A i \in 1 .. 32 : bits[i] = ImageBit(i - 1)
  BY <1>2, <1>3 DEF Receiving
<1>5. ASSUME NEW k \in 1 .. 4
      PROVE  Received(k) = FlashByte(Base + 4 * word + (k - 1))
  <2> DEFINE b == FlashByte(Base + 4 * word + (k - 1))
  <2>1. \A i \in 1 .. 8 : bits[8 * (k - 1) + i] = BitOf(b, i - 1)
    <3> TAKE i \in 1 .. 8
    <3>1. 8 * (k - 1) + i \in 1 .. 32
      OBVIOUS
    <3>2. /\ (8 * (k - 1) + i) - 1 = 8 * (k - 1) + (i - 1)
          /\ (8 * (k - 1) + (i - 1)) \div 8 = k - 1 /\ (8 * (k - 1) + (i - 1)) % 8 = i - 1
      OBVIOUS
    <3> QED BY <1>4, <3>1, <3>2 DEF ImageBit
  <2>2. b \in 0 .. 255
    BY ImageBytes
  <2> HIDE DEF b
  <2>3. /\ bits[8 * (k - 1) + 1] = BitOf(b, 0) /\ bits[8 * (k - 1) + 2] = BitOf(b, 1)
        /\ bits[8 * (k - 1) + 3] = BitOf(b, 2) /\ bits[8 * (k - 1) + 4] = BitOf(b, 3)
        /\ bits[8 * (k - 1) + 5] = BitOf(b, 4) /\ bits[8 * (k - 1) + 6] = BitOf(b, 5)
        /\ bits[8 * (k - 1) + 7] = BitOf(b, 6) /\ bits[8 * (k - 1) + 8] = BitOf(b, 7)
    BY <2>1
  <2>4. Received(k) = 128 * BitOf(b, 0) + 64 * BitOf(b, 1) + 32 * BitOf(b, 2) + 16 * BitOf(b, 3)
                        + 8 * BitOf(b, 4) + 4 * BitOf(b, 5) + 2 * BitOf(b, 6) + BitOf(b, 7)
    BY <2>3, SMTT(40) DEF Received
  <2>5. Received(k) = b
    BY <2>2, <2>4, Reassembled
  <2> QED BY <2>5 DEF b
<1>6. AppBase + 4 * DdrPtr = Base + 4 * word
  <2>1. block \in Nat /\ Words \in Nat /\ AppBase \in Nat /\ Blocks \in Nat
    BY BootAssumption, FlashAssumption
  <2>2. block * 4 * Words = 4 * (block * Words)
    BY <2>1
  <2>3. block * Words \in Nat
    BY <2>1
  <2> QED BY <1>1, <2>1, <2>2, <2>3 DEF Base, DdrPtr
<1>7. \A k \in 1 .. 4 : Received(k) = FlashByte(AppBase + 4 * DdrPtr + k - 1)
  <2> TAKE k \in 1 .. 4
  <2>1. AppBase + 4 * DdrPtr + k - 1 = Base + 4 * word + (k - 1)
    BY <1>1, <1>6
  <2> QED BY <1>5, <2>1
<1>8. ReceivedWord = ImageWord(DdrPtr)
  BY <1>7 DEF ReceivedWord, ImageWord
<1> QED BY <1>1, <1>4, <1>8

-----------------------------------------------------------------------------
(* The calls of the loader.                                                   *)

LEMMA TextTuples ==
  /\ Sequence(Banner) /\ Sequence(IdWrongText) /\ Sequence(Loading) /\ Sequence(Verifying)
  /\ Sequence(VerifyText) /\ Sequence(Done) /\ Sequence(Running) /\ Sequence(<<NL>>) /\ Sequence(<<CR>>)
  /\ Sequence(<<"T", "e", "s", "t", NL, "F", "i", "l", "l", NL>>) /\ Sequence(<<NL, "C", "h", "k", NL>>)
  /\ Sequence(<<NL, "F", "a", "i", "l">>) /\ Sequence(<<NL, "P", "a", "s", "s", NL>>)
<1>1. Banner \in Seq({"B", "o", "t", NL}) /\ IdWrongText \in Seq({"I", "D", "?"})
  BY DEF Banner, IdWrongText
<1>2. Loading \in Seq({"L", "o", "a", "d", " "}) /\ Verifying \in Seq({"v", "e", "r", " "})
  BY DEF Loading, Verifying
<1>3. VerifyText \in Seq({NL, "V", "e", "r", "o", " "})
  BY DEF VerifyText
<1>4. Done \in Seq({"d", "o", "n", "e", NL}) /\ Running \in Seq({"R", "u", "n", NL})
  BY DEF Done, Running
<1>5. <<NL>> \in Seq({NL}) /\ <<CR>> \in Seq({CR})
  OBVIOUS
<1>6. <<"T", "e", "s", "t", NL, "F", "i", "l", "l", NL>> \in Seq({"T", "e", "s", "t", NL, "F", "i", "l"})
  OBVIOUS
<1>7. <<NL, "C", "h", "k", NL>> \in Seq({"C", "h", "k", NL})
  OBVIOUS
<1>8. <<NL, "F", "a", "i", "l">> \in Seq({"F", "a", "i", "l", NL})
  OBVIOUS
<1>9. <<NL, "P", "a", "s", "s", NL>> \in Seq({"P", "a", "s", NL})
  OBVIOUS
<1> QED BY <1>1, <1>2, <1>3, <1>4, <1>5, <1>6, <1>7, <1>8, <1>9 DEF Sequence

\* What the loader prints at each of its calls.
LEMMA LoaderTexts ==
  /\ \A v \in BOOLEAN : Printing(Puts(Text(v)))
  /\ \A a, b, c : Printing(Puts(IdWrongText \o Hex(a, 2) \o Hex(b, 2) \o Hex(c, 2) \o <<NL>>))
  /\ \A a : Printing(Puts(VerifyText \o Hex(a, 4) \o <<NL>>))
  /\ \A a : Printing(Puts(<<NL, "F", "a", "i", "l">> \o Hex(a, 8) \o <<NL>>))
  /\ \A i : Printing(Progress(i))
  /\ Printing(Puts(Banner)) /\ Printing(Puts(Done \o Running))
  /\ Printing(Puts(<<"T", "e", "s", "t", NL, "F", "i", "l", "l", NL>>))
  /\ Printing(Puts(<<NL, "C", "h", "k", NL>>))
  /\ \A v \in BOOLEAN : Printing(Puts(<<NL, "P", "a", "s", "s", NL>> \o Text(v)))
<1>1. \A s, t : Sequence(s) /\ Sequence(t) => Sequence(s \o t)
  BY Joined
<1>2. \A v : Sequence(Hex(v, 2)) /\ Sequence(Hex(v, 4)) /\ Sequence(Hex(v, 8))
  BY HexText
<1>3. \A v \in BOOLEAN : Sequence(Text(v))
  BY TextTuples DEF Text
<1>4. \A a, b, c : Sequence(IdWrongText \o Hex(a, 2) \o Hex(b, 2) \o Hex(c, 2) \o <<NL>>)
  <2> TAKE a, b, c
  <2>1. Sequence(IdWrongText \o Hex(a, 2))
    BY <1>1, <1>2, TextTuples
  <2>2. Sequence(IdWrongText \o Hex(a, 2) \o Hex(b, 2))
    BY <1>1, <1>2, <2>1
  <2>3. Sequence(IdWrongText \o Hex(a, 2) \o Hex(b, 2) \o Hex(c, 2))
    BY <1>1, <1>2, <2>2
  <2> QED BY <1>1, <2>3, TextTuples
<1>5. \A a : Sequence(VerifyText \o Hex(a, 4) \o <<NL>>)
  <2> TAKE a
  <2>1. Sequence(VerifyText \o Hex(a, 4))
    BY <1>1, <1>2, TextTuples
  <2> QED BY <1>1, <2>1, TextTuples
<1>6. \A a : Sequence(<<NL, "F", "a", "i", "l">> \o Hex(a, 8) \o <<NL>>)
  <2> TAKE a
  <2>1. PICK s : s = <<NL, "F", "a", "i", "l">>
    OBVIOUS
  <2>2. Sequence(s \o Hex(a, 8))
    BY <1>1, <1>2, <2>1, TextTuples
  <2>3. Sequence(s \o Hex(a, 8) \o <<NL>>)
    BY <1>1, <2>2, TextTuples
  <2> QED BY <2>1, <2>3
<1>7. \A i : Sequence(<<CR>> \o Dec(i + 1))
  BY <1>1, DecText, TextTuples
<1>8. Sequence(Done \o Running)
  BY <1>1, TextTuples
<1>9. \A v \in BOOLEAN : Sequence(<<NL, "P", "a", "s", "s", NL>> \o Text(v))
  <2>1. PICK s : s = <<NL, "P", "a", "s", "s", NL>>
    OBVIOUS
  <2>2. Sequence(s)
    BY <2>1, TextTuples
  <2>3. \A v \in BOOLEAN : Sequence(s \o Text(v))
    BY <1>1, <1>3, <2>2
  <2> QED BY <2>1, <2>3
<1>10. \A s : Sequence(s) => Printing(Puts(s))
  BY Printed
<1>11. \A i : Printing(Progress(i))
  BY <1>7, <1>10 DEF Progress
<1>12. /\ \A v \in BOOLEAN : Printing(Puts(Text(v)))
       /\ \A v \in BOOLEAN : Printing(Puts(<<NL, "P", "a", "s", "s", NL>> \o Text(v)))
  BY <1>3, <1>9, <1>10, Zenon
<1>13. /\ \A a, b, c : Printing(Puts(IdWrongText \o Hex(a, 2) \o Hex(b, 2) \o Hex(c, 2) \o <<NL>>))
       /\ \A a : Printing(Puts(VerifyText \o Hex(a, 4) \o <<NL>>))
       /\ \A a : Printing(Puts(<<NL, "F", "a", "i", "l">> \o Hex(a, 8) \o <<NL>>))
  BY <1>4, <1>5, <1>6, <1>10, Zenon
<1>14. /\ Printing(Puts(Banner)) /\ Printing(Puts(Done \o Running))
       /\ Printing(Puts(<<"T", "e", "s", "t", NL, "F", "i", "l", "l", NL>>))
       /\ Printing(Puts(<<NL, "C", "h", "k", NL>>))
  BY <1>8, <1>10, TextTuples, Zenon
<1> QED BY <1>11, <1>12, <1>13, <1>14

\* A call that neither resets the board nor reads a word, and leaves no clock in the script.
LEMMA GoesOn ==
  ASSUME NEW p, NEW q, NEW ops, Goes(p, q, ops), LoaderInv, p \notin {"reset", "word"}, q # "reset",
         OfLoader(ops), Unclocked(ops)
  PROVE  LoaderInv'
<1>1. pc = p /\ script = <<>> /\ pc' = q /\ script' = ops /\ clk' = clk
  BY DEF Goes, flashVars
<1>2. ~Up(script)
  <2>1. Len(script) = 0
    BY <1>1, Nothing
  <2> QED BY <2>1 DEF Up
<1>3. clk = 1
  BY <1>1, <1>2 DEF LoaderInv, EndsUp
<1> QED BY <1>1, <1>3 DEF LoaderInv, EndsUp

\* The same at the end of a word, where the read command has left the clock up.
LEMMA GoesOnFromWord ==
  ASSUME NEW q, NEW ops, Goes("word", q, ops), clk = 1, q # "reset", OfLoader(ops), Unclocked(ops)
  PROVE  LoaderInv'
BY DEF Goes, flashVars, LoaderInv, EndsUp

\* A call that only prints.
LEMMA Prints ==
  ASSUME NEW p, NEW q, NEW ops, Goes(p, q, ops), LoaderInv, p \notin {"reset", "word"}, q # "reset",
         Printing(ops)
  PROVE  LoaderInv'
BY GoesOn, Unclocking

\* The read command of a block starts with the clock up.
LEMMA BeginBlockReads ==
  ASSUME LoaderInv, BeginBlock, pc \in Loads, block \in 0 .. Blocks
  PROVE  LoaderInv' /\ Reading' /\ word' = 0 /\ block' = block /\ block \in 0 .. Blocks - 1
<1>1. /\ pc = "block" /\ script = <<>> /\ pc' = "word" /\ script' = ReadCommand(Base) \o Recv(4)
      /\ bits' = <<>> /\ clk' = clk /\ block < Blocks /\ word' = 0 /\ block' = block
  BY DEF BeginBlock, Goes, flashVars, Base
<1>2. block \in 0 .. Blocks - 1
  BY <1>1, BootAssumption
<1>3. Base \in Nat
  BY <1>2, Addresses
<1>4. Base' = Base
  BY <1>1 DEF Base
<1>5. /\ OfLoader(script') /\ Len(script') = 197
      /\ \A i \in 1 .. 197 : script'[i] = ReadOp(Base, i)
  <2>1. PICK s : s = ReadCommand(Base) \o Recv(4)
    OBVIOUS
  <2>2. OfLoader(s) /\ Len(s) = 197 /\ \A i \in 1 .. 197 : s[i] = ReadOp(Base, i)
    <3>1. PICK a \in Nat : a = Base
      BY <1>3
    <3>2. ReadsFrom(ReadCommand(a) \o Recv(4), a)
      BY ReadScript
    <3>3. ReadsFrom(s, Base)
      BY <2>1, <3>1, <3>2, Zenon
    <3> QED BY <3>3 DEF ReadsFrom
  <2> QED BY <1>1, <2>1, <2>2
<1>6. clk = 1
  <2>1. ~Up(script)
    <3>1. Len(script) = 0
      BY <1>1, Nothing
    <3> QED BY <3>1 DEF Up
  <2> QED BY <1>1, <2>1 DEF LoaderInv, EndsUp
<1>7. Reading'
  <2>1. PICK d \in 0 .. 197 : d = 0
    OBVIOUS
  <2>2. Len(script') = 197 - d /\ \A i \in 1 .. 197 - d : script'[i] = ReadOp(Base', d + i)
    BY <1>4, <1>5, <2>1
  <2>3. ~(d \in 1 .. 100) /\ ~(d >= 101)
    BY <2>1
  <2>4. clk' = 1 /\ bits' = <<>> /\ word' = 0
    BY <1>1, <1>6
  <2> QED BY <2>2, <2>3, <2>4, ZenonT(60) DEF Reading
<1> QED BY <1>1, <1>2, <1>5, <1>7 DEF LoaderInv

\* After a word the next one of the block is received, or the flash is deselected.
LEMMA WordGoesOn ==
  ASSUME Goes("word", AfterWord, Onward), Advance, LoaderInv, Reading,
         block \in 0 .. Blocks - 1, word \in 0 .. Words - 1
  PROVE  /\ LoaderInv'
         /\ AfterWord = "word" => /\ Reading' /\ block' = block /\ word' = word + 1
                                  /\ word' \in 0 .. Words - 1
         /\ AfterWord = "block" => word + 1 = Words /\ block' = block + 1 /\ block' \in 0 .. Blocks
         /\ AfterWord \in {"word", "block"} /\ pc' = AfterWord
<1>1. Blocks \in Nat \ {0} /\ Words \in Nat \ {0} /\ block \in Nat /\ word \in Nat
  BY BootAssumption
<1>2. /\ script = <<>> /\ pc' = AfterWord /\ script' = Onward /\ bits' = <<>>
      /\ csn' = csn /\ clk' = clk /\ clocks' = clocks /\ head' = head
  BY DEF Goes, flashVars
<1>3. csn = 0 /\ clk = 1 /\ clocks = 32 + 32 * (word + 1) /\ head = ReadWord + Base
  BY <1>2, WordRead DEF LoaderInv, OfLoader
<1>4. CASE word + 1 < Words
  <2>1. AfterWord = "word" /\ script' = Recv(4) /\ word' = word + 1 /\ block' = block
    BY <1>2, <1>4 DEF AfterWord, Onward, Advance
  <2>2. Sequence(script') /\ Len(script') = 96 /\ \A i \in 1 .. 96 : script'[i] = RecvOp(i)
    <3>1. Sequence(Recv(4)) /\ Len(Recv(4)) = 24 * 4 /\ \A i \in 1 .. 24 * 4 : Recv(4)[i] = RecvOp(i)
      BY RecvIs
    <3> QED BY <2>1, <3>1
  <2>3. Base' = Base
    BY <2>1 DEF Base
  <2>4. Receiving(0)'
    <3>1. (0 + 1) \div 3 = 0 /\ 0 % 3 = 0 /\ 0 \div 3 = 0
      OBVIOUS
    <3>2. csn' = 0 /\ clk' = 1 /\ head' = ReadWord + Base'
      BY <1>2, <1>3, <2>3
    <3>3. clocks' = 32 + 32 * word' + ((0 + 1) \div 3)
      BY <1>1, <1>2, <1>3, <2>1, <3>1
    <3>4. Sequence(bits') /\ Len(bits') = 0
      BY <1>2, Nothing
    <3>5. \A i \in 1 .. 0 : FALSE
      OBVIOUS
    <3> QED BY <3>1, <3>2, <3>3, <3>4, <3>5 DEF Receiving
  <2>5. Reading'
    <3>1. PICK d \in 0 .. 197 : d = 101 /\ d - 101 = 0
      OBVIOUS
    <3>2. Len(script') = 197 - d
      BY <2>2, <3>1
    <3>3. \A i \in 1 .. 197 - d : script'[i] = ReadOp(Base', d + i)
      <4> TAKE i \in 1 .. 197 - d
      <4>1. i \in 1 .. 96 /\ d + i # 1 /\ ~(d + i <= 101) /\ (d + i) - 101 = i
        BY <3>1
      <4> QED BY <2>2, <4>1 DEF ReadOp
    <3>4. ~(d \in 1 .. 100) /\ d # 0
      BY <3>1
    <3> QED BY <2>4, <3>1, <3>2, <3>3, <3>4 DEF Reading
  <2>6. OfLoader(script')
    BY <2>2, PinOps DEF OfLoader
  <2>7. LoaderInv'
    BY <1>2, <2>1, <2>6 DEF LoaderInv
  <2>8. word' \in 0 .. Words - 1
    BY <1>1, <1>4, <2>1
  <2> QED BY <1>2, <2>1, <2>5, <2>7, <2>8
<1>5. CASE ~(word + 1 < Words)
  <2>1. AfterWord = "block" /\ Onward = SpiDeselect /\ block' = block + 1
    BY <1>2, <1>5 DEF AfterWord, Onward, Advance
  <2>2. OfLoader(SpiDeselect) /\ Unclocked(SpiDeselect)
    BY Unclocking DEF SpiDeselect
  <2>3. LoaderInv'
    BY <1>3, <2>1, <2>2, GoesOnFromWord
  <2>4. word + 1 = Words /\ block' \in 0 .. Blocks
    BY <1>1, <1>5, <2>1
  <2> QED BY <1>2, <2>1, <2>3, <2>4
<1> QED BY <1>4, <1>5

-----------------------------------------------------------------------------
(* The invariant is inductive.                                                *)

LEMMA FirmwareStarts == Init => FirmwareInv
<1> SUFFICES ASSUME Init PROVE FirmwareInv
  OBVIOUS
<1>1. pc = "reset" /\ script = <<>> /\ verify = FALSE
  BY DEF Init, BootInit
<1>2. OfLoader(script)
  <2>1. Sequence(script) /\ Len(script) = 0
    BY <1>1, Nothing
  <2> QED BY <2>1 DEF OfLoader
<1> QED BY <1>1, <1>2 DEF FirmwareInv, LoaderInv, CopyInv, Loads, Plays

\* The reset raises the clock before anything else.
LEMMA BootKeeps ==
  ASSUME FirmwareInv, Boot
  PROVE  FirmwareInv'
<1>1. pc = "reset" /\ pc' = "id" /\ verify' = verify
  BY DEF Boot, Goes
<1>2. PICK s1 : s1 = <<<<"clk", 1>>, <<"csn", 1>>>>
  OBVIOUS
<1>3. OfLoader(s1) /\ Up(s1)
  <2>1. s1 \in Seq({<<"clk", 1>>, <<"csn", 1>>}) /\ Len(s1) = 2
    BY <1>2
  <2>2. s1[1] = <<"clk", 1>> /\ s1[2] = <<"csn", 1>>
    BY <1>2
  <2>3. s1[1][1] = "clk" /\ s1[2][1] = "csn"
    BY <2>2
  <2>4. \A i \in 1 .. 2 : i = 1 \/ i = 2
    OBVIOUS
  <2>5. OfLoader(s1)
    BY <2>1, <2>3, <2>4 DEF OfLoader, Sequence, LoaderOps
  <2>6. \A j \in 1 + 1 .. 2 : s1[j][1] # "clk"
    BY <2>3
  <2> QED BY <2>1, <2>2, <2>5, <2>6 DEF Up
<1>4. PICK s2 : s2 = s1 \o Puts(Banner) \o SpiSelect
  OBVIOUS
<1>5. OfLoader(s2)
  <2>1. OfLoader(Puts(Banner)) /\ OfLoader(SpiSelect)
    BY LoaderTexts, Unclocking DEF SpiSelect
  <2>2. OfLoader(s1 \o Puts(Banner))
    BY <1>3, <2>1, JoinedScripts
  <2> QED BY <1>4, <2>1, <2>2, JoinedScripts
<1>6. PICK b : b = SendByte(ReadId)
  OBVIOUS
<1>7. OfLoader(b)
  <2>1. Sequence(b) /\ Len(b) = 25 /\ \A i \in 1 .. 25 : b[i] = SendOp(ReadId, i)
    BY <1>6, SendByteIs
  <2> QED BY <2>1, PinOps DEF OfLoader
<1>8. PICK r : r = Recv(3)
  OBVIOUS
<1>9. OfLoader(r) /\ Up(r)
  <2>1. Sequence(r) /\ Len(r) = 72 /\ \A i \in 1 .. 72 : r[i] = RecvOp(i)
    <3>1. Sequence(Recv(3)) /\ Len(Recv(3)) = 24 * 3 /\ \A i \in 1 .. 24 * 3 : Recv(3)[i] = RecvOp(i)
      BY RecvIs
    <3> QED BY <1>8, <3>1
  <2>2. OfLoader(r)
    BY <2>1, PinOps DEF OfLoader
  <2>3. 71 % 3 = 2 /\ 72 % 3 = 0
    OBVIOUS
  <2>4. r[71] = <<"clk", 1>> /\ r[72] = <<"di">>
    BY <2>1, <2>3 DEF RecvOp
  <2>5. \A j \in 71 + 1 .. 72 : r[j][1] # "clk"
    BY <2>4
  <2>6. 71 \in 1 .. 72
    OBVIOUS
  <2> QED BY <2>1, <2>2, <2>4, <2>5, <2>6 DEF Up
<1>10. OfLoader(SpiDeselect) /\ Unclocked(SpiDeselect)
  BY Unclocking DEF SpiDeselect
<1>11. OfLoader(s2 \o b)
  BY <1>5, <1>7, JoinedScripts
<1>12. OfLoader(s2 \o b \o r) /\ Up(s2 \o b \o r)
  BY <1>9, <1>11, JoinedScripts
<1>13. OfLoader(s2 \o b \o r \o SpiDeselect) /\ Up(s2 \o b \o r \o SpiDeselect)
  BY <1>10, <1>12, JoinedScripts
<1>14. script' = s2 \o b \o r \o SpiDeselect
  BY <1>2, <1>4, <1>6, <1>8 DEF Boot, Goes
<1>15. LoaderInv'
  BY <1>1, <1>13, <1>14 DEF LoaderInv, EndsUp
<1> QED BY <1>1, <1>15 DEF FirmwareInv, CopyInv, Loads, Plays

\* The calls that leave the flash alone: what they print, and the counters of the copy.
LEMMA PrintingCallsKeep ==
  ASSUME FirmwareInv, pc \in Loads,
         IdFails \/ IdPasses \/ Loaded \/ TestStart \/ Fill \/ Filled \/ Check \/ CheckFails \/ TestPasses
  PROVE  FirmwareInv'
<1>1. LoaderInv /\ verify \in BOOLEAN
  BY DEF FirmwareInv
<1>2. Blocks \in Nat \ {0} /\ Words \in Nat \ {0} /\ 0 * Words = 0
  BY BootAssumption
<1> DEFINE toLoad == Puts(Text(FALSE))
<1> DEFINE toVerify == Puts(Text(TRUE))
<1> DEFINE passed == <<NL, "P", "a", "s", "s", NL>> \o Text(FALSE)
<1>13. Printing(toLoad) /\ Printing(toVerify) /\ Printing(Puts(passed))
  <2>1. FALSE \in BOOLEAN /\ TRUE \in BOOLEAN
    OBVIOUS
  <2> QED BY <2>1, LoaderTexts, Zenon
<1>3. CASE IdFails
  <2>1. LoaderInv'
    BY <1>1, <1>3, Prints, LoaderTexts DEF IdFails
  <2> QED BY <1>1, <1>3, <2>1 DEF IdFails, Goes, FirmwareInv, CopyInv, Loads, Plays
<1>4. CASE IdPasses
  <2>1. LoaderInv'
    <3>1. Goes("id", "block", toLoad)
      BY <1>4 DEF IdPasses
    <3> HIDE DEF toLoad
    <3> QED BY <1>1, <1>13, <3>1, Prints
  <2>2. pc' = "block" /\ verify' \in BOOLEAN /\ ~verify' /\ block' = 0
    BY <1>4 DEF IdPasses, StartCopy, Goes
  <2> QED BY <1>2, <2>1, <2>2 DEF FirmwareInv, CopyInv, Loads, Plays
<1>5. CASE Loaded
  <2>1. LoaderInv'
    <3>1. Goes("block", "block", toVerify)
      BY <1>5 DEF Loaded
    <3> HIDE DEF toVerify
    <3> QED BY <1>1, <1>13, <3>1, Prints
  <2>2. pc' = "block" /\ verify' = TRUE /\ block' = 0
    BY <1>5 DEF Loaded, StartCopy, Goes
  <2>3. Compared(block * Words)'
    BY <1>2, <2>2 DEF Compared
  <2> QED BY <1>2, <2>1, <2>2, <2>3 DEF FirmwareInv, CopyInv, Loads, Plays
<1>6. CASE TestStart
  <2>1. LoaderInv'
    BY <1>1, <1>6, Prints, LoaderTexts DEF TestStart
  <2> QED BY <1>1, <1>6, <2>1 DEF TestStart, Goes, FirmwareInv, CopyInv, Loads, Plays
<1>7. CASE Fill
  <2>1. LoaderInv'
    BY <1>1, <1>7, Prints, LoaderTexts DEF Fill
  <2> QED BY <1>1, <1>7, <2>1 DEF Fill, Goes, FirmwareInv, CopyInv, Loads, Plays
<1>8. CASE Filled
  <2>1. LoaderInv'
    BY <1>1, <1>8, Prints, LoaderTexts DEF Filled
  <2> QED BY <1>1, <1>8, <2>1 DEF Filled, Goes, FirmwareInv, CopyInv, Loads, Plays
<1>9. CASE Check
  <2>1. LoaderInv'
    BY <1>1, <1>9, Prints, LoaderTexts DEF Check
  <2> QED BY <1>1, <1>9, <2>1 DEF Check, Goes, FirmwareInv, CopyInv, Loads, Plays
<1>10. CASE CheckFails
  <2>1. LoaderInv'
    BY <1>1, <1>10, Prints, LoaderTexts DEF CheckFails
  <2> QED BY <1>1, <1>10, <2>1 DEF CheckFails, Goes, FirmwareInv, CopyInv, Loads, Plays
<1>11. CASE TestPasses
  <2>1. LoaderInv'
    <3>1. Goes("check", "block", Puts(passed))
      BY <1>11 DEF TestPasses
    <3> HIDE DEF passed
    <3> QED BY <1>1, <1>13, <3>1, Prints
  <2>2. pc' = "block" /\ verify' \in BOOLEAN /\ ~verify' /\ block' = 0
    BY <1>11 DEF TestPasses, StartCopy, Goes
  <2> QED BY <1>2, <2>1, <2>2 DEF FirmwareInv, CopyInv, Loads, Plays
<1> QED BY <1>3, <1>4, <1>5, <1>6, <1>7, <1>8, <1>9, <1>10, <1>11

\* The calls of the copy: a word is compared with what the flash holds at its place.
LEMMA CopyCallsKeep ==
  ASSUME FirmwareInv, pc \in Loads, BeginBlock \/ LoadWord \/ VerifyWord \/ VerifyFails \/ Verified
  PROVE  FirmwareInv'
<1>1. LoaderInv /\ CopyInv /\ verify \in BOOLEAN
  BY DEF FirmwareInv
<1>2. Blocks \in Nat \ {0} /\ Words \in Nat \ {0}
  BY BootAssumption
<1>3. CASE BeginBlock
  <2>1. pc = "block" /\ pc' = "word" /\ ddr' = ddr /\ verify' = verify
    BY <1>3 DEF BeginBlock, Goes
  <2>2. block \in 0 .. Blocks /\ (verify => Compared(block * Words))
    BY <1>1, <2>1 DEF CopyInv
  <2>3. LoaderInv' /\ Reading' /\ word' = 0 /\ block' = block /\ block \in 0 .. Blocks - 1
    BY <1>1, <1>3, <2>2, BeginBlockReads
  <2>4. block' * Words + word' = block * Words
    BY <1>2, <2>3
  <2>5. (verify => Compared(block * Words + word))'
    BY <2>1, <2>2, <2>4 DEF Compared, ImageWord, FlashByte
  <2>6. word' \in 0 .. Words - 1
    BY <1>2, <2>3
  <2> QED BY <1>1, <2>1, <2>3, <2>5, <2>6 DEF FirmwareInv, CopyInv, Loads, Plays
<1>4. CASE LoadWord \/ VerifyWord
  <2>1. /\ pc = "word" /\ Goes("word", AfterWord, Onward) /\ Advance /\ verify' = verify
        /\ script = <<>>
    BY <1>4 DEF LoadWord, VerifyWord, Goes
  <2>2. /\ block \in 0 .. Blocks - 1 /\ word \in 0 .. Words - 1 /\ Reading
        /\ verify => Compared(block * Words + word)
    BY <1>1, <2>1 DEF CopyInv
  <2>3. /\ LoaderInv'
        /\ AfterWord = "word" => /\ Reading' /\ block' = block /\ word' = word + 1
                                 /\ word' \in 0 .. Words - 1
        /\ AfterWord = "block" => word + 1 = Words /\ block' = block + 1 /\ block' \in 0 .. Blocks
        /\ AfterWord \in {"word", "block"} /\ pc' = AfterWord
    BY <1>1, <2>1, <2>2, WordGoesOn
  <2>4. verify => \A x \in 0 .. block * Words + word : ddr'[x] = ImageWord(x)
    <3> SUFFICES ASSUME verify PROVE \A x \in 0 .. block * Words + word : ddr'[x] = ImageWord(x)
      OBVIOUS
    <3>1. ddr' = ddr /\ ReceivedWord = ddr[DdrPtr]
      BY <1>4 DEF LoadWord, VerifyWord
    <3>2. ddr[DdrPtr] = ImageWord(DdrPtr)
      BY <1>1, <2>1, <2>2, <3>1, WordRead DEF LoaderInv, OfLoader
    <3>3. PICK n \in Nat : n = block * Words + word
      BY <1>2, <2>2
    <3>4. \A x \in 0 .. n - 1 : ddr[x] = ImageWord(x)
      BY <2>2, <3>3 DEF Compared
    <3>5. \A x \in 0 .. n : ddr[x] = ImageWord(x)
      BY <3>2, <3>3, <3>4 DEF DdrPtr
    <3> QED BY <3>1, <3>3, <3>5
  <2>5. CASE AfterWord = "word"
    <3>1. block' * Words + word' = block * Words + word + 1
      BY <1>2, <2>2, <2>3, <2>5
    <3>2. (verify => Compared(block * Words + word))'
      <4>1. (block' * Words + word') - 1 = block * Words + word
        BY <1>2, <2>2, <3>1
      <4> QED BY <2>1, <2>4, <4>1 DEF Compared, ImageWord, FlashByte
    <3>3. block' \in 0 .. Blocks - 1 /\ word' \in 0 .. Words - 1 /\ Reading' /\ pc' = "word"
      BY <2>2, <2>3, <2>5
    <3> QED BY <1>1, <2>1, <2>3, <3>2, <3>3 DEF FirmwareInv, CopyInv, Loads, Plays
  <2>6. CASE AfterWord = "block"
    <3>1. block' * Words = block * Words + word + 1
      <4>1. block \in Nat /\ block' = block + 1 /\ word + 1 = Words
        BY <2>2, <2>3, <2>6
      <4>2. (block + 1) * Words = block * Words + Words
        BY <1>2, <4>1
      <4>3. block * Words \in Nat /\ word \in Nat
        BY <1>2, <2>2, <4>1
      <4> QED BY <4>1, <4>2, <4>3
    <3>2. (verify => Compared(block * Words))'
      <4>1. block' * Words - 1 = block * Words + word
        BY <1>2, <2>2, <3>1
      <4> QED BY <2>1, <2>4, <4>1 DEF Compared, ImageWord, FlashByte
    <3>3. block' \in 0 .. Blocks /\ pc' = "block"
      BY <2>3, <2>6
    <3> QED BY <1>1, <2>1, <2>3, <3>2, <3>3 DEF FirmwareInv, CopyInv, Loads, Plays
  <2> QED BY <2>3, <2>5, <2>6
<1>5. CASE VerifyFails
  <2>1. /\ pc = "word" /\ script = <<>> /\ pc' = "memtest" /\ verify' = verify
    BY <1>5 DEF VerifyFails, Goes
  <2>2. block \in 0 .. Blocks - 1 /\ word \in 0 .. Words - 1 /\ Reading
    BY <1>1, <2>1 DEF CopyInv
  <2>3. clk = 1
    BY <1>1, <2>1, <2>2, WordRead DEF LoaderInv, OfLoader
  <2>4. PICK s : s = Puts(VerifyText \o Hex(AppBase + 4 * DdrPtr, 4) \o <<NL>>)
    OBVIOUS
  <2>5. OfLoader(s) /\ Unclocked(s)
    BY <2>4, LoaderTexts, Unclocking
  <2>6. OfLoader(SpiDeselect) /\ Unclocked(SpiDeselect)
    BY Unclocking DEF SpiDeselect
  <2>7. OfLoader(s \o SpiDeselect) /\ Unclocked(s \o SpiDeselect)
    BY <2>5, <2>6, JoinedScripts
  <2>8. Goes("word", "memtest", s \o SpiDeselect)
    BY <1>5, <2>4 DEF VerifyFails
  <2>9. LoaderInv'
    BY <2>3, <2>7, <2>8, GoesOnFromWord
  <2> QED BY <1>1, <2>1, <2>9 DEF FirmwareInv, CopyInv, Loads, Plays
<1>6. CASE Verified
  <2>1. /\ pc = "block" /\ pc' = "jump" /\ verify' = verify /\ verify /\ block = Blocks /\ ddr' = ddr
    BY <1>6 DEF Verified, Goes
  <2>2. Compared(Blocks * Words)
    BY <1>1, <2>1 DEF CopyInv
  <2>3. Compared(Blocks * Words)'
    BY <2>1, <2>2 DEF Compared, ImageWord, FlashByte
  <2>4. LoaderInv'
    BY <1>1, <1>6, Prints, LoaderTexts DEF Verified
  <2> QED BY <1>1, <2>1, <2>3, <2>4 DEF FirmwareInv, CopyInv, Loads, Plays
<1> QED BY <1>3, <1>4, <1>5, <1>6

\* An operation of a script of the loader.
LEMMA LoaderStepKeeps ==
  ASSUME FirmwareInv, pc \in Loads, LoaderStep
  PROVE  FirmwareInv'
<1>1. LoaderInv /\ CopyInv /\ verify \in BOOLEAN
  BY DEF FirmwareInv
<1>2. /\ pc' = pc /\ verify' = verify /\ block' = block /\ word' = word /\ ddr' = ddr
      /\ script # <<>> /\ pc # "reset"
  BY <1>1 DEF LoaderStep, LoaderInv
<1>3. OfLoader(script) /\ OfLoader(script')
  BY <1>1, LoaderPins DEF LoaderInv
<1>4. pc # "word" => EndsUp'
  BY <1>1, <1>2, <1>3, StaysUp DEF LoaderInv
<1>5. LoaderInv'
  BY <1>2, <1>3, <1>4 DEF LoaderInv
<1>6. \A n : Compared(n)' <=> Compared(n)
  BY <1>2 DEF Compared, ImageWord, FlashByte
<1>7. CopyInv'
  <2>1. pc = "word" => Reading'
    BY <1>1, <1>3, ReadingStep DEF CopyInv
  <2> QED BY <1>1, <1>2, <1>6, <2>1 DEF CopyInv
<1>8. pc \in {"jump"} \cup Plays => Compared(Blocks * Words)
  BY DEF FirmwareInv
<1> QED BY <1>1, <1>2, <1>5, <1>6, <1>7, <1>8 DEF FirmwareInv

\* Once the program runs, no step moves the memory, or goes back to the loader.
LEMMA PlayerKeeps ==
  ASSUME FirmwareInv, pc \in Plays, [Next]_firmwareVars
  PROVE  FirmwareInv'
<1>1. pc \notin Loads /\ Compared(Blocks * Words) /\ verify \in BOOLEAN
  BY DEF FirmwareInv, Loads, Plays
<1>2. ~LoaderCall
  <2>1. ~Boot /\ ~IdFails /\ ~IdPasses /\ ~BeginBlock /\ ~LoadWord
    BY <1>1 DEF Boot, IdFails, IdPasses, BeginBlock, LoadWord, Goes, Loads
  <2>2. ~VerifyWord /\ ~VerifyFails /\ ~Loaded /\ ~Verified /\ ~TestStart
    BY <1>1 DEF VerifyWord, VerifyFails, Loaded, Verified, TestStart, Goes, Loads
  <2>3. ~Fill /\ ~Filled /\ ~Check /\ ~CheckFails /\ ~TestPasses
    BY <1>1 DEF Fill, Filled, Check, CheckFails, TestPasses, Goes, Loads
  <2> QED BY <2>1, <2>2, <2>3 DEF LoaderCall
<1>3. pc' \in Plays /\ ddr' = ddr /\ verify' = verify
  <2>1. CASE Load
    BY <1>2, <2>1 DEF Load, LoaderStep
  <2>2. CASE Log \/ Wire
    BY <2>2 DEF Log, Wire, bootVars
  <2>3. CASE PlayerMain
    BY <1>1, <2>3 DEF PlayerMain, Calls, Loads
  <2>4. CASE AudioInit \/ AudioWrite \/ AudioFails \/ AudioDone
    BY <2>4 DEF AudioInit, AudioWrite, AudioFails, AudioDone, Calls, Plays
  <2>5. CASE Play \/ PlayerEnds
    BY <2>5 DEF Play, PlayerEnds, Calls, Plays
  <2>6. CASE Spin \/ UNCHANGED firmwareVars
    BY <2>6 DEF Spin, firmwareVars, bootVars
  <2> QED BY <2>1, <2>2, <2>3, <2>4, <2>5, <2>6 DEF Next
<1>4. Compared(Blocks * Words)'
  BY <1>1, <1>3 DEF Compared, ImageWord, FlashByte
<1>5. pc' \notin Loads
  BY <1>3 DEF Loads, Plays
<1> QED BY <1>1, <1>3, <1>4, <1>5 DEF FirmwareInv

LEMMA FirmwareStep == FirmwareInv /\ [Next]_firmwareVars => FirmwareInv'
<1> SUFFICES ASSUME FirmwareInv, [Next]_firmwareVars PROVE FirmwareInv'
  OBVIOUS
<1>1. CASE pc \in Plays
  BY <1>1, PlayerKeeps
<1>2. CASE pc \in Loads
  <2>1. LoaderInv
    BY <1>2 DEF FirmwareInv
  <2>2. script # <<>> => Head(script)[1] \in LoaderOps
    <3>1. Sequence(script) /\ \A i \in 1 .. Len(script) : script[i][1] \in LoaderOps
      BY <2>1 DEF LoaderInv, OfLoader
    <3> QED BY <3>1, TailOf
  <2>3. CASE LoaderStep
    BY <1>2, <2>3, LoaderStepKeeps
  <2>4. CASE LoaderCall
    BY <1>2, <2>4, BootKeeps, PrintingCallsKeep, CopyCallsKeep DEF LoaderCall
  <2>5. ~Log /\ ~Wire
    BY <2>2 DEF Log, Wire, LoaderOps, I2cOps
  <2>6. CASE PlayerMain
    <3>1. pc = "jump" /\ pc' = "audio" /\ verify' = verify /\ ddr' = ddr
      BY <2>6 DEF PlayerMain, Calls
    <3>2. Compared(Blocks * Words)'
      BY <3>1 DEF FirmwareInv, Compared, ImageWord, FlashByte
    <3> QED BY <3>1, <3>2 DEF FirmwareInv, Loads, Plays
  <2>7. ~AudioInit /\ ~AudioWrite /\ ~AudioFails /\ ~AudioDone /\ ~Play /\ ~PlayerEnds
    BY <1>2 DEF AudioInit, AudioWrite, AudioFails, AudioDone, Play, PlayerEnds, Calls, Loads
  <2>8. CASE Spin \/ UNCHANGED firmwareVars
    <3>1. UNCHANGED firmwareVars
      BY <2>8 DEF Spin
    <3>2. /\ UNCHANGED <<pc, bits, verify, block, word, ddr>> /\ script' = script
          /\ UNCHANGED <<csn, clk, mosi, miso, clocks, head>>
      BY <3>1 DEF firmwareVars, bootVars, flashVars
    <3>3. Base' = Base /\ \A i : ImageBit(i)' = ImageBit(i)
      BY <3>2 DEF Base, ImageBit, BitOf, FlashByte
    <3>4. /\ \A q, s : Sending(q, s)' <=> Sending(q, s)
          /\ \A u : Receiving(u)' <=> Receiving(u)
      BY <3>2, <3>3 DEF Sending, Receiving
    <3>5. Reading => Reading'
      <4> SUFFICES ASSUME Reading PROVE Reading'
        OBVIOUS
      <4>1. PICK d \in 0 .. 197 :
              /\ Len(script) = 197 - d
              /\ \A i \in 1 .. 197 - d : script[i] = ReadOp(Base, d + i)
              /\ d = 0 => clk = 1 /\ bits = <<>> /\ word = 0
              /\ d \in 1 .. 100 => Sending((d - 1) \div 25, (d - 1) % 25)
              /\ d >= 101 => Receiving(d - 101)
        BY DEF Reading
      <4>2. /\ Len(script') = 197 - d /\ \A i \in 1 .. 197 - d : script'[i] = ReadOp(Base', d + i)
            /\ d = 0 => clk' = 1 /\ bits' = <<>> /\ word' = 0
        BY <3>2, <3>3, <4>1
      <4>3. /\ d \in 1 .. 100 => Sending((d - 1) \div 25, (d - 1) % 25)'
            /\ d >= 101 => Receiving(d - 101)'
        BY <3>4, <4>1
      <4> QED BY <4>1, <4>2, <4>3 DEF Reading
    <3>6. \A n : Compared(n)' <=> Compared(n)
      BY <3>2 DEF Compared, ImageWord, FlashByte
    <3>7. LoaderInv' /\ CopyInv'
      BY <1>2, <3>2, <3>5, <3>6 DEF FirmwareInv, LoaderInv, CopyInv, EndsUp
    <3> QED BY <3>2, <3>6, <3>7 DEF FirmwareInv
  <2> QED BY <2>3, <2>4, <2>5, <2>6, <2>7, <2>8 DEF Next, Load
<1> QED BY <1>1, <1>2 DEF FirmwareInv

\* Whatever the LPDDR has stored wrongly and however often the copy was repeated, the CPU
\* jumps to the image of the flash, every byte at its place (bootloader.c 240-335).
THEOREM FirmwareRunsTheImage == Spec => []RunsVerifiedImage
<1>1. FirmwareInv => RunsVerifiedImage
  BY DEF FirmwareInv, Compared, RunsVerifiedImage
<1> QED BY <1>1, FirmwareStarts, FirmwareStep, PTL DEF Spec

-----------------------------------------------------------------------------
(* The set-up of the codec: the invariant.                                    *)

OfPlayer(s) == Sequence(s) /\ \A i \in 1 .. Len(s) : s[i][1] \in {"alog", "elog"}

\* The register that is being written; v is its two bytes, q counts the bytes of the transfer.
Register == RegisterBytes(AudioRegisters[entry - 1])
SentByte(v, q) == IF q = 0 THEN DeviceAddress ELSE IF q = 1 THEN v[1] ELSE v[2]
BytesTaken(v, q) ==
  IF q = 0 THEN <<>>
  ELSE IF q = 1 THEN <<DeviceAddress>>
  ELSE IF q = 2 THEN <<DeviceAddress, v[1]>> ELSE <<DeviceAddress, v[1], v[2]>>

\* The first j bits of a byte.
Top(b, j) == b \div 2 ^ (8 - j)

\* Operation p of a write: 4 of the start, 28 of each byte, 3 of the stop.
WayOut(q) ==
  AckClock \o (IF q = 0 THEN I2cStop \o Elog(NoAckOnAdr) ELSE Elog(NoDataByte) \o I2cStop)
TxOp(v, q, s) ==
  IF s = 25 THEN Sda(1)
  ELSE IF s = 26 THEN <<"ack", WayOut(q)>>
  ELSE IF s > 26 THEN Scl(28 - s)
  ELSE IF s % 3 = 1 THEN Sda(Bit(SentByte(v, q), s \div 3)) ELSE Scl((s % 3) \div 2)
WriteOp(v, p) ==
  IF p <= 4 THEN I2cStart[p]
  ELSE IF p <= 88 THEN TxOp(v, (p - 5) \div 28, ((p - 5) % 28) + 1)
  ELSE I2cStop[p - 88]

\* The device receives a byte, has taken it, or has refused it and waits for the stop.
Listening(n, byte, bytes) ==
  [on |-> TRUE, n |-> n, byte |-> byte, bytes |-> bytes, sending |-> FALSE, pull |-> FALSE,
   stretch |-> 0]
Taking(n, byte, bytes) ==
  [on |-> TRUE, n |-> n, byte |-> byte, bytes |-> bytes, sending |-> FALSE, pull |-> TRUE,
   stretch |-> 0]
Refusing(v, q) ==
  [on |-> FALSE, n |-> 8, byte |-> SentByte(v, q), bytes |-> BytesTaken(v, q), sending |-> FALSE,
   pull |-> FALSE, stretch |-> 0]

\* s operations of byte q are done; the stop begins like a fourth byte.
InByte(v, q, s) ==
  LET b == SentByte(v, q)
      n == (s + 1) \div 3
  IN /\ s <= 23 => /\ device = Listening(n, Top(b, n), BytesTaken(v, q))
                   /\ scl = IF s % 3 = 2 THEN 1 ELSE 0
                   /\ s % 3 # 0 => sda = Bit(b, s \div 3)
     /\ s \in {24, 25} => /\ device \in {Refusing(v, q), Taking(8, b, BytesTaken(v, q + 1))}
                          /\ scl = 0
     /\ s = 26 => device = Taking(8, b, BytesTaken(v, q + 1)) /\ scl = 0
     /\ s = 27 => device = Taking(9, b, BytesTaken(v, q + 1)) /\ scl = 1
     /\ s >= 25 => sda = 1

AtRest == scl = 1 /\ sda = 1 /\ device = Idle

\* p operations of the write are done.
WriteAt(v, p) ==
  /\ p <= 2 => AtRest
  /\ p = 3 => scl = 1 /\ sda = 0 /\ device = Listening(0, 0, <<>>)
  /\ p \in 4 .. 88 => InByte(v, (p - 4) \div 28, (p - 4) % 28)
  /\ p = 89 => scl = 0 /\ sda = 0 /\ device = Listening(0, 0, BytesTaken(v, 3))
  /\ p = 90 => scl = 1 /\ sda = 0 /\ device = Listening(1, 0, BytesTaken(v, 3))
  /\ p = 91 => AtRest

\* The device has the first n registers.
Whole(n) ==
  /\ Sequence(taken) /\ Len(taken) = n
  /\ \A i \in 1 .. n : taken[i] = RegisterBytes(AudioRegisters[i])
\* It has those before n, and of n what there was before byte q was refused.
CutAt(n, q) ==
  /\ Sequence(taken) /\ Len(taken) = (IF q = 0 THEN n - 1 ELSE n)
  /\ \A i \in 1 .. n - 1 : taken[i] = RegisterBytes(AudioRegisters[i])
  /\ q # 0 => taken[n] = Tail(BytesTaken(RegisterBytes(AudioRegisters[n]), q))

Fresh == entry = 1 /\ Whole(0) /\ acked /\ device = Idle /\ scl \in {0, 1} /\ sda \in {0, 1}

SettingUp ==
  /\ Fresh
  /\ \/ script = I2cSetup
     \/ script = <<Scl(1)>> /\ sda = 1
     \/ script = <<>> /\ AtRest

\* The registers that are whole after p operations of a write.
Reached(p) == Whole(IF p = 91 THEN entry - 1 ELSE entry - 2)
Writing ==
  /\ entry \in 2 .. 25 /\ acked
  /\ \E v \in {Register}, p \in 0 .. 91 :
       /\ Sequence(script) /\ Len(script) = 91 - p
       /\ \A i \in 1 .. 91 - p : script[i] = WriteOp(v, p + i)
       /\ WriteAt(v, p) /\ Reached(p)

\* Of the operations of the way out, r are done, w of them on the lines.
OnLines(q, r) ==
  IF q = 0 THEN (IF r < 5 THEN r ELSE 5) ELSE IF r <= 2 THEN r ELSE IF r <= 6 THEN 2 ELSE r - 4
Leaving(v, q, w) ==
  /\ scl = (IF w \in {1, 4, 5} THEN 1 ELSE 0) /\ sda = (IF w \in {3, 4} THEN 0 ELSE 1)
  /\ w < 5 => device = Refusing(v, q) /\ Whole(entry - 2)
  /\ w = 5 => device = Idle /\ CutAt(entry - 1, q)
GivingUp ==
  /\ entry \in 2 .. 25 /\ ~acked
  /\ \E v \in {Register}, q \in 0 .. 2, r \in 0 .. 9 :
       /\ Sequence(script) /\ Len(script) = 9 - r
       /\ \A i \in 1 .. 9 - r : script[i] = WayOut(q)[r + i]
       /\ Leaving(v, q, OnLines(q, r))

SetUp ==
  /\ AtRest /\ entry \in 2 .. 25
  /\ acked => entry = 25 /\ Whole(24)
  /\ ~acked => \E q \in 0 .. 2 : CutAt(entry - 1, q)

CodecInv ==
  /\ pc \in Loads \cup Plays /\ acked \in BOOLEAN
  /\ pc \in Loads \cup {"audio"} => Fresh
  /\ pc = "codec" => SettingUp \/ Writing \/ GivingUp
  /\ pc \in {"play", "over", "spin"} => SetUp
  /\ pc \in Plays \ {"codec"} => OfPlayer(script)

-----------------------------------------------------------------------------
(* The operations of a write.                                                 *)

\* The table has 24 registers of seven address bits and nine bits of data.
AudioEntry == (0 .. 127) \X (0 .. 511)
TwoBytes == (0 .. 255) \X (0 .. 255)
LEMMA AudioTable ==
  DOMAIN AudioRegisters = 1 .. 24 /\ Len(AudioRegisters) = 24 /\ AudioRegisters \in Seq(AudioEntry)
<1>1. AudioRegisters \in Seq((0 .. 127) \X (0 .. 511)) /\ Len(AudioRegisters) = 24
  BY SMTT(40) DEF AudioRegisters
<1>2. DOMAIN AudioRegisters = 1 .. 24
  BY <1>1, LenProperties
<1> QED BY <1>1, <1>2 DEF AudioEntry

LEMMA RegistersAre ==
  ASSUME NEW i \in 1 .. 24
  PROVE  RegisterBytes(AudioRegisters[i]) \in TwoBytes
<1>1. PICK e : e = AudioRegisters[i]
  OBVIOUS
<1>2. e \in AudioEntry
  BY <1>1, AudioTable, ElementOfSeq
<1>3. PICK a \in 0 .. 127, d \in 0 .. 511 : a = e[1] /\ d = e[2]
  BY <1>2 DEF AudioEntry
<1>4. 2 * a + d \div 256 \in 0 .. 255 /\ d % 256 \in 0 .. 255
  OBVIOUS
<1>5. RegisterBytes(e) \in TwoBytes
  BY <1>3, <1>4 DEF RegisterBytes, TwoBytes
<1> QED BY <1>1, <1>5

LEMMA SentBytesAre ==
  ASSUME NEW v \in TwoBytes, NEW q
  PROVE  SentByte(v, q) \in 0 .. 255
BY DeviceAssumption DEF SentByte, TwoBytes

\* The bits of a byte are sent from the highest on.
LEMMA TopBits ==
  ASSUME NEW b \in 0 .. 255
  PROVE  /\ \A j \in 0 .. 7 : Bit(b, j) \in {0, 1} /\ Top(b, j + 1) = 2 * Top(b, j) + Bit(b, j)
         /\ Top(b, 0) = 0 /\ Top(b, 8) = b /\ \A j \in 0 .. 7 : Top(b, j) \in Nat
<1>1. \A k : Bit(b, k) = BitOf(b, k)
  BY DEF Bit, BitOf
<1>2. Top(b, 0) = b \div 256 /\ Top(b, 1) = b \div 128 /\ Top(b, 2) = b \div 64
  BY DEF Top
<1>3. Top(b, 3) = b \div 32 /\ Top(b, 4) = b \div 16 /\ Top(b, 5) = b \div 8
  BY DEF Top
<1>4. Top(b, 6) = b \div 4 /\ Top(b, 7) = b \div 2 /\ Top(b, 8) = b \div 1
  BY DEF Top
<1>5. b \div 256 = 0 /\ b \div 1 = b
  OBVIOUS
<1>6. \A j \in 0 .. 7 : j = 0 \/ j = 1 \/ j = 2 \/ j = 3 \/ j = 4 \/ j = 5 \/ j = 6 \/ j = 7
  OBVIOUS
<1>7. \A k \in 0 .. 7 : Bit(b, k) \in {0, 1}
  BY <1>1, Halves
<1>8. /\ Top(b, 1) = 2 * Top(b, 0) + BitOf(b, 0) /\ Top(b, 2) = 2 * Top(b, 1) + BitOf(b, 1)
      /\ Top(b, 3) = 2 * Top(b, 2) + BitOf(b, 2) /\ Top(b, 4) = 2 * Top(b, 3) + BitOf(b, 3)
  <2>1. Top(b, 1) = 2 * Top(b, 0) + BitOf(b, 0)
    BY <1>2, <1>5, Halves
  <2>2. Top(b, 2) = 2 * Top(b, 1) + BitOf(b, 1)
    BY <1>2, Halves
  <2>3. Top(b, 3) = 2 * Top(b, 2) + BitOf(b, 2)
    BY <1>2, <1>3, Halves
  <2>4. Top(b, 4) = 2 * Top(b, 3) + BitOf(b, 3)
    BY <1>3, Halves
  <2> QED BY <2>1, <2>2, <2>3, <2>4
<1>9. /\ Top(b, 5) = 2 * Top(b, 4) + BitOf(b, 4) /\ Top(b, 6) = 2 * Top(b, 5) + BitOf(b, 5)
      /\ Top(b, 7) = 2 * Top(b, 6) + BitOf(b, 6) /\ Top(b, 8) = 2 * Top(b, 7) + BitOf(b, 7)
  BY <1>3, <1>4, <1>5, Halves
<1>10. \A j \in 0 .. 7 : Top(b, j + 1) = 2 * Top(b, j) + BitOf(b, j)
  BY <1>6, <1>8, <1>9
<1>11. \A i \in {1, 2, 4, 8, 16, 32, 64, 128, 256} : b \div i \in Nat
  OBVIOUS
<1>12. \A j \in 0 .. 7 : Top(b, j) \in Nat
  BY <1>2, <1>3, <1>4, <1>6, <1>11
<1> QED BY <1>1, <1>2, <1>4, <1>5, <1>7, <1>10, <1>12

\* An appended element.
LEMMA AppendIs ==
  ASSUME NEW S, NEW s \in Seq(S), NEW x \in S, NEW u \in Seq(S), Len(u) = Len(s) + 1,
         \A i \in 1 .. Len(s) : u[i] = s[i], u[Len(s) + 1] = x
  PROVE  Append(s, x) = u
<1>1. Append(s, x) \in Seq(S) /\ Len(Append(s, x)) = Len(s) + 1
  BY AppendProperties
<1>2. \A i \in 1 .. Len(s) : Append(s, x)[i] = s[i]
  BY AppendProperties
<1>3. Append(s, x)[Len(s) + 1] = x
  BY AppendProperties
<1>4. PICK t \in Seq(S) : t = Append(s, x)
  BY <1>1
<1>5. Len(s) \in Nat /\ Len(t) = Len(s) + 1
  BY <1>1, <1>4, LenProperties
<1>6. \A i \in 1 .. Len(t) : t[i] = u[i]
  <2> TAKE i \in 1 .. Len(t)
  <2>1. i \in 1 .. Len(s) \/ i = Len(s) + 1
    BY <1>5
  <2> QED BY <1>2, <1>3, <1>4, <2>1
<1>7. t = u
  BY <1>5, <1>6, SeqEqual
<1> QED BY <1>4, <1>7

\* A byte that is taken joins those before it.
LEMMA TakenNext ==
  ASSUME NEW v, NEW q \in 0 .. 2
  PROVE  Append(BytesTaken(v, q), SentByte(v, q)) = BytesTaken(v, q + 1)
<1>1. PICK a, b, c : a = DeviceAddress /\ b = v[1] /\ c = v[2]
  OBVIOUS
<1>2. PICK S : S = {a, b, c}
  OBVIOUS
<1>3. CASE q = 0
  BY <1>3 DEF BytesTaken, SentByte
<1>4. CASE q = 1
  <2>1. <<a>> \in Seq(S) /\ Len(<<a>>) = 1 /\ <<a>>[1] = a /\ b \in S
    BY <1>2
  <2>2. <<a, b>> \in Seq(S) /\ Len(<<a, b>>) = 2 /\ <<a, b>>[1] = a /\ <<a, b>>[2] = b
    BY <1>2
  <2>3. PICK s \in Seq(S), u \in Seq(S) : s = <<a>> /\ u = <<a, b>>
    BY <2>1, <2>2
  <2>4. Len(u) = Len(s) + 1 /\ (\A i \in 1 .. Len(s) : u[i] = s[i]) /\ u[Len(s) + 1] = b
    BY <2>1, <2>2, <2>3
  <2>5. Append(s, b) = u
    BY <2>1, <2>4, AppendIs
  <2>6. s = BytesTaken(v, q) /\ b = SentByte(v, q) /\ u = BytesTaken(v, q + 1)
    BY <1>1, <1>4, <2>3 DEF BytesTaken, SentByte
  <2> QED BY <2>5, <2>6, Zenon
<1>5. CASE q = 2
  <2>1. <<a, b>> \in Seq(S) /\ Len(<<a, b>>) = 2 /\ <<a, b>>[1] = a /\ <<a, b>>[2] = b /\ c \in S
    BY <1>2
  <2>2. /\ <<a, b, c>> \in Seq(S) /\ Len(<<a, b, c>>) = 3
        /\ <<a, b, c>>[1] = a /\ <<a, b, c>>[2] = b /\ <<a, b, c>>[3] = c
    BY <1>2
  <2>3. PICK s \in Seq(S), u \in Seq(S) : s = <<a, b>> /\ u = <<a, b, c>>
    BY <2>1, <2>2
  <2>4. Len(u) = Len(s) + 1 /\ (\A i \in 1 .. Len(s) : u[i] = s[i]) /\ u[Len(s) + 1] = c
    BY <2>1, <2>2, <2>3
  <2>5. Append(s, c) = u
    BY <2>1, <2>4, AppendIs
  <2>6. s = BytesTaken(v, q) /\ c = SentByte(v, q) /\ u = BytesTaken(v, q + 1)
    BY <1>1, <1>5, <2>3 DEF BytesTaken, SentByte
  <2> QED BY <2>5, <2>6, Zenon
<1> QED BY <1>3, <1>4, <1>5

\* One more transfer.
LEMMA Appended ==
  ASSUME NEW s, Sequence(s), NEW x
  PROVE  /\ Sequence(Append(s, x)) /\ Len(s) \in Nat /\ Len(Append(s, x)) = Len(s) + 1
         /\ \A i \in 1 .. Len(s) : Append(s, x)[i] = s[i]
         /\ Append(s, x)[Len(s) + 1] = x
<1>1. PICK S : s \in Seq(S)
  BY DEF Sequence
<1>2. s \in Seq(S \cup {x}) /\ x \in S \cup {x}
  BY <1>1, SeqMonotonic
<1>3. /\ Append(s, x) \in Seq(S \cup {x}) /\ Len(Append(s, x)) = Len(s) + 1
      /\ \A i \in 1 .. Len(s) : Append(s, x)[i] = s[i] /\ Append(s, x)[Len(s) + 1] = x
  BY <1>2, AppendProperties
<1>4. Len(s) \in Nat /\ Append(s, x)[Len(s) + 1] = x
  BY <1>2, AppendProperties, LenProperties
<1> QED BY <1>3, <1>4 DEF Sequence

LEMMA Elogged ==
  /\ Sequence(Elog(NoAckOnAdr)) /\ Len(Elog(NoAckOnAdr)) = 4
  /\ Sequence(Elog(NoDataByte)) /\ Len(Elog(NoDataByte)) = 4
  /\ \A i \in 1 .. 4 : Elog(NoAckOnAdr)[i][1] = "elog" /\ Elog(NoDataByte)[i][1] = "elog"
<1>1. DOMAIN NoAckOnAdr = 1 .. 4 /\ DOMAIN NoDataByte = 1 .. 4
  BY DEF NoAckOnAdr, NoDataByte
<1>2. PICK f : f = Elog(NoAckOnAdr)
  OBVIOUS
<1>3. PICK g : g = Elog(NoDataByte)
  OBVIOUS
<1>4. f = [i \in 1 .. 4 |-> f[i]] /\ \A i \in 1 .. 4 : f[i] = <<"elog", NoAckOnAdr[i]>>
  BY <1>1, <1>2 DEF Elog
<1>5. g = [i \in 1 .. 4 |-> g[i]] /\ \A i \in 1 .. 4 : g[i] = <<"elog", NoDataByte[i]>>
  BY <1>1, <1>3 DEF Elog
<1>6. Sequence(f) /\ Len(f) = 4 /\ Sequence(g) /\ Len(g) = 4
  BY <1>4, <1>5, Listed
<1> QED BY <1>2, <1>3, <1>4, <1>5, <1>6

LEMMA StartAndStop ==
  /\ Sequence(I2cStart) /\ Len(I2cStart) = 4 /\ I2cStart[1] = Sda(1) /\ I2cStart[2] = Scl(1)
  /\ I2cStart[3] = Sda(0) /\ I2cStart[4] = Scl(0)
  /\ Sequence(I2cStop) /\ Len(I2cStop) = 3 /\ I2cStop[1] = Sda(0) /\ I2cStop[2] = Scl(1)
  /\ I2cStop[3] = Sda(1)
  /\ Sequence(AckClock) /\ Len(AckClock) = 2 /\ AckClock[1] = Scl(1) /\ AckClock[2] = Scl(0)
<1>1. I2cStart \in Seq({Sda(1), Scl(1), Sda(0), Scl(0)}) /\ Len(I2cStart) = 4
  BY DEF I2cStart
<1>2. I2cStop \in Seq({Sda(0), Scl(1), Sda(1)}) /\ Len(I2cStop) = 3
  BY DEF I2cStop
<1>3. AckClock \in Seq({Scl(1), Scl(0)}) /\ Len(AckClock) = 2
  BY DEF AckClock
<1>4. /\ I2cStart[1] = Sda(1) /\ I2cStart[2] = Scl(1) /\ I2cStart[3] = Sda(0) /\ I2cStart[4] = Scl(0)
      /\ I2cStop[1] = Sda(0) /\ I2cStop[2] = Scl(1) /\ I2cStop[3] = Sda(1)
      /\ AckClock[1] = Scl(1) /\ AckClock[2] = Scl(0)
  BY DEF I2cStart, I2cStop, AckClock
<1> QED BY <1>1, <1>2, <1>3, <1>4 DEF Sequence

\* The way out of a refused byte, operation by operation.
LEMMA WayOutIs ==
  ASSUME NEW q \in 0 .. 2
  PROVE  /\ Sequence(WayOut(q)) /\ Len(WayOut(q)) = 9
         /\ WayOut(q)[1] = Scl(1) /\ WayOut(q)[2] = Scl(0)
         /\ q = 0 => /\ WayOut(q)[3] = Sda(0) /\ WayOut(q)[4] = Scl(1) /\ WayOut(q)[5] = Sda(1)
                     /\ \A i \in 6 .. 9 : WayOut(q)[i][1] = "elog"
                     /\ \A i \in 6 .. 9 : WayOut(q)[i] = Elog(NoAckOnAdr)[i - 5]
         /\ q # 0 => /\ WayOut(q)[7] = Sda(0) /\ WayOut(q)[8] = Scl(1) /\ WayOut(q)[9] = Sda(1)
                     /\ \A i \in 3 .. 6 : WayOut(q)[i][1] = "elog"
                     /\ \A i \in 3 .. 6 : WayOut(q)[i] = Elog(NoDataByte)[i - 2]
<1>1. PICK a : a = AckClock
  OBVIOUS
<1>2. PICK z : z = I2cStop
  OBVIOUS
<1>3. CASE q = 0
  <2>1. PICK e : e = Elog(NoAckOnAdr)
    OBVIOUS
  <2>2. PICK t : t = z \o e
    OBVIOUS
  <2>3. Sequence(z) /\ Sequence(e) /\ Sequence(a) /\ Len(z) = 3 /\ Len(e) = 4 /\ Len(a) = 2
    BY <1>1, <1>2, <2>1, Elogged, StartAndStop
  <2>4. /\ Sequence(t) /\ Len(t) = Len(z) + Len(e) /\ \A i \in 1 .. Len(z) : t[i] = z[i]
        /\ \A i \in 1 .. Len(e) : t[Len(z) + i] = e[i]
    <3>1. Sequence(z) /\ Sequence(e)
      BY <2>3
    <3> QED BY <2>2, <3>1, Joined
  <2>5. PICK w : w = a \o t
    OBVIOUS
  <2>6. /\ Sequence(w) /\ Len(w) = Len(a) + Len(t) /\ \A i \in 1 .. Len(a) : w[i] = a[i]
        /\ \A i \in 1 .. Len(t) : w[Len(a) + i] = t[i]
    <3>1. Sequence(a) /\ Sequence(t)
      BY <2>3, <2>4
    <3> QED BY <2>5, <3>1, Joined
  <2>7. w = WayOut(q)
    BY <1>1, <1>2, <1>3, <2>1, <2>2, <2>5 DEF WayOut
  <2>8. Len(t) = 7 /\ Len(w) = 9
    BY <2>3, <2>4, <2>6
  <2>9. w[1] = a[1] /\ w[2] = a[2] /\ w[3] = z[1] /\ w[4] = z[2] /\ w[5] = z[3]
    <3>1. w[2 + 1] = t[1] /\ w[2 + 2] = t[2] /\ w[2 + 3] = t[3] /\ w[1] = a[1] /\ w[2] = a[2]
      BY <2>3, <2>6, <2>8
    <3> QED BY <2>3, <2>4, <3>1
  <2>10. \A i \in 6 .. 9 : w[i] = e[i - 5]
    <3> TAKE i \in 6 .. 9
    <3>1. i - 2 \in 1 .. Len(t) /\ 2 + (i - 2) = i /\ i - 5 \in 1 .. Len(e) /\ 3 + (i - 5) = i - 2
      BY <2>3, <2>8
    <3> QED BY <2>3, <2>4, <2>6, <3>1
  <2>11. \A i \in 6 .. 9 : w[i][1] = "elog"
    BY <2>1, <2>10, Elogged
  <2>12. \A i \in 6 .. 9 : WayOut(q)[i] = Elog(NoAckOnAdr)[i - 5]
    BY <2>1, <2>7, <2>10
  <2> QED BY <1>1, <1>2, <1>3, <2>6, <2>7, <2>8, <2>9, <2>11, <2>12, StartAndStop
<1>4. CASE q # 0
  <2>1. PICK e : e = Elog(NoDataByte)
    OBVIOUS
  <2>2. PICK t : t = e \o z
    OBVIOUS
  <2>3. Sequence(z) /\ Sequence(e) /\ Sequence(a) /\ Len(z) = 3 /\ Len(e) = 4 /\ Len(a) = 2
    BY <1>1, <1>2, <2>1, Elogged, StartAndStop
  <2>4. /\ Sequence(t) /\ Len(t) = Len(e) + Len(z) /\ \A i \in 1 .. Len(e) : t[i] = e[i]
        /\ \A i \in 1 .. Len(z) : t[Len(e) + i] = z[i]
    <3>1. Sequence(z) /\ Sequence(e)
      BY <2>3
    <3> QED BY <2>2, <3>1, Joined
  <2>5. PICK w : w = a \o t
    OBVIOUS
  <2>6. /\ Sequence(w) /\ Len(w) = Len(a) + Len(t) /\ \A i \in 1 .. Len(a) : w[i] = a[i]
        /\ \A i \in 1 .. Len(t) : w[Len(a) + i] = t[i]
    <3>1. Sequence(a) /\ Sequence(t)
      BY <2>3, <2>4
    <3> QED BY <2>5, <3>1, Joined
  <2>7. w = WayOut(q)
    BY <1>1, <1>2, <1>4, <2>1, <2>2, <2>5 DEF WayOut
  <2>8. Len(t) = 7 /\ Len(w) = 9
    BY <2>3, <2>4, <2>6
  <2>9. w[1] = a[1] /\ w[2] = a[2] /\ w[7] = z[1] /\ w[8] = z[2] /\ w[9] = z[3]
    <3>1. w[2 + 5] = t[5] /\ w[2 + 6] = t[6] /\ w[2 + 7] = t[7] /\ w[1] = a[1] /\ w[2] = a[2]
      BY <2>3, <2>6, <2>8
    <3>2. t[4 + 1] = z[1] /\ t[4 + 2] = z[2] /\ t[4 + 3] = z[3]
      BY <2>3, <2>4
    <3> QED BY <3>1, <3>2
  <2>10. \A i \in 3 .. 6 : w[i] = e[i - 2]
    <3> TAKE i \in 3 .. 6
    <3>1. i - 2 \in 1 .. Len(t) /\ 2 + (i - 2) = i /\ i - 2 \in 1 .. Len(e)
      BY <2>3, <2>8
    <3> QED BY <2>3, <2>4, <2>6, <3>1
  <2>11. \A i \in 3 .. 6 : w[i][1] = "elog"
    BY <2>1, <2>10, Elogged
  <2>12. \A i \in 3 .. 6 : WayOut(q)[i] = Elog(NoDataByte)[i - 2]
    BY <2>1, <2>7, <2>10
  <2> QED BY <1>1, <1>2, <1>4, <2>6, <2>7, <2>8, <2>9, <2>11, <2>12, StartAndStop
<1> QED BY <1>3, <1>4

-----------------------------------------------------------------------------
(* What an operation on the lines does.                                       *)

LEMMA SclOp ==
  ASSUME NEW v, Wire, Head(script) = Scl(v)
  PROVE  SetScl(v) /\ script' = Tail(script)
<1>1. Head(script)[1] = "scl" /\ Head(script)[2] = v
  BY DEF Scl
<1> QED BY <1>1 DEF Wire, I2cOp, I2cRest

LEMMA SdaOp ==
  ASSUME NEW v, Wire, Head(script) = Sda(v)
  PROVE  SetSda(v) /\ script' = Tail(script)
<1>1. Head(script)[1] = "sda" /\ Head(script)[2] = v
  BY DEF Sda
<1> QED BY <1>1 DEF Wire, I2cOp, I2cRest

LEMMA AckOp ==
  ASSUME NEW w, Wire, Head(script) = <<"ack", w>>
  PROVE  GetAck /\ script' = IF SdaLine = 1 THEN w ELSE Tail(script)
<1>1. Head(script)[1] = "ack" /\ Head(script)[2] = w
  OBVIOUS
<1> QED BY <1>1 DEF Wire, I2cOp, I2cRest

\* The lines with a device that listens, has refused or is idle.
LEMMA LineLevels ==
  /\ \A n, b, bytes : device = Listening(n, b, bytes) =>
       /\ SclLine = (IF scl = 0 THEN 0 ELSE 1) /\ SdaLine = (IF sda = 0 THEN 0 ELSE 1)
       /\ ~device.pull /\ device.bytes = bytes /\ ~device.sending
  /\ \A n, b, bytes : device = Taking(n, b, bytes) =>
       SclLine = (IF scl = 0 THEN 0 ELSE 1) /\ SdaLine = 0
  /\ \A v, q : device = Refusing(v, q) =>
       /\ SclLine = (IF scl = 0 THEN 0 ELSE 1) /\ SdaLine = (IF sda = 0 THEN 0 ELSE 1)
       /\ ~device.pull /\ device.bytes = BytesTaken(v, q) /\ ~device.sending
  /\ device = Idle =>
       /\ SclLine = (IF scl = 0 THEN 0 ELSE 1) /\ SdaLine = (IF sda = 0 THEN 0 ELSE 1)
       /\ ~device.pull /\ device.bytes = <<>> /\ ~device.sending
<1>1. \A n, b, bytes : device = Listening(n, b, bytes) =>
        device.stretch = 0 /\ ~device.pull /\ device.bytes = bytes /\ ~device.sending
  BY DEF Listening
<1>2. \A n, b, bytes : device = Taking(n, b, bytes) => device.stretch = 0 /\ device.pull
  BY DEF Taking
<1>3. \A v, q : device = Refusing(v, q) =>
        device.stretch = 0 /\ ~device.pull /\ device.bytes = BytesTaken(v, q) /\ ~device.sending
  BY DEF Refusing
<1>4. device = Idle =>
        device.stretch = 0 /\ ~device.pull /\ device.bytes = <<>> /\ ~device.sending
  BY DEF Idle
<1>5. ~(0 > 0)
  OBVIOUS
<1> QED BY <1>1, <1>2, <1>3, <1>4, <1>5 DEF SclLine, SdaLine, Line

\* The fields of the device, and how its reactions change them.
DeviceFields == {"on", "n", "byte", "bytes", "sending", "pull", "stretch"}
Counted(d, m, k) == [d EXCEPT !.n = m, !.byte = k]
Begun(d) == [d EXCEPT !.n = 0, !.byte = 0, !.pull = FALSE]
TakenIn(d, z) == [d EXCEPT !.pull = TRUE, !.bytes = z, !.sending = FALSE]
Let(d) == [d EXCEPT !.on = FALSE]
Called(d) == [d EXCEPT !.on = TRUE]
Released(d) == [d EXCEPT !.pull = FALSE]

LEMMA FieldNames ==
  \A i \in DeviceFields : \/ i = "on" \/ i = "n" \/ i = "byte" \/ i = "bytes" \/ i = "sending"
                           \/ i = "pull" \/ i = "stretch"
BY DEF DeviceFields

\* A clock is counted.
LEMMA CountedListening ==
  ASSUME NEW n, NEW b, NEW bytes, NEW m, NEW k
  PROVE  Counted(Listening(n, b, bytes), m, k) = Listening(m, k, bytes)
<1>1. PICK d : d = Listening(n, b, bytes)
  OBVIOUS
<1>2. d = [i \in DeviceFields |-> d[i]] /\ DOMAIN d = DeviceFields
  BY <1>1, Zenon DEF DeviceFields, Listening
<1>3. PICK f : f = Counted(d, m, k)
  OBVIOUS
<1>4. f = [i \in DeviceFields |-> IF i = "byte" THEN k ELSE IF i = "n" THEN m ELSE d[i]]
  BY <1>2, <1>3, Zenon DEF Counted
<1>5. PICK g : g = Listening(m, k, bytes)
  OBVIOUS
<1>6. g = [i \in DeviceFields |-> g[i]]
  BY <1>5, Zenon DEF DeviceFields, Listening
<1>7. /\ f.on = d.on /\ f.n = m /\ f.byte = k /\ f.bytes = d.bytes /\ f.sending = d.sending
      /\ f.pull = d.pull /\ f.stretch = d.stretch
  BY <1>4 DEF DeviceFields
<1>8. /\ d.on = TRUE /\ d.n = n /\ d.byte = b /\ d.bytes = bytes /\ d.sending = FALSE
      /\ d.pull = FALSE /\ d.stretch = 0
  BY <1>1 DEF Listening
<1>9. /\ g.on = TRUE /\ g.n = m /\ g.byte = k /\ g.bytes = bytes /\ g.sending = FALSE
      /\ g.pull = FALSE /\ g.stretch = 0
  BY <1>5 DEF Listening
<1>10. \A i \in DeviceFields : f[i] = g[i]
  BY <1>7, <1>8, <1>9, FieldNames
<1>11. f = g
  BY <1>4, <1>6, <1>10, Zenon
<1> QED BY <1>1, <1>3, <1>5, <1>11

\* So is the clock of the acknowledge.
LEMMA CountedTaking ==
  ASSUME NEW n, NEW b, NEW bytes, NEW m, NEW k
  PROVE  Counted(Taking(n, b, bytes), m, k) = Taking(m, k, bytes)
<1>1. PICK d : d = Taking(n, b, bytes)
  OBVIOUS
<1>2. d = [i \in DeviceFields |-> d[i]] /\ DOMAIN d = DeviceFields
  BY <1>1, Zenon DEF DeviceFields, Taking
<1>3. PICK f : f = Counted(d, m, k)
  OBVIOUS
<1>4. f = [i \in DeviceFields |-> IF i = "byte" THEN k ELSE IF i = "n" THEN m ELSE d[i]]
  BY <1>2, <1>3, Zenon DEF Counted
<1>5. PICK g : g = Taking(m, k, bytes)
  OBVIOUS
<1>6. g = [i \in DeviceFields |-> g[i]]
  BY <1>5, Zenon DEF DeviceFields, Taking
<1>7. /\ f.on = d.on /\ f.n = m /\ f.byte = k /\ f.bytes = d.bytes /\ f.sending = d.sending
      /\ f.pull = d.pull /\ f.stretch = d.stretch
  BY <1>4 DEF DeviceFields
<1>8. /\ d.on = TRUE /\ d.n = n /\ d.byte = b /\ d.bytes = bytes /\ d.sending = FALSE
      /\ d.pull = TRUE /\ d.stretch = 0
  BY <1>1 DEF Taking
<1>9. /\ g.on = TRUE /\ g.n = m /\ g.byte = k /\ g.bytes = bytes /\ g.sending = FALSE
      /\ g.pull = TRUE /\ g.stretch = 0
  BY <1>5 DEF Taking
<1>10. \A i \in DeviceFields : f[i] = g[i]
  BY <1>7, <1>8, <1>9, FieldNames
<1>11. f = g
  BY <1>4, <1>6, <1>10, Zenon
<1> QED BY <1>1, <1>3, <1>5, <1>11

\* The next byte begins.
LEMMA BegunIs ==
  ASSUME NEW n, NEW b, NEW bytes
  PROVE  Begun(Taking(n, b, bytes)) = Listening(0, 0, bytes)
<1>1. PICK d : d = Taking(n, b, bytes)
  OBVIOUS
<1>2. d = [i \in DeviceFields |-> d[i]] /\ DOMAIN d = DeviceFields
  BY <1>1, Zenon DEF DeviceFields, Taking
<1>3. PICK f : f = Begun(d)
  OBVIOUS
<1>4. f = [i \in DeviceFields |-> IF i = "pull" THEN FALSE ELSE IF i = "byte" THEN 0 ELSE IF i = "n" THEN 0 ELSE d[i]]
  BY <1>2, <1>3, Zenon DEF Begun
<1>5. PICK g : g = Listening(0, 0, bytes)
  OBVIOUS
<1>6. g = [i \in DeviceFields |-> g[i]]
  BY <1>5, Zenon DEF DeviceFields, Listening
<1>7. /\ f.on = d.on /\ f.n = 0 /\ f.byte = 0 /\ f.bytes = d.bytes /\ f.sending = d.sending
      /\ f.pull = FALSE /\ f.stretch = d.stretch
  BY <1>4 DEF DeviceFields
<1>8. /\ d.on = TRUE /\ d.n = n /\ d.byte = b /\ d.bytes = bytes /\ d.sending = FALSE
      /\ d.pull = TRUE /\ d.stretch = 0
  BY <1>1 DEF Taking
<1>9. /\ g.on = TRUE /\ g.n = 0 /\ g.byte = 0 /\ g.bytes = bytes /\ g.sending = FALSE
      /\ g.pull = FALSE /\ g.stretch = 0
  BY <1>5 DEF Listening
<1>10. \A i \in DeviceFields : f[i] = g[i]
  BY <1>7, <1>8, <1>9, FieldNames
<1>11. f = g
  BY <1>4, <1>6, <1>10, Zenon
<1> QED BY <1>1, <1>3, <1>5, <1>11

\* A byte is taken.
LEMMA TakenInIs ==
  ASSUME NEW n, NEW b, NEW bytes, NEW z
  PROVE  TakenIn(Listening(n, b, bytes), z) = Taking(n, b, z)
<1>1. PICK d : d = Listening(n, b, bytes)
  OBVIOUS
<1>2. d = [i \in DeviceFields |-> d[i]] /\ DOMAIN d = DeviceFields
  BY <1>1, Zenon DEF DeviceFields, Listening
<1>3. PICK f : f = TakenIn(d, z)
  OBVIOUS
<1>4. f = [i \in DeviceFields |-> IF i = "sending" THEN FALSE ELSE IF i = "bytes" THEN z ELSE IF i = "pull" THEN TRUE ELSE d[i]]
  BY <1>2, <1>3, Zenon DEF TakenIn
<1>5. PICK g : g = Taking(n, b, z)
  OBVIOUS
<1>6. g = [i \in DeviceFields |-> g[i]]
  BY <1>5, Zenon DEF DeviceFields, Taking
<1>7. /\ f.on = d.on /\ f.n = d.n /\ f.byte = d.byte /\ f.bytes = z /\ f.sending = FALSE
      /\ f.pull = TRUE /\ f.stretch = d.stretch
  BY <1>4 DEF DeviceFields
<1>8. /\ d.on = TRUE /\ d.n = n /\ d.byte = b /\ d.bytes = bytes /\ d.sending = FALSE
      /\ d.pull = FALSE /\ d.stretch = 0
  BY <1>1 DEF Listening
<1>9. /\ g.on = TRUE /\ g.n = n /\ g.byte = b /\ g.bytes = z /\ g.sending = FALSE
      /\ g.pull = TRUE /\ g.stretch = 0
  BY <1>5 DEF Taking
<1>10. \A i \in DeviceFields : f[i] = g[i]
  BY <1>7, <1>8, <1>9, FieldNames
<1>11. f = g
  BY <1>4, <1>6, <1>10, Zenon
<1> QED BY <1>1, <1>3, <1>5, <1>11

\* A byte is refused.
LEMMA LetIs ==
  ASSUME NEW v, NEW q
  PROVE  Let(Listening(8, SentByte(v, q), BytesTaken(v, q))) = Refusing(v, q)
<1>1. PICK d : d = Listening(8, SentByte(v, q), BytesTaken(v, q))
  OBVIOUS
<1>2. d = [i \in DeviceFields |-> d[i]] /\ DOMAIN d = DeviceFields
  BY <1>1, Zenon DEF DeviceFields, Listening
<1>3. PICK f : f = Let(d)
  OBVIOUS
<1>4. f = [i \in DeviceFields |-> IF i = "on" THEN FALSE ELSE d[i]]
  BY <1>2, <1>3, Zenon DEF Let
<1>5. PICK g : g = Refusing(v, q)
  OBVIOUS
<1>6. g = [i \in DeviceFields |-> g[i]]
  BY <1>5, Zenon DEF DeviceFields, Refusing
<1>7. /\ f.on = FALSE /\ f.n = d.n /\ f.byte = d.byte /\ f.bytes = d.bytes /\ f.sending = d.sending
      /\ f.pull = d.pull /\ f.stretch = d.stretch
  BY <1>4 DEF DeviceFields
<1>8. /\ d.on = TRUE /\ d.n = 8 /\ d.byte = SentByte(v, q) /\ d.bytes = BytesTaken(v, q) /\ d.sending = FALSE
      /\ d.pull = FALSE /\ d.stretch = 0
  BY <1>1 DEF Listening
<1>9. /\ g.on = FALSE /\ g.n = 8 /\ g.byte = SentByte(v, q) /\ g.bytes = BytesTaken(v, q) /\ g.sending = FALSE
      /\ g.pull = FALSE /\ g.stretch = 0
  BY <1>5 DEF Refusing
<1>10. \A i \in DeviceFields : f[i] = g[i]
  BY <1>7, <1>8, <1>9, FieldNames
<1>11. f = g
  BY <1>4, <1>6, <1>10, Zenon
<1> QED BY <1>1, <1>3, <1>5, <1>11

\* A start is seen.
LEMMA CalledIs ==
  Called(Idle) = Listening(0, 0, <<>>)
<1>1. PICK d : d = Idle
  OBVIOUS
<1>2. d = [i \in DeviceFields |-> d[i]] /\ DOMAIN d = DeviceFields
  BY <1>1, Zenon DEF DeviceFields, Idle
<1>3. PICK f : f = Called(d)
  OBVIOUS
<1>4. f = [i \in DeviceFields |-> IF i = "on" THEN TRUE ELSE d[i]]
  BY <1>2, <1>3, Zenon DEF Called
<1>5. PICK g : g = Listening(0, 0, <<>>)
  OBVIOUS
<1>6. g = [i \in DeviceFields |-> g[i]]
  BY <1>5, Zenon DEF DeviceFields, Listening
<1>7. /\ f.on = TRUE /\ f.n = d.n /\ f.byte = d.byte /\ f.bytes = d.bytes /\ f.sending = d.sending
      /\ f.pull = d.pull /\ f.stretch = d.stretch
  BY <1>4 DEF DeviceFields
<1>8. /\ d.on = FALSE /\ d.n = 0 /\ d.byte = 0 /\ d.bytes = <<>> /\ d.sending = FALSE
      /\ d.pull = FALSE /\ d.stretch = 0
  BY <1>1 DEF Idle
<1>9. /\ g.on = TRUE /\ g.n = 0 /\ g.byte = 0 /\ g.bytes = <<>> /\ g.sending = FALSE
      /\ g.pull = FALSE /\ g.stretch = 0
  BY <1>5 DEF Listening
<1>10. \A i \in DeviceFields : f[i] = g[i]
  BY <1>7, <1>8, <1>9, FieldNames
<1>11. f = g
  BY <1>4, <1>6, <1>10, Zenon
<1> QED BY <1>1, <1>3, <1>5, <1>11

\* A device that is not addressed pulls nothing.
LEMMA ReleasedRefusing ==
  ASSUME NEW v, NEW q
  PROVE  Released(Refusing(v, q)) = Refusing(v, q)
<1>1. PICK d : d = Refusing(v, q)
  OBVIOUS
<1>2. d = [i \in DeviceFields |-> d[i]] /\ DOMAIN d = DeviceFields
  BY <1>1, Zenon DEF DeviceFields, Refusing
<1>3. PICK f : f = Released(d)
  OBVIOUS
<1>4. f = [i \in DeviceFields |-> IF i = "pull" THEN FALSE ELSE d[i]]
  BY <1>2, <1>3, Zenon DEF Released
<1>5. PICK g : g = Refusing(v, q)
  OBVIOUS
<1>6. g = [i \in DeviceFields |-> g[i]]
  BY <1>5, Zenon DEF DeviceFields, Refusing
<1>7. /\ f.on = d.on /\ f.n = d.n /\ f.byte = d.byte /\ f.bytes = d.bytes /\ f.sending = d.sending
      /\ f.pull = FALSE /\ f.stretch = d.stretch
  BY <1>4 DEF DeviceFields
<1>8. /\ d.on = FALSE /\ d.n = 8 /\ d.byte = SentByte(v, q) /\ d.bytes = BytesTaken(v, q) /\ d.sending = FALSE
      /\ d.pull = FALSE /\ d.stretch = 0
  BY <1>1 DEF Refusing
<1>9. /\ g.on = FALSE /\ g.n = 8 /\ g.byte = SentByte(v, q) /\ g.bytes = BytesTaken(v, q) /\ g.sending = FALSE
      /\ g.pull = FALSE /\ g.stretch = 0
  BY <1>5 DEF Refusing
<1>10. \A i \in DeviceFields : f[i] = g[i]
  BY <1>7, <1>8, <1>9, FieldNames
<1>11. f = g
  BY <1>4, <1>6, <1>10, Zenon
<1> QED BY <1>1, <1>3, <1>5, <1>11

\* Nor does an idle one.
LEMMA ReleasedIdle ==
  Released(Idle) = Idle
<1>1. PICK d : d = Idle
  OBVIOUS
<1>2. d = [i \in DeviceFields |-> d[i]] /\ DOMAIN d = DeviceFields
  BY <1>1, Zenon DEF DeviceFields, Idle
<1>3. PICK f : f = Released(d)
  OBVIOUS
<1>4. f = [i \in DeviceFields |-> IF i = "pull" THEN FALSE ELSE d[i]]
  BY <1>2, <1>3, Zenon DEF Released
<1>5. PICK g : g = Idle
  OBVIOUS
<1>6. g = [i \in DeviceFields |-> g[i]]
  BY <1>5, Zenon DEF DeviceFields, Idle
<1>7. /\ f.on = d.on /\ f.n = d.n /\ f.byte = d.byte /\ f.bytes = d.bytes /\ f.sending = d.sending
      /\ f.pull = FALSE /\ f.stretch = d.stretch
  BY <1>4 DEF DeviceFields
<1>8. /\ d.on = FALSE /\ d.n = 0 /\ d.byte = 0 /\ d.bytes = <<>> /\ d.sending = FALSE
      /\ d.pull = FALSE /\ d.stretch = 0
  BY <1>1 DEF Idle
<1>9. /\ g.on = FALSE /\ g.n = 0 /\ g.byte = 0 /\ g.bytes = <<>> /\ g.sending = FALSE
      /\ g.pull = FALSE /\ g.stretch = 0
  BY <1>5 DEF Idle
<1>10. \A i \in DeviceFields : f[i] = g[i]
  BY <1>7, <1>8, <1>9, FieldNames
<1>11. f = g
  BY <1>4, <1>6, <1>10, Zenon
<1> QED BY <1>1, <1>3, <1>5, <1>11

LEMMA ClockRises ==
  ASSUME NEW n \in Nat, NEW b \in Nat, NEW bytes, device = Listening(n, b, bytes), n < 8,
         scl = 0, SetScl(1)
  PROVE  /\ scl' = 1 /\ sda' = sda /\ taken' = taken /\ acked' = acked
         /\ device' = Listening(n + 1, 2 * b + SdaLine, bytes)
<1>1. device.on = TRUE /\ device.sending = FALSE /\ device.n = n /\ device.byte = b
  BY DEF Listening
<1>2. PICK m, k : m = n + 1 /\ k = 2 * b + SdaLine
  OBVIOUS
<1>3. Clocked(device) = {Counted(device, m, k)}
  BY <1>1, <1>2 DEF Clocked, Counted
<1>4. device' \in Clocked(device) /\ scl' = 1 /\ UNCHANGED <<sda, taken, acked, rx>>
  BY DEF SetScl
<1>5. device' = Counted(Listening(n, b, bytes), m, k)
  BY <1>3, <1>4
<1>6. device' = Listening(m, k, bytes)
  BY <1>5, CountedListening
<1> QED BY <1>2, <1>4, <1>6

\* The clock of the acknowledge.
LEMMA AckRises ==
  ASSUME NEW b, NEW bytes, device = Taking(8, b, bytes), scl = 0, SetScl(1)
  PROVE  /\ scl' = 1 /\ sda' = sda /\ taken' = taken /\ acked' = acked
         /\ device' = Taking(9, b, bytes)
<1>1. device.on = TRUE /\ device.sending = FALSE /\ device.n = 8 /\ device.byte = b
  BY DEF Taking
<1>2. PICK m, k : m = 9 /\ k = b
  OBVIOUS
<1>3. ~(8 < 8) /\ 8 + 1 = m
  BY <1>2
<1>4. Clocked(device) = {Counted(device, m, k)}
  BY <1>1, <1>2, <1>3 DEF Clocked, Counted
<1>5. device' \in Clocked(device) /\ scl' = 1 /\ UNCHANGED <<sda, taken, acked, rx>>
  BY DEF SetScl
<1>6. Counted(Taking(8, b, bytes), m, k) = Taking(m, k, bytes)
  BY CountedTaking
<1> QED BY <1>2, <1>4, <1>5, <1>6

LEMMA AckFalls ==
  ASSUME NEW b, NEW bytes, device = Taking(9, b, bytes), scl = 1, SetScl(0)
  PROVE  /\ scl' = 0 /\ sda' = sda /\ taken' = taken /\ acked' = acked
         /\ device' = Listening(0, 0, bytes)
<1>1. device.on = TRUE /\ device.sending = FALSE /\ device.n = 9
  BY DEF Taking
<1>2. Fallen(device) = {Begun(device)}
  BY <1>1 DEF Fallen, Begun
<1>3. device' \in Fallen(device) /\ scl' = 0 /\ UNCHANGED <<sda, taken, acked, rx>>
  BY DEF SetScl
<1>4. Begun(Taking(9, b, bytes)) = Listening(0, 0, bytes)
  BY BegunIs
<1> QED BY <1>2, <1>3, <1>4

LEMMA ClockFalls ==
  ASSUME NEW n \in 0 .. 7, NEW b, NEW bytes, device = Listening(n, b, bytes), scl = 1, SetScl(0)
  PROVE  /\ scl' = 0 /\ sda' = sda /\ taken' = taken /\ acked' = acked /\ device' = device
<1>1. device.on = TRUE /\ device.sending = FALSE /\ device.n = n
  BY DEF Listening
<1>2. Fallen(device) = {device}
  BY <1>1 DEF Fallen
<1>3. device' \in Fallen(device) /\ scl' = 0 /\ UNCHANGED <<sda, taken, acked, rx>>
  BY DEF SetScl
<1> QED BY <1>2, <1>3

\* The eighth falling edge: the byte is taken or refused.
LEMMA ByteJudged ==
  ASSUME NEW v \in TwoBytes, NEW q \in 0 .. 2,
         device = Listening(8, SentByte(v, q), BytesTaken(v, q)), scl = 1, SetScl(0)
  PROVE  /\ scl' = 0 /\ sda' = sda /\ taken' = taken /\ acked' = acked
         /\ device' \in {Refusing(v, q), Taking(8, SentByte(v, q), BytesTaken(v, q + 1))}
<1>1. PICK b \in 0 .. 255 : b = SentByte(v, q)
  BY SentBytesAre
<1>2. PICK y : y = BytesTaken(v, q)
  OBVIOUS
<1>3. device = Listening(8, b, y)
  BY <1>1, <1>2
<1>4. /\ device.on = TRUE /\ device.sending = FALSE /\ device.n = 8
      /\ device.byte = b /\ device.bytes = y
  BY <1>3 DEF Listening
<1>5. Fallen(device) = Judged(device)
  BY <1>4 DEF Fallen
<1>6. device' \in Judged(device) /\ scl' = 0 /\ UNCHANGED <<sda, taken, acked, rx>>
  BY <1>5 DEF SetScl
<1>7. PICK z : z = Append(y, b)
  OBVIOUS
<1>8. z = BytesTaken(v, q + 1)
  BY <1>1, <1>2, <1>7, TakenNext
<1>9. Addressed(device) <=> q # 0
  <2>1. q = 0 => y = <<>>
    BY <1>2 DEF BytesTaken
  <2>2. q # 0 => y # <<>>
    <3>1. \A a, c : <<a>> # <<>> /\ <<a, c>> # <<>>
      OBVIOUS
    <3> QED BY <1>2, <3>1 DEF BytesTaken
  <2> QED BY <1>4, <2>1, <2>2 DEF Addressed
<1>10. ~Addressed(device) => ~(b % 2 = 1)
  <2> SUFFICES ASSUME ~Addressed(device) PROVE ~(b % 2 = 1)
    OBVIOUS
  <2>1. q = 0
    BY <1>9
  <2>2. b = DeviceAddress
    BY <1>1, <2>1 DEF SentByte
  <2>3. DeviceAddress \in 0 .. 254 /\ DeviceAddress % 2 = 0
    BY DeviceAssumption
  <2> QED BY <2>2, <2>3
<1>11. (IF Addressed(device) THEN device.sending ELSE device.byte % 2 = 1) = FALSE
  BY <1>4, <1>10
<1>12. Judged(device) \subseteq {Let(device), TakenIn(device, z)}
  BY <1>4, <1>7, <1>11 DEF Judged, Let, TakenIn
<1>13. Let(Listening(8, SentByte(v, q), BytesTaken(v, q))) = Refusing(v, q)
  BY LetIs
<1>14. TakenIn(Listening(8, b, y), z) = Taking(8, b, z)
  BY TakenInIs
<1>15. Judged(device) \subseteq {Refusing(v, q), Taking(8, b, z)}
  BY <1>3, <1>12, <1>13, <1>14
<1> QED BY <1>1, <1>6, <1>8, <1>15

\* SDA moves while SCL is down: nobody notices.
LEMMA SdaSettles ==
  ASSUME NEW v, SetSda(v), SclLine = 0
  PROVE  sda' = v /\ scl' = scl /\ device' = device /\ taken' = taken /\ acked' = acked
BY DEF SetSda

LEMMA SdaStays ==
  ASSUME SetSda(1), SdaLine = 1
  PROVE  sda' = 1 /\ scl' = scl /\ device' = device /\ taken' = taken /\ acked' = acked
BY DEF SetSda

LEMMA StartSeen ==
  ASSUME AtRest, SetSda(0)
  PROVE  /\ sda' = 0 /\ scl' = 1 /\ taken' = taken /\ acked' = acked
         /\ device' = Listening(0, 0, <<>>)
<1>1. SclLine = 1 /\ SdaLine = 1
  BY LineLevels DEF AtRest
<1>2. Started /\ sda' = 0 /\ UNCHANGED <<scl, acked, rx>>
  BY <1>1 DEF SetSda
<1>3. Called(Idle) = Listening(0, 0, <<>>)
  BY CalledIs
<1>4. device' = Called(Idle) /\ taken' = taken
  BY <1>2 DEF Started, Called
<1> QED BY <1>2, <1>3, <1>4 DEF AtRest

LEMMA StopSeen ==
  ASSUME SclLine = 1, SdaLine = 0, ~device.pull, SetSda(1), ~device.sending
  PROVE  /\ sda' = 1 /\ scl' = scl /\ acked' = acked /\ device' = Idle
         /\ taken' = IF device.bytes # <<>> THEN Append(taken, Tail(device.bytes)) ELSE taken
<1>1. Stopped /\ sda' = 1 /\ UNCHANGED <<scl, acked, rx>>
  BY DEF SetSda
<1> QED BY <1>1 DEF Stopped, Addressed

\* Nobody minds the clock of a device that is not addressed.
LEMMA ClockUnminded ==
  ASSUME NEW u \in {0, 1}, SetScl(u), device = Idle \/ \E v, q : device = Refusing(v, q)
  PROVE  scl' = u /\ sda' = sda /\ device' = device /\ taken' = taken /\ acked' = acked
<1>1. device.on = FALSE
  BY DEF Idle, Refusing
<1>2. Released(device) = device
  BY ReleasedIdle, ReleasedRefusing
<1>3. Clocked(device) = {device} /\ Fallen(device) = {Released(device)}
  BY <1>1 DEF Clocked, Fallen, Released
<1>4. device' = device
  BY <1>2, <1>3 DEF SetScl
<1> QED BY <1>4 DEF SetScl

-----------------------------------------------------------------------------
(* The script of a write.                                                     *)

RefusedOps(q) == IF q = 0 THEN I2cStop \o Elog(NoAckOnAdr) ELSE Elog(NoDataByte) \o I2cStop

\* The 28 operations of a byte.
LEMMA TxIs ==
  ASSUME NEW v, NEW q \in 0 .. 2
  PROVE  /\ Sequence(I2cTx(SentByte(v, q), RefusedOps(q)))
         /\ Len(I2cTx(SentByte(v, q), RefusedOps(q))) = 28
         /\ \A s \in 1 .. 28 : I2cTx(SentByte(v, q), RefusedOps(q))[s] = TxOp(v, q, s)
<1>1. PICK b, r : b = SentByte(v, q) /\ r = RefusedOps(q)
  OBVIOUS
<1>2. PICK w : w = AckClock \o r
  OBVIOUS
<1>3. w = WayOut(q)
  BY <1>1, <1>2 DEF WayOut, RefusedOps
<1>4. PICK f : f = [i \in 1 .. 24 |-> IF i % 3 = 1 THEN Sda(Bit(b, i \div 3)) ELSE Scl((i % 3) \div 2)]
  OBVIOUS
<1>5. f = [i \in 1 .. 24 |-> f[i]]
  BY <1>4, Zenon
<1>6. \A i \in 1 .. 24 : f[i] = IF i % 3 = 1 THEN Sda(Bit(b, i \div 3)) ELSE Scl((i % 3) \div 2)
  BY <1>4, Zenon
<1>7. Sequence(f) /\ Len(f) = 24
  BY <1>5, Listed
<1>8. PICK e, h : e = Sda(1) /\ h = <<"ack", w>>
  OBVIOUS
<1>9. PICK g : g = <<e, h>>
  OBVIOUS
<1>10. Sequence(g) /\ Len(g) = 2 /\ g[1] = e /\ g[2] = h
  <2>1. <<e, h>> \in Seq({e, h}) /\ Len(<<e, h>>) = 2 /\ <<e, h>>[1] = e /\ <<e, h>>[2] = h
    OBVIOUS
  <2> QED BY <1>9, <2>1 DEF Sequence
<1>11. PICK a : a = AckClock
  OBVIOUS
<1>12. Sequence(a) /\ Len(a) = 2 /\ a[1] = Scl(1) /\ a[2] = Scl(0)
  BY <1>11, StartAndStop
<1>13. PICK t : t = f \o g
  OBVIOUS
<1>14. /\ Sequence(t) /\ Len(t) = Len(f) + Len(g) /\ \A i \in 1 .. Len(f) : t[i] = f[i]
       /\ \A i \in 1 .. Len(g) : t[Len(f) + i] = g[i]
  <2>1. Sequence(f) /\ Sequence(g)
    BY <1>7, <1>10
  <2> QED BY <1>13, <2>1, Joined
<1>15. Len(t) = 26 /\ (\A i \in 1 .. 24 : t[i] = f[i]) /\ t[25] = e /\ t[26] = h
  BY <1>7, <1>10, <1>14
<1>16. PICK u : u = t \o a
  OBVIOUS
<1>17. /\ Sequence(u) /\ Len(u) = Len(t) + Len(a) /\ \A i \in 1 .. Len(t) : u[i] = t[i]
       /\ \A i \in 1 .. Len(a) : u[Len(t) + i] = a[i]
  <2>1. Sequence(t) /\ Sequence(a)
    BY <1>12, <1>14
  <2> QED BY <1>16, <2>1, Joined
<1>18. /\ Len(u) = 28 /\ (\A i \in 1 .. 26 : u[i] = t[i]) /\ u[27] = a[1] /\ u[28] = a[2]
  BY <1>12, <1>15, <1>17
<1>19. \A s \in 1 .. 28 : u[s] = TxOp(v, q, s)
  <2> TAKE s \in 1 .. 28
  <2>1. CASE s <= 24
    <3>1. s \in 1 .. 24 /\ s \in 1 .. 26 /\ s # 25 /\ s # 26 /\ ~(s > 26)
      BY <2>1
    <3>2. u[s] = f[s]
      BY <1>15, <1>18, <3>1
    <3> QED BY <1>1, <1>6, <3>1, <3>2 DEF TxOp
  <2>2. CASE s = 25
    BY <1>8, <1>15, <1>18, <2>2 DEF TxOp
  <2>3. CASE s = 26
    BY <1>3, <1>8, <1>15, <1>18, <2>3 DEF TxOp
  <2>4. CASE s = 27
    <3>1. 28 - 27 = 1 /\ 27 > 26
      OBVIOUS
    <3> QED BY <1>12, <1>18, <2>4, <3>1 DEF TxOp
  <2>5. CASE s = 28
    <3>1. 28 - 28 = 0 /\ 28 > 26
      OBVIOUS
    <3> QED BY <1>12, <1>18, <2>5, <3>1 DEF TxOp
  <2>6. s <= 24 \/ s = 25 \/ s = 26 \/ s = 27 \/ s = 28
    OBVIOUS
  <2> QED BY <2>1, <2>2, <2>3, <2>4, <2>5, <2>6
<1>20. u = I2cTx(SentByte(v, q), RefusedOps(q))
  BY <1>1, <1>2, <1>4, <1>8, <1>9, <1>11, <1>13, <1>16, Zenon DEF I2cTx
<1> QED BY <1>17, <1>18, <1>19, <1>20

\* The register and its value are sent alike.
LEMMA TxAllIs ==
  ASSUME NEW v
  PROVE  /\ Sequence(TxAll(<<v[1], v[2]>>, RefusedOps(1)))
         /\ Len(TxAll(<<v[1], v[2]>>, RefusedOps(1))) = 56
         /\ \A i \in 1 .. 56 : TxAll(<<v[1], v[2]>>, RefusedOps(1))[i]
                                 = TxOp(v, ((i - 1) \div 28) + 1, ((i - 1) % 28) + 1)
<1>1. PICK a, b, r : a = v[1] /\ b = v[2] /\ r = RefusedOps(1)
  OBVIOUS
<1>2. PICK d : d = <<a, b>>
  OBVIOUS
<1>3. Len(d) = 2 /\ d[1] = a /\ d[2] = b
  BY <1>2
<1>4. 28 * Len(d) = 56
  BY <1>3
<1>5. PICK f : f = [i \in 1 .. 56 |-> I2cTx(d[((i - 1) \div 28) + 1], r)[((i - 1) % 28) + 1]]
  OBVIOUS
<1>6. f = [i \in 1 .. 56 |-> f[i]]
  BY <1>5, Zenon
<1>7. \A i \in 1 .. 56 : f[i] = I2cTx(d[((i - 1) \div 28) + 1], r)[((i - 1) % 28) + 1]
  BY <1>5, Zenon
<1>8. Sequence(f) /\ Len(f) = 56
  BY <1>6, Listed
<1>9. r = RefusedOps(2)
  BY <1>1 DEF RefusedOps
<1>10. a = SentByte(v, 1) /\ b = SentByte(v, 2)
  BY <1>1 DEF SentByte
<1>11. \A i \in 1 .. 56 : f[i] = TxOp(v, ((i - 1) \div 28) + 1, ((i - 1) % 28) + 1)
  <2> TAKE i \in 1 .. 56
  <2>1. PICK s \in 1 .. 28 : s = ((i - 1) % 28) + 1
    OBVIOUS
  <2>2. PICK q : q = ((i - 1) \div 28) + 1
    OBVIOUS
  <2>3. q = 1 \/ q = 2
    BY <2>2
  <2>4. f[i] = I2cTx(d[q], r)[s]
    BY <1>7, <2>1, <2>2
  <2>5. CASE q = 1
    <3>1. I2cTx(SentByte(v, 1), RefusedOps(1))[s] = TxOp(v, 1, s)
      BY TxIs
    <3> QED BY <1>1, <1>3, <1>10, <2>1, <2>2, <2>4, <2>5, <3>1, Zenon
  <2>6. CASE q = 2
    <3>1. I2cTx(SentByte(v, 2), RefusedOps(2))[s] = TxOp(v, 2, s)
      BY TxIs
    <3> QED BY <1>3, <1>9, <1>10, <2>1, <2>2, <2>4, <2>6, <3>1, Zenon
  <2> QED BY <2>3, <2>5, <2>6
<1>12. f = TxAll(<<v[1], v[2]>>, RefusedOps(1))
  BY <1>1, <1>2, <1>4, <1>5, Zenon DEF TxAll
<1> QED BY <1>8, <1>11, <1>12

\* The 91 operations of a write of a register.
LEMMA WriteScript ==
  ASSUME NEW v
  PROVE  /\ Sequence(I2cWriteReg(DeviceAddress, v[1], v[2]))
         /\ Len(I2cWriteReg(DeviceAddress, v[1], v[2])) = 91
         /\ \A p \in 1 .. 91 : I2cWriteReg(DeviceAddress, v[1], v[2])[p] = WriteOp(v, p)
<1>1. PICK a : a = I2cStart
  OBVIOUS
<1>2. PICK b : b = I2cTx(DeviceAddress, I2cStop \o Elog(NoAckOnAdr))
  OBVIOUS
<1>3. PICK c : c = TxAll(<<v[1], v[2]>>, Elog(NoDataByte) \o I2cStop)
  OBVIOUS
<1>4. PICK z : z = I2cStop
  OBVIOUS
<1>5. Sequence(b) /\ Len(b) = 28 /\ \A s \in 1 .. 28 : b[s] = TxOp(v, 0, s)
  <2>1. b = I2cTx(SentByte(v, 0), RefusedOps(0))
    BY <1>2 DEF SentByte, RefusedOps
  <2> QED BY <2>1, TxIs
<1>6. /\ Sequence(c) /\ Len(c) = 56
      /\ \A i \in 1 .. 56 : c[i] = TxOp(v, ((i - 1) \div 28) + 1, ((i - 1) % 28) + 1)
  <2>1. c = TxAll(<<v[1], v[2]>>, RefusedOps(1))
    BY <1>3 DEF RefusedOps
  <2> QED BY <2>1, TxAllIs
<1>7. Sequence(a) /\ Len(a) = 4 /\ Sequence(z) /\ Len(z) = 3
  BY <1>1, <1>4, StartAndStop
<1>8. PICK t : t = a \o b
  OBVIOUS
<1>9. /\ Sequence(t) /\ Len(t) = Len(a) + Len(b) /\ \A i \in 1 .. Len(a) : t[i] = a[i]
      /\ \A i \in Len(a) + 1 .. Len(a) + Len(b) : t[i] = b[i - Len(a)]
  <2>1. Sequence(a) /\ Sequence(b)
    BY <1>5, <1>7
  <2> QED BY <1>8, <2>1, Joined
<1>10. PICK u : u = t \o c
  OBVIOUS
<1>11. /\ Sequence(u) /\ Len(u) = Len(t) + Len(c) /\ \A i \in 1 .. Len(t) : u[i] = t[i]
       /\ \A i \in Len(t) + 1 .. Len(t) + Len(c) : u[i] = c[i - Len(t)]
  <2>1. Sequence(t) /\ Sequence(c)
    BY <1>6, <1>9
  <2> QED BY <1>10, <2>1, Joined
<1>12. PICK w : w = u \o z
  OBVIOUS
<1>13. /\ Sequence(w) /\ Len(w) = Len(u) + Len(z) /\ \A i \in 1 .. Len(u) : w[i] = u[i]
       /\ \A i \in Len(u) + 1 .. Len(u) + Len(z) : w[i] = z[i - Len(u)]
  <2>1. Sequence(u) /\ Sequence(z)
    BY <1>7, <1>11
  <2> QED BY <1>12, <2>1, Joined
<1>14. Len(t) = 32 /\ Len(u) = 88 /\ Len(w) = 91
  BY <1>5, <1>6, <1>7, <1>9, <1>11, <1>13
<1>15. \A p \in 1 .. 91 : w[p] = WriteOp(v, p)
  <2> TAKE p \in 1 .. 91
  <2>1. CASE p <= 4
    <3>1. p \in 1 .. 4 /\ p \in 1 .. 32 /\ p \in 1 .. 88
      BY <2>1
    <3>2. w[p] = a[p]
      BY <1>7, <1>9, <1>11, <1>13, <1>14, <3>1
    <3> QED BY <1>1, <2>1, <3>2 DEF WriteOp
  <2>2. CASE p \in 5 .. 32
    <3>1. /\ p \in 1 .. 32 /\ p \in 1 .. 88 /\ p - 4 \in 1 .. 28 /\ (p - 5) \div 28 = 0
          /\ ((p - 5) % 28) + 1 = p - 4 /\ ~(p <= 4) /\ p <= 88
      BY <2>2
    <3>2. w[p] = t[p]
      <4>1. w[p] = u[p]
        BY <1>13, <1>14, <3>1
      <4>2. u[p] = t[p]
        BY <1>11, <1>14, <3>1
      <4> QED BY <4>1, <4>2
    <3>3. Len(a) = 4 /\ Len(b) = 28 /\ p \in Len(a) + 1 .. Len(a) + Len(b)
      BY <1>5, <1>7, <2>2
    <3>4. t[p] = b[p - 4]
      BY <1>9, <3>3
    <3> QED BY <1>5, <3>1, <3>2, <3>4 DEF WriteOp
  <2>3. CASE p \in 33 .. 88
    <3>1. PICK i \in 1 .. 56 : i = p - 32
      BY <2>3
    <3>2. ((i - 1) \div 28) + 1 = (p - 5) \div 28
      <4>1. i - 1 \in Int /\ p - 5 = (i - 1) + 28
        BY <3>1
      <4>2. \A k \in Int : ((k + 28) \div 28) = (k \div 28) + 1
        OBVIOUS
      <4> QED BY <4>1, <4>2
    <3>3. ((i - 1) % 28) + 1 = ((p - 5) % 28) + 1
      <4>1. i - 1 \in Int /\ p - 5 = (i - 1) + 28
        BY <3>1
      <4>2. \A k \in Int : ((k + 28) % 28) = (k % 28)
        OBVIOUS
      <4> QED BY <4>1, <4>2
    <3>4. p \in 1 .. 88 /\ ~(p <= 4) /\ p <= 88
      BY <2>3
    <3>5. w[p] = u[p]
      BY <1>13, <1>14, <3>4
    <3>6. Len(c) = 56 /\ p \in Len(t) + 1 .. Len(t) + Len(c) /\ p - Len(t) = i
      BY <1>6, <1>14, <2>3, <3>1
    <3>7. u[p] = c[i]
      BY <1>11, <3>6
    <3> QED BY <1>6, <3>1, <3>2, <3>3, <3>4, <3>5, <3>7 DEF WriteOp
  <2>4. CASE p \in 89 .. 91
    <3>1. ~(p <= 4) /\ ~(p <= 88) /\ w[p] = z[p - 88]
      BY <1>7, <1>13, <1>14, <2>4
    <3> QED BY <1>4, <3>1 DEF WriteOp
  <2>5. p <= 4 \/ p \in 5 .. 32 \/ p \in 33 .. 88 \/ p \in 89 .. 91
    OBVIOUS
  <2> QED BY <2>1, <2>2, <2>3, <2>4, <2>5
<1>16. w = I2cWriteReg(DeviceAddress, v[1], v[2])
  BY <1>1, <1>2, <1>3, <1>4, <1>8, <1>10, <1>12, Zenon DEF I2cWriteReg, I2cWriteBuf
<1> QED BY <1>13, <1>14, <1>15, <1>16

-----------------------------------------------------------------------------
(* An operation of a byte.                                                    *)

\* Operation s + 1 of byte q of the transfer.
LEMMA ByteStep ==
  ASSUME NEW v \in TwoBytes, NEW q \in 0 .. 2, NEW s \in 0 .. 27, InByte(v, q, s), Wire,
         Head(script) = TxOp(v, q, s + 1), acked \in BOOLEAN
  PROVE  /\ taken' = taken
         /\ s # 25 => acked' = acked /\ script' = Tail(script)
         /\ s < 27 /\ s # 25 => InByte(v, q, s + 1)'
         /\ s = 27 => scl' = 0 /\ device' = Listening(0, 0, BytesTaken(v, q + 1))
         /\ s = 25 => \/ acked' = acked /\ script' = Tail(script) /\ InByte(v, q, s + 1)'
                      \/ /\ ~acked' /\ script' = WayOut(q) /\ device' = Refusing(v, q)
                         /\ scl' = 0 /\ sda' = 1
<1>1. PICK b \in 0 .. 255 : b = SentByte(v, q)
  BY SentBytesAre
<1>2. PICK y, z : y = BytesTaken(v, q) /\ z = BytesTaken(v, q + 1)
  OBVIOUS
<1>3. CASE s \in 0 .. 23 /\ s % 3 = 0
  <2>1. PICK j \in 0 .. 7 : j = s \div 3 /\ s = 3 * j
    BY <1>3
  <2>2. (s + 1) \div 3 = j /\ (s + 2) \div 3 = j /\ (s + 1) % 3 = 1 /\ s % 3 # 2 /\ s < 23
    BY <2>1
  <2>3. device = Listening(j, Top(b, j), y) /\ scl = 0
    BY <1>1, <1>2, <1>3, <2>2 DEF InByte
  <2>4. Head(script) = Sda(Bit(b, j))
    <3>1. s + 1 # 25 /\ s + 1 # 26 /\ ~(s + 1 > 26)
      BY <2>2
    <3> QED BY <1>1, <2>2, <3>1 DEF TxOp
  <2>5. SetSda(Bit(b, j)) /\ script' = Tail(script) /\ SclLine = 0
    BY <2>3, <2>4, SdaOp, LineLevels
  <2>6. sda' = Bit(b, j) /\ scl' = scl /\ device' = device /\ taken' = taken /\ acked' = acked
    BY <2>5, SdaSettles
  <2>7. InByte(v, q, s + 1)'
    <3>1. PICK n \in 1 .. 22 : n = s + 1
      BY <2>2
    <3>2. n <= 23 /\ (n + 1) \div 3 = j /\ n % 3 = 1 /\ n \div 3 = j /\ ~(n >= 24)
      BY <2>2, <3>1
    <3>3. n \notin {24, 25} /\ n # 26 /\ n # 27 /\ ~(n >= 25)
      OBVIOUS
    <3>4. InByte(v, q, n)'
      BY <1>1, <1>2, <2>3, <2>6, <3>2, <3>3 DEF InByte
    <3> QED BY <3>1, <3>4
  <2> QED BY <2>2, <2>5, <2>6, <2>7
<1>4. CASE s \in 0 .. 23 /\ s % 3 = 1
  <2>1. PICK j \in 0 .. 7 : j = s \div 3 /\ s = 3 * j + 1
    BY <1>4
  <2>2. (s + 1) \div 3 = j /\ (s + 2) \div 3 = j + 1 /\ (s + 1) % 3 = 2 /\ s % 3 # 2 /\ s < 23
    BY <2>1
  <2>3. device = Listening(j, Top(b, j), y) /\ scl = 0 /\ sda = Bit(b, j)
    BY <1>1, <1>2, <1>4, <2>1, <2>2 DEF InByte
  <2>4. Head(script) = Scl(1)
    <3>1. s + 1 # 25 /\ s + 1 # 26 /\ ~(s + 1 > 26) /\ 2 \div 2 = 1 /\ 2 # 1
      BY <2>2
    <3> QED BY <1>1, <2>2, <3>1 DEF TxOp
  <2>5. SetScl(1) /\ script' = Tail(script) /\ SdaLine = Bit(b, j)
    <3>1. Bit(b, j) \in {0, 1}
      BY TopBits
    <3> QED BY <2>3, <2>4, <3>1, SclOp, LineLevels
  <2>6. PICK t \in Nat, k \in Int : t = Top(b, j) /\ k = Bit(b, j) /\ Top(b, j + 1) = 2 * t + k
    <3>1. Top(b, j) \in Nat /\ Bit(b, j) \in Int
      <4>1. Bit(b, j) \in {0, 1} /\ Top(b, j) \in Nat
        BY TopBits
      <4> QED BY <4>1
    <3> QED BY <3>1, TopBits
  <2>7. /\ scl' = 1 /\ sda' = sda /\ taken' = taken /\ acked' = acked
        /\ device' = Listening(j + 1, 2 * t + SdaLine, y)
    <3>1. j \in Nat /\ j < 8
      OBVIOUS
    <3> QED BY <2>3, <2>5, <2>6, <3>1, ClockRises
  <2>8. InByte(v, q, s + 1)'
    <3>1. PICK n \in 1 .. 23 : n = s + 1
      BY <2>2
    <3>2. n <= 23 /\ (n + 1) \div 3 = j + 1 /\ n % 3 = 2 /\ n \div 3 = j
      BY <2>2, <3>1
    <3>3. n \notin {24, 25} /\ n # 26 /\ n # 27 /\ ~(n >= 25)
      OBVIOUS
    <3>4. device' = Listening(j + 1, Top(b, j + 1), y)
      BY <2>5, <2>6, <2>7
    <3>5. InByte(v, q, n)'
      BY <1>1, <1>2, <2>3, <2>7, <3>2, <3>3, <3>4 DEF InByte
    <3> QED BY <3>1, <3>5
  <2> QED BY <2>2, <2>5, <2>7, <2>8
<1>5. CASE s \in 0 .. 22 /\ s % 3 = 2
  <2>1. PICK j \in 0 .. 6 : j = s \div 3 /\ s = 3 * j + 2
    BY <1>5
  <2>2. (s + 1) \div 3 = j + 1 /\ (s + 2) \div 3 = j + 1 /\ (s + 1) % 3 = 0 /\ s < 23
    BY <2>1
  <2>3. device = Listening(j + 1, Top(b, j + 1), y) /\ scl = 1
    BY <1>1, <1>2, <1>5, <2>1, <2>2 DEF InByte
  <2>4. Head(script) = Scl(0)
    <3>1. s + 1 # 25 /\ s + 1 # 26 /\ ~(s + 1 > 26) /\ 0 \div 2 = 0 /\ 0 # 1
      BY <2>2
    <3> QED BY <1>1, <2>2, <3>1 DEF TxOp
  <2>5. SetScl(0) /\ script' = Tail(script)
    BY <2>4, SclOp
  <2>6. PICK n \in 0 .. 7 : n = j + 1
    OBVIOUS
  <2>7. /\ scl' = 0 /\ sda' = sda /\ taken' = taken /\ acked' = acked /\ device' = device
    BY <2>3, <2>5, <2>6, ClockFalls
  <2>8. InByte(v, q, s + 1)'
    <3>1. PICK r \in 1 .. 23 : r = s + 1
      BY <2>2
    <3>2. r <= 23 /\ (r + 1) \div 3 = j + 1 /\ r % 3 = 0 /\ 0 # 2
      BY <2>2, <3>1
    <3>3. r \notin {24, 25} /\ r # 26 /\ r # 27 /\ ~(r >= 25)
      OBVIOUS
    <3>4. InByte(v, q, r)'
      BY <1>1, <1>2, <2>3, <2>7, <3>2, <3>3 DEF InByte
    <3> QED BY <3>1, <3>4
  <2> QED BY <2>2, <2>5, <2>7, <2>8
<1>6. CASE s = 23
  <2>1. (23 + 1) \div 3 = 8 /\ 23 % 3 = 2 /\ 24 % 3 = 0 /\ 0 \div 2 = 0 /\ 0 # 1 /\ 23 + 1 = 24
    OBVIOUS
  <2>2. device = Listening(8, SentByte(v, q), BytesTaken(v, q)) /\ scl = 1
    <3>1. Top(b, 8) = b
      BY TopBits
    <3>2. device = Listening(8, Top(b, 8), BytesTaken(v, q)) /\ scl = 1
      BY <1>1, <1>6, <2>1 DEF InByte
    <3> QED BY <1>1, <3>1, <3>2
  <2>3. Head(script) = Scl(0)
    <3>1. 24 # 25 /\ 24 # 26 /\ ~(24 > 26)
      OBVIOUS
    <3> QED BY <1>6, <2>1, <3>1 DEF TxOp
  <2>4. SetScl(0) /\ script' = Tail(script)
    BY <2>3, SclOp
  <2>5. /\ scl' = 0 /\ taken' = taken /\ acked' = acked
        /\ device' \in {Refusing(v, q), Taking(8, SentByte(v, q), BytesTaken(v, q + 1))}
    BY <2>2, <2>4, ByteJudged
  <2>6. InByte(v, q, 24)'
    <3>1. ~(24 <= 23) /\ 24 \in {24, 25} /\ 24 # 26 /\ 24 # 27 /\ ~(24 >= 25)
      OBVIOUS
    <3> QED BY <2>5, <3>1 DEF InByte
  <2> QED BY <1>6, <2>1, <2>4, <2>5, <2>6
<1>7. CASE s = 24
  <2>1. ~(24 <= 23) /\ 24 \in {24, 25} /\ 24 + 1 = 25
    OBVIOUS
  <2>2. device \in {Refusing(v, q), Taking(8, b, z)} /\ scl = 0
    BY <1>1, <1>2, <1>7, <2>1 DEF InByte
  <2>3. Head(script) = Sda(1)
    BY <1>7, <2>1 DEF TxOp
  <2>4. SetSda(1) /\ script' = Tail(script) /\ SclLine = 0
    BY <2>2, <2>3, SdaOp, LineLevels
  <2>5. sda' = 1 /\ scl' = scl /\ device' = device /\ taken' = taken /\ acked' = acked
    BY <2>4, SdaSettles
  <2>6. InByte(v, q, 25)'
    <3>1. ~(25 <= 23) /\ 25 # 26 /\ 25 # 27
      OBVIOUS
    <3> QED BY <1>1, <1>2, <2>2, <2>5, <3>1 DEF InByte
  <2> QED BY <1>7, <2>1, <2>4, <2>5, <2>6
<1>8. CASE s = 25
  <2>1. 25 \in {24, 25} /\ 25 + 1 = 26 /\ 25 >= 25
    OBVIOUS
  <2>2. device \in {Refusing(v, q), Taking(8, b, z)} /\ scl = 0 /\ sda = 1
    BY <1>1, <1>2, <1>8, <2>1 DEF InByte
  <2>3. PICK w : w = WayOut(q)
    OBVIOUS
  <2>4. Head(script) = <<"ack", w>>
    <3>1. 26 # 25
      OBVIOUS
    <3> QED BY <1>8, <2>1, <2>3, <3>1 DEF TxOp
  <2>5. GetAck /\ script' = IF SdaLine = 1 THEN w ELSE Tail(script)
    BY <2>4, AckOp
  <2>6. /\ scl' = 0 /\ sda' = 1 /\ device' = device /\ taken' = taken
        /\ acked' = (acked /\ SdaLine = 0)
    BY <2>2, <2>5 DEF GetAck
  <2>7. CASE device = Refusing(v, q)
    <3>1. SdaLine = 1
      BY <2>2, <2>7, LineLevels
    <3>2. ~acked' /\ script' = w
      <4>1. ~(SdaLine = 0)
        BY <3>1
      <4>2. ~acked'
        BY <2>6, <4>1, Zenon
      <4>3. script' = w
        BY <2>5, <3>1
      <4> QED BY <4>2, <4>3, Zenon
    <3> QED BY <1>8, <2>3, <2>6, <2>7, <3>2
  <2>8. CASE device = Taking(8, b, z)
    <3>1. SdaLine = 0
      BY <2>8, LineLevels
    <3>2. acked' = acked /\ script' = Tail(script)
      BY <2>5, <2>6, <3>1
    <3>3. InByte(v, q, 26)'
      <4>1. ~(26 <= 23) /\ 26 \notin {24, 25} /\ 26 # 27
        OBVIOUS
      <4> QED BY <1>1, <1>2, <2>6, <2>8, <4>1 DEF InByte
    <3> QED BY <1>8, <2>1, <2>6, <3>2, <3>3
  <2> QED BY <2>2, <2>7, <2>8
<1>9. CASE s = 26
  <2>1. 26 # 25 /\ 26 + 1 = 27 /\ 26 >= 25 /\ 27 > 26 /\ 28 - 27 = 1 /\ 27 # 25 /\ 27 # 26
    OBVIOUS
  <2>2. device = Taking(8, b, z) /\ scl = 0 /\ sda = 1
    BY <1>1, <1>2, <1>9, <2>1 DEF InByte
  <2>3. Head(script) = Scl(1)
    BY <1>9, <2>1 DEF TxOp
  <2>4. SetScl(1) /\ script' = Tail(script)
    BY <2>3, SclOp
  <2>5. scl' = 1 /\ sda' = sda /\ taken' = taken /\ acked' = acked /\ device' = Taking(9, b, z)
    BY <2>2, <2>4, AckRises
  <2>6. InByte(v, q, 27)'
    <3>1. ~(27 <= 23) /\ 27 \notin {24, 25}
      OBVIOUS
    <3> QED BY <1>1, <1>2, <2>1, <2>2, <2>5, <3>1 DEF InByte
  <2> QED BY <1>9, <2>1, <2>4, <2>5, <2>6
<1>10. CASE s = 27
  <2>1. 27 # 25 /\ 27 + 1 = 28 /\ 28 > 26 /\ 28 - 28 = 0 /\ 28 # 25 /\ 28 # 26 /\ ~(27 < 27)
    OBVIOUS
  <2>2. device = Taking(9, b, z) /\ scl = 1
    BY <1>1, <1>2, <1>10, <2>1 DEF InByte
  <2>3. Head(script) = Scl(0)
    BY <1>10, <2>1 DEF TxOp
  <2>4. SetScl(0) /\ script' = Tail(script)
    BY <2>3, SclOp
  <2>5. scl' = 0 /\ taken' = taken /\ acked' = acked /\ device' = Listening(0, 0, z)
    BY <2>2, <2>4, AckFalls
  <2> QED BY <1>2, <1>10, <2>1, <2>4, <2>5
<1>11. \/ s \in 0 .. 23 /\ s % 3 = 0
       \/ s \in 0 .. 23 /\ s % 3 = 1
       \/ s \in 0 .. 22 /\ s % 3 = 2
       \/ s = 23 \/ s = 24 \/ s = 25 \/ s = 26 \/ s = 27
  OBVIOUS
<1> QED BY <1>3, <1>4, <1>5, <1>6, <1>7, <1>8, <1>9, <1>10, <1>11

-----------------------------------------------------------------------------
(* An operation of a write.                                                   *)

\* What the stop hands over: the register without the address.
LEMMA RegisterTaken ==
  ASSUME NEW v \in TwoBytes
  PROVE  BytesTaken(v, 3) # <<>> /\ Tail(BytesTaken(v, 3)) = v
<1>1. PICK a, b, c : a = DeviceAddress /\ b = v[1] /\ c = v[2]
  OBVIOUS
<1>2. v = <<b, c>>
  BY <1>1 DEF TwoBytes
<1>3. PICK y : y = BytesTaken(v, 3)
  OBVIOUS
<1>4. y = <<a, b, c>>
  BY <1>1, <1>3 DEF BytesTaken
<1>5. <<a, b, c>> # <<>> /\ Tail(<<a, b, c>>) = <<b, c>>
  OBVIOUS
<1> QED BY <1>2, <1>3, <1>4, <1>5

\* A write starts.
LEMMA WriteStarts ==
  ASSUME NEW v \in TwoBytes, NEW p \in 0 .. 3, WriteAt(v, p), Wire, Head(script) = WriteOp(v, p + 1)
  PROVE  acked' = acked /\ script' = Tail(script) /\ taken' = taken /\ WriteAt(v, p + 1)'
<1>1. CASE p = 0
  <2>1. AtRest /\ Head(script) = Sda(1)
    <3>1. p <= 2 /\ p + 1 = 1 /\ 1 <= 4
      BY <1>1
    <3> QED BY <3>1, StartAndStop DEF WriteAt, WriteOp
  <2>2. SetSda(1) /\ script' = Tail(script) /\ SdaLine = 1
    BY <2>1, SdaOp, LineLevels DEF AtRest
  <2>3. sda' = 1 /\ scl' = scl /\ device' = device /\ taken' = taken /\ acked' = acked
    BY <2>2, SdaStays
  <2>4. AtRest'
    BY <2>1, <2>3 DEF AtRest
  <2>5. WriteAt(v, 1)'
    <3>1. 1 # 3 /\ 1 \notin 4 .. 88 /\ 1 # 89 /\ 1 # 90 /\ 1 # 91
      OBVIOUS
    <3> QED BY <2>4, <3>1 DEF WriteAt
  <2>6. p + 1 = 1
    BY <1>1
  <2> QED BY <2>2, <2>3, <2>5, <2>6
<1>2. CASE p = 1
  <2>1. AtRest /\ Head(script) = Scl(1)
    <3>1. p <= 2 /\ p + 1 = 2 /\ 2 <= 4
      BY <1>2
    <3> QED BY <3>1, StartAndStop DEF WriteAt, WriteOp
  <2>2. SetScl(1) /\ script' = Tail(script) /\ device = Idle
    BY <2>1, SclOp DEF AtRest
  <2>3. scl' = 1 /\ sda' = sda /\ device' = device /\ taken' = taken /\ acked' = acked
    <3>1. 1 \in {0, 1}
      OBVIOUS
    <3> QED BY <2>2, <3>1, ClockUnminded
  <2>4. AtRest'
    BY <2>1, <2>3 DEF AtRest
  <2>5. WriteAt(v, 2)'
    <3>1. 2 # 3 /\ 2 \notin 4 .. 88 /\ 2 # 89 /\ 2 # 90 /\ 2 # 91
      OBVIOUS
    <3> QED BY <2>4, <3>1 DEF WriteAt
  <2>6. p + 1 = 2
    BY <1>2
  <2> QED BY <2>2, <2>3, <2>5, <2>6
<1>3. CASE p = 2
  <2>1. AtRest /\ Head(script) = Sda(0)
    <3>1. p <= 2 /\ p + 1 = 3 /\ 3 <= 4
      BY <1>3
    <3> QED BY <3>1, StartAndStop DEF WriteAt, WriteOp
  <2>2. SetSda(0) /\ script' = Tail(script)
    BY <2>1, SdaOp
  <2>3. /\ sda' = 0 /\ scl' = 1 /\ taken' = taken /\ acked' = acked
        /\ device' = Listening(0, 0, <<>>)
    BY <2>1, <2>2, StartSeen
  <2>4. WriteAt(v, 3)'
    <3>1. ~(3 <= 2) /\ 3 \notin 4 .. 88 /\ 3 # 89 /\ 3 # 90 /\ 3 # 91
      OBVIOUS
    <3> QED BY <2>3, <3>1 DEF WriteAt
  <2>5. p + 1 = 3
    BY <1>3
  <2> QED BY <2>2, <2>3, <2>4, <2>5
<1>4. CASE p = 3
  <2>1. scl = 1 /\ device = Listening(0, 0, <<>>) /\ Head(script) = Scl(0)
    <3>1. p + 1 = 4 /\ 4 <= 4
      BY <1>4
    <3> QED BY <1>4, <3>1, StartAndStop DEF WriteAt, WriteOp
  <2>2. SetScl(0) /\ script' = Tail(script)
    BY <2>1, SclOp
  <2>3. scl' = 0 /\ taken' = taken /\ acked' = acked /\ device' = Listening(0, 0, <<>>)
    <3>1. PICK n \in 0 .. 7 : n = 0
      OBVIOUS
    <3>2. PICK b : b = 0
      OBVIOUS
    <3>3. device = Listening(n, b, <<>>)
      BY <2>1, <3>1, <3>2
    <3> QED BY <2>1, <2>2, <3>3, ClockFalls
  <2>4. InByte(v, 0, 0)'
    <3>1. Top(SentByte(v, 0), 0) = 0
      BY TopBits, SentBytesAre
    <3>2. (0 + 1) \div 3 = 0 /\ 0 % 3 = 0 /\ 0 # 2 /\ 0 \notin {24, 25} /\ 0 # 26 /\ 0 # 27
      OBVIOUS
    <3>3. ~(0 >= 25) /\ BytesTaken(v, 0) = <<>>
      BY DEF BytesTaken
    <3> QED BY <2>3, <3>1, <3>2, <3>3 DEF InByte
  <2>5. WriteAt(v, 4)'
    <3>1. ~(4 <= 2) /\ 4 # 3 /\ (4 - 4) \div 28 = 0 /\ (4 - 4) % 28 = 0 /\ 4 # 89 /\ 4 # 90 /\ 4 # 91
      OBVIOUS
    <3> QED BY <2>4, <3>1 DEF WriteAt
  <2>6. p + 1 = 4
    BY <1>4
  <2> QED BY <2>2, <2>3, <2>5, <2>6
<1> QED BY <1>1, <1>2, <1>3, <1>4

\* A byte of a write goes on, ends, or is refused.
LEMMA WriteSends ==
  ASSUME NEW v \in TwoBytes, NEW p \in 4 .. 87, WriteAt(v, p), Wire, acked \in BOOLEAN,
         Head(script) = WriteOp(v, p + 1)
  PROVE  /\ taken' = taken
         /\ \/ acked' = acked /\ script' = Tail(script) /\ WriteAt(v, p + 1)'
            \/ /\ ~acked' /\ scl' = 0 /\ sda' = 1
               /\ \E q \in 0 .. 2 : script' = WayOut(q) /\ device' = Refusing(v, q)
<1>1. PICK q \in 0 .. 2, s \in 0 .. 27 : q = (p - 4) \div 28 /\ s = (p - 4) % 28 /\ p = 28 * q + s + 4
  OBVIOUS
<1>2. InByte(v, q, s)
  BY <1>1 DEF WriteAt
<1>3. Head(script) = TxOp(v, q, s + 1)
  <2>1. (p + 1) - 5 = p - 4 /\ ~(p + 1 <= 4) /\ p + 1 <= 88
    OBVIOUS
  <2> QED BY <1>1, <2>1 DEF WriteOp
<1>4. /\ taken' = taken
      /\ s # 25 => acked' = acked /\ script' = Tail(script)
      /\ s < 27 /\ s # 25 => InByte(v, q, s + 1)'
      /\ s = 27 => scl' = 0 /\ device' = Listening(0, 0, BytesTaken(v, q + 1))
      /\ s = 25 => \/ acked' = acked /\ script' = Tail(script) /\ InByte(v, q, s + 1)'
                   \/ /\ ~acked' /\ script' = WayOut(q) /\ device' = Refusing(v, q)
                      /\ scl' = 0 /\ sda' = 1
  BY <1>2, <1>3, ByteStep
<1>5. ASSUME s < 27, InByte(v, q, s + 1)' PROVE WriteAt(v, p + 1)'
  <2>1. PICK r : r = p + 1
    OBVIOUS
  <2>2. (r - 4) \div 28 = q /\ (r - 4) % 28 = s + 1
    BY <1>1, <1>5, <2>1
  <2>3. ~(r <= 2) /\ r # 3 /\ r # 89 /\ r # 90 /\ r # 91
    BY <2>1
  <2>4. WriteAt(v, r)'
    BY <1>5, <2>2, <2>3 DEF WriteAt
  <2> QED BY <2>1, <2>4
<1>6. CASE s = 27
  <2>1. PICK r, t : r = p + 1 /\ t = q + 1
    OBVIOUS
  <2>2. (r - 4) \div 28 = t /\ (r - 4) % 28 = 0
    BY <1>1, <1>6, <2>1
  <2>3. ~(r <= 2) /\ r # 3 /\ r # 89 /\ r # 90 /\ r # 91
    BY <2>1
  <2>4. InByte(v, t, 0)'
    <3>1. Top(SentByte(v, t), 0) = 0
      BY TopBits, SentBytesAre
    <3>2. (0 + 1) \div 3 = 0 /\ 0 % 3 = 0 /\ 0 # 2 /\ 0 \notin {24, 25} /\ 0 # 26 /\ 0 # 27
      OBVIOUS
    <3>3. ~(0 >= 25)
      OBVIOUS
    <3>4. scl' = 0 /\ device' = Listening(0, 0, BytesTaken(v, t))
      BY <1>4, <1>6, <2>1
    <3> QED BY <3>1, <3>2, <3>3, <3>4 DEF InByte
  <2>5. WriteAt(v, r)'
    BY <2>2, <2>3, <2>4 DEF WriteAt
  <2>6. s # 25
    BY <1>6
  <2> QED BY <1>4, <2>1, <2>5, <2>6
<1>7. CASE s = 25
  <2>1. s < 27
    BY <1>7
  <2> QED BY <1>4, <1>5, <1>7, <2>1
<1>8. CASE s < 27 /\ s # 25
  BY <1>4, <1>5, <1>8
<1> QED BY <1>6, <1>7, <1>8

\* The stop: the device takes the register.
LEMMA WriteStops ==
  ASSUME NEW v \in TwoBytes, NEW p \in 88 .. 90, WriteAt(v, p), Wire, Head(script) = WriteOp(v, p + 1)
  PROVE  /\ acked' = acked /\ script' = Tail(script) /\ WriteAt(v, p + 1)'
         /\ taken' = IF p = 90 THEN Append(taken, v) ELSE taken
<1>1. PICK z : z = BytesTaken(v, 3)
  OBVIOUS
<1>2. CASE p = 88
  <2>1. p + 1 = 89 /\ ~(89 <= 4) /\ ~(89 <= 88) /\ 89 - 88 = 1
    BY <1>2
  <2>2. device = Listening(0, 0, z) /\ scl = 0
    <3>1. (88 - 4) \div 28 = 3 /\ (88 - 4) % 28 = 0 /\ 88 \in 4 .. 88
      OBVIOUS
    <3>2. InByte(v, 3, 0)
      BY <1>2, <3>1 DEF WriteAt
    <3>3. Top(SentByte(v, 3), 0) = 0
      BY TopBits, SentBytesAre
    <3>4. (0 + 1) \div 3 = 0 /\ 0 % 3 = 0 /\ 0 # 2 /\ 0 <= 23
      OBVIOUS
    <3> QED BY <1>1, <3>2, <3>3, <3>4 DEF InByte
  <2>3. Head(script) = Sda(0)
    BY <2>1, StartAndStop DEF WriteOp
  <2>4. SetSda(0) /\ script' = Tail(script) /\ SclLine = 0
    BY <2>2, <2>3, SdaOp, LineLevels
  <2>5. sda' = 0 /\ scl' = scl /\ device' = device /\ taken' = taken /\ acked' = acked
    BY <2>4, SdaSettles
  <2>6. WriteAt(v, 89)'
    <3>1. ~(89 <= 2) /\ 89 # 3 /\ 89 \notin 4 .. 88 /\ 89 # 90 /\ 89 # 91
      OBVIOUS
    <3> QED BY <1>1, <2>2, <2>5, <3>1 DEF WriteAt
  <2> QED BY <1>2, <2>1, <2>4, <2>5, <2>6
<1>3. CASE p = 89
  <2>1. p + 1 = 90 /\ ~(90 <= 4) /\ ~(90 <= 88) /\ 90 - 88 = 2
    BY <1>3
  <2>2. device = Listening(0, 0, z) /\ scl = 0 /\ sda = 0
    BY <1>1, <1>3 DEF WriteAt
  <2>3. Head(script) = Scl(1)
    BY <2>1, StartAndStop DEF WriteOp
  <2>4. SetScl(1) /\ script' = Tail(script) /\ SdaLine = 0
    BY <2>2, <2>3, SclOp, LineLevels
  <2>5. PICK n \in Nat, b \in Nat : n = 0 /\ b = 0 /\ n < 8
    OBVIOUS
  <2>6. /\ scl' = 1 /\ sda' = sda /\ taken' = taken /\ acked' = acked
        /\ device' = Listening(n + 1, 2 * b + SdaLine, z)
    <3>1. device = Listening(n, b, z)
      BY <2>2, <2>5
    <3> QED BY <2>2, <2>4, <2>5, <3>1, ClockRises
  <2>7. device' = Listening(1, 0, z)
    <3>1. n + 1 = 1 /\ 2 * b + SdaLine = 0
      BY <2>4, <2>5
    <3> QED BY <2>6, <3>1
  <2>8. WriteAt(v, 90)'
    <3>1. ~(90 <= 2) /\ 90 # 3 /\ 90 \notin 4 .. 88 /\ 90 # 89 /\ 90 # 91
      OBVIOUS
    <3> QED BY <1>1, <2>2, <2>6, <2>7, <3>1 DEF WriteAt
  <2> QED BY <1>3, <2>1, <2>4, <2>6, <2>8
<1>4. CASE p = 90
  <2>1. p + 1 = 91 /\ ~(91 <= 4) /\ ~(91 <= 88) /\ 91 - 88 = 3
    BY <1>4
  <2>2. device = Listening(1, 0, z) /\ scl = 1 /\ sda = 0
    BY <1>1, <1>4 DEF WriteAt
  <2>3. Head(script) = Sda(1)
    BY <2>1, StartAndStop DEF WriteOp
  <2>4. /\ SetSda(1) /\ script' = Tail(script) /\ SclLine = 1 /\ SdaLine = 0
        /\ ~device.pull /\ ~device.sending /\ device.bytes = z
    BY <2>2, <2>3, SdaOp, LineLevels
  <2>5. /\ sda' = 1 /\ scl' = scl /\ acked' = acked /\ device' = Idle
        /\ taken' = IF device.bytes # <<>> THEN Append(taken, Tail(device.bytes)) ELSE taken
    BY <2>4, StopSeen
  <2>6. taken' = Append(taken, v)
    BY <1>1, <2>4, <2>5, RegisterTaken
  <2>7. WriteAt(v, 91)'
    <3>1. ~(91 <= 2) /\ 91 # 3 /\ 91 \notin 4 .. 88 /\ 91 # 89 /\ 91 # 90
      OBVIOUS
    <3> QED BY <2>2, <2>5, <3>1 DEF WriteAt, AtRest
  <2> QED BY <1>4, <2>1, <2>4, <2>5, <2>6, <2>7
<1> QED BY <1>2, <1>3, <1>4

-----------------------------------------------------------------------------
(* The set-up, an operation at a time.                                        *)

LineOps == {"scl", "sda", "ack"}

LEMMA LinesOnly ==
  ASSUME NEW v
  PROVE  \A p \in 1 .. 91 : WriteOp(v, p)[1] \in LineOps
<1>1. /\ \A b : Scl(b)[1] \in LineOps /\ Sda(b)[1] \in LineOps
      /\ \A w : <<"ack", w>>[1] \in LineOps
  BY DEF Scl, Sda, LineOps
<1>2. \A q, s : TxOp(v, q, s)[1] \in LineOps
  BY <1>1 DEF TxOp
<1>3. \A p \in 1 .. 4 : I2cStart[p][1] \in LineOps
  <2>1. \A p \in 1 .. 4 : p = 1 \/ p = 2 \/ p = 3 \/ p = 4
    OBVIOUS
  <2> QED BY <1>1, <2>1, StartAndStop
<1>4. \A p \in 1 .. 3 : I2cStop[p][1] \in LineOps
  <2>1. \A p \in 1 .. 3 : p = 1 \/ p = 2 \/ p = 3
    OBVIOUS
  <2> QED BY <1>1, <2>1, StartAndStop
<1> QED
  <2> TAKE p \in 1 .. 91
  <2>1. CASE p <= 4
    BY <1>3, <2>1 DEF WriteOp
  <2>2. CASE ~(p <= 4) /\ p <= 88
    BY <1>2, <2>2 DEF WriteOp
  <2>3. CASE ~(p <= 4) /\ ~(p <= 88)
    <3>1. p - 88 \in 1 .. 3
      BY <2>3
    <3> QED BY <1>4, <2>3, <3>1 DEF WriteOp
  <2> QED BY <2>1, <2>2, <2>3

\* The operations of the way out on the lines, and the messages between them.
ExitOp(w) == IF w \in {1, 4} THEN Scl(1) ELSE IF w = 2 THEN Scl(0) ELSE Sda(IF w = 3 THEN 0 ELSE 1)
LEMMA WayOutOps ==
  ASSUME NEW q \in 0 .. 2, NEW r \in 0 .. 8
  PROVE  \/ WayOut(q)[r + 1][1] = "elog" /\ OnLines(q, r + 1) = OnLines(q, r)
         \/ /\ WayOut(q)[r + 1] = ExitOp(OnLines(q, r) + 1)
            /\ OnLines(q, r) \in 0 .. 4 /\ OnLines(q, r + 1) = OnLines(q, r) + 1
<1>1. /\ ExitOp(1) = Scl(1) /\ ExitOp(2) = Scl(0) /\ ExitOp(3) = Sda(0) /\ ExitOp(4) = Scl(1)
      /\ ExitOp(5) = Sda(1)
  BY DEF ExitOp
<1>2. PICK s \in 1 .. 9 : s = r + 1
  OBVIOUS
<1>3. CASE q = 0
  <2>1. CASE s >= 6
    <3>1. WayOut(q)[s][1] = "elog"
      BY <1>3, <2>1, WayOutIs
    <3>2. OnLines(q, s) = 5 /\ OnLines(q, r) = 5
      BY <1>2, <1>3, <2>1 DEF OnLines
    <3> QED BY <1>2, <3>1, <3>2
  <2>2. CASE s <= 5
    <3>1. WayOut(q)[s] = ExitOp(s)
      <4>1. s = 1 \/ s = 2 \/ s = 3 \/ s = 4 \/ s = 5
        BY <2>2
      <4> QED BY <1>1, <1>3, <4>1, WayOutIs
    <3>2. OnLines(q, r) = r /\ OnLines(q, s) = s
      BY <1>2, <1>3, <2>2 DEF OnLines
    <3> QED BY <1>2, <2>2, <3>1, <3>2
  <2> QED BY <2>1, <2>2
<1>4. CASE q # 0
  <2>1. CASE s \in 3 .. 6
    <3>1. WayOut(q)[s][1] = "elog"
      BY <1>4, <2>1, WayOutIs
    <3>2. OnLines(q, s) = 2 /\ OnLines(q, r) = 2
      BY <1>2, <1>4, <2>1 DEF OnLines
    <3> QED BY <1>2, <3>1, <3>2
  <2>2. CASE s \in 1 .. 2
    <3>1. WayOut(q)[s] = ExitOp(s)
      <4>1. s = 1 \/ s = 2
        BY <2>2
      <4> QED BY <1>1, <4>1, WayOutIs
    <3>2. OnLines(q, r) = r /\ OnLines(q, s) = s
      BY <1>2, <1>4, <2>2 DEF OnLines
    <3> QED BY <1>2, <2>2, <3>1, <3>2
  <2>3. CASE s \in 7 .. 9
    <3>1. WayOut(q)[s] = ExitOp(s - 4)
      <4>1. s = 7 \/ s = 8 \/ s = 9
        BY <2>3
      <4>2. 7 - 4 = 3 /\ 8 - 4 = 4 /\ 9 - 4 = 5
        OBVIOUS
      <4> QED BY <1>1, <1>4, <4>1, <4>2, WayOutIs
    <3>2. OnLines(q, r) = s - 5 /\ OnLines(q, s) = s - 4
      BY <1>2, <1>4, <2>3 DEF OnLines
    <3>3. (s - 5) + 1 = s - 4 /\ s - 5 \in 0 .. 4
      BY <2>3
    <3> QED BY <1>2, <3>1, <3>2, <3>3
  <2>4. s \in 1 .. 2 \/ s \in 3 .. 6 \/ s \in 7 .. 9
    OBVIOUS
  <2> QED BY <2>1, <2>2, <2>3, <2>4
<1> QED BY <1>3, <1>4

\* An operation of the way out.
LEMMA LeavingStep ==
  ASSUME NEW v \in TwoBytes, NEW q \in 0 .. 2, NEW w \in 0 .. 4, Leaving(v, q, w), Wire,
         Head(script) = ExitOp(w + 1), entry \in 2 .. 25, v = Register
  PROVE  Leaving(v, q, w + 1)' /\ script' = Tail(script) /\ acked' = acked
<1>1. /\ scl = (IF w \in {1, 4} THEN 1 ELSE 0) /\ sda = (IF w \in {3, 4} THEN 0 ELSE 1)
      /\ device = Refusing(v, q) /\ Whole(entry - 2)
  BY DEF Leaving
<1>2. entry' = entry
  BY DEF Wire
<1>3. CASE w \in {0, 1, 3}
  <2>1. PICK u \in {0, 1} : u = IF w = 1 THEN 0 ELSE 1
    OBVIOUS
  <2>2. Head(script) = Scl(u)
    BY <1>3, <2>1 DEF ExitOp
  <2>3. scl' = u /\ sda' = sda /\ device' = device /\ taken' = taken /\ acked' = acked
        /\ script' = Tail(script)
    BY <1>1, <2>2, SclOp, ClockUnminded
  <2>4. Whole(entry - 2)'
    BY <1>1, <1>2, <2>3 DEF Whole
  <2>5. PICK x : x = w + 1
    OBVIOUS
  <2>6. /\ u = (IF x \in {1, 4, 5} THEN 1 ELSE 0) /\ x < 5 /\ x # 5
        /\ sda = (IF x \in {3, 4} THEN 0 ELSE 1)
    BY <1>1, <1>3, <2>1, <2>5
  <2>7. Leaving(v, q, x)'
    BY <1>1, <2>3, <2>4, <2>6 DEF Leaving
  <2> QED BY <2>3, <2>5, <2>7
<1>4. CASE w = 2
  <2>1. Head(script) = Sda(0) /\ scl = 0
    <3>1. 2 + 1 = 3 /\ 3 \notin {1, 4} /\ 3 # 2 /\ 2 \notin {1, 4}
      OBVIOUS
    <3> QED BY <1>1, <1>4, <3>1 DEF ExitOp
  <2>2. SetSda(0) /\ script' = Tail(script) /\ SclLine = 0
    BY <1>1, <2>1, SdaOp, LineLevels
  <2>3. sda' = 0 /\ scl' = scl /\ device' = device /\ taken' = taken /\ acked' = acked
    BY <2>2, SdaSettles
  <2>4. Whole(entry - 2)'
    BY <1>1, <1>2, <2>3 DEF Whole
  <2>5. Leaving(v, q, 3)'
    <3>1. 3 \notin {1, 4, 5} /\ 3 \in {3, 4} /\ 3 < 5 /\ 3 # 5
      OBVIOUS
    <3> QED BY <1>1, <2>1, <2>3, <2>4, <3>1 DEF Leaving
  <2>6. w + 1 = 3
    BY <1>4
  <2> QED BY <2>2, <2>3, <2>5, <2>6
<1>5. CASE w = 4
  <2>1. Head(script) = Sda(1) /\ scl = 1 /\ sda = 0
    <3>1. 4 + 1 = 5 /\ 5 \notin {1, 4} /\ 5 # 2 /\ 5 # 3 /\ 4 \in {1, 4} /\ 4 \in {3, 4}
      OBVIOUS
    <3> QED BY <1>1, <1>5, <3>1 DEF ExitOp
  <2>2. PICK y : y = BytesTaken(v, q)
    OBVIOUS
  <2>3. /\ SetSda(1) /\ script' = Tail(script) /\ SclLine = 1 /\ SdaLine = 0
        /\ ~device.pull /\ ~device.sending /\ device.bytes = y
    BY <1>1, <2>1, <2>2, SdaOp, LineLevels
  <2>4. /\ sda' = 1 /\ scl' = scl /\ acked' = acked /\ device' = Idle
        /\ taken' = IF device.bytes # <<>> THEN Append(taken, Tail(device.bytes)) ELSE taken
    BY <2>3, StopSeen
  <2>5. taken' = IF y # <<>> THEN Append(taken, Tail(y)) ELSE taken
    BY <2>3, <2>4
  <2>6. PICK n \in 1 .. 24 : n = entry - 1
    OBVIOUS
  <2>7. Sequence(taken) /\ Len(taken) = n - 1 /\ \A i \in 1 .. n - 1 : taken[i] = RegisterBytes(AudioRegisters[i])
    <3>1. n - 1 = entry - 2
      BY <2>6
    <3> QED BY <1>1, <3>1 DEF Whole
  <2>8. v = RegisterBytes(AudioRegisters[n])
    BY <2>6 DEF Register
  <2>9. y = <<>> <=> q = 0
    <3>1. \A a, b : <<a>> # <<>> /\ <<a, b>> # <<>>
      OBVIOUS
    <3> QED BY <2>2, <3>1 DEF BytesTaken
  <2>10. CutAt(n, q)'
    <3>1. CASE q = 0
      BY <2>5, <2>7, <2>9, <3>1 DEF CutAt
    <3>2. CASE q # 0
      <4>1. PICK x : x = Tail(y)
        OBVIOUS
      <4>2. taken' = Append(taken, x)
        BY <2>5, <2>9, <3>2, <4>1
      <4>3. /\ Sequence(Append(taken, x)) /\ Len(taken) \in Nat /\ Len(Append(taken, x)) = Len(taken) + 1
            /\ \A i \in 1 .. Len(taken) : Append(taken, x)[i] = taken[i]
            /\ Append(taken, x)[Len(taken) + 1] = x
        <5>1. Sequence(taken)
          BY <2>7
        <5> QED BY <5>1, Appended
      <4>4. /\ Sequence(taken') /\ Len(taken') = n /\ taken'[n] = x
            /\ \A i \in 1 .. n - 1 : taken'[i] = taken[i]
        <5>1. (n - 1) + 1 = n
          OBVIOUS
        <5> QED BY <2>7, <4>2, <4>3, <5>1
      <4>5. x = Tail(BytesTaken(RegisterBytes(AudioRegisters[n]), q))
        BY <2>2, <2>8, <4>1
      <4> QED BY <2>7, <3>2, <4>4, <4>5 DEF CutAt
    <3> QED BY <3>1, <3>2
  <2>11. CutAt(entry - 1, q)'
    <3>1. entry' - 1 = n
      BY <1>2, <2>6
    <3> QED BY <2>10, <3>1 DEF CutAt
  <2>12. Leaving(v, q, 5)'
    <3>1. 5 \in {1, 4, 5} /\ 5 \notin {3, 4} /\ ~(5 < 5)
      OBVIOUS
    <3> QED BY <2>1, <2>4, <2>11, <3>1 DEF Leaving
  <2>13. w + 1 = 5
    BY <1>5
  <2> QED BY <2>3, <2>4, <2>12, <2>13
<1>6. w \in {0, 1, 3} \/ w = 2 \/ w = 4
  OBVIOUS
<1> QED BY <1>3, <1>4, <1>5, <1>6

\* The two lines are released before the first register.
LEMMA SettingUpWire ==
  ASSUME SettingUp, Wire
  PROVE  SettingUp'
<1>1. /\ entry = 1 /\ Whole(0) /\ acked /\ device = Idle /\ scl \in {0, 1} /\ sda \in {0, 1}
      /\ script # <<>> /\ entry' = entry
  BY DEF SettingUp, Fresh, Wire
<1>2. PICK a, b : a = Sda(1) /\ b = Scl(1)
  OBVIOUS
<1>3. CASE script = I2cSetup
  <2>1. script = <<a, b>>
    BY <1>2, <1>3 DEF I2cSetup
  <2>2. Head(script) = Sda(1) /\ Tail(script) = <<b>>
    <3>1. Head(<<a, b>>) = a /\ Tail(<<a, b>>) = <<b>>
      OBVIOUS
    <3> QED BY <1>2, <2>1, <3>1
  <2>3. SetSda(1) /\ script' = <<b>>
    BY <2>2, SdaOp
  <2>4. /\ SclLine = scl /\ SdaLine = sda /\ ~device.pull /\ ~device.sending /\ device.bytes = <<>>
    BY <1>1, LineLevels
  <2>5. sda' = 1 /\ scl' = scl /\ taken' = taken /\ acked' = acked /\ device' = Idle
    <3>1. CASE scl = 0
      BY <1>1, <2>3, <2>4, <3>1, SdaSettles
    <3>2. CASE sda = 1
      BY <1>1, <2>3, <2>4, <3>2, SdaStays
    <3>3. CASE scl = 1 /\ sda = 0
      BY <2>3, <2>4, <3>3, StopSeen
    <3> QED BY <1>1, <3>1, <3>2, <3>3
  <2>6. Fresh'
    BY <1>1, <2>5 DEF Fresh, Whole
  <2> QED BY <1>2, <2>3, <2>5, <2>6 DEF SettingUp
<1>4. CASE script = <<Scl(1)>>
  <2>1. script = <<b>> /\ sda = 1
    <3>1. b # a
      BY <1>2 DEF Scl, Sda
    <3>2. <<b>> # <<a, b>> /\ <<b>> # <<>>
      OBVIOUS
    <3> QED BY <1>2, <1>4, <3>2 DEF SettingUp, I2cSetup
  <2>2. Head(script) = Scl(1) /\ Tail(script) = <<>>
    <3>1. Head(<<b>>) = b /\ Tail(<<b>>) = <<>>
      OBVIOUS
    <3> QED BY <1>2, <2>1, <3>1
  <2>3. SetScl(1) /\ script' = <<>>
    BY <2>2, SclOp
  <2>4. scl' = 1 /\ sda' = sda /\ device' = device /\ taken' = taken /\ acked' = acked
    <3>1. 1 \in {0, 1}
      OBVIOUS
    <3> QED BY <1>1, <2>3, <3>1, ClockUnminded
  <2>5. Fresh' /\ AtRest'
    BY <1>1, <2>1, <2>4 DEF Fresh, Whole, AtRest
  <2> QED BY <2>3, <2>5 DEF SettingUp
<1> QED BY <1>1, <1>3, <1>4 DEF SettingUp

\* A register is written, or refused.
LEMMA WritingWire ==
  ASSUME Writing, Wire
  PROVE  Writing' \/ GivingUp'
<1>1. entry \in 2 .. 25 /\ acked /\ script # <<>> /\ entry' = entry
  BY DEF Writing, Wire
<1>2. PICK n \in 1 .. 24 : n = entry - 1
  BY <1>1
<1>3. PICK v \in TwoBytes : v = Register /\ v = RegisterBytes(AudioRegisters[n])
  BY <1>2, RegistersAre DEF Register
<1>4. PICK p \in 0 .. 91 :
        /\ Sequence(script) /\ Len(script) = 91 - p
        /\ \A i \in 1 .. 91 - p : script[i] = WriteOp(v, p + i)
        /\ WriteAt(v, p) /\ Reached(p)
  <2>1. PICK u \in {Register}, p \in 0 .. 91 :
          /\ Sequence(script) /\ Len(script) = 91 - p
          /\ \A i \in 1 .. 91 - p : script[i] = WriteOp(u, p + i)
          /\ WriteAt(u, p) /\ Reached(p)
    BY Zenon DEF Writing
  <2>2. u = v
    BY <1>3
  <2> QED BY <2>1, <2>2, Zenon
<1>5. v \in {Register'}
  BY <1>1, <1>3 DEF Register
<1>6. p # 91
  BY <1>1, <1>4, Empty
<1>7. /\ Sequence(Tail(script)) /\ Len(Tail(script)) = 91 - (p + 1) /\ Head(script) = WriteOp(v, p + 1)
      /\ \A i \in 1 .. 91 - (p + 1) : Tail(script)[i] = WriteOp(v, (p + 1) + i)
  <2>1. /\ Sequence(Tail(script)) /\ Len(script) \in Nat \ {0} /\ Len(Tail(script)) = Len(script) - 1
        /\ Head(script) = script[1]
        /\ \A i \in 1 .. Len(script) - 1 : Tail(script)[i] = script[i + 1]
    BY <1>1, <1>4, TailOf
  <2>2. PICK t : t = Tail(script)
    OBVIOUS
  <2>3. Len(t) = 91 - (p + 1) /\ Head(script) = WriteOp(v, p + 1)
    BY <1>4, <1>6, <2>1, <2>2
  <2>4. ASSUME NEW i \in 1 .. 91 - (p + 1) PROVE t[i] = WriteOp(v, (p + 1) + i)
    <3>1. PICK k \in 1 .. 91 - p : k = i + 1 /\ p + k = (p + 1) + i
      OBVIOUS
    <3>2. t[i] = script[k]
      BY <1>4, <2>1, <2>2, <3>1
    <3> QED BY <1>4, <3>1, <3>2
  <2> QED BY <2>1, <2>2, <2>3, <2>4
<1>8. /\ Sequence(taken) /\ Len(taken) = n - 1
      /\ \A i \in 1 .. n - 1 : taken[i] = RegisterBytes(AudioRegisters[i])
  <2>1. n - 1 = entry - 2
    BY <1>2
  <2> QED BY <1>4, <1>6, <2>1 DEF Whole, Reached
\* The write goes on.
<1>9. ASSUME acked' = acked, script' = Tail(script), WriteAt(v, p + 1)',
             Reached(p + 1)'
      PROVE  Writing'
  <2>1. PICK r \in 0 .. 91 : r = p + 1
    BY <1>6
  <2>2. /\ Sequence(script') /\ Len(script') = 91 - r
        /\ \A i \in 1 .. 91 - r : script'[i] = WriteOp(v, r + i)
    BY <1>7, <1>9, <2>1
  <2>3. WriteAt(v, r)' /\ Reached(r)'
    BY <1>9, <2>1
  <2> QED BY <1>1, <1>5, <1>9, <2>2, <2>3 DEF Writing
<1>10. CASE p \in 0 .. 3
  <2>1. acked' = acked /\ script' = Tail(script) /\ taken' = taken /\ WriteAt(v, p + 1)'
    BY <1>4, <1>7, <1>10, WriteStarts
  <2>2. Reached(p + 1)'
    <3>1. p + 1 # 91 /\ entry' - 2 = n - 1
      BY <1>1, <1>2, <1>10
    <3> QED BY <1>8, <2>1, <3>1 DEF Whole, Reached
  <2> QED BY <1>9, <2>1, <2>2
<1>11. CASE p \in 4 .. 87
  <2>1. /\ taken' = taken
        /\ \/ acked' = acked /\ script' = Tail(script) /\ WriteAt(v, p + 1)'
           \/ /\ ~acked' /\ scl' = 0 /\ sda' = 1
              /\ \E q \in 0 .. 2 : script' = WayOut(q) /\ device' = Refusing(v, q)
    <3>1. acked \in BOOLEAN
      BY <1>1
    <3> QED BY <1>4, <1>7, <1>11, <3>1, WriteSends
  <2>2. CASE acked' = acked /\ script' = Tail(script) /\ WriteAt(v, p + 1)'
    <3>1. Reached(p + 1)'
      <4>1. p + 1 # 91 /\ entry' - 2 = n - 1
        BY <1>1, <1>2, <1>11
      <4> QED BY <1>8, <2>1, <4>1 DEF Whole, Reached
    <3> QED BY <1>9, <2>2, <3>1
  <2>3. CASE /\ ~acked' /\ scl' = 0 /\ sda' = 1
             /\ \E q \in 0 .. 2 : script' = WayOut(q) /\ device' = Refusing(v, q)
    <3>1. PICK q \in 0 .. 2 : script' = WayOut(q) /\ device' = Refusing(v, q)
      BY <2>3
    <3>2. Sequence(script') /\ Len(script') = 9
      BY <3>1, WayOutIs
    <3>3. Whole(entry - 2)'
      <4>1. entry' - 2 = n - 1
        BY <1>1, <1>2
      <4> QED BY <1>8, <2>1, <4>1 DEF Whole
    <3>4. Leaving(v, q, 0)'
      <4>1. 0 \notin {1, 4, 5} /\ 0 \notin {3, 4} /\ 0 < 5 /\ 0 # 5
        OBVIOUS
      <4> QED BY <2>3, <3>1, <3>3, <4>1 DEF Leaving
    <3>5. OnLines(q, 0) = 0
      BY DEF OnLines
    <3>6. PICK r \in 0 .. 9 : r = 0
      OBVIOUS
    <3>7. /\ Len(script') = 9 - r /\ \A i \in 1 .. 9 - r : script'[i] = WayOut(q)[r + i]
          /\ Leaving(v, q, OnLines(q, r))'
      BY <3>1, <3>2, <3>4, <3>5, <3>6
    <3> QED BY <1>1, <1>5, <2>3, <3>2, <3>7 DEF GivingUp
  <2> QED BY <2>1, <2>2, <2>3
<1>12. CASE p \in 88 .. 90
  <2>1. /\ acked' = acked /\ script' = Tail(script) /\ WriteAt(v, p + 1)'
        /\ taken' = IF p = 90 THEN Append(taken, v) ELSE taken
    BY <1>4, <1>7, <1>12, WriteStops
  <2>2. CASE p # 90
    <3>1. Reached(p + 1)'
      <4>1. p + 1 # 91 /\ entry' - 2 = n - 1
        BY <1>1, <1>2, <1>12, <2>2
      <4> QED BY <1>8, <2>1, <2>2, <4>1 DEF Whole, Reached
    <3> QED BY <1>9, <2>1, <3>1
  <2>3. CASE p = 90
    <3>1. taken' = Append(taken, v)
      BY <2>1, <2>3
    <3>2. /\ Sequence(Append(taken, v)) /\ Len(taken) \in Nat /\ Len(Append(taken, v)) = Len(taken) + 1
          /\ \A i \in 1 .. Len(taken) : Append(taken, v)[i] = taken[i]
          /\ Append(taken, v)[Len(taken) + 1] = v
      <4>1. Sequence(taken)
        BY <1>8
      <4> QED BY <4>1, Appended
    <3>3. /\ Sequence(taken') /\ Len(taken') = n /\ taken'[n] = v
          /\ \A i \in 1 .. n - 1 : taken'[i] = taken[i]
      <4>1. (n - 1) + 1 = n
        OBVIOUS
      <4> QED BY <1>8, <3>1, <3>2, <4>1
    <3>4. \A i \in 1 .. n : taken'[i] = RegisterBytes(AudioRegisters[i])
      <4> TAKE i \in 1 .. n
      <4>1. i \in 1 .. n - 1 \/ i = n
        OBVIOUS
      <4> QED BY <1>3, <1>8, <3>3, <4>1
    <3>5. Reached(p + 1)'
      <4>1. p + 1 = 91 /\ entry' - 1 = n
        BY <1>1, <1>2, <2>3
      <4> QED BY <3>3, <3>4, <4>1 DEF Whole, Reached
    <3> QED BY <1>9, <2>1, <3>5
  <2> QED BY <2>2, <2>3
<1>13. p \in 0 .. 3 \/ p \in 4 .. 87 \/ p \in 88 .. 90
  BY <1>6
<1> QED BY <1>10, <1>11, <1>12, <1>13

\* The way out goes on, on the lines or with a message.
LEMMA GivingUpStep ==
  ASSUME GivingUp, script # <<>>, entry' = entry,
         \/ Wire
         \/ UNCHANGED i2cVars /\ script' = Tail(script) /\ Head(script)[1] \in {"alog", "elog"}
  PROVE  GivingUp'
<1>1. entry \in 2 .. 25 /\ ~acked
  BY DEF GivingUp
<1>2. PICK v \in TwoBytes : v = Register
  <2>1. PICK n \in 1 .. 24 : n = entry - 1
    BY <1>1
  <2> QED BY <2>1, RegistersAre DEF Register
<1>3. PICK q \in 0 .. 2, r \in 0 .. 9 :
        /\ Sequence(script) /\ Len(script) = 9 - r
        /\ \A i \in 1 .. 9 - r : script[i] = WayOut(q)[r + i]
        /\ Leaving(v, q, OnLines(q, r))
  BY <1>2 DEF GivingUp
<1>4. v \in {Register'}
  BY <1>2 DEF Register
<1>5. r \in 0 .. 8
  BY <1>3, Empty
<1>6. PICK s \in 1 .. 9 : s = r + 1
  BY <1>5
<1>7. /\ Sequence(Tail(script)) /\ Len(Tail(script)) = 9 - s /\ Head(script) = WayOut(q)[s]
      /\ \A i \in 1 .. 9 - s : Tail(script)[i] = WayOut(q)[s + i]
  <2>1. /\ Sequence(Tail(script)) /\ Len(script) \in Nat \ {0} /\ Len(Tail(script)) = Len(script) - 1
        /\ Head(script) = script[1]
        /\ \A i \in 1 .. Len(script) - 1 : Tail(script)[i] = script[i + 1]
    BY <1>3, TailOf
  <2>2. PICK t : t = Tail(script)
    OBVIOUS
  <2>3. Len(t) = 9 - s /\ Head(script) = WayOut(q)[s]
    BY <1>3, <1>5, <1>6, <2>1, <2>2
  <2>4. ASSUME NEW i \in 1 .. 9 - s PROVE t[i] = WayOut(q)[s + i]
    <3>1. PICK k \in 1 .. 9 - r : k = i + 1 /\ r + k = s + i
      BY <1>6
    <3>2. t[i] = script[k]
      BY <1>3, <1>6, <2>1, <2>2, <3>1
    <3> QED BY <1>3, <3>1, <3>2
  <2> QED BY <2>1, <2>2, <2>3, <2>4
<1>8. script' = Tail(script) /\ acked' = acked /\ Leaving(v, q, OnLines(q, s))'
  <2>1. \/ WayOut(q)[s][1] = "elog" /\ OnLines(q, s) = OnLines(q, r)
        \/ /\ WayOut(q)[s] = ExitOp(OnLines(q, r) + 1)
           /\ OnLines(q, r) \in 0 .. 4 /\ OnLines(q, s) = OnLines(q, r) + 1
    BY <1>5, <1>6, WayOutOps
  <2>2. CASE WayOut(q)[s][1] = "elog" /\ OnLines(q, s) = OnLines(q, r)
    <3>1. ~Wire
      BY <1>7, <2>2 DEF Wire, I2cOps
    <3>2. UNCHANGED i2cVars /\ script' = Tail(script)
      BY <3>1
    <3>3. PICK w : w = OnLines(q, r)
      OBVIOUS
    <3>4. Leaving(v, q, w)'
      BY <1>3, <3>2, <3>3 DEF Leaving, Whole, CutAt, i2cVars
    <3> QED BY <2>2, <3>2, <3>3, <3>4 DEF i2cVars
  <2>3. CASE /\ WayOut(q)[s] = ExitOp(OnLines(q, r) + 1)
             /\ OnLines(q, r) \in 0 .. 4 /\ OnLines(q, s) = OnLines(q, r) + 1
    <3>1. PICK w \in 0 .. 4 : w = OnLines(q, r)
      BY <2>3
    <3>2. Head(script) = ExitOp(w + 1)
      BY <1>7, <2>3, <3>1
    <3>3. Head(script)[1] \notin {"alog", "elog"}
      <4>1. \A b : Scl(b)[1] \notin {"alog", "elog"} /\ Sda(b)[1] \notin {"alog", "elog"}
        BY DEF Scl, Sda
      <4> QED BY <3>2, <4>1 DEF ExitOp
    <3>4. Wire
      BY <3>3
    <3>5. Leaving(v, q, w + 1)' /\ script' = Tail(script) /\ acked' = acked
      BY <1>1, <1>2, <1>3, <3>1, <3>2, <3>4, LeavingStep
    <3> QED BY <2>3, <3>1, <3>5
  <2> QED BY <2>1, <2>2, <2>3
<1>9. /\ Sequence(script') /\ Len(script') = 9 - s
      /\ \A i \in 1 .. 9 - s : script'[i] = WayOut(q)[s + i]
  BY <1>7, <1>8
<1>10. entry' \in 2 .. 25 /\ ~acked' /\ s \in 0 .. 9
  <2>1. ~acked'
    BY <1>1, <1>8, Zenon
  <2> QED BY <1>1, <2>1
<1> QED BY <1>4, <1>8, <1>9, <1>10, Zenon DEF GivingUp

-----------------------------------------------------------------------------
(* The set-up, call by call.                                                  *)

LEMMA CodecStarts == Init => CodecInv
<1> SUFFICES ASSUME Init PROVE CodecInv
  OBVIOUS
<1>1. /\ pc = "reset" /\ entry = 1 /\ taken = <<>> /\ acked = TRUE /\ device = Idle
      /\ scl \in {0, 1} /\ sda \in {0, 1}
  BY DEF Init, BootInit, I2cInit
<1>2. Whole(0)
  <2>1. Sequence(taken) /\ Len(taken) = 0
    BY <1>1, Nothing
  <2> QED BY <2>1 DEF Whole
<1> QED BY <1>1, <1>2 DEF CodecInv, Fresh, Loads, Plays

\* What the player prints.
LEMMA PlayerTexts ==
  /\ OfPlayer(Alog(Compiled)) /\ OfPlayer(Alog(Calling))
  /\ OfPlayer(Elog(WriteFailed) \o Alog(Calling))
  /\ OfPlayer(Alog(Returned \o Captured)) /\ OfPlayer(<<>>)
<1>1. ASSUME NEW text, Sequence(text) PROVE OfPlayer(Alog(text)) /\ OfPlayer(Elog(text))
  <2>1. PICK S : text \in Seq(S)
    BY <1>1 DEF Sequence
  <2>2. DOMAIN text = 1 .. Len(text) /\ Len(text) \in Nat
    BY <2>1
  <2>3. PICK f, g : f = Alog(text) /\ g = Elog(text)
    OBVIOUS
  <2>4. f = [i \in 1 .. Len(text) |-> f[i]] /\ \A i \in 1 .. Len(text) : f[i] = <<"alog", text[i]>>
    BY <2>2, <2>3 DEF Alog
  <2>5. g = [i \in 1 .. Len(text) |-> g[i]] /\ \A i \in 1 .. Len(text) : g[i] = <<"elog", text[i]>>
    BY <2>2, <2>3 DEF Elog
  <2>6. Sequence(f) /\ Len(f) = Len(text) /\ Sequence(g) /\ Len(g) = Len(text)
    BY <2>2, <2>4, <2>5, Listed
  <2> QED BY <2>3, <2>4, <2>5, <2>6 DEF OfPlayer
<1>2. Sequence(Compiled) /\ Sequence(Calling) /\ Sequence(Returned) /\ Sequence(Captured) /\ Sequence(WriteFailed)
  <2>1. Compiled \in Seq({"i", "m", "f", NL}) /\ Calling \in Seq({"c", "a", "l", NL})
    BY DEF Compiled, Calling
  <2>2. Returned \in Seq({"r", "e", "t", " ", "0", NL}) /\ Captured \in Seq({"0", " ", "s", NL})
    BY DEF Returned, Captured
  <2>3. WriteFailed \in Seq({"f", "a", "i", "l", NL})
    BY DEF WriteFailed
  <2> QED BY <2>1, <2>2, <2>3 DEF Sequence
<1>3. OfPlayer(Elog(WriteFailed) \o Alog(Calling))
  <2>1. PICK s, t : s = Elog(WriteFailed) /\ t = Alog(Calling)
    OBVIOUS
  <2>2. OfPlayer(s) /\ OfPlayer(t)
    BY <1>1, <1>2, <2>1
  <2>3. PICK u : u = s \o t
    OBVIOUS
  <2>4. /\ Sequence(u) /\ Len(s) \in Nat /\ Len(t) \in Nat /\ Len(u) = Len(s) + Len(t)
        /\ \A i \in 1 .. Len(s) : u[i] = s[i]
        /\ \A i \in Len(s) + 1 .. Len(s) + Len(t) : u[i] = t[i - Len(s)]
    <3>1. Sequence(s) /\ Sequence(t)
      BY <2>2 DEF OfPlayer
    <3> QED BY <2>3, <3>1, Joined
  <2>5. \A i \in 1 .. Len(u) : u[i][1] \in {"alog", "elog"}
    <3> TAKE i \in 1 .. Len(u)
    <3>1. CASE i <= Len(s)
      <4>1. i \in 1 .. Len(s)
        BY <2>4, <3>1
      <4> QED BY <2>2, <2>4, <4>1 DEF OfPlayer
    <3>2. CASE ~(i <= Len(s))
      <4>1. i \in Len(s) + 1 .. Len(s) + Len(t) /\ i - Len(s) \in 1 .. Len(t)
        BY <2>4, <3>2
      <4> QED BY <2>2, <2>4, <4>1 DEF OfPlayer
    <3> QED BY <3>1, <3>2
  <2> QED BY <2>1, <2>3, <2>4, <2>5 DEF OfPlayer
<1>4. Sequence(Returned \o Captured)
  BY <1>2, Joined
<1>5. OfPlayer(<<>>)
  BY Nothing DEF OfPlayer
<1> QED BY <1>1, <1>2, <1>3, <1>4, <1>5

\* The calls of the loader lead from one to the other, and end when the program runs.
LEMMA LoaderCallsStay ==
  /\ LoaderCall => pc \in Loads /\ pc' \in Loads
  /\ LoaderStep => pc' = pc /\ script' = Tail(script) /\ script # <<>> /\ Head(script)[1] \in LoaderOps
<1>1. AfterWord \in {"word", "block"}
  BY DEF AfterWord
<1>2. Boot \/ IdFails \/ IdPasses \/ BeginBlock => pc \in Loads /\ pc' \in Loads
  BY DEF Boot, IdFails, IdPasses, BeginBlock, Goes, Loads
<1>3. LoadWord \/ VerifyWord \/ VerifyFails => pc \in Loads /\ pc' \in Loads
  BY <1>1 DEF LoadWord, VerifyWord, VerifyFails, Goes, Loads
<1>4. Loaded \/ Verified \/ TestStart \/ Fill \/ Filled => pc \in Loads /\ pc' \in Loads
  BY DEF Loaded, Verified, TestStart, Fill, Filled, Goes, Loads
<1>5. Check \/ CheckFails \/ TestPasses => pc \in Loads /\ pc' \in Loads
  BY DEF Check, CheckFails, TestPasses, Goes, Loads
<1>6. LoaderStep => pc' = pc /\ script' = Tail(script) /\ script # <<>> /\ Head(script)[1] \in LoaderOps
  BY DEF LoaderStep, Put, Pin, Sample, LoaderOps
<1> QED BY <1>2, <1>3, <1>4, <1>5, <1>6 DEF LoaderCall

\* What a step leaves that touches neither the lines nor the table.
LEMMA LinesKept ==
  ASSUME UNCHANGED i2cVars, entry' = entry
  PROVE  (AtRest => AtRest') /\ (Fresh => Fresh') /\ (SetUp => SetUp')
<1>1. (AtRest => AtRest') /\ (Fresh => Fresh')
  BY DEF i2cVars, AtRest, Fresh, Whole
<1>2. SetUp => SetUp'
  <2> SUFFICES ASSUME SetUp PROVE SetUp'
    OBVIOUS
  <2>1. AtRest' /\ entry' \in 2 .. 25
    BY <1>1 DEF SetUp
  <2>2. acked' => entry' = 25 /\ Whole(24)'
    BY DEF SetUp, i2cVars, Whole
  <2>3. ~acked' => \E q \in 0 .. 2 : CutAt(entry - 1, q)'
    BY DEF SetUp, i2cVars, CutAt
  <2> QED BY <2>1, <2>2, <2>3 DEF SetUp
<1> QED BY <1>1, <1>2

\* The operations of the player.
LEMMA PlayerOps ==
  ASSUME CodecInv, pc \in Plays, script # <<>>
  PROVE  /\ pc # "codec" => /\ Head(script)[1] \in {"alog", "elog"}
                            /\ OfPlayer(Tail(script))
         /\ pc = "codec" /\ ~GivingUp => Head(script)[1] \in LineOps
         /\ Head(script)[1] \notin LoaderOps
<1>1. ASSUME pc # "codec" PROVE Head(script)[1] \in {"alog", "elog"} /\ OfPlayer(Tail(script))
  <2>1. Sequence(script) /\ \A i \in 1 .. Len(script) : script[i][1] \in {"alog", "elog"}
    BY <1>1 DEF CodecInv, OfPlayer
  <2>2. /\ Sequence(Tail(script)) /\ Len(script) \in Nat \ {0} /\ Len(Tail(script)) = Len(script) - 1
        /\ Head(script) = script[1]
        /\ \A i \in 1 .. Len(script) - 1 : Tail(script)[i] = script[i + 1]
    BY <2>1, TailOf
  <2>3. PICK t : t = Tail(script)
    OBVIOUS
  <2>4. \A i \in 1 .. Len(t) : t[i][1] \in {"alog", "elog"}
    BY <2>1, <2>2, <2>3
  <2> QED BY <2>1, <2>2, <2>3, <2>4 DEF OfPlayer
<1>2. ASSUME pc = "codec", SettingUp PROVE Head(script)[1] \in LineOps
  <2>1. PICK a, b : a = Sda(1) /\ b = Scl(1)
    OBVIOUS
  <2>2. script = <<a, b>> \/ script = <<b>>
    BY <1>2, <2>1 DEF SettingUp, I2cSetup
  <2>3. Head(<<a, b>>) = a /\ Head(<<b>>) = b
    OBVIOUS
  <2> QED BY <2>1, <2>2, <2>3 DEF Scl, Sda, LineOps
<1>3. ASSUME pc = "codec", Writing PROVE Head(script)[1] \in LineOps
  <2>1. PICK v \in {Register}, p \in 0 .. 91 :
          /\ Sequence(script) /\ Len(script) = 91 - p
          /\ \A i \in 1 .. 91 - p : script[i] = WriteOp(v, p + i)
    BY <1>3, Zenon DEF Writing
  <2>2. Len(script) \in Nat \ {0} /\ Head(script) = script[1]
    BY <2>1, TailOf
  <2>3. PICK r \in 1 .. 91 : r = p + 1
    BY <2>1, <2>2
  <2>4. Head(script) = WriteOp(v, r)
    BY <2>1, <2>2, <2>3
  <2> QED BY <2>4, LinesOnly
<1>4. ASSUME pc = "codec", GivingUp PROVE Head(script)[1] \in LineOps \cup {"elog"}
  <2>1. PICK q \in 0 .. 2, r \in 0 .. 9 :
          /\ Sequence(script) /\ Len(script) = 9 - r
          /\ \A i \in 1 .. 9 - r : script[i] = WayOut(q)[r + i]
    BY <1>4, Zenon DEF GivingUp
  <2>2. Len(script) \in Nat \ {0} /\ Head(script) = script[1]
    BY <2>1, TailOf
  <2>3. r \in 0 .. 8 /\ Head(script) = WayOut(q)[r + 1]
    BY <2>1, <2>2
  <2>4. \A w : ExitOp(w)[1] \in LineOps
    <3>1. \A b : Scl(b)[1] \in LineOps /\ Sda(b)[1] \in LineOps
      BY DEF Scl, Sda, LineOps
    <3> QED BY <3>1 DEF ExitOp
  <2> QED BY <2>3, <2>4, WayOutOps
<1>5. pc = "codec" => SettingUp \/ Writing \/ GivingUp
  BY DEF CodecInv
<1>6. (LineOps \cup {"alog", "elog"}) \cap LoaderOps = {}
  BY DEF LineOps, LoaderOps
<1> QED BY <1>1, <1>2, <1>3, <1>4, <1>5, <1>6

\* Between two registers, and after the last.
LEMMA CodecCalls ==
  ASSUME CodecInv, pc = "codec", script = <<>>
  PROVE  /\ AtRest
         /\ acked => entry \in 1 .. 25 /\ Whole(entry - 1)
         /\ ~acked => entry \in 2 .. 25 /\ \E q \in 0 .. 2 : CutAt(entry - 1, q)
<1>1. SettingUp \/ Writing \/ GivingUp
  BY DEF CodecInv
<1>2. Len(script) = 0
  BY Nothing
<1>3. CASE SettingUp
  <2>1. PICK a, b : a = Sda(1) /\ b = Scl(1)
    OBVIOUS
  <2>2. <<a, b>> # <<>> /\ <<b>> # <<>>
    OBVIOUS
  <2>3. AtRest /\ entry = 1 /\ Whole(0) /\ acked
    BY <1>3, <2>1, <2>2 DEF SettingUp, I2cSetup, Fresh
  <2>4. entry - 1 = 0 /\ entry \in 1 .. 25
    BY <2>3
  <2> QED BY <2>3, <2>4
<1>4. CASE Writing
  <2>1. PICK v \in {Register}, p \in 0 .. 91 :
          /\ Len(script) = 91 - p /\ WriteAt(v, p)
          /\ Reached(p)
    BY <1>4, Zenon DEF Writing
  <2>2. p = 91
    BY <1>2, <2>1
  <2> QED BY <1>4, <2>1, <2>2 DEF Writing, WriteAt, Reached
<1>5. CASE GivingUp
  <2>1. PICK v \in {Register}, q \in 0 .. 2, r \in 0 .. 9 :
          Len(script) = 9 - r /\ Leaving(v, q, OnLines(q, r))
    BY <1>5, Zenon DEF GivingUp
  <2>2. r = 9
    BY <1>2, <2>1
  <2>3. OnLines(q, 9) = 5
    <3>1. ~(9 < 5) /\ ~(9 <= 2) /\ ~(9 <= 6) /\ 9 - 4 = 5
      OBVIOUS
    <3> QED BY <3>1 DEF OnLines
  <2>4. Leaving(v, q, 5)
    BY <2>1, <2>2, <2>3
  <2>5. scl = 1 /\ sda = 1 /\ device = Idle /\ CutAt(entry - 1, q)
    <3>1. 5 \in {1, 4, 5} /\ 5 \notin {3, 4}
      OBVIOUS
    <3> QED BY <2>4, <3>1 DEF Leaving
  <2> QED BY <1>5, <2>5 DEF GivingUp, AtRest
<1> QED BY <1>1, <1>3, <1>4, <1>5

-----------------------------------------------------------------------------
(* The set-up as a whole.                                                     *)

\* The calls of the player.
LEMMA PlayerCallsKeepCodec ==
  ASSUME CodecInv,
         PlayerMain \/ AudioInit \/ AudioWrite \/ AudioFails \/ AudioDone \/ Play \/ PlayerEnds
  PROVE  CodecInv'
<1>1. acked \in BOOLEAN
  BY DEF CodecInv
<1>2. CASE PlayerMain
  <2>1. pc = "jump" /\ pc' = "audio" /\ script' = Alog(Compiled) /\ UNCHANGED i2cVars /\ entry' = entry
    BY <1>2 DEF PlayerMain, Calls
  <2>2. Fresh
    BY <2>1 DEF CodecInv, Loads
  <2>3. Fresh'
    BY <2>1, <2>2, LinesKept
  <2>4. acked' \in BOOLEAN
    BY <1>1, <2>1 DEF i2cVars
  <2> QED BY <2>1, <2>3, <2>4, PlayerTexts DEF CodecInv, Loads, Plays
<1>3. CASE AudioInit
  <2>1. /\ pc = "audio" /\ pc' = "codec" /\ script' = I2cSetup /\ UNCHANGED i2cVars /\ entry' = 1
    BY <1>3 DEF AudioInit, Calls
  <2>2. Fresh
    BY <2>1 DEF CodecInv, Loads
  <2>3. entry' = entry
    BY <2>1, <2>2 DEF Fresh
  <2>4. Fresh'
    BY <2>1, <2>2, <2>3, LinesKept
  <2>5. acked' \in BOOLEAN
    BY <1>1, <2>1 DEF i2cVars
  <2> QED BY <2>1, <2>4, <2>5 DEF CodecInv, Loads, Plays, SettingUp
<1>4. CASE AudioWrite
  <2>1. PICK v : v = RegisterBytes(AudioRegisters[entry])
    OBVIOUS
  <2>2. /\ pc = "codec" /\ pc' = "codec" /\ script = <<>> /\ acked /\ entry \in DOMAIN AudioRegisters
        /\ script' = I2cWriteReg(DeviceAddress, v[1], v[2]) /\ UNCHANGED i2cVars /\ entry' = entry + 1
    BY <1>4, <2>1 DEF AudioWrite, Calls
  <2>3. entry \in 1 .. 24
    BY <2>2, AudioTable
  <2>4. AtRest /\ Whole(entry - 1)
    BY <2>2, CodecCalls
  <2>5. AtRest'
    BY <2>2, <2>4 DEF i2cVars, AtRest
  <2>6. v \in {Register'}
    <3>1. PICK n \in 1 .. 24 : n = entry
      BY <2>3
    <3>2. entry' - 1 = n
      BY <2>2, <3>1
    <3>3. Register' = RegisterBytes(AudioRegisters[n])
      BY <3>2 DEF Register
    <3> QED BY <2>1, <3>1, <3>3
  <2>7. Sequence(script') /\ Len(script') = 91 /\ \A i \in 1 .. 91 : script'[i] = WriteOp(v, i)
    <3>1. PICK u : u = I2cWriteReg(DeviceAddress, v[1], v[2])
      OBVIOUS
    <3>2. Sequence(u) /\ Len(u) = 91 /\ \A i \in 1 .. 91 : u[i] = WriteOp(v, i)
      BY <3>1, WriteScript
    <3> QED BY <2>2, <3>1, <3>2
  <2>8. PICK p \in 0 .. 91 : p = 0
    OBVIOUS
  <2>9. /\ Sequence(script') /\ Len(script') = 91 - p
        /\ \A i \in 1 .. 91 - p : script'[i] = WriteOp(v, p + i)
    BY <2>7, <2>8
  <2>10. WriteAt(v, p)'
    <3>1. p # 3 /\ p \notin 4 .. 88 /\ p # 89 /\ p # 90 /\ p # 91
      BY <2>8
    <3> QED BY <2>5, <3>1 DEF WriteAt
  <2>11. Reached(p)'
    <3>1. PICK n \in 0 .. 23 : n = entry - 1
      BY <2>3
    <3>2. p # 91 /\ entry' - 2 = n
      <4>1. entry' = entry + 1
        BY <2>2
      <4> QED BY <2>3, <2>8, <3>1, <4>1
    <3>3. /\ Sequence(taken) /\ Len(taken) = n
          /\ \A i \in 1 .. n : taken[i] = RegisterBytes(AudioRegisters[i])
      BY <2>4, <3>1 DEF Whole
    <3>4. taken' = taken
      BY <2>2 DEF i2cVars
    <3> QED BY <3>2, <3>3, <3>4 DEF Whole, Reached
  <2>12. entry' \in 2 .. 25 /\ acked'
    BY <2>2, <2>3, SMTT(40) DEF i2cVars
  <2>13. Writing'
    BY <2>6, <2>9, <2>10, <2>11, <2>12, Zenon DEF Writing
  <2>14. acked' \in BOOLEAN
    BY <1>1, <2>2 DEF i2cVars
  <2> QED BY <2>2, <2>13, <2>14 DEF CodecInv, Loads, Plays
<1>5. CASE AudioFails \/ AudioDone
  <2>1. /\ pc = "codec" /\ pc' = "play" /\ script = <<>> /\ UNCHANGED i2cVars /\ entry' = entry
        /\ acked => entry \notin DOMAIN AudioRegisters
    BY <1>5 DEF AudioFails, AudioDone, Calls
  <2>2. OfPlayer(script')
    BY <1>5, PlayerTexts DEF AudioFails, AudioDone, Calls
  <2>3. SetUp
    <3>1. AtRest
      BY <2>1, CodecCalls
    <3>2. ASSUME acked PROVE entry = 25 /\ Whole(24)
      <4>1. entry \in 1 .. 25 /\ Whole(entry - 1) /\ entry \notin 1 .. 24
        BY <2>1, <3>2, AudioTable, CodecCalls
      <4>2. entry = 25 /\ entry - 1 = 24
        BY <4>1
      <4> QED BY <4>1, <4>2
    <3>3. ASSUME ~acked PROVE entry \in 2 .. 25 /\ \E q \in 0 .. 2 : CutAt(entry - 1, q)
      BY <2>1, <3>3, CodecCalls
    <3>4. entry \in 2 .. 25
      BY <3>2, <3>3
    <3> QED BY <3>1, <3>2, <3>3, <3>4 DEF SetUp
  <2>4. SetUp'
    BY <2>1, <2>3, LinesKept
  <2>5. acked' \in BOOLEAN
    BY <1>1, <2>1 DEF i2cVars
  <2> QED BY <2>1, <2>2, <2>4, <2>5 DEF CodecInv, Loads, Plays
<1>6. CASE Play \/ PlayerEnds
  <2>1. /\ pc \in {"play", "over"} /\ pc' \in {"over", "spin"} /\ UNCHANGED i2cVars /\ entry' = entry
    BY <1>6 DEF Play, PlayerEnds, Calls
  <2>2. OfPlayer(script')
    BY <1>6, PlayerTexts DEF Play, PlayerEnds, Calls
  <2>3. SetUp
    BY <2>1 DEF CodecInv
  <2>4. SetUp'
    BY <2>1, <2>3, LinesKept
  <2>5. acked' \in BOOLEAN
    BY <1>1, <2>1 DEF i2cVars
  <2> QED BY <2>1, <2>2, <2>4, <2>5 DEF CodecInv, Loads, Plays
<1> QED BY <1>2, <1>3, <1>4, <1>5, <1>6

LEMMA AckKept ==
  ASSUME acked \in BOOLEAN, Wire \/ UNCHANGED i2cVars
  PROVE  acked' \in BOOLEAN
<1>1. GetAck => acked' \in BOOLEAN
  BY DEF GetAck
<1>2. UNCHANGED acked => acked' \in BOOLEAN
  OBVIOUS
<1>3. ASSUME Wire PROVE GetAck \/ UNCHANGED acked
  <2>1. PICK op : op = Head(script)
    OBVIOUS
  <2>2. I2cOp(op) /\ op[1] \in I2cOps
    BY <1>3, <2>1 DEF Wire
  <2>3. SetScl(op[2]) \/ SetSda(op[2]) \/ GetSda \/ Poll \/ GetAck
    BY <2>2 DEF I2cOp, I2cOps
  <2>4. (SetScl(op[2]) => acked' = acked) /\ (SetSda(op[2]) => acked' = acked)
    BY DEF SetScl, SetSda
  <2>5. (GetSda => acked' = acked) /\ (Poll => acked' = acked)
    BY DEF GetSda, Poll
  <2> QED BY <2>3, <2>4, <2>5
<1> QED BY <1>1, <1>2, <1>3 DEF i2cVars

\* The operations of the player: a character or a line.
LEMMA PlayerStepsKeepCodec ==
  ASSUME CodecInv, pc \in Plays, Log \/ Wire
  PROVE  CodecInv'
<1>1. /\ pc' = pc /\ entry' = entry /\ script # <<>>
      /\ Log => /\ Head(script)[1] \in {"alog", "elog"} /\ script' = Tail(script) /\ UNCHANGED i2cVars
      /\ Wire => Head(script)[1] \in I2cOps
  BY DEF Log, Wire, bootVars
<1>2. acked \in BOOLEAN
  BY DEF CodecInv
<1>3. CASE pc # "codec"
  <2>1. Head(script)[1] \in {"alog", "elog"} /\ OfPlayer(Tail(script))
    BY <1>1, <1>3, PlayerOps
  <2>2. Log
    BY <1>1, <2>1 DEF I2cOps
  <2>3. (Fresh => Fresh') /\ (SetUp => SetUp')
    BY <1>1, <2>2, LinesKept
  <2>4. acked' \in BOOLEAN
    BY <1>1, <1>2, <2>2 DEF i2cVars
  <2> QED BY <1>1, <1>3, <2>1, <2>2, <2>3, <2>4 DEF CodecInv
<1>4. CASE pc = "codec" /\ GivingUp
  <2>1. \/ Wire
        \/ UNCHANGED i2cVars /\ script' = Tail(script) /\ Head(script)[1] \in {"alog", "elog"}
    BY <1>1
  <2>2. GivingUp'
    BY <1>1, <1>4, <2>1, GivingUpStep
  <2>3. acked' \in BOOLEAN
    BY <1>1, <1>2, AckKept
  <2> QED BY <1>1, <1>4, <2>2, <2>3 DEF CodecInv, Loads, Plays
<1>5. CASE pc = "codec" /\ ~GivingUp
  <2>1. Wire
    <3>1. Head(script)[1] \in LineOps
      BY <1>1, <1>5, PlayerOps
    <3> QED BY <1>1, <3>1 DEF LineOps
  <2>2. SettingUp \/ Writing
    BY <1>5 DEF CodecInv
  <2>3. SettingUp' \/ Writing' \/ GivingUp'
    BY <2>1, <2>2, SettingUpWire, WritingWire
  <2>4. acked' \in BOOLEAN
    BY <1>1, <1>2, AckKept
  <2> QED BY <1>1, <1>5, <2>3, <2>4 DEF CodecInv, Loads, Plays
<1> QED BY <1>3, <1>4, <1>5

\* The steps that leave the lines alone: those of the loader, and the idle loops.
LEMMA IdleStepsKeepCodec ==
  ASSUME CodecInv, Load \/ Spin \/ UNCHANGED firmwareVars
  PROVE  CodecInv'
<1>1. UNCHANGED i2cVars /\ entry' = entry
  BY DEF Load, Spin, firmwareVars
<1>2. acked' \in BOOLEAN /\ (Fresh => Fresh') /\ (SetUp => SetUp')
  BY <1>1, LinesKept DEF CodecInv, i2cVars
<1>3. CASE Load /\ pc \in Loads
  <2>1. pc' \in Loads
    BY <1>3, LoaderCallsStay DEF Load
  <2>2. Fresh'
    BY <1>2, <1>3 DEF CodecInv
  <2> QED BY <1>2, <2>1, <2>2 DEF CodecInv, Loads, Plays
<1>4. ~(Load /\ pc \in Plays)
  <2>1. ~(LoaderCall /\ pc \in Plays)
    BY LoaderCallsStay DEF Loads, Plays
  <2>2. ~(LoaderStep /\ pc \in Plays)
    BY LoaderCallsStay, PlayerOps
  <2> QED BY <2>1, <2>2 DEF Load
<1>5. CASE Spin \/ UNCHANGED firmwareVars
  <2>1. UNCHANGED firmwareVars
    BY <1>5 DEF Spin
  <2>2. pc' = pc /\ script' = script
    BY <2>1 DEF firmwareVars, bootVars
  <2>3. UNCHANGED <<scl, sda, device, taken, acked, entry, script>>
    BY <2>1 DEF firmwareVars, i2cVars
  <2>4. SettingUp => SettingUp'
    BY <2>3 DEF SettingUp, Fresh, Whole, AtRest
  <2>5. Writing => Writing'
    <3> SUFFICES ASSUME Writing PROVE Writing'
      OBVIOUS
    <3>1. PICK v \in {Register}, p \in 0 .. 91 :
            /\ Sequence(script) /\ Len(script) = 91 - p
            /\ \A i \in 1 .. 91 - p : script[i] = WriteOp(v, p + i)
            /\ WriteAt(v, p) /\ Reached(p)
      BY Zenon DEF Writing
    <3>2. v \in {Register'} /\ entry' \in 2 .. 25 /\ acked'
      BY <2>3 DEF Writing, Register
    <3>3. WriteAt(v, p)'
      BY <2>3, <3>1 DEF WriteAt, InByte, AtRest
    <3>4. Reached(p)'
      BY <2>3, <3>1 DEF Whole, Reached
    <3>5. /\ Sequence(script') /\ Len(script') = 91 - p
          /\ \A i \in 1 .. 91 - p : script'[i] = WriteOp(v, p + i)
      BY <2>3, <3>1
    <3> QED BY <3>2, <3>3, <3>4, <3>5, Zenon DEF Writing
  <2>6. GivingUp => GivingUp'
    <3> SUFFICES ASSUME GivingUp PROVE GivingUp'
      OBVIOUS
    <3>1. PICK v \in {Register}, q \in 0 .. 2, r \in 0 .. 9 :
            /\ Sequence(script) /\ Len(script) = 9 - r
            /\ \A i \in 1 .. 9 - r : script[i] = WayOut(q)[r + i]
            /\ Leaving(v, q, OnLines(q, r))
      BY Zenon DEF GivingUp
    <3>2. v \in {Register'} /\ entry' \in 2 .. 25 /\ ~acked'
      BY <2>3 DEF GivingUp, Register
    <3>3. Leaving(v, q, OnLines(q, r))'
      BY <2>3, <3>1 DEF Leaving, Whole, CutAt
    <3>4. /\ Sequence(script') /\ Len(script') = 9 - r
          /\ \A i \in 1 .. 9 - r : script'[i] = WayOut(q)[r + i]
      BY <2>3, <3>1
    <3> QED BY <3>2, <3>3, <3>4, Zenon DEF GivingUp
  <2> QED BY <1>2, <2>2, <2>4, <2>5, <2>6 DEF CodecInv
<1> QED BY <1>3, <1>4, <1>5 DEF CodecInv

LEMMA CodecStep == FirmwareInv /\ CodecInv /\ [Next]_firmwareVars => CodecInv'
<1> SUFFICES ASSUME FirmwareInv, CodecInv, [Next]_firmwareVars PROVE CodecInv'
  OBVIOUS
<1>1. CASE Load \/ Spin \/ UNCHANGED firmwareVars
  BY <1>1, IdleStepsKeepCodec
<1>2. CASE Log \/ Wire
  <2>1. pc \in Plays
    <3> SUFFICES ASSUME pc \in Loads PROVE FALSE
      BY DEF CodecInv
    <3>1. Sequence(script) /\ \A i \in 1 .. Len(script) : script[i][1] \in LoaderOps
      BY DEF FirmwareInv, LoaderInv, OfLoader
    <3>2. script # <<>> /\ Head(script)[1] \in {"alog", "elog"} \cup I2cOps
      BY <1>2 DEF Log, Wire
    <3>3. Head(script)[1] \in LoaderOps
      BY <3>1, <3>2, TailOf
    <3> QED BY <3>2, <3>3 DEF LoaderOps, I2cOps
  <2> QED BY <1>2, <2>1, PlayerStepsKeepCodec
<1>3. CASE PlayerMain \/ AudioInit \/ AudioWrite \/ AudioFails \/ AudioDone \/ Play \/ PlayerEnds
  BY <1>3, PlayerCallsKeepCodec
<1> QED BY <1>1, <1>2, <1>3 DEF Next

\* The transfers taken so far, as the invariant has them.
LEMMA TakenAre ==
  /\ \A n \in 0 .. 24 : Whole(n) => /\ DOMAIN taken = 1 .. n /\ Len(taken) = n
                                    /\ \A i \in 1 .. n : taken[i] = RegisterBytes(AudioRegisters[i])
  /\ \A n \in 1 .. 24, q \in 0 .. 2 : CutAt(n, q) =>
       \E m \in {n - 1, n} :
         /\ DOMAIN taken = 1 .. m /\ Len(taken) = m
         /\ \A i \in 1 .. n - 1 : taken[i] = RegisterBytes(AudioRegisters[i])
         /\ m = n => taken[n] \in {<<>>, <<RegisterBytes(AudioRegisters[n])[1]>>}
<1>1. Sequence(taken) => DOMAIN taken = 1 .. Len(taken)
  BY DEF Sequence
<1>2. \A v, q : q \in {1, 2} => Tail(BytesTaken(v, q)) \in {<<>>, <<v[1]>>}
  <2> TAKE v, q
  <2>1. PICK a, b : a = DeviceAddress /\ b = v[1]
    OBVIOUS
  <2>2. Tail(<<a>>) = <<>> /\ Tail(<<a, b>>) = <<b>>
    OBVIOUS
  <2> QED BY <2>1, <2>2 DEF BytesTaken
<1>3. \A n \in 0 .. 24 : Whole(n) => /\ DOMAIN taken = 1 .. n /\ Len(taken) = n
                                     /\ \A i \in 1 .. n : taken[i] = RegisterBytes(AudioRegisters[i])
  BY <1>1 DEF Whole
<1>4. ASSUME NEW n \in 1 .. 24, NEW q \in 0 .. 2, CutAt(n, q)
      PROVE  \E m \in {n - 1, n} :
               /\ DOMAIN taken = 1 .. m /\ Len(taken) = m
               /\ \A i \in 1 .. n - 1 : taken[i] = RegisterBytes(AudioRegisters[i])
               /\ m = n => taken[n] \in {<<>>, <<RegisterBytes(AudioRegisters[n])[1]>>}
  <2>1. CASE q = 0
    <3>1. Len(taken) = n - 1 /\ n - 1 # n
      BY <1>4, <2>1 DEF CutAt
    <3> QED BY <1>1, <1>4, <3>1 DEF CutAt
  <2>2. CASE q # 0
    <3>1. PICK v : v = RegisterBytes(AudioRegisters[n])
      OBVIOUS
    <3>2. Len(taken) = n /\ taken[n] = Tail(BytesTaken(v, q)) /\ q \in {1, 2}
      BY <1>4, <2>2, <3>1 DEF CutAt
    <3>3. taken[n] \in {<<>>, <<v[1]>>}
      BY <1>2, <3>2, Zenon
    <3> QED BY <1>1, <1>4, <3>1, <3>2, <3>3 DEF CutAt
  <2> QED BY <2>1, <2>2
<1> QED BY <1>3, <1>4

LEMMA CodecInvTransfers == CodecInv => CodecTransfers
<1> SUFFICES ASSUME CodecInv PROVE CodecTransfers
  OBVIOUS
<1>1. DOMAIN AudioRegisters = 1 .. 24 /\ Len(AudioRegisters) = 24
  BY AudioTable
<1>2. \/ \E n \in 0 .. 24 : Whole(n)
      \/ ~acked /\ \E n \in 1 .. 24, q \in 0 .. 2 : CutAt(n, q)
  <2>1. CASE pc \in Loads \cup {"audio"}
    BY <2>1 DEF CodecInv, Fresh
  <2>2. CASE pc = "codec" /\ SettingUp
    BY <2>2 DEF SettingUp, Fresh
  <2>3. CASE pc = "codec" /\ Writing
    <3>1. PICK p \in 0 .. 91 : Reached(p)
      BY <2>3, Zenon DEF Writing
    <3>2. entry - 1 \in 0 .. 24 /\ entry - 2 \in 0 .. 24
      BY <2>3 DEF Writing
    <3> QED BY <3>1, <3>2 DEF Reached
  <2>4. CASE pc = "codec" /\ GivingUp
    <3>1. PICK v \in {Register}, q \in 0 .. 2, r \in 0 .. 9 : Leaving(v, q, OnLines(q, r))
      BY <2>4, Zenon DEF GivingUp
    <3>2. entry - 1 \in 1 .. 24 /\ entry - 2 \in 0 .. 24 /\ ~acked
      BY <2>4 DEF GivingUp
    <3>3. OnLines(q, r) < 5 \/ OnLines(q, r) = 5
      BY DEF OnLines
    <3> QED BY <3>1, <3>2, <3>3 DEF Leaving
  <2>5. CASE pc \in {"play", "over", "spin"}
    <3>1. SetUp
      BY <2>5 DEF CodecInv
    <3>2. entry - 1 \in 1 .. 24
      BY <3>1 DEF SetUp
    <3> QED BY <3>1, <3>2 DEF SetUp
  <2> QED BY <2>1, <2>2, <2>3, <2>4, <2>5 DEF CodecInv, Plays
<1>3. /\ DOMAIN taken \subseteq DOMAIN AudioRegisters
      /\ \A i \in DOMAIN taken :
           LET whole == RegisterBytes(AudioRegisters[i])
           IN \/ taken[i] = whole
              \/ i = Len(taken) /\ ~acked /\ taken[i] \in {<<>>, <<whole[1]>>}
  <2>1. CASE \E n \in 0 .. 24 : Whole(n)
    <3>1. PICK n \in 0 .. 24 : Whole(n)
      BY <2>1
    <3>2. DOMAIN taken = 1 .. n /\ \A i \in 1 .. n : taken[i] = RegisterBytes(AudioRegisters[i])
      BY <3>1, TakenAre
    <3>3. DOMAIN taken \subseteq DOMAIN AudioRegisters
      BY <1>1, <3>2
    <3>4. \A i \in DOMAIN taken : taken[i] = RegisterBytes(AudioRegisters[i])
      BY <3>2
    <3> QED BY <3>3, <3>4, Zenon
  <2>2. CASE ~acked /\ \E n \in 1 .. 24, q \in 0 .. 2 : CutAt(n, q)
    <3>1. PICK n \in 1 .. 24, q \in 0 .. 2 : CutAt(n, q)
      BY <2>2
    <3>2. PICK m \in {n - 1, n} :
            /\ DOMAIN taken = 1 .. m /\ Len(taken) = m
            /\ \A i \in 1 .. n - 1 : taken[i] = RegisterBytes(AudioRegisters[i])
            /\ m = n => taken[n] \in {<<>>, <<RegisterBytes(AudioRegisters[n])[1]>>}
      BY <3>1, TakenAre
    <3>3. DOMAIN taken \subseteq DOMAIN AudioRegisters
      BY <1>1, <3>2
    <3>4. ASSUME NEW i \in DOMAIN taken
          PROVE  \/ taken[i] = RegisterBytes(AudioRegisters[i])
                 \/ i = Len(taken) /\ taken[i] \in {<<>>, <<RegisterBytes(AudioRegisters[i])[1]>>}
      <4>1. i \in 1 .. n - 1 \/ (i = n /\ m = n)
        BY <3>2
      <4> QED BY <3>2, <4>1
    <3> QED BY <2>2, <3>3, <3>4
  <2> QED BY <1>2, <2>1, <2>2
<1>4. pc \in {"play", "over", "spin"} /\ acked => Len(taken) = Len(AudioRegisters)
  BY <1>1, TakenAre DEF CodecInv, SetUp
<1>5. pc \in {"over", "spin"} => BusIdle
  BY LineLevels DEF CodecInv, SetUp, AtRest, BusIdle
<1> QED BY <1>3, <1>4, <1>5 DEF CodecTransfers

\* The codec takes the registers of the table whole and in their order, the first refusal
\* ends the set-up, and the song begins with both lines released (i2c.c 15-191,
\* audio.c 138-154).
THEOREM FirmwareSetsUpTheCodec == Spec => []CodecTransfers
<1>1. Spec => []FirmwareInv
  BY FirmwareStarts, FirmwareStep, PTL DEF Spec
<1>2. FirmwareInv /\ CodecInv /\ [Next]_firmwareVars => CodecInv'
  BY CodecStep
<1> QED BY <1>1, <1>2, CodecStarts, CodecInvTransfers, PTL DEF Spec

-----------------------------------------------------------------------------
(* The types: the invariant.                                                  *)

\* What the operations of the loader carry.
Carries(op) == op[1] \in {"csn", "clk", "do"} => op[2] \in {0, 1}
Carrying(s) == \A i \in 1 .. Len(s) : Carries(s[i])

\* The identification of the flash, operation by operation.
IdOp(d) ==
  IF d = 1 THEN <<"clk", 1>>
  ELSE IF d = 2 THEN <<"csn", 1>>
  ELSE IF d <= 7 THEN <<"put", Banner[d - 2]>>
  ELSE IF d = 8 THEN <<"csn", 0>>
  ELSE IF d <= 33 THEN SendOp(ReadId, d - 8)
  ELSE IF d <= 105 THEN RecvOp(d - 33) ELSE <<"csn", 1>>

\* s operations of the command are done.
IdSent(s) ==
  LET j == IF s = 0 THEN 0 ELSE (s - 1) \div 3
  IN /\ csn = 0 /\ clocks = j /\ head = Top(ReadId, j)
     /\ clk = IF s = 0 \/ s % 3 = 1 THEN 1 ELSE 0
     /\ s # 0 /\ s % 3 = 0 => mosi = Bit(ReadId, (s \div 3) - 1)

\* d operations are done.  After the command the flash takes no more of it, and the
\* loader has begun its second line.
IdAt(d) ==
  /\ d = 0 => clocks = 0 /\ mosi = 0
  /\ d <= 7 => head = 0
  /\ d \in 1 .. 7 => clk = 1
  /\ d \in 8 .. 33 => IdSent(d - 8)
  /\ d \in 34 .. 105 => clocks >= 8 /\ head = ReadId
  /\ d = 106 => head = 0
  /\ loader = IF d <= 2 THEN At(0, 0) ELSE IF d <= 6 THEN At(0, d - 2) ELSE At(1, 0)
Identifying ==
  \E d \in 0 .. 106 :
    Len(script) = 106 - d /\ (\A i \in 1 .. 106 - d : script[i] = IdOp(d + i)) /\ IdAt(d)

HeadEnd == 134217728   \* 2 ^ 27
Identification == (0 .. 255) \X (0 .. 255) \X (0 .. 255)
PinTypes ==
  /\ csn \in {0, 1} /\ clk \in {0, 1} /\ mosi \in {0, 1} /\ miso \in {0, 1}
  /\ clocks \in Nat /\ head \in 0 .. HeadEnd /\ bits \in Seq({0, 1}) /\ flashId \in Identification
CopyTypes ==
  /\ block \in 0 .. DdrKb /\ word \in 0 .. Words /\ leds \in {"off", "green", "red"}
  /\ faults \in 0 .. MaxFaults
\* The player's cursor waits for it.
LoaderCursor ==
  /\ \E r \in 0 .. Rows - 1, c \in 0 .. Cols - 1 : loader = At(r, c)
  /\ DOMAIN vram = Cells /\ (pc \in Loads => player = PlayerHome)
TypesInv ==
  /\ PinTypes /\ CopyTypes /\ LoaderCursor
  /\ pc \in Loads => Carrying(script)
  /\ pc = "reset" => head = 0 /\ mosi = 0 /\ clocks = 0
  /\ pc = "id" => Identifying
  /\ pc \in Loads \ {"reset", "id", "word"} => Unclocked(script)

-----------------------------------------------------------------------------
(* The operations of the loader.                                              *)

LEMMA LoaderOp ==
  ASSUME OfLoader(script), LoaderStep, NEW o, o = Head(script)
  PROVE  /\ o[1] \in LoaderOps /\ UNCHANGED <<pc, verify, block, word, ddr, leds, faults>>
         /\ o = script[1] /\ Len(script) \in Nat \ {0} /\ Len(script') = Len(script) - 1
         /\ \A i \in 1 .. Len(script) - 1 : script'[i] = script[i + 1]
         /\ o[1] = "put" => TermPutchar(o[2]) /\ UNCHANGED <<flashVars, bits>>
         /\ o[1] = "csn" => Select(o[2]) /\ UNCHANGED <<termVars, bits>>
         /\ o[1] = "clk" => Clock(o[2]) /\ UNCHANGED <<termVars, bits>>
         /\ o[1] = "do" => Output(o[2]) /\ UNCHANGED <<termVars, bits>>
         /\ o[1] = "di" => bits' = Append(bits, miso) /\ UNCHANGED <<termVars, flashVars>>
<1>1. Sequence(script) /\ script # <<>> /\ script' = Tail(script)
  BY DEF OfLoader, LoaderStep
<1>2. /\ Len(script) \in Nat \ {0} /\ Len(script') = Len(script) - 1 /\ o = script[1]
      /\ \A i \in 1 .. Len(script) - 1 : script'[i] = script[i + 1]
  BY <1>1, TailOf
<1>3. o[1] \in LoaderOps
  BY <1>2 DEF OfLoader
<1>4. UNCHANGED <<pc, verify, block, word, ddr, leds, faults>> /\ (Put \/ Pin \/ Sample)
  BY DEF LoaderStep
<1>5. /\ Put => o[1] = "put" /\ TermPutchar(o[2]) /\ UNCHANGED <<flashVars, bits>>
      /\ Sample => o[1] = "di" /\ bits' = Append(bits, miso) /\ UNCHANGED <<termVars, flashVars>>
      /\ Pin => /\ UNCHANGED <<termVars, bits>>
                /\ \/ o[1] = "csn" /\ Select(o[2])
                   \/ o[1] = "clk" /\ Clock(o[2])
                   \/ o[1] = "do" /\ Output(o[2])
  BY DEF Put, Pin, Sample
<1> QED BY <1>2, <1>3, <1>4, <1>5

\* The line from the flash carries a bit, whatever it is asked for.
LEMMA AnswerIs ==
  ASSUME PinTypes
  PROVE  Answer(clocks) \in {0, 1}
<1>1. \A b \in 0 .. 255, k \in 0 .. 7 : BitOf(b, k) \in {0, 1}
  BY Halves
<1>2. clocks \in Nat /\ flashId \in Identification
  BY DEF PinTypes
<1>3. CASE head \div 2 ^ 24 = ReadData /\ clocks >= 32
  <2>1. (clocks - 32) % 8 \in 0 .. 7
    BY <1>2, <1>3
  <2>2. FlashByte((head % 2 ^ 24) + (clocks - 32) \div 8) \in 0 .. 255
    BY ImageBytes
  <2> QED BY <1>1, <1>3, <2>1, <2>2 DEF Answer
<1>4. CASE clocks \in 8 .. 31
  <2>1. PICK k \in 1 .. 3, j \in 0 .. 7 : k = (clocks - 8) \div 8 + 1 /\ j = clocks % 8
    BY <1>4
  <2>2. flashId[k] \in 0 .. 255
    BY <1>2 DEF Identification
  <2>3. BitOf(flashId[(clocks - 8) \div 8 + 1], clocks % 8) \in {0, 1}
    BY <1>1, <2>1, <2>2
  <2> QED BY <1>4, <2>3 DEF Answer
<1> QED BY <1>3, <1>4 DEF Answer

LEMMA PinsKept ==
  ASSUME OfLoader(script), LoaderStep, PinTypes, Carrying(script), head' \in 0 .. HeadEnd
  PROVE  PinTypes'
<1>1. PICK o : o = Head(script)
  OBVIOUS
<1>2. /\ o[1] \in LoaderOps
      /\ o[1] = "put" => UNCHANGED <<flashVars, bits>>
      /\ o[1] = "csn" => Select(o[2]) /\ UNCHANGED bits
      /\ o[1] = "clk" => Clock(o[2]) /\ UNCHANGED bits
      /\ o[1] = "do" => Output(o[2]) /\ UNCHANGED bits
      /\ o[1] = "di" => bits' = Append(bits, miso) /\ UNCHANGED flashVars
  BY <1>1, LoaderOp
<1>3. o[1] \in {"csn", "clk", "do"} => o[2] \in {0, 1}
  BY <1>1, LoaderOp DEF Carrying, Carries
<1>4. /\ csn \in {0, 1} /\ clk \in {0, 1} /\ mosi \in {0, 1} /\ miso \in {0, 1}
      /\ clocks \in Nat /\ bits \in Seq({0, 1}) /\ flashId \in Identification
  BY DEF PinTypes
<1>5. CASE o[1] = "put"
  BY <1>2, <1>4, <1>5 DEF PinTypes, flashVars
<1>6. CASE o[1] = "csn"
  BY <1>2, <1>3, <1>4, <1>6 DEF PinTypes, Select
<1>7. CASE o[1] = "clk"
  BY <1>2, <1>3, <1>4, <1>7, AnswerIs DEF PinTypes, Clock
<1>8. CASE o[1] = "do"
  BY <1>2, <1>3, <1>4, <1>8 DEF PinTypes, Output
<1>9. CASE o[1] = "di"
  <2>1. bits' \in Seq({0, 1})
    BY <1>2, <1>4, <1>9, AppendProperties
  <2> QED BY <1>2, <1>4, <1>9, <2>1 DEF PinTypes, flashVars
<1> QED BY <1>2, <1>5, <1>6, <1>7, <1>8, <1>9 DEF LoaderOps

-----------------------------------------------------------------------------
(* The cursor of the loader.                                                  *)

LEMMA Cursors ==
  /\ \A r \in 0 .. Rows - 1, c \in 0 .. Cols - 1 :
       /\ InScreen(At(r, c)) /\ At(r, c).ptr = At(r, c).col + At(r, c).row * Cols
       /\ c + 1 < Cols => LoaderTyped(At(r, c)) = At(r, c + 1)
       /\ r + 1 < Rows => NewLine(At(r, c)) = At(r + 1, 0)
  /\ \A k : k.row \in 0 .. Rows - 1 => \E r \in 0 .. Rows - 1 : NewLine(k) = At(r, 0)
<1>1. Cols \in Nat /\ Cols >= 14 /\ Rows \in Nat /\ Rows >= 4
  BY ScreenAssumption
<1>2. ASSUME NEW r \in 0 .. Rows - 1, NEW c \in 0 .. Cols - 1
      PROVE  /\ InScreen(At(r, c)) /\ At(r, c).ptr = At(r, c).col + At(r, c).row * Cols
             /\ c + 1 < Cols => LoaderTyped(At(r, c)) = At(r, c + 1)
             /\ r + 1 < Rows => NewLine(At(r, c)) = At(r + 1, 0)
  <2>1. At(r, c).row = r /\ At(r, c).col = c /\ At(r, c).ptr = c + r * Cols
    BY DEF At
  <2>2. c + r * Cols \in 0 .. Cols * Rows - 1
    BY <1>1
  <2>3. InScreen(At(r, c))
    BY <2>1, <2>2 DEF InScreen, Cells
  <2>4. ASSUME c + 1 < Cols PROVE LoaderTyped(At(r, c)) = At(r, c + 1)
    <3>1. LoaderTyped(At(r, c)) = [At(r, c) EXCEPT !.ptr = @ + 1, !.col = @ + 1]
      BY <1>1, <2>1, <2>4 DEF LoaderTyped
    <3>2. (c + r * Cols) + 1 = (c + 1) + r * Cols
      BY <1>1
    <3> QED BY <3>1, <3>2 DEF At
  <2>5. ASSUME r + 1 < Rows PROVE NewLine(At(r, c)) = At(r + 1, 0)
    BY <1>1, <2>1, <2>5 DEF NewLine
  <2> QED BY <2>1, <2>3, <2>4, <2>5
<1>3. ASSUME NEW k, k.row \in 0 .. Rows - 1 PROVE \E r \in 0 .. Rows - 1 : NewLine(k) = At(r, 0)
  BY <1>1, <1>3 DEF NewLine
<1> QED BY <1>2, <1>3

\* A character leaves the loader's cursor in the screen.
LEMMA LoaderWrites ==
  ASSUME LoaderCursor, NEW c, TermPutchar(c), pc' \in Loads => pc \in Loads
  PROVE  LoaderCursor'
<1>1. Cols \in Nat /\ Cols >= 14 /\ Rows \in Nat /\ Rows >= 4
  BY ScreenAssumption
<1>2. PICK r \in 0 .. Rows - 1, k \in 0 .. Cols - 1 : loader = At(r, k)
  BY DEF LoaderCursor
<1>3. DOMAIN vram' = Cells /\ player' = player
  BY DEF LoaderCursor, TermPutchar, Drawn
<1>4. loader.row = r /\ loader.col = k
  BY <1>2 DEF At
<1>5. CASE c \in {NL, CR} \/ k + 1 >= Cols
  <2>1. loader' \in {NewLine(loader), Return(loader)}
    BY <1>4, <1>5 DEF TermPutchar, Control, LoaderTyped
  <2>2. \E s \in 0 .. Rows - 1 : loader' = At(s, 0)
    BY <1>4, <2>1, Cursors DEF Return
  <2>3. 0 \in 0 .. Cols - 1
    BY <1>1
  <2> QED BY <1>3, <2>2, <2>3 DEF LoaderCursor
<1>6. CASE ~(c \in {NL, CR}) /\ k + 1 < Cols
  <2>1. loader' = At(r, k + 1)
    BY <1>2, <1>6, Cursors DEF TermPutchar
  <2>2. k + 1 \in 0 .. Cols - 1
    BY <1>1, <1>6
  <2> QED BY <1>3, <2>1, <2>2 DEF LoaderCursor
<1> QED BY <1>1, <1>5, <1>6

-----------------------------------------------------------------------------
(* The identification.                                                        *)

LEMMA ByteInHead == ReadId \in 0 .. 255 /\ \A x \in 0 .. 255 : x \in 0 .. HeadEnd
<1>1. ReadId \in 0 .. 255
  BY DEF ReadId
<1>2. HeadEnd \in Int /\ HeadEnd > 255
  BY SMT DEF HeadEnd
<1> QED BY <1>1, <1>2

\* The bits of the command go out by three operations each.
LEMMA IdSendStep ==
  ASSUME NEW s \in 0 .. 24, IdSent(s), NEW o, o = SendOp(ReadId, s + 1),
         o[1] = "clk" => Clock(o[2]), o[1] = "do" => Output(o[2])
  PROVE  IdSent(s + 1)' /\ head' \in 0 .. 255
<1>1. ReadId = 159 /\ ReadId \in 0 .. 255 /\ \A k : Bit(ReadId, k) = BitOf(ReadId, k)
  BY DEF ReadId, Bit, BitOf
<1>2. \A j \in 0 .. 8 : Top(ReadId, j) \in 0 .. 255
  <2>1. /\ Top(159, 0) = 0 /\ Top(159, 1) = 1 /\ Top(159, 2) = 2 /\ Top(159, 3) = 4
        /\ Top(159, 4) = 9 /\ Top(159, 5) = 19 /\ Top(159, 6) = 39 /\ Top(159, 7) = 79
        /\ Top(159, 8) = 159
    BY SMT DEF Top
  <2>2. \A j \in 0 .. 8 : j \in 0 .. 7 \/ j = 8
    OBVIOUS
  <2>3. \A j \in 0 .. 7 : j = 0 \/ j = 1 \/ j = 2 \/ j = 3 \/ j = 4 \/ j = 5 \/ j = 6 \/ j = 7
    OBVIOUS
  <2> QED BY <1>1, <2>1, <2>2, <2>3
<1>3. /\ csn = 0
      /\ s = 0 => clocks = 0 /\ head = Top(ReadId, 0) /\ clk = 1
      /\ s # 0 => clocks = (s - 1) \div 3 /\ head = Top(ReadId, (s - 1) \div 3)
      /\ s # 0 => clk = IF s % 3 = 1 THEN 1 ELSE 0
      /\ s # 0 /\ s % 3 = 0 => mosi = Bit(ReadId, (s \div 3) - 1)
  BY DEF IdSent
<1>4. ASSUME csn' = 0, clocks' = s \div 3, head' = Top(ReadId, s \div 3),
             clk' = IF (s + 1) % 3 = 1 THEN 1 ELSE 0,
             (s + 1) % 3 = 0 => mosi' = Bit(ReadId, ((s + 1) \div 3) - 1)
      PROVE  IdSent(s + 1)' /\ head' \in 0 .. 255
  <2>1. s + 1 # 0 /\ (s + 1) - 1 = s /\ s \div 3 \in 0 .. 8
    OBVIOUS
  <2> QED BY <1>2, <1>4, <2>1 DEF IdSent
<1>5. CASE s % 3 = 0
  <2>1. (s + 1) % 3 = 1
    BY <1>5
  <2>2. Clock(1)
    BY <2>1 DEF SendOp
  <2>3. CASE s = 0
    <3>1. clocks' = clocks /\ head' = head /\ clk' = 1 /\ csn' = csn
      BY <1>3, <2>2, <2>3 DEF Clock
    <3>2. s \div 3 = 0
      BY <2>3
    <3> QED BY <1>3, <1>4, <2>1, <2>3, <3>1, <3>2
  <2>4. CASE s # 0
    <3>1. PICK j \in 0 .. 7 : j = (s - 1) \div 3 /\ j + 1 = s \div 3
      BY <1>5, <2>4
    <3>2. clocks = j /\ head = Top(ReadId, j) /\ clk = 0 /\ mosi = Bit(ReadId, j)
      BY <1>3, <1>5, <2>4, <3>1
    <3>3. clocks' = j + 1 /\ head' = Shifted /\ clk' = 1 /\ csn' = 0
      BY <1>3, <2>2, <3>2 DEF Clock
    <3>4. Shifted = 2 * head + mosi
      BY <3>2 DEF Shifted
    <3>5. Top(ReadId, j + 1) = 2 * Top(ReadId, j) + Bit(ReadId, j)
      <4>1. PICK b \in 0 .. 255 : b = ReadId
        BY <1>1
      <4>2. \A k \in 0 .. 7 : Top(b, k + 1) = 2 * Top(b, k) + Bit(b, k)
        BY TopBits
      <4> QED BY <4>1, <4>2
    <3>6. head' = Top(ReadId, j + 1)
      BY <3>2, <3>3, <3>4, <3>5
    <3> QED BY <1>4, <2>1, <3>1, <3>3, <3>6
  <2> QED BY <2>3, <2>4
<1>6. CASE s % 3 = 1
  <2>1. (s + 1) % 3 = 2 /\ (s - 1) \div 3 = s \div 3 /\ s # 0
    BY <1>6
  <2>2. Clock(0)
    BY <2>1 DEF SendOp
  <2>3. clocks' = clocks /\ head' = head /\ clk' = 0 /\ csn' = csn
    BY <2>2 DEF Clock
  <2> QED BY <1>3, <1>4, <2>1, <2>3
<1>7. CASE s % 3 = 2
  <2>1. (s + 1) % 3 = 0 /\ (s - 1) \div 3 = s \div 3 /\ s # 0 /\ s % 3 # 1
    BY <1>7
  <2>2. Output(BitOf(ReadId, ((s + 1) \div 3) - 1))
    BY <2>1 DEF SendOp
  <2>3. /\ clocks' = clocks /\ head' = head /\ clk' = clk /\ csn' = csn
        /\ mosi' = Bit(ReadId, ((s + 1) \div 3) - 1)
    BY <1>1, <2>2 DEF Output
  <2> QED BY <1>3, <1>4, <2>1, <2>3
<1>8. s % 3 = 0 \/ s % 3 = 1 \/ s % 3 = 2
  OBVIOUS
<1> QED BY <1>5, <1>6, <1>7, <1>8

\* The banner is typed into the first line.
LEMMA BannerStep ==
  ASSUME NEW d \in 2 .. 6, TermPutchar(Banner[d - 1]),
         loader = IF d <= 2 THEN At(0, 0) ELSE IF d <= 6 THEN At(0, d - 2) ELSE At(1, 0)
  PROVE  loader' = IF d + 1 <= 2 THEN At(0, 0) ELSE IF d + 1 <= 6 THEN At(0, d + 1 - 2) ELSE At(1, 0)
<1>1. Cols \in Nat /\ Cols >= 14 /\ Rows \in Nat /\ Rows >= 4
  BY ScreenAssumption
<1>2. loader = At(0, d - 2)
  OBVIOUS
<1>3. CASE d # 6
  <2>1. Banner[d - 1] \notin {NL, CR}
    <3>1. /\ Banner[1] = "B" /\ Banner[2] = "o" /\ Banner[3] = "o" /\ Banner[4] = "t"
      BY DEF Banner
    <3>2. \A c \in {"B", "o", "t"} : c \notin {NL, CR}
      BY DEF NL, CR
    <3>3. d - 1 = 1 \/ d - 1 = 2 \/ d - 1 = 3 \/ d - 1 = 4
      BY <1>3
    <3> QED BY <3>1, <3>2, <3>3
  <2>2. loader' = At(0, (d - 2) + 1)
    <3>1. 0 \in 0 .. Rows - 1 /\ d - 2 \in 0 .. Cols - 1 /\ (d - 2) + 1 < Cols
      BY <1>1
    <3> QED BY <1>2, <2>1, <3>1, Cursors DEF TermPutchar
  <2>3. (d - 2) + 1 = d + 1 - 2 /\ ~(d + 1 <= 2) /\ d + 1 <= 6
    BY <1>3
  <2> QED BY <2>2, <2>3
<1>4. CASE d = 6
  <2>1. Banner[d - 1] = NL
    BY <1>4 DEF Banner
  <2>2. loader' = NewLine(At(0, 4))
    BY <1>2, <1>4, <2>1 DEF TermPutchar, Control
  <2>3. 0 \in 0 .. Rows - 1 /\ 4 \in 0 .. Cols - 1 /\ 0 + 1 < Rows
    BY <1>1
  <2>4. loader' = At(1, 0)
    BY <2>2, <2>3, Cursors
  <2> QED BY <1>4, <2>4
<1> QED BY <1>3, <1>4

LEMMA IdentifyStep ==
  ASSUME OfLoader(script), LoaderStep, Identifying, PinTypes
  PROVE  Identifying' /\ head' \in 0 .. HeadEnd
<1>1. PICK o : o = Head(script)
  OBVIOUS
<1>2. PICK d \in 0 .. 106 :
        Len(script) = 106 - d /\ (\A i \in 1 .. 106 - d : script[i] = IdOp(d + i)) /\ IdAt(d)
  BY DEF Identifying
<1>3. /\ o = script[1] /\ Len(script) \in Nat \ {0} /\ Len(script') = Len(script) - 1
      /\ \A i \in 1 .. Len(script) - 1 : script'[i] = script[i + 1]
      /\ o[1] = "put" => TermPutchar(o[2]) /\ UNCHANGED <<flashVars, bits>>
      /\ o[1] = "csn" => Select(o[2]) /\ UNCHANGED <<termVars, bits>>
      /\ o[1] = "clk" => Clock(o[2]) /\ UNCHANGED <<termVars, bits>>
      /\ o[1] = "do" => Output(o[2]) /\ UNCHANGED <<termVars, bits>>
      /\ o[1] = "di" => bits' = Append(bits, miso) /\ UNCHANGED <<termVars, flashVars>>
  BY <1>1, LoaderOp
<1>4. d < 106 /\ o = IdOp(d + 1)
  BY <1>2, <1>3
<1>5. ASSUME IdAt(d + 1)', head' \in 0 .. 255 PROVE Identifying' /\ head' \in 0 .. HeadEnd
  <2>1. d + 1 \in 0 .. 106 /\ Len(script') = 106 - (d + 1)
    BY <1>2, <1>3, <1>4
  <2>2. \A i \in 1 .. 106 - (d + 1) : script'[i] = IdOp((d + 1) + i)
    <3> TAKE i \in 1 .. 106 - (d + 1)
    <3>1. i + 1 \in 1 .. 106 - d /\ i \in 1 .. Len(script) - 1 /\ d + (i + 1) = (d + 1) + i
      BY <1>2
    <3> QED BY <1>2, <1>3, <3>1
  <2>3. Identifying'
    BY <1>5, <2>1, <2>2 DEF Identifying
  <2> QED BY <1>5, <2>3, ByteInHead
<1>6. /\ d = 0 => clocks = 0 /\ mosi = 0
      /\ d <= 7 => head = 0
      /\ d \in 1 .. 7 => clk = 1
      /\ d \in 8 .. 33 => IdSent(d - 8)
      /\ d \in 34 .. 105 => clocks >= 8 /\ head = ReadId
      /\ loader = IF d <= 2 THEN At(0, 0) ELSE IF d <= 6 THEN At(0, d - 2) ELSE At(1, 0)
  BY <1>2 DEF IdAt
<1>7. /\ csn \in {0, 1} /\ clk \in {0, 1} /\ mosi \in {0, 1} /\ miso \in {0, 1} /\ clocks \in Nat
      /\ bits \in Seq({0, 1})
  BY DEF PinTypes
<1>8. CASE d = 0
  <2>1. Clock(1) /\ UNCHANGED <<termVars, bits>>
    BY <1>3, <1>4, <1>8 DEF IdOp
  <2>2. clk' = 1 /\ (head' = head \/ head' = Shifted)
    BY <2>1 DEF Clock
  <2>3. Shifted = 0
    BY <1>6, <1>8 DEF Shifted
  <2>4. head' = 0 /\ loader' = loader
    BY <1>6, <1>8, <2>1, <2>2, <2>3 DEF termVars
  <2> QED BY <1>5, <1>6, <1>8, <2>1, <2>2, <2>4 DEF IdAt
<1>9. CASE d = 1
  <2>1. Select(1) /\ UNCHANGED <<termVars, bits>>
    BY <1>3, <1>4, <1>9 DEF IdOp
  <2>2. clk' = clk /\ head' = 0 /\ loader' = loader
    BY <2>1 DEF Select, termVars
  <2> QED BY <1>5, <1>6, <1>9, <2>1, <2>2 DEF IdAt
<1>10. CASE d \in 2 .. 6
  <2>1. TermPutchar(Banner[d - 1]) /\ UNCHANGED <<flashVars, bits>>
    <3>1. (d + 1) - 2 = d - 1 /\ d + 1 # 1 /\ d + 1 # 2 /\ d + 1 <= 7
      BY <1>10
    <3>2. o = <<"put", Banner[d - 1]>>
      BY <1>4, <3>1 DEF IdOp
    <3> QED BY <1>3, <3>2
  <2>2. clk' = 1 /\ head' = 0
    BY <1>6, <1>10, <2>1 DEF flashVars
  <2>3. loader' = IF d + 1 <= 2 THEN At(0, 0) ELSE IF d + 1 <= 6 THEN At(0, d + 1 - 2) ELSE At(1, 0)
    BY <1>6, <1>10, <2>1, BannerStep
  <2> QED BY <1>5, <1>6, <1>10, <2>1, <2>2, <2>3 DEF IdAt
<1>11. CASE d = 7
  <2>1. Select(0) /\ UNCHANGED <<termVars, bits>>
    BY <1>3, <1>4, <1>11 DEF IdOp
  <2>2. csn' = 0 /\ clocks' = 0 /\ clk' = 1 /\ head' = 0 /\ loader' = loader
    BY <1>6, <1>11, <2>1 DEF Select, termVars
  <2>3. Top(ReadId, 0) = 0
    BY SMT DEF Top, ReadId
  <2>4. IdSent(0)'
    BY <2>2, <2>3 DEF IdSent
  <2> QED BY <1>5, <1>6, <1>11, <2>1, <2>2, <2>4 DEF IdAt
<1>12. CASE d \in 8 .. 32
  <2>1. PICK s \in 0 .. 24 : s = d - 8 /\ s + 1 = d + 1 - 8
    BY <1>12
  <2>2. o = SendOp(ReadId, s + 1)
    <3>1. d + 1 # 1 /\ d + 1 # 2 /\ ~(d + 1 <= 7) /\ d + 1 # 8 /\ d + 1 <= 33
      BY <1>12
    <3> QED BY <1>4, <2>1, <3>1 DEF IdOp
  <2>3. o[1] \in {"clk", "do"}
    BY <2>2 DEF SendOp
  <2>4. IdSent(s + 1)' /\ head' \in 0 .. 255
    <3>1. IdSent(s) /\ (o[1] = "clk" => Clock(o[2])) /\ (o[1] = "do" => Output(o[2]))
      BY <1>3, <1>6, <1>12, <2>1
    <3> QED BY <2>2, <3>1, IdSendStep
  <2>5. UNCHANGED <<termVars, bits>> /\ loader' = loader
    BY <1>3, <2>3 DEF termVars
  <2> QED BY <1>5, <1>6, <1>12, <2>1, <2>4, <2>5 DEF IdAt
<1>13. CASE d = 33
  <2>1. Clock(0) /\ UNCHANGED <<termVars, bits>>
    <3>1. o = RecvOp(1) /\ 1 % 3 = 1
      BY <1>4, <1>13 DEF IdOp
    <3> QED BY <1>3, <3>1 DEF RecvOp
  <2>2. 25 # 0 /\ (25 - 1) \div 3 = 8 /\ Top(ReadId, 8) = ReadId
    BY SMT DEF Top, ReadId
  <2>3. clocks = 8 /\ head = ReadId
    BY <1>6, <1>13, <2>2 DEF IdSent
  <2>4. clocks' = 8 /\ head' = ReadId /\ loader' = loader
    BY <2>1, <2>3 DEF Clock, termVars
  <2> QED BY <1>5, <1>6, <1>13, <2>1, <2>4, ByteInHead DEF IdAt
<1>14. CASE d \in 34 .. 104
  <2>1. PICK u \in 2 .. 72 : u = d - 32 /\ u = (d + 1) - 33
    BY <1>14
  <2>2. o = RecvOp(u)
    <3>1. d + 1 # 1 /\ d + 1 # 2 /\ ~(d + 1 <= 7) /\ d + 1 # 8 /\ ~(d + 1 <= 33) /\ d + 1 <= 105
      BY <1>14
    <3> QED BY <1>4, <2>1, <3>1 DEF IdOp
  <2>3. ASSUME clocks' >= 8, head' = ReadId, loader' = loader
        PROVE  Identifying' /\ head' \in 0 .. HeadEnd
    <3>1. IdAt(d + 1)'
      BY <1>6, <1>14, <2>1, <2>3 DEF IdAt
    <3> QED BY <1>5, <2>3, <3>1, ByteInHead
  <2>4. CASE u % 3 = 0
    <3>1. bits' = Append(bits, miso) /\ UNCHANGED <<termVars, flashVars>>
      BY <1>3, <2>2, <2>4 DEF RecvOp
    <3> QED BY <1>6, <1>14, <2>3, <3>1 DEF termVars, flashVars
  <2>5. CASE u % 3 # 0
    <3>1. Clock((u % 3) - 1) /\ UNCHANGED <<termVars, bits>>
      BY <1>3, <2>2, <2>5 DEF RecvOp
    <3>2. Shifted = head
      BY <1>6, <1>14 DEF Shifted
    <3>3. clocks' >= 8 /\ head' = ReadId /\ loader' = loader
      BY <1>6, <1>7, <1>14, <3>1, <3>2 DEF Clock, termVars
    <3> QED BY <2>3, <3>3
  <2> QED BY <2>4, <2>5
<1>15. CASE d = 105
  <2>1. Select(1) /\ UNCHANGED <<termVars, bits>>
    BY <1>3, <1>4, <1>15 DEF IdOp
  <2>2. head' = 0 /\ loader' = loader
    BY <2>1 DEF Select, termVars
  <2> QED BY <1>5, <1>6, <1>15, <2>1, <2>2 DEF IdAt
<1> QED BY <1>4, <1>8, <1>9, <1>10, <1>11, <1>12, <1>13, <1>14, <1>15

\* The script that the reset leaves, operation by operation.
BootOps ==
  <<<<"clk", 1>>, <<"csn", 1>>>> \o Puts(Banner) \o SpiSelect \o SendByte(ReadId) \o Recv(3)
    \o SpiDeselect
LEMMA BootScript == Sequence(BootOps) /\ Len(BootOps) = 106 /\ \A i \in 1 .. 106 : BootOps[i] = IdOp(i)
<1>1. PICK s1 : s1 = <<<<"clk", 1>>, <<"csn", 1>>>>
  OBVIOUS
<1>2. Sequence(s1) /\ Len(s1) = 2 /\ s1[1] = <<"clk", 1>> /\ s1[2] = <<"csn", 1>>
  <2>1. s1 \in Seq({<<"clk", 1>>, <<"csn", 1>>}) /\ Len(s1) = 2
    BY <1>1
  <2>2. s1[1] = <<"clk", 1>> /\ s1[2] = <<"csn", 1>>
    BY <1>1
  <2> QED BY <2>1, <2>2 DEF Sequence
<1>3. PICK p : p = Puts(Banner)
  OBVIOUS
<1>4. Sequence(p) /\ Len(p) = 5 /\ \A i \in 1 .. 5 : p[i] = <<"put", Banner[i]>>
  <2>1. DOMAIN Banner = 1 .. 5
    BY DEF Banner
  <2>2. p = [i \in 1 .. 5 |-> p[i]] /\ \A i \in 1 .. 5 : p[i] = <<"put", Banner[i]>>
    BY <1>3, <2>1 DEF Puts
  <2> QED BY <2>2, Listed
<1>5. PICK c0 : c0 = SpiSelect
  OBVIOUS
<1>6. Sequence(c0) /\ Len(c0) = 1 /\ c0[1] = <<"csn", 0>>
  BY <1>5, Single DEF SpiSelect
<1>7. PICK c1 : c1 = SpiDeselect
  OBVIOUS
<1>8. Sequence(c1) /\ Len(c1) = 1 /\ c1[1] = <<"csn", 1>>
  BY <1>7, Single DEF SpiDeselect
<1>9. PICK b : b = SendByte(ReadId)
  OBVIOUS
<1>10. Sequence(b) /\ Len(b) = 25 /\ \A i \in 1 .. 25 : b[i] = SendOp(ReadId, i)
  BY <1>9, SendByteIs
<1>11. PICK r : r = Recv(3)
  OBVIOUS
<1>12. Sequence(r) /\ Len(r) = 72 /\ \A i \in 1 .. 72 : r[i] = RecvOp(i)
  <2>1. Sequence(Recv(3)) /\ Len(Recv(3)) = 24 * 3 /\ \A i \in 1 .. 24 * 3 : Recv(3)[i] = RecvOp(i)
    BY RecvIs
  <2> QED BY <1>11, <2>1
<1>13. PICK t2 : t2 = s1 \o p
  OBVIOUS
<1>14. /\ Sequence(t2) /\ Len(t2) = 7
       /\ \A i \in 1 .. 2 : t2[i] = s1[i]
       /\ \A i \in 3 .. 7 : t2[i] = p[i - 2]
  <2>1. Sequence(s1) /\ Sequence(p)
    BY <1>2, <1>4
  <2>2. /\ Sequence(t2) /\ Len(t2) = Len(s1) + Len(p)
        /\ \A i \in 1 .. Len(s1) : t2[i] = s1[i]
        /\ \A i \in Len(s1) + 1 .. Len(s1) + Len(p) : t2[i] = p[i - Len(s1)]
    BY <1>13, <2>1, Joined
  <2> QED BY <1>2, <1>4, <2>2
<1>15. PICK t3 : t3 = t2 \o c0
  OBVIOUS
<1>16. /\ Sequence(t3) /\ Len(t3) = 8
       /\ \A i \in 1 .. 7 : t3[i] = t2[i]
       /\ t3[8] = c0[1]
  <2>1. Sequence(t2) /\ Sequence(c0)
    BY <1>6, <1>14
  <2>2. /\ Sequence(t3) /\ Len(t3) = Len(t2) + Len(c0)
        /\ \A i \in 1 .. Len(t2) : t3[i] = t2[i]
        /\ \A i \in Len(t2) + 1 .. Len(t2) + Len(c0) : t3[i] = c0[i - Len(t2)]
    BY <1>15, <2>1, Joined
  <2> QED BY <1>6, <1>14, <2>2
<1>17. PICK t4 : t4 = t3 \o b
  OBVIOUS
<1>18. /\ Sequence(t4) /\ Len(t4) = 33
       /\ \A i \in 1 .. 8 : t4[i] = t3[i]
       /\ \A i \in 9 .. 33 : t4[i] = b[i - 8]
  <2>1. Sequence(t3) /\ Sequence(b)
    BY <1>10, <1>16
  <2>2. /\ Sequence(t4) /\ Len(t4) = Len(t3) + Len(b)
        /\ \A i \in 1 .. Len(t3) : t4[i] = t3[i]
        /\ \A i \in Len(t3) + 1 .. Len(t3) + Len(b) : t4[i] = b[i - Len(t3)]
    BY <1>17, <2>1, Joined
  <2> QED BY <1>10, <1>16, <2>2
<1>19. PICK t5 : t5 = t4 \o r
  OBVIOUS
<1>20. /\ Sequence(t5) /\ Len(t5) = 105
       /\ \A i \in 1 .. 33 : t5[i] = t4[i]
       /\ \A i \in 34 .. 105 : t5[i] = r[i - 33]
  <2>1. Sequence(t4) /\ Sequence(r)
    BY <1>12, <1>18
  <2>2. /\ Sequence(t5) /\ Len(t5) = Len(t4) + Len(r)
        /\ \A i \in 1 .. Len(t4) : t5[i] = t4[i]
        /\ \A i \in Len(t4) + 1 .. Len(t4) + Len(r) : t5[i] = r[i - Len(t4)]
    BY <1>19, <2>1, Joined
  <2> QED BY <1>12, <1>18, <2>2
<1>21. PICK t6 : t6 = t5 \o c1
  OBVIOUS
<1>22. /\ Sequence(t6) /\ Len(t6) = 106
       /\ \A i \in 1 .. 105 : t6[i] = t5[i]
       /\ t6[106] = c1[1]
  <2>1. Sequence(t5) /\ Sequence(c1)
    BY <1>8, <1>20
  <2>2. /\ Sequence(t6) /\ Len(t6) = Len(t5) + Len(c1)
        /\ \A i \in 1 .. Len(t5) : t6[i] = t5[i]
        /\ \A i \in Len(t5) + 1 .. Len(t5) + Len(c1) : t6[i] = c1[i - Len(t5)]
    BY <1>21, <2>1, Joined
  <2> QED BY <1>8, <1>20, <2>2
<1>23. t6[1] = <<"clk", 1>> /\ t6[2] = <<"csn", 1>> /\ t6[8] = <<"csn", 0>> /\ t6[106] = <<"csn", 1>>
  <2>1. t6[1] = s1[1] /\ t6[2] = s1[2]
    BY <1>14, <1>16, <1>18, <1>20, <1>22
  <2>2. t6[8] = c0[1]
    BY <1>16, <1>18, <1>20, <1>22
  <2> QED BY <1>2, <1>6, <1>8, <1>22, <2>1, <2>2
<1>24. \A i \in 3 .. 7 : t6[i] = <<"put", Banner[i - 2]>>
  <2>1. \A i \in 3 .. 7 : t6[i] = p[i - 2] /\ i - 2 \in 1 .. 5
    BY <1>14, <1>16, <1>18, <1>20, <1>22
  <2> QED BY <1>4, <2>1
<1>25. \A i \in 9 .. 33 : t6[i] = SendOp(ReadId, i - 8)
  <2>1. \A i \in 9 .. 33 : t6[i] = b[i - 8] /\ i - 8 \in 1 .. 25
    BY <1>18, <1>20, <1>22
  <2> QED BY <1>10, <2>1
<1>26. \A i \in 34 .. 105 : t6[i] = RecvOp(i - 33)
  <2>1. \A i \in 34 .. 105 : t6[i] = r[i - 33] /\ i - 33 \in 1 .. 72
    BY <1>20, <1>22
  <2> QED BY <1>12, <2>1
<1>27. \A i \in 1 .. 106 : t6[i] = IdOp(i)
  <2> TAKE i \in 1 .. 106
  <2>1. CASE i \in {1, 2, 8, 106}
    BY <1>23, <2>1 DEF IdOp
  <2>2. CASE i \in 3 .. 7
    BY <1>24, <2>2 DEF IdOp
  <2>3. CASE i \in 9 .. 33
    BY <1>25, <2>3 DEF IdOp
  <2>4. CASE i \in 34 .. 105
    BY <1>26, <2>4 DEF IdOp
  <2> QED BY <2>1, <2>2, <2>3, <2>4
<1>28. BootOps = t6
  BY <1>1, <1>3, <1>5, <1>7, <1>9, <1>11, <1>13, <1>15, <1>17, <1>19, <1>21 DEF BootOps
<1> QED BY <1>22, <1>27, <1>28

\* The bits and levels that these scripts carry.
LEMMA PinsCarry ==
  /\ \A b \in 0 .. 255, s \in 1 .. 25 : Carries(SendOp(b, s))
  /\ \A u \in Nat : Carries(RecvOp(u))
  /\ \A a \in Nat, d \in 1 .. 197 : Carries(ReadOp(a, d))
  /\ \A d \in 1 .. 106 : Carries(IdOp(d))
  /\ \A v \in {0, 1} : Carries(<<"csn", v>>)
<1>1. ASSUME NEW b \in 0 .. 255, NEW s \in 1 .. 25 PROVE Carries(SendOp(b, s))
  <2>1. CASE s % 3 = 0
    <3>1. PICK k \in 0 .. 7 : k = (s \div 3) - 1
      BY <2>1
    <3>2. BitOf(b, k) \in {0, 1}
      BY Halves
    <3> QED BY <2>1, <3>1, <3>2 DEF SendOp, Carries
  <2>2. CASE s % 3 # 0
    <3>1. 2 - (s % 3) \in {0, 1}
      BY <2>2
    <3> QED BY <2>2, <3>1 DEF SendOp, Carries
  <2> QED BY <2>1, <2>2
<1>2. ASSUME NEW u \in Nat PROVE Carries(RecvOp(u))
  <2>1. CASE u % 3 = 0
    BY <2>1 DEF RecvOp, Carries
  <2>2. CASE u % 3 # 0
    <3>1. (u % 3) - 1 \in {0, 1}
      BY <2>2
    <3> QED BY <2>2, <3>1 DEF RecvOp, Carries
  <2> QED BY <2>1, <2>2
<1>3. \A v \in {0, 1} : Carries(<<"csn", v>>) /\ Carries(<<"clk", v>>)
  BY DEF Carries
<1>4. ASSUME NEW a \in Nat, NEW d \in 1 .. 197 PROVE Carries(ReadOp(a, d))
  <2>1. CASE d = 1
    BY <1>3, <2>1 DEF ReadOp
  <2>2. CASE d \in 2 .. 101
    <3>1. PICK q \in 0 .. 3, s \in 1 .. 25 : q = (d - 2) \div 25 /\ s = ((d - 2) % 25) + 1
      BY <2>2
    <3>2. CommandByte(a, q) \in 0 .. 255
      BY CommandBytes
    <3>3. Carries(SendOp(CommandByte(a, q), s))
      BY <1>1, <3>2
    <3> QED BY <2>2, <3>1, <3>3 DEF ReadOp
  <2>3. CASE d \in 102 .. 197
    <3>1. d - 101 \in Nat
      BY <2>3
    <3> QED BY <1>2, <2>3, <3>1 DEF ReadOp
  <2> QED BY <2>1, <2>2, <2>3
<1>5. ASSUME NEW d \in 1 .. 106 PROVE Carries(IdOp(d))
  <2>1. CASE d \in {1, 2, 8, 106}
    BY <1>3, <2>1 DEF IdOp
  <2>2. CASE d \in 3 .. 7
    BY <2>2 DEF IdOp, Carries
  <2>3. CASE d \in 9 .. 33
    <3>1. d - 8 \in 1 .. 25 /\ ReadId \in 0 .. 255
      BY <2>3, ByteInHead
    <3>2. Carries(SendOp(ReadId, d - 8))
      BY <1>1, <3>1
    <3> QED BY <2>3, <3>2 DEF IdOp
  <2>4. CASE d \in 34 .. 105
    <3>1. d - 33 \in Nat
      BY <2>4
    <3> QED BY <1>2, <2>4, <3>1 DEF IdOp
  <2> QED BY <2>1, <2>2, <2>3, <2>4
<1> QED BY <1>1, <1>2, <1>3, <1>4, <1>5

-----------------------------------------------------------------------------
(* The types: the steps of the loader.                                        *)

LEMMA HeadLong == HeadEnd \in Int /\ \A n \in Nat : n < HeadEnd => n \in 0 .. HeadEnd
<1>1. HeadEnd \in Int
  BY SMT DEF HeadEnd
<1> QED BY <1>1

\* The command is never longer than its 32 bits.
LEMMA PrefixBound ==
  ASSUME NEW a \in Nat, NEW q \in 0 .. 3, NEW j \in 0 .. 7
  PROVE  Prefix(a, q, j) \in 0 .. HeadEnd
<1>1. PICK h, b : h = BytesSent(a, q) /\ b = CommandByte(a, q)
  OBVIOUS
<1>2. b \in 0 .. 255 /\ h \in Nat /\ h < 262144
  <2>1. PICK m, n : m = (a \div 65536) % 256 /\ n = (a \div 256) % 65536
    OBVIOUS
  <2>2. m \in Nat /\ m < 256 /\ n \in Nat /\ n < 65536
    BY <2>1, SMT
  <2>3. h = IF q = 0 THEN 0 ELSE IF q = 1 THEN 3 ELSE IF q = 2 THEN 768 + m ELSE 196608 + n
    BY <1>1, <2>1, SMT DEF BytesSent
  <2>4. h \in Nat /\ h < 262144
    BY <2>2, <2>3, SMT
  <2> QED BY <1>1, <2>4, CommandBytes, SMT
<1>3. /\ Prefix(a, q, 0) = h /\ Prefix(a, q, 1) = 2 * h + (b \div 128)
      /\ Prefix(a, q, 2) = 4 * h + (b \div 64) /\ Prefix(a, q, 3) = 8 * h + (b \div 32)
      /\ Prefix(a, q, 4) = 16 * h + (b \div 16) /\ Prefix(a, q, 5) = 32 * h + (b \div 8)
      /\ Prefix(a, q, 6) = 64 * h + (b \div 4) /\ Prefix(a, q, 7) = 128 * h + (b \div 2)
  BY <1>1, FirstBits
<1>4. PICK p : p = Prefix(a, q, j)
  OBVIOUS
<1>5. j = 0 \/ j = 1 \/ j = 2 \/ j = 3 \/ j = 4 \/ j = 5 \/ j = 6 \/ j = 7
  OBVIOUS
<1>6. b \div 128 \in 0 .. 255 /\ b \div 64 \in 0 .. 255 /\ b \div 32 \in 0 .. 255 /\ b \div 16 \in 0 .. 255
  BY <1>2, SMT
<1>7. b \div 8 \in 0 .. 255 /\ b \div 4 \in 0 .. 255 /\ b \div 2 \in 0 .. 255
  BY <1>2, SMT
<1>8. \E m \in {1, 2, 4, 8, 16, 32, 64, 128}, c \in 0 .. 255 : p = m * h + c
  <2>1. 0 \in 0 .. 255 /\ h = 1 * h + 0
    BY <1>2, SMT
  <2> QED BY <1>3, <1>4, <1>5, <1>6, <1>7, <2>1, SMT
<1>9. p \in Nat /\ p < 33554688
  <2>1. PICK m \in {1, 2, 4, 8, 16, 32, 64, 128}, c \in 0 .. 255 : p = m * h + c
    BY <1>8, SMT
  <2>2. m * h <= 128 * h /\ m * h \in Nat
    BY <1>2, SMT
  <2> QED BY <1>2, <2>1, <2>2, SMT
<1>10. p < HeadEnd /\ HeadEnd \in Int
  BY <1>9, SMT DEF HeadEnd
<1> QED BY <1>4, <1>9, <1>10, SMT

\* What the flash has seen of a read command.
LEMMA ReadHead ==
  ASSUME Reading', Len(script') < 197, block \in 0 .. Blocks - 1, block' = block
  PROVE  head' \in 0 .. HeadEnd
<1>1. Base' \in Nat /\ Base' < AddressEnd
  <2>1. Base' = Base
    BY DEF Base
  <2> QED BY <2>1, Addresses
<1>2. PICK d \in 1 .. 197 :
        /\ d \in 1 .. 100 => Sending((d - 1) \div 25, (d - 1) % 25)'
        /\ d >= 101 => Receiving(d - 101)'
  <2>1. PICK d \in 0 .. 197 :
          /\ Len(script') = 197 - d
          /\ d \in 1 .. 100 => Sending((d - 1) \div 25, (d - 1) % 25)'
          /\ d >= 101 => Receiving(d - 101)'
    BY DEF Reading
  <2>2. d \in 1 .. 197
    BY <2>1
  <2> QED BY <2>1, <2>2
<1>3. CASE d \in 1 .. 100
  <2>1. PICK q \in 0 .. 3, s \in 0 .. 24 : q = (d - 1) \div 25 /\ s = (d - 1) % 25
    BY <1>3
  <2>2. PICK j \in 0 .. 7 : j = IF s = 0 THEN 0 ELSE (s - 1) \div 3
    OBVIOUS
  <2>3. Sending(q, s)'
    BY <1>2, <1>3, <2>1
  <2>4. head' = Prefix(Base', q, j)
    BY <2>2, <2>3 DEF Sending
  <2> QED BY <1>1, <2>4, PrefixBound
<1>4. CASE d >= 101
  <2>1. head' = ReadWord + Base'
    BY <1>2, <1>4 DEF Receiving
  <2>2. head' \in Nat /\ head' < HeadEnd
    <3>1. \A b \in Nat : b < AddressEnd => ReadWord + b \in Nat /\ ReadWord + b < HeadEnd
      BY SMT DEF ReadWord, AddressEnd, HeadEnd
    <3> QED BY <1>1, <2>1, <3>1
  <2> QED BY <2>2, HeadLong
<1> QED BY <1>2, <1>3, <1>4

LEMMA HeadStep ==
  ASSUME FirmwareInv, FirmwareInv', TypesInv, pc \in Loads, LoaderStep
  PROVE  head' \in 0 .. HeadEnd /\ (pc = "id" => Identifying')
<1>1. OfLoader(script) /\ pc' = pc /\ block' = block /\ script # <<>> /\ pc # "reset"
  BY DEF FirmwareInv, LoaderInv, LoaderStep
<1>2. PinTypes
  BY DEF TypesInv
<1>3. CASE pc = "id"
  BY <1>1, <1>2, <1>3, IdentifyStep DEF TypesInv
<1>4. CASE pc = "word"
  <2>1. Reading /\ Reading' /\ block' \in 0 .. Blocks - 1
    BY <1>1, <1>4 DEF FirmwareInv, CopyInv
  <2>2. Len(script) <= 197 /\ Len(script) \in Nat
    BY <2>1 DEF Reading
  <2>3. Len(script') < 197
    <3>1. PICK o : o = Head(script)
      OBVIOUS
    <3>2. Len(script') = Len(script) - 1
      BY <1>1, <3>1, LoaderOp
    <3> QED BY <2>2, <3>2
  <2>4. block \in 0 .. Blocks - 1
    BY <1>1, <2>1
  <2>5. head' \in 0 .. HeadEnd
    BY <1>1, <2>1, <2>3, <2>4, ReadHead
  <2> QED BY <1>4, <2>5
<1>5. CASE pc \in Loads \ {"reset", "id", "word"}
  <2>1. PICK o : o = Head(script)
    OBVIOUS
  <2>2. /\ o[1] \in LoaderOps /\ o = script[1] /\ Len(script) \in Nat \ {0}
        /\ o[1] = "put" => TermPutchar(o[2]) /\ UNCHANGED <<flashVars, bits>>
        /\ o[1] = "csn" => Select(o[2]) /\ UNCHANGED <<termVars, bits>>
        /\ o[1] = "do" => Output(o[2]) /\ UNCHANGED <<termVars, bits>>
        /\ o[1] = "di" => bits' = Append(bits, miso) /\ UNCHANGED <<termVars, flashVars>>
    BY <1>1, <2>1, LoaderOp
  <2>3. o[1] # "clk"
    BY <1>5, <2>2 DEF TypesInv, Unclocked
  <2>4. head' = head \/ head' = 0
    BY <2>2, <2>3 DEF LoaderOps, flashVars, Select, Output
  <2>5. head' \in 0 .. HeadEnd
    <3>1. 0 \in 0 .. HeadEnd
      BY ByteInHead
    <3> QED BY <1>2, <2>4, <3>1 DEF PinTypes
  <2> QED BY <1>5, <2>5
<1> QED BY <1>1, <1>3, <1>4, <1>5

LEMMA LoaderStepTypes ==
  ASSUME FirmwareInv, FirmwareInv', TypesInv, pc \in Loads, LoaderStep
  PROVE  TypesInv'
<1>1. OfLoader(script) /\ pc # "reset"
  BY DEF FirmwareInv, LoaderInv, LoaderStep
<1>2. PinTypes /\ CopyTypes /\ LoaderCursor /\ Carrying(script)
  BY DEF TypesInv
<1>3. PICK o : o = Head(script)
  OBVIOUS
<1>4. /\ o[1] \in LoaderOps /\ UNCHANGED <<pc, verify, block, word, ddr, leds, faults>>
      /\ Len(script) \in Nat \ {0} /\ Len(script') = Len(script) - 1
      /\ \A i \in 1 .. Len(script) - 1 : script'[i] = script[i + 1]
      /\ o[1] = "put" => TermPutchar(o[2])
      /\ o[1] # "put" => UNCHANGED termVars
  BY <1>1, <1>3, LoaderOp DEF LoaderOps
<1>5. PinTypes' /\ (pc = "id" => Identifying')
  BY <1>1, <1>2, HeadStep, PinsKept
<1>6. CopyTypes'
  BY <1>2, <1>4 DEF CopyTypes
<1>7. LoaderCursor'
  <2>1. CASE o[1] = "put"
    BY <1>2, <1>4, <2>1, LoaderWrites
  <2>2. CASE o[1] # "put"
    BY <1>2, <1>4, <2>2 DEF LoaderCursor, termVars
  <2> QED BY <2>1, <2>2
<1>8. \A i \in 1 .. Len(script') : i + 1 \in 1 .. Len(script) /\ script'[i] = script[i + 1]
  BY <1>4
<1>9. Carrying(script')
  BY <1>2, <1>8 DEF Carrying
<1>10. Unclocked(script) => Unclocked(script')
  BY <1>8 DEF Unclocked
<1> QED BY <1>1, <1>4, <1>5, <1>6, <1>7, <1>9, <1>10 DEF TypesInv

-----------------------------------------------------------------------------
(* The types: the calls of the loader.                                        *)

\* What is printed carries no level, and moves no pin.
LEMMA PrintedCarries ==
  /\ \A s : Printing(s) => Carrying(s) /\ Unclocked(s)
  /\ \A v \in {0, 1} : Carrying(<<<<"csn", v>>>>) /\ Unclocked(<<<<"csn", v>>>>)
  /\ \A s, t : Sequence(s) /\ Sequence(t) /\ Carrying(s) /\ Carrying(t) => Carrying(s \o t)
  /\ \A n \in Nat : Carrying(Recv(n))
<1>1. \A s : Printing(s) => Carrying(s) /\ Unclocked(s)
  BY DEF Printing, Carrying, Carries, Unclocked
<1>2. ASSUME NEW v \in {0, 1} PROVE Carrying(<<<<"csn", v>>>>) /\ Unclocked(<<<<"csn", v>>>>)
  <2>1. PICK a : a = <<"csn", v>>
    OBVIOUS
  <2>2. Len(<<a>>) = 1 /\ <<a>>[1] = a /\ Carries(a) /\ a[1] = "csn"
    BY <2>1, Single DEF Carries
  <2> QED BY <2>1, <2>2 DEF Carrying, Unclocked
<1>3. ASSUME NEW s, NEW t, Sequence(s), Sequence(t), Carrying(s), Carrying(t) PROVE Carrying(s \o t)
  <2>1. PICK r : r = s \o t
    OBVIOUS
  <2>2. /\ Len(s) \in Nat /\ Len(t) \in Nat /\ Len(r) = Len(s) + Len(t)
        /\ \A i \in 1 .. Len(s) : r[i] = s[i]
        /\ \A i \in Len(s) + 1 .. Len(s) + Len(t) : r[i] = t[i - Len(s)]
    BY <1>3, <2>1, Joined
  <2>3. \A i \in 1 .. Len(r) :
          \/ i \in 1 .. Len(s)
          \/ i \in Len(s) + 1 .. Len(s) + Len(t) /\ i - Len(s) \in 1 .. Len(t)
    BY <2>2
  <2> QED BY <1>3, <2>1, <2>2, <2>3 DEF Carrying
<1>4. ASSUME NEW n \in Nat PROVE Carrying(Recv(n))
  <2>1. Len(Recv(n)) = 24 * n /\ \A i \in 1 .. 24 * n : Recv(n)[i] = RecvOp(i)
    BY RecvIs
  <2>2. \A i \in 1 .. 24 * n : i \in Nat
    OBVIOUS
  <2> QED BY <2>1, <2>2, PinsCarry DEF Carrying
<1> QED BY <1>1, <1>2, <1>3, <1>4

\* A call moves no pin, and starts with no bit received.
LEMMA GoesTypes ==
  ASSUME NEW p, NEW q, NEW ops, Goes(p, q, ops), PinTypes
  PROVE  PinTypes'
<1>1. bits' \in Seq({0, 1})
  BY EmptySeq DEF Goes
<1> QED BY <1>1 DEF Goes, flashVars, PinTypes

LEMMA CallTypes ==
  ASSUME TypesInv, NEW p, NEW q, NEW ops, Goes(p, q, ops), p \in Loads, UNCHANGED termVars,
         CopyTypes', Carrying(ops), q \notin {"reset", "id"}, q # "word" => Unclocked(ops)
  PROVE  TypesInv'
<1>1. PinTypes' /\ pc' = q /\ script' = ops /\ pc = p
  BY GoesTypes DEF TypesInv, Goes
<1>2. LoaderCursor'
  BY <1>1 DEF TypesInv, LoaderCursor, termVars
<1> QED BY <1>1, <1>2 DEF TypesInv

LEMMA BootTypes ==
  ASSUME TypesInv, Boot
  PROVE  TypesInv'
<1>1. /\ pc = "reset" /\ pc' = "id" /\ script' = BootOps /\ bits' = <<>> /\ leds' = "green"
      /\ UNCHANGED <<flashVars, verify, block, word, ddr, faults>> /\ TermClear
  BY DEF Boot, Goes, BootOps
<1>2. PinTypes /\ CopyTypes /\ LoaderCursor /\ head = 0 /\ mosi = 0 /\ clocks = 0
  BY <1>1 DEF TypesInv
<1>3. PinTypes'
  BY <1>2, GoesTypes DEF Boot
<1>4. CopyTypes'
  BY <1>1, <1>2 DEF CopyTypes
<1>5. loader' = At(0, 0) /\ DOMAIN vram' = Cells /\ player' = player
  BY <1>1 DEF TermClear, Home
<1>6. LoaderCursor'
  <2>1. 0 \in 0 .. Rows - 1 /\ 0 \in 0 .. Cols - 1
    BY ScreenAssumption
  <2> QED BY <1>1, <1>2, <1>5, <2>1 DEF LoaderCursor, Loads
<1>7. Carrying(script')
  <2>1. \A d \in 1 .. 106 : Carries(IdOp(d))
    BY PinsCarry
  <2>2. PICK b : b = BootOps
    OBVIOUS
  <2>3. Len(b) = 106 /\ \A i \in 1 .. 106 : Carries(b[i])
    BY <2>1, <2>2, BootScript
  <2> QED BY <1>1, <2>2, <2>3 DEF Carrying
<1>8. Identifying'
  <2>1. PICK d \in 0 .. 106 : d = 0
    OBVIOUS
  <2>2. Len(script') = 106 - d /\ \A i \in 1 .. 106 - d : script'[i] = IdOp(d + i)
    BY <1>1, <2>1, BootScript
  <2>3. IdAt(d)'
    BY <1>1, <1>2, <1>5, <2>1 DEF IdAt, flashVars
  <2> QED BY <2>2, <2>3 DEF Identifying
<1> QED BY <1>1, <1>3, <1>4, <1>6, <1>7, <1>8 DEF TypesInv

LEMMA PrintingCallTypes ==
  ASSUME FirmwareInv, TypesInv, pc \in Loads,
         \/ IdFails \/ IdPasses \/ Loaded \/ Verified \/ TestStart \/ Fill \/ Filled \/ Check
         \/ CheckFails \/ TestPasses
  PROVE  TypesInv'
<1>1. CopyTypes
  BY DEF TypesInv
<1>2. DdrKb \in Nat /\ Words \in Nat /\ Words > 0 /\ MaxFaults \in Nat /\ 0 \in 0 .. DdrKb /\ 0 \in 0 .. Words
  BY BootAssumption
<1>3. /\ block \in 0 .. DdrKb /\ word \in 0 .. Words /\ leds \in {"off", "green", "red"}
      /\ faults \in 0 .. MaxFaults
  BY <1>1 DEF CopyTypes
<1>4. ASSUME NEW p, NEW q, NEW ops, Goes(p, q, ops), UNCHANGED termVars, CopyTypes', Printing(ops),
             q \notin {"reset", "id"}
      PROVE  TypesInv'
  <2>1. p \in Loads
    BY <1>4 DEF Goes
  <2> QED BY <1>4, <2>1, CallTypes, PrintedCarries
<1>5. CASE IdFails
  <2>1. CopyTypes' /\ UNCHANGED termVars
    BY <1>1, <1>5 DEF IdFails, CopyTypes
  <2> QED BY <1>4, <1>5, <2>1, LoaderTexts DEF IdFails
<1>6. CASE IdPasses
  <2>1. PICK ops : ops = Puts(Text(FALSE))
    OBVIOUS
  <2>2. CopyTypes' /\ UNCHANGED termVars /\ Goes("id", "block", ops)
    BY <1>2, <1>3, <1>6, <2>1 DEF IdPasses, StartCopy, CopyTypes
  <2>3. Printing(ops)
    BY <2>1, LoaderTexts
  <2> QED BY <1>4, <2>2, <2>3
<1>7. CASE Loaded
  <2>1. PICK ops : ops = Puts(Text(TRUE))
    OBVIOUS
  <2>2. CopyTypes' /\ UNCHANGED termVars /\ Goes("block", "block", ops)
    BY <1>2, <1>3, <1>7, <2>1 DEF Loaded, StartCopy, CopyTypes
  <2>3. Printing(ops)
    BY <2>1, LoaderTexts
  <2> QED BY <1>4, <2>2, <2>3
<1>8. CASE Verified
  <2>1. CopyTypes' /\ UNCHANGED termVars
    BY <1>3, <1>8 DEF Verified, CopyTypes
  <2> QED BY <1>4, <1>8, <2>1, LoaderTexts DEF Verified
<1>9. CASE TestStart
  <2>1. CopyTypes' /\ UNCHANGED termVars
    BY <1>2, <1>3, <1>9 DEF TestStart, CopyTypes, Goes
  <2> QED BY <1>4, <1>9, <2>1, LoaderTexts DEF TestStart
<1>10. CASE Fill
  <2>1. faults' \in 0 .. MaxFaults /\ block' \in 0 .. DdrKb
    BY <1>2, <1>3, <1>10 DEF Fill, Stores
  <2>2. CopyTypes' /\ UNCHANGED termVars
    BY <1>3, <1>10, <2>1 DEF Fill, CopyTypes
  <2> QED BY <1>4, <1>10, <2>2, LoaderTexts DEF Fill
<1>11. CASE Filled
  <2>1. CopyTypes' /\ UNCHANGED termVars
    BY <1>2, <1>3, <1>11 DEF Filled, CopyTypes, Goes
  <2> QED BY <1>4, <1>11, <2>1, LoaderTexts DEF Filled
<1>12. CASE Check
  <2>1. block' \in 0 .. DdrKb
    BY <1>2, <1>3, <1>12 DEF Check
  <2>2. CopyTypes' /\ UNCHANGED termVars
    BY <1>3, <1>12, <2>1 DEF Check, CopyTypes
  <2> QED BY <1>4, <1>12, <2>2, LoaderTexts DEF Check
<1>13. CASE CheckFails
  <2>1. CopyTypes' /\ UNCHANGED termVars
    BY <1>3, <1>13 DEF CheckFails, CopyTypes
  <2> QED BY <1>4, <1>13, <2>1, LoaderTexts DEF CheckFails
<1>14. CASE TestPasses
  <2>1. PICK ops : ops = Puts(<<NL, "P", "a", "s", "s", NL>> \o Text(FALSE))
    OBVIOUS
  <2>2. CopyTypes' /\ UNCHANGED termVars /\ Goes("check", "block", ops)
    BY <1>2, <1>3, <1>14, <2>1 DEF TestPasses, StartCopy, CopyTypes
  <2>3. Printing(ops)
    BY <2>1, LoaderTexts
  <2> QED BY <1>4, <2>2, <2>3
<1> QED BY <1>5, <1>6, <1>7, <1>8, <1>9, <1>10, <1>11, <1>12, <1>13, <1>14

LEMMA CopyCallTypes ==
  ASSUME FirmwareInv, TypesInv, pc \in Loads, BeginBlock \/ LoadWord \/ VerifyWord \/ VerifyFails
  PROVE  TypesInv'
<1>1. CopyTypes /\ CopyInv
  BY DEF TypesInv, FirmwareInv
<1>2. /\ DdrKb \in Nat /\ Words \in Nat \ {0} /\ Blocks \in Nat \ {0} /\ DdrKb >= Blocks
      /\ MaxFaults \in Nat
  BY BootAssumption
<1>3. /\ block \in 0 .. DdrKb /\ word \in 0 .. Words /\ leds \in {"off", "green", "red"}
      /\ faults \in 0 .. MaxFaults
  BY <1>1 DEF CopyTypes
<1>4. CASE BeginBlock
  <2>1. PICK s : s = ReadCommand(Base) \o Recv(4)
    OBVIOUS
  <2>2. Goes("block", "word", s) /\ UNCHANGED termVars
    BY <1>4, <2>1 DEF BeginBlock, Base
  <2>3. CopyTypes'
    BY <1>2, <1>3, <1>4 DEF BeginBlock, CopyTypes
  <2>4. Base \in Nat
    BY <1>1, <1>2, <1>4, Addresses DEF CopyInv, BeginBlock, Goes
  <2>5. ReadsFrom(s, Base)
    <3>1. PICK a \in Nat : a = Base
      BY <2>4
    <3>2. ReadsFrom(ReadCommand(a) \o Recv(4), a)
      BY ReadScript
    <3> QED BY <2>1, <3>1, <3>2, Zenon
  <2>6. Carrying(s)
    <3>1. \A d \in 1 .. 197 : Carries(ReadOp(Base, d))
      BY <2>4, PinsCarry
    <3>2. Len(s) = 197 /\ \A d \in 1 .. 197 : s[d] = ReadOp(Base, d)
      BY <2>5, Zenon DEF ReadsFrom
    <3>3. \A d \in 1 .. 197 : Carries(s[d])
      BY <3>1, <3>2, Zenon
    <3>4. SUFFICES ASSUME NEW d \in 1 .. Len(s) PROVE Carries(s[d])
      BY DEF Carrying
    <3>5. d \in 1 .. 197
      BY <3>2
    <3> QED BY <3>3, <3>5, Zenon
  <2>7. "block" \in Loads
    BY DEF Loads
  <2> QED BY <2>2, <2>3, <2>6, <2>7, CallTypes
<1>5. CASE LoadWord \/ VerifyWord
  <2>1. /\ pc = "word" /\ Goes("word", AfterWord, Onward) /\ Advance /\ UNCHANGED <<termVars, leds>>
        /\ faults' = faults \/ (faults < MaxFaults /\ faults' = faults + 1)
    BY <1>5 DEF LoadWord, VerifyWord, Goes, Stores
  <2>2. block \in 0 .. Blocks - 1 /\ word \in 0 .. Words - 1
    BY <1>1, <2>1 DEF CopyInv
  <2>3. word' \in 0 .. Words /\ block' \in 0 .. DdrKb /\ faults' \in 0 .. MaxFaults
    BY <1>2, <1>3, <2>1, <2>2 DEF Advance
  <2>4. CopyTypes' /\ UNCHANGED termVars
    BY <1>3, <2>1, <2>3 DEF CopyTypes
  <2>5. Carrying(Onward) /\ (AfterWord # "word" => Unclocked(Onward))
    <3>1. Carrying(Recv(4)) /\ Carrying(SpiDeselect) /\ Unclocked(SpiDeselect)
      BY PrintedCarries DEF SpiDeselect
    <3> QED BY <3>1 DEF Onward, AfterWord
  <2>6. AfterWord \notin {"reset", "id"} /\ "word" \in Loads
    BY DEF AfterWord, Loads
  <2> QED BY <2>1, <2>4, <2>5, <2>6, CallTypes
<1>6. CASE VerifyFails
  <2>1. PICK s : s = Puts(VerifyText \o Hex(AppBase + 4 * DdrPtr, 4) \o <<NL>>)
    OBVIOUS
  <2>2. Goes("word", "memtest", s \o SpiDeselect) /\ UNCHANGED termVars
    BY <1>6, <2>1 DEF VerifyFails
  <2>3. CopyTypes'
    BY <1>3, <1>6 DEF VerifyFails, CopyTypes
  <2>4. Printing(s)
    BY <2>1, LoaderTexts
  <2>5. Carrying(s) /\ Unclocked(s) /\ OfLoader(s) /\ Sequence(s)
    BY <2>4, PrintedCarries, Unclocking DEF Printing
  <2>6. Carrying(SpiDeselect) /\ Unclocked(SpiDeselect) /\ OfLoader(SpiDeselect) /\ Sequence(SpiDeselect)
    BY PrintedCarries, Unclocking DEF SpiDeselect, OfLoader
  <2>7. Carrying(s \o SpiDeselect) /\ Unclocked(s \o SpiDeselect)
    BY <2>5, <2>6, PrintedCarries, JoinedScripts
  <2>8. "word" \in Loads
    BY DEF Loads
  <2> QED BY <2>2, <2>3, <2>7, <2>8, CallTypes
<1> QED BY <1>4, <1>5, <1>6

-----------------------------------------------------------------------------
(* The types hold.                                                            *)

LEMMA TypesStart == Init => TypesInv
<1> SUFFICES ASSUME Init PROVE TypesInv
  OBVIOUS
<1>1. BootInit /\ TermInit /\ FlashInit
  BY DEF Init, BootInit
<1>2. PinTypes
  <2>1. clocks = 0 /\ head = 0 /\ bits = <<>> /\ mosi = 0 /\ miso = 1 /\ flashId \in FlashIds
    BY <1>1 DEF BootInit, FlashInit
  <2>2. csn \in {0, 1} /\ clk \in {0, 1}
    BY <1>1 DEF FlashInit
  <2>3. bits \in Seq({0, 1}) /\ flashId \in Identification /\ head \in 0 .. HeadEnd
    BY <2>1, EmptySeq, ByteInHead, FlashAssumption DEF Identification
  <2> QED BY <2>1, <2>2, <2>3 DEF PinTypes
<1>3. CopyTypes
  <2>1. 0 \in 0 .. DdrKb /\ 0 \in 0 .. Words /\ 0 \in 0 .. MaxFaults
    BY BootAssumption
  <2> QED BY <1>1, <2>1 DEF BootInit, CopyTypes
<1>4. LoaderCursor
  <2>1. 0 \in 0 .. Rows - 1 /\ 0 \in 0 .. Cols - 1
    BY ScreenAssumption
  <2> QED BY <1>1, <2>1 DEF TermInit, Home, LoaderCursor
<1>5. pc = "reset" /\ script = <<>> /\ head = 0 /\ mosi = 0 /\ clocks = 0
  BY <1>1 DEF BootInit, FlashInit
<1>6. Carrying(script)
  BY <1>5, Nothing DEF Carrying
<1> QED BY <1>2, <1>3, <1>4, <1>5, <1>6 DEF TypesInv

\* Once the program runs, only its own cursor and the LEDs move.
LEMMA PlayerTypesKept ==
  ASSUME TypesInv, pc' \notin Loads, UNCHANGED <<flashVars, bits, block, word, faults, loader>>,
         leds' \in {"off", "green", "red"}, DOMAIN vram' = DOMAIN vram
  PROVE  TypesInv'
<1>1. PinTypes'
  BY DEF TypesInv, PinTypes, flashVars
<1>2. CopyTypes' /\ LoaderCursor'
  BY DEF TypesInv, CopyTypes, LoaderCursor
<1> QED BY <1>1, <1>2 DEF TypesInv, Loads

LEMMA TypesStep == FirmwareInv /\ FirmwareInv' /\ CodecInv /\ TypesInv /\ [Next]_firmwareVars => TypesInv'
<1> SUFFICES ASSUME FirmwareInv, FirmwareInv', CodecInv, TypesInv, [Next]_firmwareVars PROVE TypesInv'
  OBVIOUS
<1>1. leds \in {"off", "green", "red"} /\ pc \in Loads \cup Plays
  BY DEF FirmwareInv, TypesInv, CopyTypes
<1>2. \A p : ~(p \in Loads /\ p \in Plays)
  BY DEF Loads, Plays
<1>3. CASE Load
  <2>1. CASE LoaderStep
    <3>1. script # <<>> /\ Head(script)[1] \in LoaderOps
      BY <2>1 DEF LoaderStep, Put, Pin, Sample, LoaderOps
    <3>2. pc \in Loads
      BY <1>1, <3>1, PlayerOps
    <3> QED BY <2>1, <3>2, LoaderStepTypes
  <2>2. CASE LoaderCall
    <3>1. pc \in Loads
      <4>1. Boot \/ IdFails \/ IdPasses \/ BeginBlock \/ LoadWord => pc \in Loads
        BY DEF Boot, IdFails, IdPasses, BeginBlock, LoadWord, Goes, Loads
      <4>2. VerifyWord \/ VerifyFails \/ Loaded \/ Verified \/ TestStart => pc \in Loads
        BY DEF VerifyWord, VerifyFails, Loaded, Verified, TestStart, Goes, Loads
      <4>3. Fill \/ Filled \/ Check \/ CheckFails \/ TestPasses => pc \in Loads
        BY DEF Fill, Filled, Check, CheckFails, TestPasses, Goes, Loads
      <4> QED BY <2>2, <4>1, <4>2, <4>3 DEF LoaderCall
    <3> QED BY <2>2, <3>1, BootTypes, PrintingCallTypes, CopyCallTypes DEF LoaderCall
  <2> QED BY <1>3, <2>1, <2>2 DEF Load
<1>4. CASE Log \/ Wire
  <2>1. script # <<>> /\ Head(script)[1] \notin LoaderOps
    BY <1>4 DEF Log, Wire, LoaderOps, I2cOps
  <2>2. pc \notin Loads
    <3>1. pc \in Loads => Sequence(script) /\ \A i \in 1 .. Len(script) : script[i][1] \in LoaderOps
      BY DEF FirmwareInv, LoaderInv, OfLoader
    <3> QED BY <2>1, <3>1, TailOf
  <2>3. UNCHANGED <<pc, flashVars, bits, block, word, leds, faults, loader>> /\ DOMAIN vram' = DOMAIN vram
    BY <1>4 DEF Log, LogPutc, Drawn, Wire, bootVars, termVars
  <2> QED BY <1>1, <2>2, <2>3, PlayerTypesKept
<1>5. CASE PlayerMain \/ AudioInit \/ AudioWrite \/ AudioFails \/ AudioDone \/ Play \/ PlayerEnds
  <2>1. ASSUME NEW p, NEW q, NEW ops, Calls(p, q, ops), q \in Plays, UNCHANGED <<vram, loader>>,
               leds' \in {"off", "green", "red"}
        PROVE  TypesInv'
    <3>1. UNCHANGED <<flashVars, bits, block, word, faults>> /\ pc' \notin Loads
      BY <1>2, <2>1 DEF Calls
    <3> QED BY <2>1, <3>1, PlayerTypesKept
  <2>2. CASE PlayerMain
    BY <2>1, <2>2 DEF PlayerMain, Plays
  <2>3. CASE AudioInit
    BY <1>1, <2>1, <2>3 DEF AudioInit, Plays, termVars
  <2>4. CASE AudioWrite
    BY <1>1, <2>1, <2>4 DEF AudioWrite, Plays, termVars
  <2>5. CASE AudioFails
    BY <1>1, <2>1, <2>5 DEF AudioFails, Plays, termVars
  <2>6. CASE AudioDone
    BY <1>1, <2>1, <2>6 DEF AudioDone, Plays, termVars
  <2>7. CASE Play
    BY <1>1, <2>1, <2>7 DEF Play, Plays, termVars
  <2>8. CASE PlayerEnds
    BY <1>1, <2>1, <2>8 DEF PlayerEnds, Plays, termVars
  <2> QED BY <1>5, <2>2, <2>3, <2>4, <2>5, <2>6, <2>7, <2>8
<1>6. CASE Spin \/ UNCHANGED firmwareVars
  <2>1. UNCHANGED <<flashVars, script, pc, bits, block, word, leds, faults, termVars>>
    BY <1>6 DEF Spin, firmwareVars, bootVars
  <2>2. PinTypes' /\ CopyTypes' /\ LoaderCursor'
    BY <2>1 DEF TypesInv, PinTypes, CopyTypes, LoaderCursor, flashVars, termVars
  <2>3. pc = "id" => Identifying'
    <3> SUFFICES ASSUME pc = "id" PROVE Identifying'
      OBVIOUS
    <3>1. PICK d \in 0 .. 106 :
            Len(script) = 106 - d /\ (\A i \in 1 .. 106 - d : script[i] = IdOp(d + i)) /\ IdAt(d)
      BY DEF TypesInv, Identifying
    <3>2. IdAt(d)'
      BY <2>1, <3>1 DEF IdAt, IdSent, flashVars, termVars
    <3> QED BY <2>1, <3>1, <3>2 DEF Identifying
  <2> QED BY <2>1, <2>2, <2>3 DEF TypesInv, flashVars
<1> QED BY <1>3, <1>4, <1>5, <1>6 DEF Next

\* The data line is driven to one of its levels by every operation of the set-up.
Leveled(op) == op[1] = "sda" => op[2] \in {0, 1}

LEMMA WriteLevels ==
  ASSUME NEW v \in TwoBytes
  PROVE  \A p \in 1 .. 91 : Leveled(WriteOp(v, p))
<1>1. /\ \A b \in {0, 1} : Leveled(Sda(b))
      /\ \A b : Leveled(Scl(b)) /\ Leveled(<<"ack", b>>)
  BY DEF Leveled, Scl, Sda
<1>2. Leveled(Sda(0)) /\ Leveled(Sda(1))
  BY <1>1
<1>3. ASSUME NEW q, NEW s \in 1 .. 28 PROVE Leveled(TxOp(v, q, s))
  <2>1. SentByte(v, q) \in 0 .. 255
    BY SentBytesAre
  <2>2. CASE s > 24
    <3>1. s # 25 /\ s # 26 => s > 26
      BY <2>2
    <3> QED BY <1>1, <1>2, <3>1 DEF TxOp
  <2>3. CASE s <= 24 /\ s % 3 = 1
    <3>1. s \div 3 \in 0 .. 7 /\ s # 25 /\ s # 26 /\ ~(s > 26)
      BY <2>3
    <3>2. Bit(SentByte(v, q), s \div 3) \in {0, 1}
      BY <2>1, <3>1, TopBits
    <3> QED BY <1>1, <2>3, <3>1, <3>2 DEF TxOp
  <2>4. CASE s <= 24 /\ s % 3 # 1
    <3>1. s # 25 /\ s # 26 /\ ~(s > 26)
      BY <2>4
    <3> QED BY <1>1, <2>4, <3>1 DEF TxOp
  <2> QED BY <2>2, <2>3, <2>4
<1> QED
  <2> TAKE p \in 1 .. 91
  <2>1. CASE p <= 4
    <3>1. p = 1 \/ p = 2 \/ p = 3 \/ p = 4
      BY <2>1
    <3> QED BY <1>1, <1>2, <2>1, <3>1, StartAndStop DEF WriteOp
  <2>2. CASE ~(p <= 4) /\ p <= 88
    <3>1. ((p - 5) % 28) + 1 \in 1 .. 28
      BY <2>2
    <3> QED BY <1>3, <2>2, <3>1 DEF WriteOp
  <2>3. CASE ~(p <= 4) /\ ~(p <= 88)
    <3>1. p - 88 = 1 \/ p - 88 = 2 \/ p - 88 = 3
      BY <2>3
    <3> QED BY <1>1, <1>2, <2>3, <3>1, StartAndStop DEF WriteOp
  <2> QED BY <2>1, <2>2, <2>3

LEMMA CodecOps ==
  ASSUME CodecInv, pc = "codec", script # <<>>
  PROVE  Leveled(Head(script))
<1>1. /\ \A b \in {0, 1} : Leveled(Sda(b))
      /\ \A b : Leveled(Scl(b))
  BY DEF Leveled, Scl, Sda
<1>2. CASE SettingUp
  <2>1. PICK a, b : a = Sda(1) /\ b = Scl(1)
    OBVIOUS
  <2>2. script = <<a, b>> \/ script = <<b>>
    BY <1>2, <2>1 DEF SettingUp, I2cSetup
  <2>3. Head(<<a, b>>) = a /\ Head(<<b>>) = b
    OBVIOUS
  <2> QED BY <1>1, <2>1, <2>2, <2>3
<1>3. CASE Writing
  <2>1. PICK v \in {Register}, p \in 0 .. 91 :
          /\ Sequence(script) /\ Len(script) = 91 - p
          /\ \A i \in 1 .. 91 - p : script[i] = WriteOp(v, p + i)
    BY <1>3, Zenon DEF Writing
  <2>2. v \in TwoBytes
    <3>1. entry \in 2 .. 25
      BY <1>3 DEF Writing
    <3>2. PICK n \in 1 .. 24 : n = entry - 1
      BY <3>1
    <3> QED BY <2>1, <3>2, RegistersAre DEF Register
  <2>3. Len(script) \in Nat \ {0} /\ Head(script) = script[1]
    BY <2>1, TailOf
  <2>4. PICK r \in 1 .. 91 : r = p + 1
    BY <2>1, <2>3
  <2>5. Head(script) = WriteOp(v, r)
    BY <2>1, <2>3, <2>4
  <2> QED BY <2>2, <2>5, WriteLevels
<1>4. CASE GivingUp
  <2>1. PICK q \in 0 .. 2, r \in 0 .. 9 :
          /\ Sequence(script) /\ Len(script) = 9 - r
          /\ \A i \in 1 .. 9 - r : script[i] = WayOut(q)[r + i]
    BY <1>4, Zenon DEF GivingUp
  <2>2. Len(script) \in Nat \ {0} /\ Head(script) = script[1]
    BY <2>1, TailOf
  <2>3. r \in 0 .. 8 /\ Head(script) = WayOut(q)[r + 1]
    BY <2>1, <2>2
  <2>4. \A w : Leveled(ExitOp(w))
    BY <1>1 DEF ExitOp
  <2>5. WayOut(q)[r + 1][1] = "elog" \/ \E w : WayOut(q)[r + 1] = ExitOp(w)
    BY <2>3, WayOutOps
  <2>6. CASE WayOut(q)[r + 1][1] = "elog"
    BY <2>3, <2>6 DEF Leveled
  <2> QED BY <2>3, <2>4, <2>5, <2>6
<1> QED BY <1>2, <1>3, <1>4 DEF CodecInv

SdaLevel == sda \in {0, 1}
LEMMA SdaLevelStep == CodecInv /\ FirmwareInv /\ SdaLevel /\ [Next]_firmwareVars => SdaLevel'
<1> SUFFICES ASSUME CodecInv, FirmwareInv, SdaLevel, [Next]_firmwareVars PROVE SdaLevel'
  OBVIOUS
<1>1. CASE Wire
  <2>1. script # <<>> /\ Head(script)[1] \in I2cOps
    BY <1>1 DEF Wire
  <2>2. pc \in Plays
    <3>1. pc \in Loads => Sequence(script) /\ \A i \in 1 .. Len(script) : script[i][1] \in LoaderOps
      BY DEF FirmwareInv, LoaderInv, OfLoader
    <3>2. Head(script)[1] \notin LoaderOps
      BY <2>1 DEF I2cOps, LoaderOps
    <3> QED BY <2>1, <3>1, <3>2, TailOf DEF CodecInv
  <2>3. Head(script)[1] \in LineOps /\ pc = "codec"
    <3>1. Head(script)[1] \notin {"alog", "elog"}
      BY <2>1 DEF I2cOps
    <3>2. pc = "codec"
      BY <2>1, <2>2, <3>1, PlayerOps
    <3>3. CASE GivingUp
      <4>1. PICK q \in 0 .. 2, r \in 0 .. 9 :
              /\ Sequence(script) /\ Len(script) = 9 - r
              /\ \A i \in 1 .. 9 - r : script[i] = WayOut(q)[r + i]
        BY <3>3, Zenon DEF GivingUp
      <4>2. Len(script) \in Nat \ {0} /\ Head(script) = script[1]
        BY <2>1, <4>1, TailOf
      <4>3. r \in 0 .. 8 /\ Head(script) = WayOut(q)[r + 1]
        BY <4>1, <4>2
      <4>4. \A w : ExitOp(w)[1] \in LineOps
        <5>1. \A b : Scl(b)[1] \in LineOps /\ Sda(b)[1] \in LineOps
          BY DEF Scl, Sda, LineOps
        <5> QED BY <5>1 DEF ExitOp
      <4> QED BY <3>1, <3>2, <4>3, <4>4, WayOutOps
    <3> QED BY <2>1, <2>2, <3>2, <3>3, PlayerOps
  <2>4. Leveled(Head(script))
    BY <2>1, <2>3, CodecOps
  <2>5. I2cOp(Head(script))
    BY <1>1 DEF Wire
  <2>6. CASE Head(script)[1] = "sda"
    BY <2>4, <2>5, <2>6 DEF I2cOp, SetSda, Leveled, SdaLevel
  <2>7. CASE Head(script)[1] = "scl"
    BY <2>5, <2>7 DEF I2cOp, SetScl, SdaLevel
  <2>8. CASE Head(script)[1] = "ack"
    BY <2>5, <2>8 DEF I2cOp, GetAck, SdaLevel
  <2> QED BY <2>3, <2>6, <2>7, <2>8 DEF LineOps
<1>2. CASE Load \/ Log \/ Spin \/ UNCHANGED firmwareVars
  BY <1>2 DEF Load, Log, Spin, SdaLevel, i2cVars, firmwareVars
<1>3. CASE PlayerMain \/ AudioInit \/ AudioWrite \/ AudioFails \/ AudioDone \/ Play \/ PlayerEnds
  BY <1>3 DEF PlayerMain, AudioInit, AudioWrite, AudioFails, AudioDone, Play, PlayerEnds, SdaLevel, i2cVars
<1> QED BY <1>1, <1>2, <1>3 DEF Next

\* What the invariant of the codec says of the types: a byte has nine clocks at most.
LEMMA CodecTypes ==
  ASSUME CodecInv
  PROVE  scl \in {0, 1} /\ device.n \in 0 .. 9 /\ device.stretch = 0 /\ entry \in 1 .. 25
<1>1. Idle.n = 0 /\ Idle.stretch = 0
  BY DEF Idle
<1>2. \A n, b, y : /\ Listening(n, b, y).n = n /\ Listening(n, b, y).stretch = 0
                   /\ Taking(n, b, y).n = n /\ Taking(n, b, y).stretch = 0
  BY DEF Listening, Taking
<1>3. \A v, q : Refusing(v, q).n = 8 /\ Refusing(v, q).stretch = 0
  BY DEF Refusing
<1>4. 0 \in 0 .. 9 /\ 1 \in 0 .. 9 /\ 8 \in 0 .. 9 /\ 9 \in 0 .. 9
  OBVIOUS
<1>5. ASSUME NEW v, NEW q, NEW s \in 0 .. 27, InByte(v, q, s)
      PROVE  scl \in {0, 1} /\ device.n \in 0 .. 9 /\ device.stretch = 0
  <2>1. CASE s <= 23
    <3>1. PICK n \in 0 .. 9 : n = (s + 1) \div 3
      BY <2>1
    <3>2. device = Listening(n, Top(SentByte(v, q), n), BytesTaken(v, q)) /\ scl \in {0, 1}
      BY <1>5, <2>1, <3>1 DEF InByte
    <3> QED BY <1>2, <3>1, <3>2
  <2>2. CASE s \in {24, 25}
    BY <1>2, <1>3, <1>4, <1>5, <2>2 DEF InByte
  <2>3. CASE s = 26
    BY <1>2, <1>4, <1>5, <2>3 DEF InByte
  <2>4. CASE s = 27
    BY <1>2, <1>4, <1>5, <2>4 DEF InByte
  <2> QED BY <2>1, <2>2, <2>3, <2>4
<1>6. CASE Fresh
  BY <1>1, <1>4, <1>6 DEF Fresh
<1>7. CASE Writing
  <2>1. entry \in 1 .. 25 /\ \E v \in {Register}, p \in 0 .. 91 : WriteAt(v, p)
    <3>1. entry \in 2 .. 25
      BY <1>7 DEF Writing
    <3>2. \E v \in {Register}, p \in 0 .. 91 : WriteAt(v, p)
      BY <1>7, Zenon DEF Writing
    <3> QED BY <3>1, <3>2
  <2>2. PICK v \in {Register}, p \in 0 .. 91 : WriteAt(v, p)
    BY <2>1
  <2>3. CASE p <= 2 \/ p = 91
    BY <1>1, <1>4, <2>1, <2>2, <2>3 DEF WriteAt, AtRest
  <2>4. CASE p \in {3, 89, 90}
    BY <1>2, <1>4, <2>1, <2>2, <2>4 DEF WriteAt
  <2>5. CASE p \in 4 .. 88
    <3>1. (p - 4) % 28 \in 0 .. 27
      BY <2>5
    <3> QED BY <1>5, <2>1, <2>2, <2>5, <3>1 DEF WriteAt
  <2> QED BY <2>3, <2>4, <2>5
<1>8. CASE GivingUp
  <2>1. PICK v \in {Register}, q \in 0 .. 2, r \in 0 .. 9 : Leaving(v, q, OnLines(q, r))
    BY <1>8, Zenon DEF GivingUp
  <2>2. OnLines(q, r) < 5 \/ OnLines(q, r) = 5
    BY DEF OnLines
  <2> QED BY <1>1, <1>3, <1>4, <1>8, <2>1, <2>2 DEF Leaving, GivingUp
<1>9. CASE SetUp
  BY <1>1, <1>4, <1>9 DEF SetUp, AtRest
<1> QED BY <1>6, <1>7, <1>8, <1>9 DEF CodecInv, SettingUp, Loads, Plays

LEMMA TypesHold == FirmwareInv /\ CodecInv /\ TypesInv /\ SdaLevel => TypeOK
<1> SUFFICES ASSUME FirmwareInv, CodecInv, TypesInv, SdaLevel PROVE TypeOK
  OBVIOUS
<1>1. {csn, clk, mosi, miso, scl, sda} \subseteq {0, 1}
  BY CodecTypes DEF TypesInv, PinTypes, SdaLevel
<1>2. HeadEnd = 2 ^ 27
  BY SMT DEF HeadEnd
<1>3. head \in 0 .. 2 ^ 27
  BY <1>2 DEF TypesInv, PinTypes
<1>4. device.stretch \in 0 .. MaxStretch
  BY CodecTypes, DeviceAssumption
<1>5. entry \in 1 .. Len(AudioRegisters) + 1
  BY CodecTypes, AudioTable
<1>6. pc \in Loads \cup Plays /\ acked \in BOOLEAN /\ device.n \in 0 .. 9
  BY CodecTypes DEF CodecInv
<1>7. clocks \in Nat /\ bits \in Seq({0, 1})
  BY DEF TypesInv, PinTypes
<1>8. verify \in BOOLEAN
  BY DEF FirmwareInv
<1>9. CopyTypes
  BY DEF TypesInv
<1> QED BY <1>1, <1>3, <1>4, <1>5, <1>6, <1>7, <1>8, <1>9 DEF CopyTypes, TypeOK

\* The variables keep their types: the pins their levels, the command its 32 bits, the
\* counters of the copy their ranges, and the codec's byte its nine clocks (bootloader.c
\* 197-335, i2c.c 15-191).
THEOREM FirmwareTypes == Spec => []TypeOK
<1>1. Spec => []FirmwareInv
  BY FirmwareStarts, FirmwareStep, PTL DEF Spec
<1>2. Spec => []CodecInv
  <2>1. FirmwareInv /\ CodecInv /\ [Next]_firmwareVars => CodecInv'
    BY CodecStep
  <2> QED BY <1>1, <2>1, CodecStarts, PTL DEF Spec
<1>3. Spec => []SdaLevel
  <2>1. Init => SdaLevel
    BY DEF Init, I2cInit, SdaLevel
  <2> QED BY <1>1, <1>2, <2>1, SdaLevelStep, PTL DEF Spec
<1>4. Spec => []TypesInv
  BY <1>1, <1>2, TypesStart, TypesStep, PTL DEF Spec
<1> QED BY <1>1, <1>2, <1>3, <1>4, TypesHold, PTL

-----------------------------------------------------------------------------
(* What is on the screen: the invariant.                                      *)

\* As long as the LPDDR stores every word as it should, the loader's cursor moves on
\* through "Load " and "ver " in its second line, and through the last two lines.
Quiet(s) == \A i \in 1 .. Len(s) : s[i][1] # "put"
Typing(s) == \A i \in 1 .. Len(s) : s[i][1] = "put" /\ s[i][2] \notin {NL, CR}
ColumnEnd == IF verify THEN 9 ELSE 5
Heading ==
  \/ Quiet(script) /\ loader = At(1, ColumnEnd)
  \/ Typing(script) /\ Len(script) <= 5 /\ loader = At(1, ColumnEnd - Len(script))
Ending ==
  \E d \in 0 .. 9 :
    /\ Len(script) = 9 - d /\ \A i \in 1 .. 9 - d : script[i] = <<"put", (Done \o Running)[d + i]>>
    /\ loader = IF d <= 4 THEN At(1, 9 + d) ELSE IF d <= 8 THEN At(2, d - 5) ELSE At(3, 0)
Copied == block * Words + (IF pc = "word" THEN word ELSE 0)
Straight ==
  /\ pc \in {"reset", "id", "badid", "block", "word", "jump"} \cup Plays
  /\ pc \in Loads => DOMAIN ddr = Address
  /\ pc \in {"block", "word"} => Compared(IF verify THEN Blocks * Words ELSE Copied) /\ Heading
  /\ pc = "jump" => Ending

\* What the player still has to print fits the line it is in, and ends it.
Char(op) == op[1] \in {"alog", "elog"}
Plain(s) == \A i \in 1 .. Len(s) : ~Char(s[i])
Fits(s, n) == \A i \in 1 .. Len(s) : Char(s[i]) => n + i <= 10 /\ s[i][2] # CR
Closes(s, n) ==
  \/ n = 0 /\ Plain(s)
  \/ \E i \in 1 .. Len(s) : Char(s[i]) /\ s[i][2] = NL /\ \A j \in i + 1 .. Len(s) : ~Char(s[j])
Unacked(s) == \A i \in 1 .. Len(s) : s[i][1] # "ack"
Neat(s, n) == Sequence(s) /\ Fits(s, n) /\ Closes(s, n)
Tidy(s, n) ==
  /\ Neat(s, n)
  /\ Unacked(s) \/ (n = 0 /\ Plain(s))
  /\ \A i \in 1 .. Len(s) : s[i][1] = "ack" => Neat(s[i][2], 0) /\ Unacked(s[i][2])

\* The lines are in their rows, the newest where the cursor of the player is.
RowOf(i) == (PlayerHome.row + i - 1) % Rows
Kept(m, ls, i) == \A k \in DOMAIN ls[i] : m[RowOf(i) * Cols + k - 1] = ls[i][k]
Screened(m, ls) ==
  /\ DOMAIN m = Cells /\ Sequence(ls) /\ Len(ls) >= 1
  /\ \A i \in 1 .. Len(ls) : Sequence(ls[i]) /\ Len(ls[i]) <= 10
  /\ \A i \in 1 .. Len(ls) : i > Len(ls) - Rows => Kept(m, ls, i)
EndsAt(ls, n) == Len(ls[Len(ls)]) = n
Standing(k, i, n) == k = [ptr |-> RowOf(i) * Cols + n, row |-> RowOf(i), col |-> 0]
ScreenInv ==
  \E n \in 0 .. 10 :
    /\ Screened(vram, lines) /\ EndsAt(lines, n) /\ Standing(player, Len(lines), n)
    /\ Tidy(script, n)

ConsoleInv ==
  /\ faults = 0 => Straight
  /\ pc \in Plays => ScreenInv

-----------------------------------------------------------------------------
(* What the player prints fits its lines.                                     *)

LEMMA TidyTail ==
  ASSUME NEW s, NEW n \in Nat, Tidy(s, n), s # <<>>, NEW o, o = Head(s)
  PROVE  /\ ~Char(o) => Tidy(Tail(s), n)
         /\ Char(o) => /\ o[2] # CR /\ n + 1 <= 10
                       /\ Tidy(Tail(s), IF o[2] = NL THEN 0 ELSE n + 1)
         /\ o[1] = "ack" => n = 0 /\ Tidy(o[2], 0)
<1>1. /\ Sequence(s) /\ Sequence(Tail(s)) /\ Len(s) \in Nat \ {0} /\ Len(Tail(s)) = Len(s) - 1
      /\ o = s[1] /\ \A i \in 1 .. Len(s) - 1 : Tail(s)[i] = s[i + 1]
  BY TailOf DEF Tidy, Neat
<1>2. PICK l \in Nat : Len(s) = l + 1
  <2>1. \A k \in Nat \ {0} : k - 1 \in Nat /\ k = (k - 1) + 1
    OBVIOUS
  <2> QED BY <1>1, <2>1
<1>3. PICK t : t = Tail(s) /\ l = Len(t)
  <2>1. (l + 1) - 1 = l
    OBVIOUS
  <2> QED BY <1>1, <1>2, <2>1
<1>4. Sequence(t) /\ \A i \in 1 .. l : t[i] = s[i + 1] /\ i + 1 \in 1 .. Len(s)
  BY <1>1, <1>2, <1>3
<1>5. 1 \in 1 .. Len(s)
  BY <1>1
<1>6. /\ \A i \in 1 .. Len(s) : Char(s[i]) => n + i <= 10 /\ s[i][2] # CR
      /\ Unacked(s) \/ (n = 0 /\ Plain(s))
      /\ \A i \in 1 .. Len(s) : s[i][1] = "ack" => Neat(s[i][2], 0) /\ Unacked(s[i][2])
  BY DEF Tidy, Neat, Fits
<1>7. Unacked(s) => Unacked(t)
  BY <1>2, <1>3, <1>4 DEF Unacked
<1>8. Plain(s) => Plain(t) /\ ~Char(o)
  BY <1>1, <1>2, <1>3, <1>4, <1>5 DEF Plain
<1>9. \A i \in 1 .. l : t[i][1] = "ack" => Neat(t[i][2], 0) /\ Unacked(t[i][2])
  BY <1>4, <1>6
<1>10. CASE Plain(s) /\ n = 0
  <2>1. Fits(t, 0) /\ Closes(t, 0)
    BY <1>2, <1>3, <1>8, <1>10 DEF Plain, Fits, Closes
  <2>2. Tidy(t, n)
    BY <1>2, <1>3, <1>4, <1>8, <1>9, <1>10, <2>1 DEF Tidy, Neat
  <2>3. o[1] = "ack" => Tidy(o[2], 0)
    BY <1>1, <1>5, <1>6 DEF Tidy, Unacked
  <2> QED BY <1>2, <1>3, <1>8, <1>10, <2>2, <2>3
<1>11. CASE ~(Plain(s) /\ n = 0)
  <2>1. Unacked(s) /\ Unacked(t) /\ o[1] # "ack"
    BY <1>1, <1>5, <1>6, <1>7, <1>11 DEF Unacked
  <2>2. PICK k \in 1 .. Len(s) :
          Char(s[k]) /\ s[k][2] = NL /\ \A j \in k + 1 .. Len(s) : ~Char(s[j])
    BY <1>11 DEF Tidy, Neat, Closes
  <2>3. ASSUME NEW m \in Nat, m <= n + 1, k = 1 => m = 0 PROVE Tidy(t, m)
    <3>1. Fits(t, m)
      <4> SUFFICES ASSUME NEW i \in 1 .. Len(t), Char(t[i]) PROVE m + i <= 10 /\ t[i][2] # CR
        BY DEF Fits
      <4>1. n + (i + 1) <= 10 /\ t[i][2] # CR
        BY <1>2, <1>3, <1>4, <1>6
      <4> QED BY <2>3, <4>1
    <3>2. Closes(t, m)
      <4>1. CASE k = 1
        <5>1. \A i \in 1 .. l : i + 1 \in k + 1 .. Len(s)
          BY <1>2, <1>3, <4>1
        <5>2. Plain(t)
          BY <1>2, <1>3, <1>4, <2>2, <5>1 DEF Plain
        <5> QED BY <2>3, <4>1, <5>2 DEF Closes
      <4>2. CASE k # 1
        <5>1. k - 1 \in 1 .. l /\ t[k - 1] = s[k]
          <6>1. k - 1 \in 1 .. l /\ (k - 1) + 1 = k
            BY <1>2, <1>3, <4>2
          <6> QED BY <1>4, <6>1
        <5>2. \A j \in (k - 1) + 1 .. l : j + 1 \in k + 1 .. Len(s) /\ j \in 1 .. l
          BY <1>2, <1>3, <4>2
        <5>3. \A j \in (k - 1) + 1 .. l : ~Char(t[j])
          BY <1>4, <2>2, <5>2
        <5> QED BY <1>2, <1>3, <2>2, <5>1, <5>3 DEF Closes
      <4> QED BY <4>1, <4>2
    <3> QED BY <1>2, <1>3, <1>4, <1>9, <2>1, <3>1, <3>2 DEF Tidy, Neat
  <2>4. CASE ~Char(o)
    <3>1. k # 1
      BY <1>1, <2>2, <2>4
    <3> QED BY <1>2, <1>3, <2>1, <2>3, <2>4, <3>1
  <2>5. CASE Char(o)
    <3>1. o[2] # CR /\ n + 1 <= 10
      BY <1>1, <1>5, <1>6, <2>5
    <3>2. k = 1 => o[2] = NL
      BY <1>1, <2>2
    <3>3. CASE o[2] = NL
      <4>1. Tidy(t, 0)
        BY <2>3
      <4> QED BY <1>2, <1>3, <2>1, <2>5, <3>1, <3>3, <4>1
    <3>4. CASE o[2] # NL
      <4>1. n + 1 \in Nat /\ n + 1 <= n + 1
        OBVIOUS
      <4>2. Tidy(t, n + 1)
        BY <2>3, <3>2, <3>4, <4>1
      <4> QED BY <1>2, <1>3, <2>1, <2>5, <3>1, <3>4, <4>2
    <3> QED BY <3>3, <3>4
  <2> QED BY <2>4, <2>5
<1> QED BY <1>10, <1>11

LEMMA TidyEmpty ==
  ASSUME NEW n \in Nat
  PROVE  (Tidy(<<>>, n) => n = 0) /\ Tidy(<<>>, 0)
<1>1. PICK s : s = <<>>
  OBVIOUS
<1>2. Sequence(s) /\ Len(s) = 0
  BY <1>1, Nothing
<1>3. ~(\E i \in 1 .. 0 : TRUE)
  OBVIOUS
<1>4. Tidy(s, n) => n = 0
  BY <1>2, <1>3 DEF Tidy, Neat, Closes
<1>5. Tidy(s, 0)
  BY <1>2, <1>3 DEF Tidy, Neat, Fits, Closes, Plain, Unacked
<1> QED BY <1>1, <1>4, <1>5

\* The texts of the player: no more than ten characters, the last one ends the line.
Texts(s) ==
  /\ Sequence(s) /\ Len(s) \in 1 .. 10
  /\ \A i \in 1 .. Len(s) : Char(s[i]) /\ s[i][2] # CR
  /\ s[Len(s)][2] = NL
LEMMA TextsTidy ==
  ASSUME NEW s, Texts(s)
  PROVE  Tidy(s, 0)
<1>1. PICK l \in 1 .. 10 : l = Len(s)
  BY DEF Texts
<1>2. Fits(s, 0)
  BY <1>1 DEF Texts, Fits
<1>3. Closes(s, 0)
  <2>1. \A j \in l + 1 .. l : FALSE
    OBVIOUS
  <2>2. l \in 1 .. l
    OBVIOUS
  <2> QED BY <1>1, <2>1, <2>2 DEF Texts, Closes
<1>4. Unacked(s)
  BY DEF Texts, Unacked, Char
<1> QED BY <1>2, <1>3, <1>4 DEF Texts, Tidy, Neat, Unacked

\* A text of the player, to one device or to both.
OneLine(text) ==
  /\ Sequence(text) /\ Len(text) \in 1 .. 10 /\ (\A i \in 1 .. Len(text) : text[i] # CR)
  /\ text[Len(text)] = NL
LEMMA LinesAreTexts ==
  ASSUME NEW text, OneLine(text)
  PROVE  Texts(Alog(text)) /\ Texts(Elog(text))
<1>1. PICK S : text \in Seq(S)
  BY DEF OneLine, Sequence
<1>2. DOMAIN text = 1 .. Len(text) /\ Len(text) \in 1 .. 10
  BY <1>1 DEF OneLine
<1>3. PICK f, g : f = Alog(text) /\ g = Elog(text)
  OBVIOUS
<1>4. f = [i \in 1 .. Len(text) |-> f[i]] /\ \A i \in 1 .. Len(text) : f[i] = <<"alog", text[i]>>
  BY <1>2, <1>3 DEF Alog
<1>5. g = [i \in 1 .. Len(text) |-> g[i]] /\ \A i \in 1 .. Len(text) : g[i] = <<"elog", text[i]>>
  BY <1>2, <1>3 DEF Elog
<1>6. Sequence(f) /\ Len(f) = Len(text) /\ Sequence(g) /\ Len(g) = Len(text)
  <2>1. Len(text) \in Nat
    BY <1>2
  <2> QED BY <1>4, <1>5, <2>1, Listed
<1>7. \A i \in 1 .. Len(text) : /\ Char(f[i]) /\ f[i][2] = text[i]
                               /\ Char(g[i]) /\ g[i][2] = text[i]
  BY <1>4, <1>5 DEF Char
<1>8. Len(text) \in 1 .. Len(text)
  BY <1>2
<1> QED BY <1>3, <1>6, <1>7, <1>8 DEF OneLine, Texts

LEMMA TextsJoined ==
  ASSUME NEW s, NEW t, Texts(s), Texts(t), Len(s) + Len(t) <= 10
  PROVE  Texts(s \o t)
<1>1. PICK u : u = s \o t
  OBVIOUS
<1>2. /\ Sequence(u) /\ Len(s) \in 1 .. 10 /\ Len(t) \in 1 .. 10 /\ Len(u) = Len(s) + Len(t)
      /\ \A i \in 1 .. Len(s) : u[i] = s[i]
      /\ \A i \in Len(s) + 1 .. Len(s) + Len(t) : u[i] = t[i - Len(s)]
  <2>1. Sequence(s) /\ Sequence(t) /\ Len(s) \in 1 .. 10 /\ Len(t) \in 1 .. 10
    BY DEF Texts
  <2>2. /\ Sequence(u) /\ Len(u) = Len(s) + Len(t)
        /\ \A i \in 1 .. Len(s) : u[i] = s[i]
        /\ \A i \in Len(s) + 1 .. Len(s) + Len(t) : u[i] = t[i - Len(s)]
    BY <1>1, <2>1, Joined
  <2> QED BY <2>1, <2>2
<1>3. \A i \in 1 .. Len(u) :
        \/ i \in 1 .. Len(s)
        \/ i \in Len(s) + 1 .. Len(s) + Len(t) /\ i - Len(s) \in 1 .. Len(t)
  BY <1>2
<1>4. \A i \in 1 .. Len(u) : Char(u[i]) /\ u[i][2] # CR
  BY <1>2, <1>3 DEF Texts
<1>5. Len(u) \in 1 .. 10 /\ Len(u) \in Len(s) + 1 .. Len(s) + Len(t) /\ Len(u) - Len(s) = Len(t)
  <2>1. PICK m \in 1 .. 10, n \in 1 .. 10 : m = Len(s) /\ n = Len(t)
    BY <1>2
  <2>3. m + n <= 10
    BY <2>1
  <2>2. m + n \in 1 .. 10 /\ m + n \in m + 1 .. m + n /\ (m + n) - m = n
    BY <2>3
  <2> QED BY <1>2, <2>1, <2>2
<1>6. u[Len(u)] = t[Len(t)]
  BY <1>2, <1>5
<1> QED BY <1>1, <1>2, <1>4, <1>5, <1>6 DEF Texts

LEMMA PlayerLines ==
  /\ OneLine(Compiled) /\ OneLine(Calling) /\ Len(Calling) = 5 /\ OneLine(WriteFailed) /\ Len(WriteFailed) = 5
  /\ OneLine(Returned \o Captured)
  /\ OneLine(NoAckOnAdr) /\ Len(NoAckOnAdr) = 4 /\ OneLine(NoDataByte) /\ Len(NoDataByte) = 4
<1>1. \A c \in {"i", "m", "f", "c", "a", "l", "r", "e", "t", " ", "0", "s", "n", "o", "A", "D", "\n"} : c # CR
  BY DEF CR
<1>2. NL = "\n"
  BY DEF NL
<1>3. ASSUME NEW s, NEW n \in 1 .. 10, Sequence(s), Len(s) = n, s[n] = "\n",
             \A i \in 1 .. n : s[i] # CR
      PROVE  OneLine(s)
  BY <1>2, <1>3 DEF OneLine
<1>4. OneLine(Compiled)
  <2>1. Compiled \in Seq({"i", "m", "f", "\n"}) /\ Len(Compiled) = 4 /\ Compiled[4] = "\n"
    BY <1>2 DEF Compiled
  <2>2. \A i \in 1 .. 4 : Compiled[i] # CR
    <3>1. \A i \in 1 .. 4 : Compiled[i] \in {"i", "m", "f", "\n"}
      BY <2>1, ElementOfSeq
    <3> QED BY <1>1, <3>1
  <2> QED BY <1>3, <2>1, <2>2 DEF Sequence
<1>5. OneLine(Calling) /\ Len(Calling) = 5
  <2>1. Calling \in Seq({"c", "a", "l", "\n"}) /\ Len(Calling) = 5 /\ Calling[5] = "\n"
    BY <1>2 DEF Calling
  <2>2. \A i \in 1 .. 5 : Calling[i] # CR
    <3>1. \A i \in 1 .. 5 : Calling[i] \in {"c", "a", "l", "\n"}
      BY <2>1, ElementOfSeq
    <3> QED BY <1>1, <3>1
  <2> QED BY <1>3, <2>1, <2>2 DEF Sequence
<1>6. OneLine(WriteFailed) /\ Len(WriteFailed) = 5
  <2>1. WriteFailed \in Seq({"f", "a", "i", "l", "\n"}) /\ Len(WriteFailed) = 5 /\ WriteFailed[5] = "\n"
    BY <1>2 DEF WriteFailed
  <2>2. \A i \in 1 .. 5 : WriteFailed[i] # CR
    <3>1. \A i \in 1 .. 5 : WriteFailed[i] \in {"f", "a", "i", "l", "\n"}
      BY <2>1, ElementOfSeq
    <3> QED BY <1>1, <3>1
  <2> QED BY <1>3, <2>1, <2>2 DEF Sequence
<1>7. OneLine(NoAckOnAdr) /\ Len(NoAckOnAdr) = 4
  <2>1. NoAckOnAdr \in Seq({"n", "o", "A", "\n"}) /\ Len(NoAckOnAdr) = 4 /\ NoAckOnAdr[4] = "\n"
    BY DEF NoAckOnAdr
  <2>2. \A i \in 1 .. 4 : NoAckOnAdr[i] # CR
    <3>1. \A i \in 1 .. 4 : NoAckOnAdr[i] \in {"n", "o", "A", "\n"}
      BY <2>1, ElementOfSeq
    <3> QED BY <1>1, <3>1
  <2> QED BY <1>3, <2>1, <2>2 DEF Sequence
<1>8. OneLine(NoDataByte) /\ Len(NoDataByte) = 4
  <2>1. NoDataByte \in Seq({"n", "o", "D", "\n"}) /\ Len(NoDataByte) = 4 /\ NoDataByte[4] = "\n"
    BY DEF NoDataByte
  <2>2. \A i \in 1 .. 4 : NoDataByte[i] # CR
    <3>1. \A i \in 1 .. 4 : NoDataByte[i] \in {"n", "o", "D", "\n"}
      BY <2>1, ElementOfSeq
    <3> QED BY <1>1, <3>1
  <2> QED BY <1>3, <2>1, <2>2 DEF Sequence
<1>9. OneLine(Returned \o Captured)
  <2> DEFINE S == {"r", "e", "t", " ", "0", "s", "\n"}
  <2>1. PICK r, k : r = Returned /\ k = Captured
    OBVIOUS
  <2>2. r \in Seq(S) /\ Len(r) = 6
    <3>1. Returned \in Seq(S) /\ Len(Returned) = 6
      BY <1>2 DEF Returned
    <3> QED BY <2>1, <3>1
  <2>3. k \in Seq(S) /\ Len(k) = 4 /\ k[4] = "\n"
    <3>1. Captured \in Seq(S) /\ Len(Captured) = 4 /\ Captured[4] = "\n"
      BY <1>2 DEF Captured
    <3> QED BY <2>1, <3>1
  <2>8. \A c \in S : c # CR
    BY <1>1
  <2> HIDE DEF S
  <2>4. PICK u : u = r \o k
    OBVIOUS
  <2>5. u \in Seq(S) /\ Len(u) = 10 /\ u[10] = k[4]
    <3>1. u \in Seq(S)
      BY <2>2, <2>3, <2>4
    <3>2. Sequence(r) /\ Sequence(k)
      BY <2>2, <2>3 DEF Sequence
    <3>3. Len(u) = Len(r) + Len(k) /\ \A i \in 1 .. Len(k) : u[Len(r) + i] = k[i]
      BY <2>4, <3>2, Joined
    <3>4. 4 \in 1 .. 4 /\ 6 + 4 = 10
      OBVIOUS
    <3> QED BY <2>2, <2>3, <3>1, <3>3, <3>4
  <2>6. \A i \in 1 .. 10 : u[i] # CR
    <3>1. \A i \in 1 .. 10 : u[i] \in S
      BY <2>5, ElementOfSeq
    <3> QED BY <2>8, <3>1
  <2>7. OneLine(u)
    BY <1>3, <2>3, <2>5, <2>6, SMTT(40) DEF Sequence
  <2> QED BY <2>1, <2>4, <2>7
<1> QED BY <1>4, <1>5, <1>6, <1>7, <1>8, <1>9

LEMMA TidyTexts ==
  /\ Tidy(Alog(Compiled), 0) /\ Tidy(Alog(Calling), 0) /\ Tidy(Elog(WriteFailed) \o Alog(Calling), 0)
  /\ Tidy(Alog(Returned \o Captured), 0)
<1>1. Texts(Alog(Compiled)) /\ Texts(Alog(Calling)) /\ Texts(Alog(Returned \o Captured))
  BY PlayerLines, LinesAreTexts
<1>2. PICK s, t : s = Elog(WriteFailed) /\ t = Alog(Calling)
  OBVIOUS
<1>3. Texts(s) /\ Texts(t) /\ Len(s) = 5 /\ Len(t) = 5
  <2>1. Texts(s) /\ Texts(t)
    BY <1>2, PlayerLines, LinesAreTexts
  <2>2. DOMAIN WriteFailed = 1 .. 5 /\ DOMAIN Calling = 1 .. 5
    <3>1. WriteFailed \in Seq({"f", "a", "i", "l", NL}) /\ Calling \in Seq({"c", "a", "l", NL})
      BY DEF WriteFailed, Calling
    <3> QED BY <3>1, PlayerLines
  <2>3. s = [i \in 1 .. 5 |-> s[i]] /\ t = [i \in 1 .. 5 |-> t[i]]
    BY <1>2, <2>2 DEF Elog, Alog
  <2>4. Len(s) = 5 /\ Len(t) = 5
    BY <2>3, Listed
  <2> QED BY <2>1, <2>4
<1>4. Texts(s \o t)
  <2>1. Len(s) + Len(t) <= 10
    BY <1>3
  <2> QED BY <1>3, <2>1, TextsJoined
<1> QED BY <1>1, <1>2, <1>4, TextsTidy

\* The way out prints one line, and is not refused.
LEMMA WayOutTidy ==
  ASSUME NEW q \in 0 .. 2
  PROVE  Neat(WayOut(q), 0) /\ Unacked(WayOut(q))
<1>1. PICK w : w = WayOut(q)
  OBVIOUS
<1>2. /\ \A b : ~Char(Scl(b)) /\ Scl(b)[1] # "ack"
      /\ \A b : ~Char(Sda(b)) /\ Sda(b)[1] # "ack"
  BY DEF Char, Scl, Sda
<1>3. /\ Texts(Elog(NoAckOnAdr)) /\ Len(Elog(NoAckOnAdr)) = 4
      /\ Texts(Elog(NoDataByte)) /\ Len(Elog(NoDataByte)) = 4
  BY PlayerLines, LinesAreTexts, Elogged
<1>4. ASSUME NEW e, Texts(e), Len(e) = 4
      PROVE  e[4][2] = NL /\ \A i \in 1 .. 4 : Char(e[i]) /\ e[i][1] # "ack" /\ e[i][2] # CR
  BY <1>4 DEF Texts, Char
<1>5. Sequence(w) /\ Len(w) = 9
  BY <1>1, WayOutIs
<1>6. CASE q = 0
  <2>1. PICK e : e = Elog(NoAckOnAdr)
    OBVIOUS
  <2>2. /\ w[1] = Scl(1) /\ w[2] = Scl(0) /\ w[3] = Sda(0) /\ w[4] = Scl(1) /\ w[5] = Sda(1)
        /\ \A i \in 6 .. 9 : w[i] = e[i - 5]
    BY <1>1, <1>6, <2>1, WayOutIs
  <2>3. \A i \in 1 .. 5 : ~Char(w[i]) /\ w[i][1] # "ack"
    <3>1. \A i \in 1 .. 5 : i = 1 \/ i = 2 \/ i = 3 \/ i = 4 \/ i = 5
      OBVIOUS
    <3> QED BY <1>2, <2>2, <3>1
  <2>4. \A i \in 6 .. 9 : Char(w[i]) /\ w[i][1] # "ack" /\ w[i][2] # CR
    <3>1. \A i \in 6 .. 9 : i - 5 \in 1 .. 4
      OBVIOUS
    <3> QED BY <1>3, <1>4, <2>1, <2>2, <3>1
  <2>5. w[9][2] = NL
    <3>1. 9 - 5 = 4 /\ 9 \in 6 .. 9
      OBVIOUS
    <3> QED BY <1>3, <1>4, <2>1, <2>2, <3>1
  <2>6. \A i \in 1 .. 9 : (i \in 1 .. 5 \/ i \in 6 .. 9) /\ 0 + i <= 10
    OBVIOUS
  <2>7. Fits(w, 0) /\ Unacked(w)
    BY <1>5, <2>3, <2>4, <2>6 DEF Fits, Unacked
  <2>8. Closes(w, 0)
    <3>1. 9 \in 1 .. 9 /\ 9 \in 6 .. 9 /\ \A j \in 9 + 1 .. 9 : FALSE
      OBVIOUS
    <3> QED BY <1>5, <2>4, <2>5, <3>1 DEF Closes
  <2> QED BY <1>1, <1>5, <2>7, <2>8 DEF Neat
<1>7. CASE q # 0
  <2>1. PICK e : e = Elog(NoDataByte)
    OBVIOUS
  <2>2. /\ w[1] = Scl(1) /\ w[2] = Scl(0) /\ w[7] = Sda(0) /\ w[8] = Scl(1) /\ w[9] = Sda(1)
        /\ \A i \in 3 .. 6 : w[i] = e[i - 2]
    BY <1>1, <1>7, <2>1, WayOutIs
  <2>3. \A i \in {1, 2, 7, 8, 9} : ~Char(w[i]) /\ w[i][1] # "ack"
    BY <1>2, <2>2
  <2>4. \A i \in 3 .. 6 : Char(w[i]) /\ w[i][1] # "ack" /\ w[i][2] # CR
    <3>1. \A i \in 3 .. 6 : i - 2 \in 1 .. 4
      OBVIOUS
    <3> QED BY <1>3, <1>4, <2>1, <2>2, <3>1
  <2>5. w[6][2] = NL
    <3>1. 6 - 2 = 4 /\ 6 \in 3 .. 6
      OBVIOUS
    <3> QED BY <1>3, <1>4, <2>1, <2>2, <3>1
  <2>6. \A i \in 1 .. 9 : (i \in {1, 2, 7, 8, 9} \/ i \in 3 .. 6) /\ 0 + i <= 10
    OBVIOUS
  <2>7. Fits(w, 0) /\ Unacked(w)
    BY <1>5, <2>3, <2>4, <2>6 DEF Fits, Unacked
  <2>8. Closes(w, 0)
    <3>1. 6 \in 1 .. 9 /\ 6 \in 3 .. 6 /\ \A j \in 6 + 1 .. 9 : j \in {1, 2, 7, 8, 9}
      OBVIOUS
    <3> QED BY <1>5, <2>3, <2>4, <2>5, <3>1 DEF Closes
  <2> QED BY <1>1, <1>5, <2>7, <2>8 DEF Neat
<1> QED BY <1>6, <1>7

\* The register writes print nothing unless they are refused.
LEMMA CodecTidy ==
  /\ Tidy(I2cSetup, 0)
  /\ \A v : Tidy(I2cWriteReg(DeviceAddress, v[1], v[2]), 0)
<1>1. /\ \A b : ~Char(Scl(b)) /\ Scl(b)[1] # "ack"
      /\ \A b : ~Char(Sda(b)) /\ Sda(b)[1] # "ack"
  BY DEF Char, Scl, Sda
<1>2. ASSUME NEW s, Sequence(s), Plain(s),
             \A i \in 1 .. Len(s) : s[i][1] = "ack" => Neat(s[i][2], 0) /\ Unacked(s[i][2])
      PROVE  Tidy(s, 0)
  BY <1>2 DEF Tidy, Neat, Fits, Closes, Plain
<1>3. Tidy(I2cSetup, 0)
  <2>1. PICK a, b : a = Sda(1) /\ b = Scl(1)
    OBVIOUS
  <2>2. PICK s : s = <<a, b>>
    OBVIOUS
  <2>3. Sequence(s) /\ Len(s) = 2 /\ s[1] = a /\ s[2] = b
    <3>1. s \in Seq({a, b}) /\ Len(s) = 2 /\ s[1] = a /\ s[2] = b
      BY <2>2
    <3> QED BY <3>1 DEF Sequence
  <2>4. \A i \in 1 .. 2 : i = 1 \/ i = 2
    OBVIOUS
  <2>5. \A i \in 1 .. 2 : ~Char(s[i]) /\ s[i][1] # "ack"
    BY <1>1, <2>1, <2>3, <2>4
  <2>6. Tidy(s, 0)
    BY <1>2, <2>3, <2>5 DEF Plain
  <2> QED BY <2>1, <2>2, <2>6 DEF I2cSetup
<1>4. ASSUME NEW v PROVE Tidy(I2cWriteReg(DeviceAddress, v[1], v[2]), 0)
  <2>1. PICK s : s = I2cWriteReg(DeviceAddress, v[1], v[2])
    OBVIOUS
  <2>2. Sequence(s) /\ Len(s) = 91 /\ \A p \in 1 .. 91 : s[p] = WriteOp(v, p)
    BY <2>1, WriteScript
  <2>3. Plain(s)
    <3>1. \A p \in 1 .. 91 : WriteOp(v, p)[1] \in LineOps
      BY LinesOnly
    <3> QED BY <2>2, <3>1, SMTT(40) DEF Plain, Char, LineOps
  <2>4. ASSUME NEW p \in 1 .. 91, WriteOp(v, p)[1] = "ack"
        PROVE  \E q \in 0 .. 2 : WriteOp(v, p)[2] = WayOut(q)
    <3>1. CASE p <= 4
      <4>1. p = 1 \/ p = 2 \/ p = 3 \/ p = 4
        BY <3>1
      <4> QED BY <1>1, <2>4, <3>1, <4>1, StartAndStop DEF WriteOp
    <3>2. CASE ~(p <= 4) /\ p <= 88
      <4>1. PICK q \in 0 .. 2, s1 \in 1 .. 28 : q = (p - 5) \div 28 /\ s1 = ((p - 5) % 28) + 1
        <5>1. (p - 5) \div 28 \in 0 .. 2 /\ ((p - 5) % 28) + 1 \in 1 .. 28
          BY <3>2
        <5> QED BY <5>1
      <4>2. WriteOp(v, p) = TxOp(v, q, s1)
        BY <3>2, <4>1 DEF WriteOp
      <4>3. s1 # 26 => TxOp(v, q, s1)[1] # "ack"
        BY <1>1 DEF TxOp
      <4>4. s1 = 26 => TxOp(v, q, s1)[2] = WayOut(q)
        BY DEF TxOp
      <4> QED BY <2>4, <4>2, <4>3, <4>4
    <3>3. CASE ~(p <= 4) /\ ~(p <= 88)
      <4>1. p - 88 = 1 \/ p - 88 = 2 \/ p - 88 = 3
        BY <3>3
      <4> QED BY <1>1, <2>4, <3>3, <4>1, StartAndStop DEF WriteOp
    <3> QED BY <3>1, <3>2, <3>3
  <2>5. ASSUME NEW i \in 1 .. 91, s[i][1] = "ack" PROVE Neat(s[i][2], 0) /\ Unacked(s[i][2])
    <3>1. s[i] = WriteOp(v, i)
      BY <2>2
    <3>2. PICK q \in 0 .. 2 : WriteOp(v, i)[2] = WayOut(q)
      BY <2>4, <2>5, <3>1
    <3> QED BY <3>1, <3>2, WayOutTidy
  <2> QED BY <1>2, <2>1, <2>2, <2>3, <2>5
<1> QED BY <1>3, <1>4

-----------------------------------------------------------------------------
(* Lines on the screen.                                                       *)

LEMMA Remainder ==
  ASSUME NEW n \in Nat, n >= 4, NEW q \in Int, NEW r \in 0 .. n - 1
  PROVE  (q * n + r) % n = r
OBVIOUS

LEMMA RowsTurn ==
  ASSUME NEW i \in Nat \ {0}
  PROVE  /\ RowOf(i) \in 0 .. Rows - 1
         /\ RowOf(i + 1) = (IF RowOf(i) + 1 >= Rows THEN 0 ELSE RowOf(i) + 1)
<1>1. Rows \in Nat /\ Rows >= 4
  BY ScreenAssumption
<1>2. \A k : RowOf(k) = (3 + k - 1) % Rows
  BY DEF RowOf, PlayerHome, At
<1>3. PICK q \in Int, r \in 0 .. Rows - 1 : 3 + i - 1 = q * Rows + r /\ r = (3 + i - 1) % Rows
  <2>1. /\ 3 + i - 1 = ((3 + i - 1) \div Rows) * Rows + ((3 + i - 1) % Rows)
        /\ (3 + i - 1) \div Rows \in Int /\ (3 + i - 1) % Rows \in 0 .. Rows - 1
    BY <1>1
  <2> QED BY <2>1
<1>4. CASE r + 1 >= Rows
  <2>1. 3 + (i + 1) - 1 = (q + 1) * Rows
    BY <1>1, <1>3, <1>4
  <2>2. ((q + 1) * Rows) % Rows = 0
    <3>1. PICK p \in Int : p = q + 1
      OBVIOUS
    <3>2. 0 \in 0 .. Rows - 1 /\ p * Rows + 0 = p * Rows
      BY <1>1
    <3>3. (p * Rows + 0) % Rows = 0
      BY <1>1, <3>2, Remainder
    <3> QED BY <3>1, <3>2, <3>3
  <2> QED BY <1>2, <1>3, <1>4, <2>1, <2>2
<1>5. CASE ~(r + 1 >= Rows)
  <2>1. 3 + (i + 1) - 1 = q * Rows + (r + 1) /\ r + 1 \in 0 .. Rows - 1
    BY <1>1, <1>3, <1>5
  <2>2. (q * Rows + (r + 1)) % Rows = r + 1
    BY <1>1, <2>1, Remainder
  <2> QED BY <1>2, <1>3, <1>5, <2>1, <2>2
<1> QED BY <1>4, <1>5

LEMMA RowsDiffer ==
  ASSUME NEW i \in Nat \ {0}, NEW j \in Nat \ {0}, i < j, i > j - Rows
  PROVE  RowOf(i) # RowOf(j)
<1> SUFFICES ASSUME RowOf(i) = RowOf(j) PROVE FALSE
  OBVIOUS
<1>1. Rows \in Nat /\ Rows >= 4
  BY ScreenAssumption
<1>2. \A k : RowOf(k) = (3 + k - 1) % Rows
  BY DEF RowOf, PlayerHome, At
<1>3. \A k \in Nat \ {0} : \E q \in Int : 3 + k - 1 = q * Rows + ((3 + k - 1) % Rows)
  <2> TAKE k \in Nat \ {0}
  <2>1. /\ 3 + k - 1 = ((3 + k - 1) \div Rows) * Rows + ((3 + k - 1) % Rows)
        /\ (3 + k - 1) \div Rows \in Int
    BY <1>1
  <2> QED BY <2>1
<1>4. PICK q1 \in Int : 3 + i - 1 = q1 * Rows + ((3 + i - 1) % Rows)
  BY <1>3
<1>5. PICK q2 \in Int : 3 + j - 1 = q2 * Rows + ((3 + j - 1) % Rows)
  BY <1>3
<1>6. PICK r \in Int : r = (3 + i - 1) % Rows /\ r = (3 + j - 1) % Rows
  <2>1. (3 + i - 1) % Rows \in Int
    BY <1>1
  <2> QED BY <1>2, <2>1
<1>7. j - i = (q2 - q1) * Rows
  BY <1>1, <1>4, <1>5, <1>6
<1>8. PICK q \in Int : q = q2 - q1 /\ j - i = q * Rows
  BY <1>7
<1>9. j - i < Rows /\ j - i > 0
  BY <1>1
<1> QED BY <1>1, <1>8, <1>9

LEMMA Sequences ==
  ASSUME NEW s, Sequence(s)
  PROVE  DOMAIN s = 1 .. Len(s) /\ Len(s) \in Nat
BY DEF Sequence

LEMMA CellsDiffer ==
  ASSUME NEW r1 \in 0 .. Rows - 1, NEW r2 \in 0 .. Rows - 1, NEW k1 \in 0 .. 10, NEW k2 \in 0 .. 10
  PROVE  /\ r1 * Cols + k1 \in Cells
         /\ r1 * Cols + k1 = r2 * Cols + k2 => r1 = r2 /\ k1 = k2
<1>1. Rows \in Nat /\ Cols \in Nat /\ Cols >= 14
  BY ScreenAssumption
<1>2. r1 * Cols + k1 \in 0 .. Cols * Rows - 1
  <2>1. r1 * Cols \in Nat /\ Cols * Rows \in Nat
    BY <1>1
  <2>2. (r1 + 1) * Cols <= Rows * Cols
    BY <1>1
  <2>3. (r1 + 1) * Cols = r1 * Cols + Cols /\ Rows * Cols = Cols * Rows
    BY <1>1
  <2> QED BY <1>1, <2>1, <2>2, <2>3
<1>3. ASSUME r1 * Cols + k1 = r2 * Cols + k2 PROVE r1 = r2 /\ k1 = k2
  <2>1. (r1 - r2) * Cols = k2 - k1
    BY <1>1, <1>3
  <2>2. k2 - k1 < Cols /\ k1 - k2 < Cols
    BY <1>1
  <2>3. PICK d \in Int : d = r1 - r2 /\ d * Cols = k2 - k1
    BY <2>1
  <2>4. d = 0
    BY <1>1, <2>2, <2>3
  <2> QED BY <1>1, <1>3, <2>3, <2>4
<1> QED BY <1>2, <1>3 DEF Cells

\* A character at the end of the last line.
Grown(ls, c) == [ls EXCEPT ![Len(ls)] = Append(@, c)]
Shown(m, ls, n, c) == [m EXCEPT ![RowOf(Len(ls)) * Cols + n] = c]
LEMMA CharKept ==
  ASSUME NEW m, NEW ls, Screened(m, ls), NEW c, NEW n \in 0 .. 9, EndsAt(ls, n),
         NEW m1, m1 = Shown(m, ls, n, c), NEW ls1, ls1 = Grown(ls, c)
  PROVE  Screened(m1, ls1) /\ Len(ls1) = Len(ls) /\ EndsAt(ls1, n + 1)
<1>1. PICK L \in Nat \ {0} : L = Len(ls)
  BY Sequences DEF Screened
<1>2. DOMAIN ls = 1 .. L /\ DOMAIN m = Cells
  BY <1>1, Sequences DEF Screened
<1>3. PICK l : l = ls[L]
  OBVIOUS
<1>4. Sequence(l) /\ Len(l) = n /\ DOMAIN l = 1 .. n
  <2>1. Sequence(l) /\ Len(l) = n
    BY <1>1, <1>3 DEF Screened, EndsAt
  <2> QED BY <2>1, Sequences
<1>5. PICK l1 : l1 = Append(l, c)
  OBVIOUS
<1>6. /\ Sequence(l1) /\ Len(l1) = n + 1 /\ DOMAIN l1 = 1 .. n + 1
      /\ \A k \in 1 .. n : l1[k] = l[k]
      /\ l1[n + 1] = c
  <2>1. /\ Sequence(l1) /\ Len(l1) = n + 1
        /\ \A k \in 1 .. n : l1[k] = l[k]
        /\ l1[n + 1] = c
    BY <1>4, <1>5, Appended
  <2> QED BY <2>1, Sequences
<1>7. /\ DOMAIN ls1 = 1 .. L /\ ls1[L] = l1 /\ \A i \in 1 .. L : i # L => ls1[i] = ls[i]
  BY <1>1, <1>2, <1>3, <1>5 DEF Grown
<1>8. Sequence(ls1) /\ Len(ls1) = L
  <2>1. ls1 = [i \in 1 .. L |-> ls1[i]]
    <3>1. ls1 = [i \in DOMAIN ls1 |-> ls1[i]]
      BY <1>1, <1>2 DEF Grown
    <3> QED BY <1>7, <3>1
  <2> QED BY <2>1, Listed
<1>9. \A i \in 1 .. L : Sequence(ls1[i]) /\ Len(ls1[i]) <= 10
  <2> TAKE i \in 1 .. L
  <2>1. Sequence(ls[i]) /\ Len(ls[i]) <= 10
    BY <1>1 DEF Screened
  <2>2. n + 1 <= 10
    OBVIOUS
  <2> QED BY <1>6, <1>7, <2>1, <2>2
<1>10. PICK r \in 0 .. Rows - 1 : r = RowOf(L)
  BY RowsTurn
<1>11. r * Cols + n \in Cells
  <2>1. n \in 0 .. 10
    OBVIOUS
  <2> QED BY <2>1, CellsDiffer
<1>12. DOMAIN m1 = Cells /\ m1[r * Cols + n] = c /\ \A x \in Cells : x # r * Cols + n => m1[x] = m[x]
  BY <1>1, <1>2, <1>10, <1>11 DEF Shown
<1>13. ASSUME NEW i \in 1 .. L, i > L - Rows PROVE Kept(m1, ls1, i)
  <2>1. Kept(m, ls, i)
    BY <1>1, <1>13 DEF Screened
  <2>2. PICK ri \in 0 .. Rows - 1 : ri = RowOf(i)
    BY RowsTurn
  <2>3. CASE i = L
    <3> SUFFICES ASSUME NEW k \in 1 .. n + 1 PROVE m1[r * Cols + k - 1] = l1[k]
      BY <1>6, <1>7, <1>10, <2>3 DEF Kept
    <3>1. r \in Int /\ Cols \in Int /\ r * Cols \in Int
      BY ScreenAssumption
    <3>2. CASE k = n + 1
      <4>1. r * Cols + k - 1 = r * Cols + n
        BY <3>1, <3>2
      <4> QED BY <1>6, <1>12, <3>2, <4>1
    <3>3. CASE k # n + 1
      <4>1. k \in 1 .. n /\ k - 1 \in 0 .. 10 /\ n \in 0 .. 10 /\ k - 1 # n
        <5>1. \A b \in 0 .. 9 : \A a \in 1 .. b + 1 :
                a # b + 1 => a \in 1 .. b /\ a - 1 \in 0 .. 10 /\ b \in 0 .. 10 /\ a - 1 # b
          OBVIOUS
        <5> QED BY <3>3, <5>1
      <4>2. r * Cols + (k - 1) \in Cells /\ r * Cols + (k - 1) # r * Cols + n
        BY <4>1, CellsDiffer
      <4>3. r * Cols + k - 1 = r * Cols + (k - 1)
        BY <3>1
      <4>4. m[r * Cols + k - 1] = l[k]
        BY <1>3, <1>4, <1>10, <2>1, <2>3, <4>1 DEF Kept
      <4> QED BY <1>6, <1>12, <4>1, <4>2, <4>3, <4>4
    <3> QED BY <3>2, <3>3
  <2>4. CASE i # L
    <3>1. ri # r
      <4>1. i \in Nat \ {0} /\ i < L
        BY <2>4
      <4> QED BY <1>10, <1>13, <2>2, <4>1, RowsDiffer
    <3>2. PICK j : j = ls[i]
      OBVIOUS
    <3>3. PICK h \in 0 .. 10 : DOMAIN j = 1 .. h
      <4>1. Sequence(j) /\ Len(j) <= 10
        BY <1>1, <3>2 DEF Screened
      <4>2. Len(j) \in Nat /\ DOMAIN j = 1 .. Len(j)
        BY <4>1, Sequences
      <4>3. PICK h \in Nat : h = Len(j)
        BY <4>2
      <4>4. h <= 10
        BY <4>1, <4>3
      <4>5. h \in 0 .. 10
        BY <4>4
      <4> QED BY <4>2, <4>3, <4>5
    <3>4. ls1[i] = j
      BY <1>7, <2>4, <3>2
    <3> SUFFICES ASSUME NEW k \in 1 .. h PROVE m1[ri * Cols + k - 1] = j[k]
      BY <2>2, <3>3, <3>4 DEF Kept
    <3>5. m[ri * Cols + k - 1] = j[k]
      BY <2>1, <2>2, <3>2, <3>3 DEF Kept
    <3>6. PICK a \in 0 .. 10, b \in 0 .. 10 : a = k - 1 /\ b = n
      OBVIOUS
    <3>9. ri * Cols + a \in Cells /\ ri * Cols + a # r * Cols + b
      BY <3>1, CellsDiffer
    <3>7. ri * Cols + (k - 1) \in Cells /\ ri * Cols + (k - 1) # r * Cols + n
      BY <3>6, <3>9
    <3>8. ri * Cols + k - 1 = ri * Cols + (k - 1)
      <4>1. ri \in Int /\ Cols \in Int /\ ri * Cols \in Int
        BY ScreenAssumption
      <4> QED BY <4>1
    <3> QED BY <1>12, <3>5, <3>7, <3>8
  <2> QED BY <2>3, <2>4
<1> QED BY <1>1, <1>6, <1>7, <1>8, <1>9, <1>12, <1>13 DEF Screened, EndsAt

\* A new line.
LEMMA LineBegun ==
  ASSUME NEW m, NEW ls, Screened(m, ls), NEW ls1, ls1 = Append(ls, <<>>)
  PROVE  Screened(m, ls1) /\ Len(ls1) = Len(ls) + 1 /\ EndsAt(ls1, 0)
<1>1. PICK L \in Nat \ {0} : L = Len(ls)
  BY Sequences DEF Screened
<1>2. /\ Sequence(ls1) /\ Len(ls1) = L + 1
      /\ \A i \in 1 .. L : ls1[i] = ls[i]
      /\ ls1[L + 1] = <<>>
  <2>1. Sequence(ls)
    BY DEF Screened
  <2> QED BY <1>1, <2>1, Appended
<1>3. Sequence(<<>>) /\ Len(<<>>) = 0
  BY Nothing
<1>4. PICK N \in Nat \ {0} : N = L + 1
  OBVIOUS
<1>5. \A i \in 1 .. N : i = N \/ (i \in 1 .. L /\ (i > N - Rows => i > L - Rows))
  BY <1>4, ScreenAssumption
<1>6. Len(ls1) = N /\ ls1[N] = <<>>
  BY <1>2, <1>4
<1>7. \A i \in 1 .. N : Sequence(ls1[i]) /\ Len(ls1[i]) <= 10
  <2> TAKE i \in 1 .. N
  <2>1. CASE i = N
    BY <1>3, <1>6, <2>1
  <2>2. CASE i \in 1 .. L
    BY <1>1, <1>2, <2>2 DEF Screened
  <2> QED BY <1>5, <2>1, <2>2
<1>8. \A i \in 1 .. N : i > N - Rows => Kept(m, ls1, i)
  <2> SUFFICES ASSUME NEW i \in 1 .. N, i > N - Rows PROVE Kept(m, ls1, i)
    OBVIOUS
  <2>1. CASE i = N
    <3>1. DOMAIN ls1[i] = {}
      BY <1>6, <2>1
    <3> QED BY <3>1 DEF Kept
  <2>2. CASE i \in 1 .. L /\ i > L - Rows
    <3>2. Kept(m, ls, i)
      BY <1>1, <2>2 DEF Screened
    <3>3. ls1[i] = ls[i]
      BY <1>2, <2>2
    <3> QED BY <3>2, <3>3, Zenon DEF Kept
  <2> QED BY <1>5, <2>1, <2>2
<1>9. Screened(m, ls1)
  <2>1. DOMAIN m = Cells
    BY DEF Screened
  <2>2. N >= 1
    OBVIOUS
  <2> QED BY <1>2, <1>6, <1>7, <1>8, <2>1, <2>2 DEF Screened
<1> QED BY <1>1, <1>2, <1>3, <1>9 DEF EndsAt

-----------------------------------------------------------------------------
(* What the player does to the screen.                                        *)

LEMMA StandingPtr ==
  ASSUME NEW k, NEW i \in Nat \ {0}, NEW n \in 0 .. 10, Standing(k, i, n)
  PROVE  /\ k.ptr = RowOf(i) * Cols + n
         /\ n < 10 => Standing(PlayerTyped(k), i, n + 1)
         /\ Standing(NewLine(k), i + 1, 0)
<1>1. Rows \in Nat /\ Cols \in Nat
  BY ScreenAssumption
<1>2. PICK r \in 0 .. Rows - 1, r1 \in 0 .. Rows - 1 :
        r = RowOf(i) /\ r1 = RowOf(i + 1) /\ r1 = (IF r + 1 >= Rows THEN 0 ELSE r + 1)
  <2>1. i + 1 \in Nat \ {0}
    OBVIOUS
  <2> QED BY <2>1, RowsTurn
<1>3. k = [ptr |-> r * Cols + n, row |-> r, col |-> 0]
  BY <1>2 DEF Standing
<1>4. r * Cols \in Nat /\ r1 * Cols \in Nat
  BY <1>1
<1>5. PlayerTyped(k) = [ptr |-> r * Cols + (n + 1), row |-> r, col |-> 0]
  <2>1. PlayerTyped(k) = [ptr |-> (r * Cols + n) + 1, row |-> r, col |-> 0]
    BY <1>3 DEF PlayerTyped
  <2>2. (r * Cols + n) + 1 = r * Cols + (n + 1)
    BY <1>4
  <2> QED BY <2>1, <2>2
<1>6. NewLine(k) = [ptr |-> r1 * Cols + 0, row |-> r1, col |-> 0]
  <2>1. NewLine(k) = At(r1, 0)
    BY <1>2, <1>3 DEF NewLine
  <2>2. 0 + r1 * Cols = r1 * Cols + 0
    BY <1>4
  <2> QED BY <2>1, <2>2 DEF At
<1> QED BY <1>2, <1>3, <1>5, <1>6 DEF Standing

LEMMA LogScreen ==
  ASSUME ScreenInv, Log
  PROVE  ScreenInv'
<1>1. PICK n \in 0 .. 10 : /\ Screened(vram, lines) /\ EndsAt(lines, n)
                           /\ Standing(player, Len(lines), n) /\ Tidy(script, n)
  BY DEF ScreenInv
<1>2. PICK o : o = Head(script)
  OBVIOUS
<1>3. PICK c : c = o[2]
  OBVIOUS
<1>4. /\ script # <<>> /\ Char(o) /\ lines' = Written(lines, c) /\ script' = Tail(script)
      /\ vram' = Drawn(player, c)
      /\ player' = IF c \in {NL, CR} THEN Control(player, c) ELSE PlayerTyped(player)
  BY <1>2, <1>3 DEF Log, LogPutc, Char
<1>5. c # CR /\ n \in 0 .. 9 /\ Tidy(script', IF c = NL THEN 0 ELSE n + 1)
  <2>1. c # CR /\ n + 1 <= 10 /\ Tidy(script', IF c = NL THEN 0 ELSE n + 1)
    <3>1. n \in Nat
      OBVIOUS
    <3> QED BY <1>1, <1>2, <1>3, <1>4, <3>1, TidyTail
  <2>2. n + 1 <= 10 => n \in 0 .. 9
    OBVIOUS
  <2> QED BY <2>1, <2>2
<1>6. PICK L \in Nat \ {0} : L = Len(lines)
  BY <1>1, Sequences DEF Screened
<1>7. CASE c = NL
  <2>1. lines' = Append(lines, <<>>) /\ vram' = vram /\ player' = NewLine(player)
    BY <1>4, <1>7 DEF Written, Drawn, Control
  <2>2. Screened(vram', lines') /\ Len(lines') = Len(lines) + 1 /\ EndsAt(lines', 0)
    BY <1>1, <2>1, LineBegun
  <2>3. Standing(player', L + 1, 0)
    BY <1>1, <1>6, <2>1, StandingPtr
  <2>4. 0 \in 0 .. 10 /\ Tidy(script', 0)
    BY <1>5, <1>7
  <2> QED BY <1>6, <2>2, <2>3, <2>4 DEF ScreenInv
<1>8. CASE c # NL
  <2>1. /\ lines' = [lines EXCEPT ![Len(lines)] = Append(@, c)] /\ vram' = [vram EXCEPT ![player.ptr] = c]
        /\ player' = PlayerTyped(player)
    BY <1>4, <1>5, <1>8 DEF Written, Drawn
  <2>2. player.ptr = RowOf(Len(lines)) * Cols + n
    BY <1>1, <1>6, StandingPtr
  <2>3. lines' = Grown(lines, c) /\ vram' = Shown(vram, lines, n, c)
    BY <2>1, <2>2 DEF Grown, Shown
  <2>4. Screened(vram', lines') /\ Len(lines') = Len(lines) /\ EndsAt(lines', n + 1)
    BY <1>1, <1>5, <2>3, CharKept
  <2>5. n < 10 /\ n + 1 \in 0 .. 10
    BY <1>5
  <2>6. Standing(player', L, n + 1)
    BY <1>1, <1>6, <2>1, <2>5, StandingPtr
  <2>7. Tidy(script', n + 1)
    BY <1>5, <1>8
  <2> QED BY <1>6, <2>4, <2>5, <2>6, <2>7 DEF ScreenInv
<1> QED BY <1>7, <1>8

LEMMA WireScreen ==
  ASSUME ScreenInv, Wire
  PROVE  ScreenInv'
<1>1. PICK n \in 0 .. 10 : /\ Screened(vram, lines) /\ EndsAt(lines, n)
                           /\ Standing(player, Len(lines), n) /\ Tidy(script, n)
  BY DEF ScreenInv
<1>2. PICK o : o = Head(script)
  OBVIOUS
<1>3. /\ script # <<>> /\ o[1] \in I2cOps /\ script' = I2cRest(script)
      /\ vram' = vram /\ lines' = lines /\ player' = player
  BY <1>2 DEF Wire, termVars
<1>4. n \in Nat /\ 0 \in 0 .. 10
  OBVIOUS
<1>5. /\ ~Char(o) => Tidy(Tail(script), n)
      /\ o[1] = "ack" => n = 0 /\ Tidy(o[2], 0)
  BY <1>1, <1>2, <1>3, <1>4, TidyTail
<1>6. ~Char(o)
  BY <1>3 DEF Char, I2cOps
<1>7. Tidy(script', n)
  BY <1>1, <1>2, <1>3, <1>5, <1>6 DEF I2cRest
<1> QED BY <1>1, <1>3, <1>7 DEF ScreenInv

LEMMA CallScreen ==
  ASSUME ScreenInv, script = <<>>, UNCHANGED <<vram, lines, player>>, Tidy(script', 0)
  PROVE  ScreenInv'
<1>1. PICK n \in 0 .. 10 : /\ Screened(vram, lines) /\ EndsAt(lines, n)
                           /\ Standing(player, Len(lines), n) /\ Tidy(script, n)
  BY DEF ScreenInv
<1>2. n = 0
  <2>1. n \in Nat
    OBVIOUS
  <2> QED BY <1>1, <2>1, TidyEmpty
<1> QED BY <1>1, <1>2 DEF ScreenInv

LEMMA MainScreen ==
  ASSUME DOMAIN vram = Cells, PlayerMain
  PROVE  ScreenInv'
<1>1. /\ vram' = vram /\ player' = At(3, 0) /\ lines' = <<<<>>>> /\ script' = Alog(Compiled)
  BY DEF PlayerMain, PlayerHome, Calls
<1>2. Rows \in Nat /\ Rows >= 4 /\ Cols \in Nat
  BY ScreenAssumption
<1>3. PICK e : e = <<>>
  OBVIOUS
<1>4. PICK ls : ls = <<e>>
  OBVIOUS
<1>5. Sequence(e) /\ Len(e) = 0 /\ DOMAIN e = {}
  BY <1>3, Nothing
<1>6. Sequence(ls) /\ Len(ls) = 1 /\ ls[1] = e
  BY <1>4, Single
<1>7. \A i \in 1 .. 1 : ls[i] = e
  <2>1. \A i \in 1 .. 1 : i = 1
    OBVIOUS
  <2> QED BY <1>6, <2>1
<1>8. Screened(vram, ls) /\ EndsAt(ls, 0)
  <2>1. \A i \in 1 .. 1 : Sequence(ls[i]) /\ Len(ls[i]) <= 10
    BY <1>5, <1>7
  <2>2. \A i \in 1 .. 1 : Kept(vram, ls, i)
    BY <1>5, <1>7 DEF Kept
  <2> QED BY <1>5, <1>6, <2>1, <2>2 DEF Screened, EndsAt
<1>9. Standing(At(3, 0), 1, 0)
  <2>1. PlayerHome.row = 3
    BY DEF PlayerHome, At
  <2>2. RowOf(1) = 3
    BY <1>2, <2>1 DEF RowOf
  <2>3. At(3, 0) = [ptr |-> 3 * Cols + 0, row |-> 3, col |-> 0]
    BY <1>2 DEF At
  <2> QED BY <2>2, <2>3 DEF Standing
<1>10. 0 \in 0 .. 10 /\ Tidy(script', 0)
  BY <1>1, TidyTexts
<1>11. lines' = ls
  BY <1>1, <1>3, <1>4
<1> QED BY <1>1, <1>6, <1>8, <1>9, <1>10, <1>11 DEF ScreenInv

\* The steps of the player.
LEMMA PlayerScreen ==
  ASSUME CodecInv, ScreenInv, pc \in Plays,
         \/ Log \/ Wire \/ AudioInit \/ AudioWrite \/ AudioFails \/ AudioDone \/ Play \/ PlayerEnds
         \/ Spin \/ UNCHANGED firmwareVars
  PROVE  ScreenInv'
<1>1. CASE Log
  BY <1>1, LogScreen
<1>2. CASE Wire
  BY <1>2, WireScreen
<1>3. CASE Spin \/ UNCHANGED firmwareVars
  <2>1. UNCHANGED <<vram, lines, player, script>>
    BY <1>3 DEF Spin, firmwareVars, termVars
  <2> QED BY <2>1 DEF ScreenInv
<1>4. CASE AudioInit
  <2>1. script = <<>> /\ UNCHANGED <<vram, lines, player>> /\ script' = I2cSetup
    BY <1>4 DEF AudioInit, Calls, termVars
  <2> QED BY <2>1, CallScreen, CodecTidy
<1>5. CASE AudioWrite
  <2>1. PICK b : b = RegisterBytes(AudioRegisters[entry])
    OBVIOUS
  <2>2. /\ script = <<>> /\ UNCHANGED <<vram, lines, player>>
        /\ script' = I2cWriteReg(DeviceAddress, b[1], b[2])
    BY <1>5, <2>1 DEF AudioWrite, Calls, termVars
  <2> QED BY <2>2, CallScreen, CodecTidy
<1>6. CASE AudioFails
  <2>1. script = <<>> /\ UNCHANGED <<vram, lines, player>> /\ script' = Elog(WriteFailed) \o Alog(Calling)
    BY <1>6 DEF AudioFails, Calls, termVars
  <2> QED BY <2>1, CallScreen, TidyTexts
<1>7. CASE AudioDone
  <2>1. script = <<>> /\ UNCHANGED <<vram, lines, player>> /\ script' = Alog(Calling)
    BY <1>7 DEF AudioDone, Calls, termVars
  <2> QED BY <2>1, CallScreen, TidyTexts
<1>8. CASE Play
  <2>1. script = <<>> /\ UNCHANGED <<vram, lines, player>> /\ script' = Alog(Returned \o Captured)
    BY <1>8 DEF Play, Calls, termVars
  <2> QED BY <2>1, CallScreen, TidyTexts
<1>9. CASE PlayerEnds
  <2>1. script = <<>> /\ UNCHANGED <<vram, lines, player>> /\ script' = <<>>
    BY <1>9 DEF PlayerEnds, Calls, termVars
  <2>2. Tidy(<<>>, 0)
    <3>1. 0 \in Nat
      OBVIOUS
    <3> QED BY <3>1, TidyEmpty
  <2> QED BY <2>1, <2>2, CallScreen
<1> QED BY <1>1, <1>2, <1>3, <1>4, <1>5, <1>6, <1>7, <1>8, <1>9

-----------------------------------------------------------------------------
(* The loader's cursor, as long as the LPDDR stores every word as it should.  *)

LEMMA CursorMoves ==
  /\ \A r \in 0 .. 2, c \in 0 .. 12 : LoaderTyped(At(r, c)) = At(r, c + 1)
  /\ \A r \in 0 .. 2, c \in 0 .. 13 : NewLine(At(r, c)) = At(r + 1, 0)
<1>1. Cols \in Nat /\ Cols >= 14 /\ Rows \in Nat /\ Rows >= 4
  BY ScreenAssumption
<1>2. \A r \in 0 .. 2 : r \in 0 .. Rows - 1 /\ r + 1 < Rows
  BY <1>1
<1>3. /\ \A c \in 0 .. 12 : c \in 0 .. Cols - 1 /\ c + 1 < Cols
      /\ \A c \in 0 .. 13 : c \in 0 .. Cols - 1
  BY <1>1
<1> QED BY <1>2, <1>3, Cursors

LEMMA HeadingStep ==
  ASSUME OfLoader(script), LoaderStep, Heading
  PROVE  Heading'
<1>1. PICK o : o = Head(script)
  OBVIOUS
<1>2. PICK l \in Nat \ {0} : l = Len(script)
  BY <1>1, LoaderOp
<1>3. /\ o = script[1] /\ Len(script') = l - 1 /\ verify' = verify /\ o[1] \in LoaderOps
      /\ \A i \in 1 .. l - 1 : script'[i] = script[i + 1]
      /\ o[1] = "put" => TermPutchar(o[2])
      /\ o[1] # "put" => UNCHANGED termVars
  BY <1>1, <1>2, LoaderOp DEF LoaderOps
<1>4. \A i \in 1 .. l - 1 : i + 1 \in 1 .. l
  OBVIOUS
<1>5. 1 \in 1 .. l
  OBVIOUS
<1>6. PICK e \in {5, 9} : e = ColumnEnd /\ e = ColumnEnd'
  BY <1>3 DEF ColumnEnd
<1>7. CASE Quiet(script) /\ loader = At(1, ColumnEnd)
  <2>1. o[1] # "put"
    BY <1>2, <1>3, <1>5, <1>7 DEF Quiet
  <2>2. loader' = At(1, e)
    BY <1>3, <1>6, <1>7, <2>1 DEF termVars, At
  <2>3. Quiet(script')
    BY <1>2, <1>3, <1>4, <1>7 DEF Quiet
  <2> QED BY <1>6, <2>2, <2>3 DEF Heading, At
<1>8. CASE Typing(script) /\ Len(script) <= 5 /\ loader = At(1, ColumnEnd - Len(script))
  <2>1. o[1] = "put" /\ o[2] \notin {NL, CR}
    BY <1>2, <1>3, <1>5, <1>8 DEF Typing
  <2>2. PICK c \in 0 .. 12 : c = e - l /\ c + 1 = e - (l - 1) /\ l - 1 <= 5
    <3>1. l <= 5
      BY <1>2, <1>8
    <3>2. \A a \in {5, 9}, b \in Nat \ {0} :
            b <= 5 => a - b \in 0 .. 12 /\ (a - b) + 1 = a - (b - 1) /\ b - 1 <= 5
      OBVIOUS
    <3> QED BY <3>1, <3>2
  <2>3. loader = At(1, c)
    BY <1>2, <1>6, <1>8, <2>2
  <2>4. loader' = LoaderTyped(loader)
    BY <1>3, <2>1 DEF TermPutchar
  <2>5. loader' = At(1, c + 1)
    <3>1. 1 \in 0 .. 2
      OBVIOUS
    <3> QED BY <2>3, <2>4, <3>1, CursorMoves
  <2>6. Typing(script')
    BY <1>2, <1>3, <1>4, <1>8 DEF Typing
  <2> QED BY <1>3, <1>6, <2>2, <2>5, <2>6 DEF Heading, At
<1> QED BY <1>7, <1>8 DEF Heading

\* The last two lines.
LastWords == Done \o Running
LEMMA LastWordsAre ==
  /\ Sequence(LastWords) /\ Len(LastWords) = 9
  /\ \A i \in 1 .. 9 : IF i \in {5, 9} THEN LastWords[i] = NL ELSE LastWords[i] \notin {NL, CR}
<1>1. PICK s, t : s = Done /\ t = Running
  OBVIOUS
<1>2. /\ Len(s) = 5 /\ s[1] = "d" /\ s[2] = "o" /\ s[3] = "n" /\ s[4] = "e" /\ s[5] = NL
      /\ Len(t) = 4 /\ t[1] = "R" /\ t[2] = "u" /\ t[3] = "n" /\ t[4] = NL
  BY <1>1 DEF Done, Running
<1>3. Sequence(s) /\ Sequence(t)
  BY <1>1, TextTuples
<1>4. PICK r : r = s \o t
  OBVIOUS
<1>5. /\ Sequence(r) /\ Len(r) = 9 /\ \A i \in 1 .. 5 : r[i] = s[i]
      /\ \A i \in 1 .. 4 : r[5 + i] = t[i]
  <2>1. /\ Sequence(r) /\ Len(r) = Len(s) + Len(t)
        /\ \A i \in 1 .. Len(s) : r[i] = s[i]
        /\ \A i \in 1 .. Len(t) : r[Len(s) + i] = t[i]
    BY <1>3, <1>4, Joined
  <2> QED BY <1>2, <2>1
<1>6. /\ r[1] = "d" /\ r[2] = "o" /\ r[3] = "n" /\ r[4] = "e" /\ r[5] = NL
      /\ r[6] = "R" /\ r[7] = "u" /\ r[8] = "n" /\ r[9] = NL
  <2>1. 1 \in 1 .. 4 /\ 2 \in 1 .. 4 /\ 3 \in 1 .. 4 /\ 4 \in 1 .. 4
        /\ 5 + 1 = 6 /\ 5 + 2 = 7 /\ 5 + 3 = 8 /\ 5 + 4 = 9
    OBVIOUS
  <2>2. 1 \in 1 .. 5 /\ 2 \in 1 .. 5 /\ 3 \in 1 .. 5 /\ 4 \in 1 .. 5 /\ 5 \in 1 .. 5
    OBVIOUS
  <2> QED BY <1>2, <1>5, <2>1, <2>2
<1>7. \A c \in {"d", "o", "n", "e", "R", "u"} : c \notin {NL, CR}
  BY DEF NL, CR
<1>8. \A i \in 1 .. 9 : \/ i = 1 \/ i = 2 \/ i = 3 \/ i = 4 \/ i = 5 \/ i = 6 \/ i = 7 \/ i = 8 \/ i = 9
  OBVIOUS
<1>9. \A i \in 1 .. 9 : IF i \in {5, 9} THEN r[i] = NL ELSE r[i] \notin {NL, CR}
  BY <1>6, <1>7, <1>8
<1> QED BY <1>1, <1>4, <1>5, <1>9 DEF LastWords

LEMMA EndingStep ==
  ASSUME OfLoader(script), LoaderStep, Ending
  PROVE  Ending'
<1>1. PICK d \in 0 .. 9 :
        /\ Len(script) = 9 - d /\ \A i \in 1 .. 9 - d : script[i] = <<"put", LastWords[d + i]>>
        /\ loader = IF d <= 4 THEN At(1, 9 + d) ELSE IF d <= 8 THEN At(2, d - 5) ELSE At(3, 0)
  BY DEF Ending, LastWords
<1>2. PICK o : o = Head(script)
  OBVIOUS
<1>3. /\ o = script[1] /\ Len(script) \in Nat \ {0} /\ Len(script') = Len(script) - 1
      /\ \A i \in 1 .. Len(script) - 1 : script'[i] = script[i + 1]
      /\ o[1] = "put" => TermPutchar(o[2])
  BY <1>2, LoaderOp
<1>4. d \in 0 .. 8 /\ 1 \in 1 .. 9 - d
  BY <1>1, <1>3
<1>5. PICK c : c = LastWords[d + 1]
  OBVIOUS
<1>6. TermPutchar(c)
  <2>1. o = <<"put", c>>
    BY <1>1, <1>3, <1>4, <1>5
  <2> QED BY <1>3, <2>1
<1>7. PICK f \in 1 .. 9 : f = d + 1
  BY <1>4
<1>8. Len(script') = 9 - f /\ \A i \in 1 .. 9 - f : script'[i] = <<"put", LastWords[f + i]>>
  <2>1. Len(script') = 9 - f
    BY <1>1, <1>3, <1>7
  <2>2. \A i \in 1 .. 9 - f : i + 1 \in 1 .. 9 - d /\ d + (i + 1) = f + i /\ i \in 1 .. Len(script) - 1
    BY <1>1, <1>7
  <2>3. ASSUME NEW i \in 1 .. 9 - f PROVE script'[i] = <<"put", LastWords[f + i]>>
    <3>1. script'[i] = script[i + 1]
      BY <1>3, <2>2
    <3>2. script[i + 1] = <<"put", LastWords[d + (i + 1)]>>
      BY <1>1, <2>2
    <3> QED BY <2>2, <3>1, <3>2
  <2> QED BY <2>1, <2>3
<1>9. loader' = IF f <= 4 THEN At(1, 9 + f) ELSE IF f <= 8 THEN At(2, f - 5) ELSE At(3, 0)
  <2>1. f \notin {5, 9} => loader' = LoaderTyped(loader)
    BY <1>5, <1>6, <1>7, LastWordsAre DEF TermPutchar
  <2>2. f \in {5, 9} => loader' = NewLine(loader)
    BY <1>5, <1>6, <1>7, LastWordsAre DEF TermPutchar, Control
  <2>3. CASE d <= 3
    <3>1. loader = At(1, 9 + d) /\ f \notin {5, 9} /\ f <= 4
      BY <1>1, <1>7, <2>3
    <3>2. 9 + d \in 0 .. 12 /\ 1 \in 0 .. 2 /\ (9 + d) + 1 = 9 + f
      BY <1>7, <2>3
    <3> QED BY <2>1, <3>1, <3>2, CursorMoves
  <2>4. CASE d = 4
    <3>1. loader = At(1, 9 + 4) /\ f = 5
      BY <1>1, <1>7, <2>4
    <3>2. 9 + 4 \in 0 .. 13 /\ 1 \in 0 .. 2 /\ 1 + 1 = 2
      OBVIOUS
    <3>3. loader' = At(2, 0)
      BY <2>2, <3>1, <3>2, CursorMoves
    <3>4. 5 - 5 = 0 /\ ~(5 <= 4) /\ 5 <= 8
      OBVIOUS
    <3> QED BY <3>1, <3>3, <3>4
  <2>5. CASE d \in 5 .. 7
    <3>1. loader = At(2, d - 5) /\ f \notin {5, 9} /\ ~(f <= 4) /\ f <= 8
      <4>1. ~(d <= 4) /\ d <= 8
        BY <2>5
      <4> QED BY <1>1, <1>7, <2>5, <4>1
    <3>2. d - 5 \in 0 .. 12 /\ 2 \in 0 .. 2 /\ (d - 5) + 1 = f - 5
      BY <1>7, <2>5
    <3> QED BY <2>1, <3>1, <3>2, CursorMoves
  <2>6. CASE d = 8
    <3>1. loader = At(2, 8 - 5) /\ f = 9
      BY <1>1, <1>7, <2>6
    <3>2. 8 - 5 \in 0 .. 13 /\ 2 \in 0 .. 2 /\ 2 + 1 = 3
      OBVIOUS
    <3>3. loader' = At(3, 0)
      BY <2>2, <3>1, <3>2, CursorMoves
    <3>4. ~(9 <= 4) /\ ~(9 <= 8)
      OBVIOUS
    <3> QED BY <3>1, <3>3, <3>4
  <2>7. d <= 3 \/ d = 4 \/ d \in 5 .. 7 \/ d = 8
    BY <1>4
  <2> QED BY <2>3, <2>4, <2>5, <2>6, <2>7
<1>10. f \in 0 .. 9
  OBVIOUS
<1> QED BY <1>8, <1>9, <1>10 DEF Ending, LastWords, Done, Running, At

\* The scripts that print nothing, and the words of the second line.
LEMMA QuietScripts ==
  /\ Quiet(SpiDeselect) /\ Quiet(Recv(4)) /\ \A a \in Nat : Quiet(ReadCommand(a) \o Recv(4))
  /\ \A v \in BOOLEAN : /\ Typing(Puts(Text(v))) /\ Len(Puts(Text(v))) = IF v THEN 4 ELSE 5
<1>1. Quiet(SpiDeselect)
  <2>1. PICK a : a = <<"csn", 1>>
    OBVIOUS
  <2>2. Len(<<a>>) = 1 /\ <<a>>[1] = a /\ a[1] # "put"
    BY <2>1, Single
  <2> QED BY <2>1, <2>2 DEF SpiDeselect, Quiet
<1>2. \A u : RecvOp(u)[1] # "put"
  BY DEF RecvOp
<1>3. Quiet(Recv(4))
  <2>1. \A i \in 1 .. Len(Recv(4)) : Recv(4)[i] = RecvOp(i)
    BY RecvIs
  <2> QED BY <1>2, <2>1 DEF Quiet
<1>4. \A a \in Nat : Quiet(ReadCommand(a) \o Recv(4))
  <2> TAKE a \in Nat
  <2>1. ReadsFrom(ReadCommand(a) \o Recv(4), a)
    BY ReadScript
  <2>2. \A d : ReadOp(a, d)[1] # "put"
    <3>1. \A b, s : SendOp(b, s)[1] # "put"
      BY DEF SendOp
    <3>2. ASSUME NEW d PROVE ReadOp(a, d)[1] # "put"
      <4>1. CASE d = 1
        <5>1. PICK x : x = <<"csn", 0>>
          OBVIOUS
        <5>2. x[1] # "put" /\ ReadOp(a, d) = x
          BY <4>1, <5>1 DEF ReadOp
        <5> QED BY <5>2
      <4>2. CASE d # 1
        BY <1>2, <3>1, <4>2 DEF ReadOp
      <4> QED BY <4>1, <4>2
    <3> QED BY <3>2
  <2>3. PICK r : r = ReadCommand(a) \o Recv(4)
    OBVIOUS
  <2>4. Len(r) = 197 /\ \A i \in 1 .. 197 : r[i] = ReadOp(a, i)
    BY <2>1, <2>3 DEF ReadsFrom
  <2>5. Quiet(r)
    BY <2>2, <2>4 DEF Quiet
  <2> QED BY <2>3, <2>5
<1>5. ASSUME NEW t, Sequence(t), \A i \in 1 .. Len(t) : t[i] \notin {NL, CR}
      PROVE  Typing(Puts(t)) /\ Len(Puts(t)) = Len(t)
  <2>1. PICK n \in Nat : n = Len(t) /\ DOMAIN t = 1 .. n
    BY <1>5, Sequences
  <2>2. PICK p : p = Puts(t)
    OBVIOUS
  <2>3. p = [i \in 1 .. n |-> <<"put", t[i]>>]
    BY <2>1, <2>2 DEF Puts
  <2>4. Len(p) = n
    <3>1. p = [i \in 1 .. n |-> p[i]]
      BY <2>3
    <3> QED BY <3>1, Listed
  <2>5. \A i \in 1 .. n : p[i][1] = "put" /\ p[i][2] \notin {NL, CR}
    BY <1>5, <2>1, <2>3
  <2> QED BY <2>1, <2>2, <2>4, <2>5 DEF Typing
<1>6. /\ Len(Loading) = 5 /\ \A i \in 1 .. 5 : Loading[i] \notin {NL, CR}
  <2>1. PICK t : t = Loading
    OBVIOUS
  <2>2. Len(t) = 5 /\ t[1] = "L" /\ t[2] = "o" /\ t[3] = "a" /\ t[4] = "d" /\ t[5] = " "
    BY <2>1 DEF Loading
  <2>3. \A c \in {"L", "o", "a", "d", " "} : c \notin {NL, CR}
    BY DEF NL, CR
  <2>4. \A i \in 1 .. 5 : i = 1 \/ i = 2 \/ i = 3 \/ i = 4 \/ i = 5
    OBVIOUS
  <2> QED BY <2>1, <2>2, <2>3, <2>4
<1>7. /\ Len(Verifying) = 4 /\ \A i \in 1 .. 4 : Verifying[i] \notin {NL, CR}
  <2>1. PICK t : t = Verifying
    OBVIOUS
  <2>2. Len(t) = 4 /\ t[1] = "v" /\ t[2] = "e" /\ t[3] = "r" /\ t[4] = " "
    BY <2>1 DEF Verifying
  <2>3. \A c \in {"v", "e", "r", " "} : c \notin {NL, CR}
    BY DEF NL, CR
  <2>4. \A i \in 1 .. 4 : i = 1 \/ i = 2 \/ i = 3 \/ i = 4
    OBVIOUS
  <2> QED BY <2>1, <2>2, <2>3, <2>4
<1>8. ASSUME NEW v \in BOOLEAN
      PROVE  Typing(Puts(Text(v))) /\ Len(Puts(Text(v))) = IF v THEN 4 ELSE 5
  BY <1>5, <1>6, <1>7, TextTuples DEF Text
<1> QED BY <1>1, <1>3, <1>4, <1>8

LEMMA LastScript ==
  Len(Puts(LastWords)) = 9 /\ \A i \in 1 .. 9 : Puts(LastWords)[i] = <<"put", LastWords[i]>>
<1>1. PICK t : t = LastWords
  OBVIOUS
<1>2. Len(t) = 9 /\ DOMAIN t = 1 .. 9
  BY <1>1, LastWordsAre, Sequences
<1>3. PICK p : p = Puts(t)
  OBVIOUS
<1>4. p = [i \in 1 .. 9 |-> <<"put", t[i]>>]
  BY <1>2, <1>3 DEF Puts
<1>5. Len(p) = 9
  <2>1. p = [i \in 1 .. 9 |-> p[i]] /\ 9 \in Nat
    BY <1>4
  <2> QED BY <2>1, Listed
<1> QED BY <1>1, <1>3, <1>4, <1>5

LEMMA StraightLoaderStep ==
  ASSUME OfLoader(script), Straight, LoaderStep
  PROVE  Straight'
<1>1. /\ UNCHANGED <<pc, verify, block, word, ddr>>
  BY DEF LoaderStep
<1>2. Heading => Heading'
  BY HeadingStep
<1>3. Ending => Ending'
  BY EndingStep
<1>4. Copied' = Copied
  BY <1>1 DEF Copied
<1>5. \A n : Compared(n) => Compared(n)'
  BY <1>1 DEF Compared, ImageWord, FlashByte
<1>6. pc \in {"block", "word"} => Compared(IF verify THEN Blocks * Words ELSE Copied)'
  BY <1>1, <1>4, <1>5 DEF Straight
<1>7. (pc' \in Loads => DOMAIN ddr' = Address') /\ pc' \in {"reset", "id", "badid", "block", "word", "jump"} \cup Plays
  BY <1>1 DEF Straight, Address
<1> QED BY <1>1, <1>2, <1>3, <1>6, <1>7 DEF Straight

\* A call that leaves the cursor where it is, from and to the copy.
LEMMA HeadingHolds ==
  ASSUME Heading, script = <<>>, loader' = loader, verify' = verify, Quiet(script')
  PROVE  Heading'
<1>1. loader = At(1, ColumnEnd)
  <2>1. CASE Typing(script) /\ Len(script) <= 5 /\ loader = At(1, ColumnEnd - Len(script))
    <3>1. Len(script) = 0
      BY Nothing
    <3>2. PICK e \in {5, 9} : e = ColumnEnd
      BY DEF ColumnEnd
    <3>3. \A a \in {5, 9} : a - 0 = a
      OBVIOUS
    <3> QED BY <2>1, <3>1, <3>2, <3>3
  <2> QED BY <2>1 DEF Heading
<1>2. ColumnEnd' = ColumnEnd
  BY DEF ColumnEnd
<1> QED BY <1>1, <1>2 DEF Heading, At

LEMMA IdentifiedCursor ==
  ASSUME Identifying, script = <<>>
  PROVE  loader = At(1, 0)
<1>1. PICK d \in 0 .. 106 : Len(script) = 106 - d /\ IdAt(d)
  BY DEF Identifying
<1>2. d = 106
  <2>1. Len(script) = 0
    BY Nothing
  <2> QED BY <1>1, <2>1
<1>3. ~(d <= 2) /\ ~(d <= 6)
  BY <1>2
<1> QED BY <1>1, <1>3 DEF IdAt

\* The calls that lead from the identification to the copy, and from its end on.
LEMMA StraightTurns ==
  ASSUME FirmwareInv, TypesInv, Straight, IdPasses \/ Loaded \/ Verified
  PROVE  Straight'
<1>1. Blocks \in Nat \ {0} /\ Words \in Nat \ {0}
  BY BootAssumption
<1>2. DOMAIN ddr' = Address /\ ddr' = ddr /\ script = <<>> /\ loader' = loader
  BY DEF IdPasses, Loaded, Verified, StartCopy, Goes, Straight, Loads, termVars
<1>3. CASE IdPasses \/ Loaded
  <2>1. /\ pc' = "block" /\ block' = 0 /\ verify' \in BOOLEAN /\ script' = Puts(Text(verify'))
        /\ verify' = ~(pc = "id") /\ pc \in {"id", "block"}
    BY <1>3 DEF IdPasses, Loaded, StartCopy, Goes
  <2>2. loader = At(1, IF verify' THEN 5 ELSE 0)
    <3>1. CASE pc = "id"
      BY <2>1, <1>2, <3>1, IdentifiedCursor DEF TypesInv
    <3>2. CASE pc = "block"
      <4>1. ~verify /\ Heading
        BY <1>3, <3>2 DEF Loaded, IdPasses, Goes, Straight
      <4>2. ColumnEnd = 5 /\ 5 - 0 = 5 /\ Len(<<>>) = 0
        BY <4>1, Nothing DEF ColumnEnd
      <4>3. loader = At(1, 5)
        BY <1>2, <4>1, <4>2 DEF Heading
      <4> QED BY <2>1, <3>2, <4>3
    <3> QED BY <2>1, <3>1, <3>2
  <2>3. Heading'
    <3>1. Typing(script') /\ Len(script') = IF verify' THEN 4 ELSE 5
      BY <2>1, QuietScripts
    <3>2. ColumnEnd' = (IF verify' THEN 9 ELSE 5)
      BY DEF ColumnEnd
    <3>3. /\ Len(script') <= 5 /\ ColumnEnd' - Len(script') = IF verify' THEN 5 ELSE 0
      BY <2>1, <3>1, <3>2
    <3>4. loader' = At(1, ColumnEnd' - Len(script'))
      BY <1>2, <2>2, <3>3
    <3> QED BY <3>1, <3>3, <3>4 DEF Heading, At
  <2>4. Compared(IF verify THEN Blocks * Words ELSE Copied)'
    <3>1. CASE verify'
      <4>1. pc = "block" /\ block = Blocks /\ ~verify
        BY <1>3, <2>1, <3>1 DEF IdPasses, Loaded, Goes
      <4>2. Compared(Copied) /\ Copied = Blocks * Words
        <5>1. Compared(Copied)
          BY <4>1 DEF Straight
        <5>2. Copied = Blocks * Words + 0
          BY <4>1 DEF Copied
        <5>3. Blocks * Words + 0 = Blocks * Words
          BY <1>1
        <5> QED BY <5>1, <5>2, <5>3
      <4>3. Compared(Blocks * Words)'
        BY <1>2, <4>2 DEF Compared, ImageWord, FlashByte
      <4> QED BY <3>1, <4>3
    <3>2. CASE ~verify'
      <4>1. Copied' = 0
        BY <1>1, <2>1 DEF Copied
      <4>2. \A x \in 0 .. 0 - 1 : FALSE
        OBVIOUS
      <4>3. Compared(0)'
        BY <4>2 DEF Compared
      <4> QED BY <3>2, <4>1, <4>3
    <3> QED BY <3>1, <3>2
  <2> QED BY <1>2, <2>1, <2>3, <2>4 DEF Straight, Address
<1>4. CASE Verified
  <2>1. pc = "block" /\ pc' = "jump" /\ verify /\ script' = Puts(LastWords)
    BY <1>4 DEF Verified, Goes, LastWords
  <2>2. loader = At(1, 9)
    <3>1. Heading
      BY <2>1 DEF Straight
    <3>2. ColumnEnd = 9 /\ 9 - 0 = 9 /\ Len(<<>>) = 0
      BY <2>1, Nothing DEF ColumnEnd
    <3> QED BY <1>2, <3>1, <3>2 DEF Heading
  <2>3. Len(script') = 9 /\ \A i \in 1 .. 9 : script'[i] = <<"put", LastWords[i]>>
    BY <2>1, LastScript
  <2>4. PICK d \in 0 .. 9 : d = 0
    OBVIOUS
  <2>5. Len(script') = 9 - d /\ \A i \in 1 .. 9 - d : script'[i] = <<"put", LastWords[d + i]>>
    <3>1. 9 - d = 9 /\ \A i \in 1 .. 9 : d + i = i
      BY <2>4
    <3> QED BY <2>3, <3>1
  <2>6. loader' = IF d <= 4 THEN At(1, 9 + d) ELSE IF d <= 8 THEN At(2, d - 5) ELSE At(3, 0)
    <3>1. d <= 4 /\ 9 + d = 9
      BY <2>4
    <3> QED BY <1>2, <2>2, <3>1
  <2>7. Ending'
    BY <2>5, <2>6 DEF Ending, LastWords, Done, Running, At
  <2> QED BY <1>2, <2>1, <2>7 DEF Straight, Address
<1> QED BY <1>3, <1>4

\* The calls of the copy: with no word stored wrongly the comparison never fails.
LEMMA StraightCopies ==
  ASSUME FirmwareInv, Straight, pc \in Loads, faults \in Nat, faults = 0, faults' = 0,
         BeginBlock \/ LoadWord \/ VerifyWord \/ VerifyFails
  PROVE  Straight'
<1>1. Blocks \in Nat \ {0} /\ Words \in Nat \ {0} /\ DdrKb \in Nat /\ DdrKb >= Blocks
  BY BootAssumption
<1>2. LoaderInv /\ CopyInv /\ verify \in BOOLEAN
  BY DEF FirmwareInv
<1>3. DOMAIN ddr = Address /\ script = <<>> /\ loader' = loader /\ verify' = verify
  BY DEF BeginBlock, LoadWord, VerifyWord, VerifyFails, Goes, Straight, Loads, termVars
<1>4. Heading /\ Compared(IF verify THEN Blocks * Words ELSE Copied)
  BY DEF BeginBlock, LoadWord, VerifyWord, VerifyFails, Goes, Straight
<1>5. CASE BeginBlock
  <2>1. /\ pc = "block" /\ pc' = "word" /\ ddr' = ddr
        /\ script' = ReadCommand(AppBase + block * 4 * Words) \o Recv(4)
        /\ block < Blocks /\ block' = block /\ word' = 0
    BY <1>5 DEF BeginBlock, Goes
  <2>2. block \in Nat
    BY <1>2, <2>1 DEF CopyInv
  <2>3. AppBase + block * 4 * Words \in Nat
    BY <1>1, <2>2, FlashAssumption
  <2>4. Heading'
    BY <1>3, <1>4, <2>1, <2>3, QuietScripts, HeadingHolds
  <2>5. Copied' = Copied
    BY <1>1, <2>1, <2>2 DEF Copied
  <2>6. Compared(IF verify THEN Blocks * Words ELSE Copied)'
    BY <1>3, <1>4, <2>1, <2>5 DEF Compared, ImageWord, FlashByte
  <2> QED BY <1>3, <2>1, <2>4, <2>6 DEF Straight, Address
<1>6. CASE LoadWord \/ VerifyWord \/ VerifyFails
  <2>1. pc = "word"
    BY <1>6 DEF LoadWord, VerifyWord, VerifyFails, Goes
  <2>2. block \in 0 .. Blocks - 1 /\ word \in 0 .. Words - 1 /\ Reading
    BY <1>2, <2>1 DEF CopyInv
  <2>3. ReceivedWord = ImageWord(DdrPtr)
    BY <1>2, <1>3, <2>2, WordRead DEF LoaderInv, OfLoader
  <2>4. PICK n \in Nat : n = DdrPtr /\ n = Copied /\ n + 1 <= Blocks * Words
    <3>1. block * Words + word \in Nat
      BY <1>1, <2>2
    <3>2. (block + 1) * Words <= Blocks * Words
      BY <1>1, <2>2
    <3>3. (block + 1) * Words = block * Words + Words
      BY <1>1, <2>2
    <3>4. (block * Words + word) + 1 <= Blocks * Words
      <4>1. block * Words \in Nat /\ Blocks * Words \in Nat
        BY <1>1, <2>2
      <4> QED BY <1>1, <2>2, <3>2, <3>3, <4>1
    <3> QED BY <2>1, <3>1, <3>4 DEF DdrPtr, Copied
  <2>5. verify => ddr[DdrPtr] = ImageWord(DdrPtr)
    <3>1. n \in 0 .. Blocks * Words - 1
      BY <1>1, <2>4
    <3> QED BY <1>4, <2>4, <3>1 DEF Compared
  <2>6. LoadWord \/ VerifyWord
    BY <1>6, <2>3, <2>5 DEF VerifyFails
  <2>7. /\ Goes("word", AfterWord, Onward) /\ Advance
    BY <2>6 DEF LoadWord, VerifyWord
  <2>8. /\ pc' = AfterWord /\ AfterWord \in {"word", "block"}
        /\ AfterWord = "word" => block' = block /\ word' = word + 1
        /\ AfterWord = "block" => word + 1 = Words /\ block' = block + 1
    BY <1>2, <2>2, <2>7, WordGoesOn
  <2>9. Heading'
    <3>1. script' \in {Recv(4), SpiDeselect}
      BY <2>7 DEF Goes, Onward
    <3>2. Quiet(script')
      BY <3>1, QuietScripts
    <3> QED BY <1>3, <1>4, <3>2, HeadingHolds
  <2>10. Copied' = n + 1
    <3>1. CASE AfterWord = "word"
      <4>1. Copied' = block * Words + (word + 1)
        BY <2>8, <3>1 DEF Copied
      <4>2. Copied = block * Words + word
        BY <2>1 DEF Copied
      <4>3. block * Words \in Nat
        BY <1>1, <2>2
      <4> QED BY <2>2, <2>4, <4>1, <4>2, <4>3
    <3>2. CASE AfterWord = "block"
      <4>1. Copied' = (block + 1) * Words + 0
        BY <2>8, <3>2 DEF Copied
      <4>2. Copied = block * Words + word
        BY <2>1 DEF Copied
      <4>3. block * Words \in Nat /\ (block + 1) * Words = block * Words + Words
        BY <1>1, <2>2
      <4>4. word + 1 = Words
        BY <2>8, <3>2
      <4> QED BY <2>2, <2>4, <4>1, <4>2, <4>3, <4>4
    <3> QED BY <2>8, <3>1, <3>2
  <2>11. CASE VerifyWord
    <3>1. verify /\ ddr' = ddr
      BY <2>11 DEF VerifyWord
    <3>2. Compared(IF verify THEN Blocks * Words ELSE Copied)'
      BY <1>3, <1>4, <3>1 DEF Compared, ImageWord, FlashByte
    <3> QED BY <1>3, <2>8, <2>9, <3>1, <3>2 DEF Straight, Address
  <2>12. CASE LoadWord
    <3>1. ~verify /\ ddr' = [ddr EXCEPT ![DdrPtr] = ReceivedWord]
      <4>1. faults + 1 # 0
        OBVIOUS
      <4> QED BY <2>12, <4>1 DEF LoadWord, Stores
    <3>2. n \in Address
      <4>1. Blocks * Words <= DdrKb * Words
        BY <1>1
      <4>2. Blocks * Words \in Nat /\ DdrKb * Words \in Nat
        BY <1>1
      <4> QED BY <2>4, <4>1, <4>2 DEF Address
    <3>3. DOMAIN ddr' = Address
      BY <1>3, <3>1
    <3>4. \A x \in 0 .. n - 1 : ddr[x] = ImageWord(x)
      BY <1>4, <2>4, <3>1 DEF Compared
    <3>5. \A x \in 0 .. n : ddr'[x] = ImageWord(x)
      <4>1. ddr'[n] = ImageWord(n)
        BY <1>3, <2>3, <2>4, <3>1, <3>2
      <4>2. \A x \in 0 .. n : x = n \/ x \in 0 .. n - 1
        OBVIOUS
      <4>3. \A x : x # n => ddr'[x] = ddr[x] \/ x \notin Address
        BY <1>3, <2>4, <3>1
      <4>4. \A x \in 0 .. n - 1 : x \in Address /\ x # n
        <5>1. PICK z \in Nat : z = DdrKb * Words /\ n \in 0 .. z - 1
          <6>1. DdrKb * Words \in Nat
            BY <1>1
          <6> QED BY <3>2, <6>1 DEF Address
        <5>2. \A x \in 0 .. n - 1 : x \in 0 .. z - 1 /\ x # n
          BY <5>1
        <5> QED BY <5>1, <5>2 DEF Address
      <4> QED BY <3>4, <4>1, <4>2, <4>3, <4>4
    <3>6. Compared(n + 1)'
      <4>1. (n + 1) - 1 = n
        OBVIOUS
      <4> QED BY <3>5, <4>1 DEF Compared, ImageWord, FlashByte
    <3>7. Compared(IF verify THEN Blocks * Words ELSE Copied)'
      BY <1>3, <2>10, <3>1, <3>6 DEF Compared, ImageWord, FlashByte
    <3> QED BY <2>8, <2>9, <3>3, <3>7 DEF Straight, Address
  <2> QED BY <2>6, <2>11, <2>12
<1> QED BY <1>5, <1>6

LEMMA StraightStep ==
  ASSUME FirmwareInv, CodecInv, TypesInv, faults = 0 => Straight, [Next]_firmwareVars, faults' = 0
  PROVE  Straight'
<1>1. faults \in Nat
  BY BootAssumption DEF TypesInv, CopyTypes
<1>2. faults = 0
  <2>1. faults' = faults \/ faults' = faults + 1
    BY DEF Next, Load, LoaderStep, LoaderCall, Boot, IdFails, IdPasses, BeginBlock, LoadWord,
           VerifyWord, VerifyFails, Loaded, Verified, TestStart, Fill, Filled, Check, CheckFails,
           TestPasses, StartCopy, Stores, Log, Wire, PlayerMain, AudioInit, AudioWrite, AudioFails,
           AudioDone, Play, PlayerEnds, Calls, Spin, firmwareVars, bootVars
  <2> QED BY <1>1, <2>1
<1>3. Straight
  BY <1>2
<1>4. CASE LoaderStep
  <2>1. pc \in Loads
    <3>1. script # <<>> /\ Head(script)[1] \in LoaderOps
      BY <1>4, LoaderCallsStay
    <3> QED BY <3>1, PlayerOps DEF CodecInv
  <2> QED BY <1>3, <1>4, <2>1, StraightLoaderStep DEF FirmwareInv, LoaderInv
<1>5. CASE LoaderCall
  <2>1. pc \in Loads
    BY <1>5, LoaderCallsStay
  <2>2. DOMAIN ddr = Address
    BY <1>3, <2>1 DEF Straight
  <2>3. CASE Boot \/ IdFails
    <3>1. pc' \in {"id", "badid"} /\ ddr' = ddr
      BY <2>3 DEF Boot, IdFails, Goes
    <3> QED BY <2>2, <3>1 DEF Straight, Address
  <2>4. CASE IdPasses \/ Loaded \/ Verified
    BY <1>3, <2>4, StraightTurns
  <2>5. CASE BeginBlock \/ LoadWord \/ VerifyWord \/ VerifyFails
    BY <1>1, <1>2, <1>3, <2>1, <2>5, StraightCopies
  <2>6. CASE TestStart \/ Fill \/ Filled \/ Check \/ CheckFails \/ TestPasses
    <3>1. pc \in {"memtest", "fill", "check"}
      BY <2>6 DEF TestStart, Fill, Filled, Check, CheckFails, TestPasses, Goes
    <3> QED BY <1>3, <3>1 DEF Straight, Plays
  <2> QED BY <1>5, <2>3, <2>4, <2>5, <2>6 DEF LoaderCall
<1>6. CASE Spin \/ UNCHANGED firmwareVars
  <2>1. UNCHANGED <<pc, script, loader, verify, block, word, ddr>>
    BY <1>6 DEF Spin, firmwareVars, termVars, bootVars
  <2> QED BY <1>3, <2>1, ZenonT(60) DEF Straight, Address, Compared, ImageWord, FlashByte, Copied, Heading, Ending, ColumnEnd, At
<1>7. CASE \/ Log \/ Wire \/ PlayerMain \/ AudioInit \/ AudioWrite \/ AudioFails \/ AudioDone \/ Play
           \/ PlayerEnds
  <2>1. pc' \in Plays
    <3>1. CASE Log \/ Wire
      <4>1. pc \in Plays
        <5>1. script # <<>> /\ Head(script)[1] \in {"alog", "elog"} \cup I2cOps
          BY <3>1 DEF Log, Wire
        <5>2. Head(script)[1] \notin LoaderOps
          BY <5>1 DEF LoaderOps, I2cOps
        <5>3. pc \in Loads => Sequence(script) /\ \A i \in 1 .. Len(script) : script[i][1] \in LoaderOps
          BY DEF FirmwareInv, LoaderInv, OfLoader
        <5> QED BY <5>1, <5>2, <5>3, TailOf DEF CodecInv
      <4> QED BY <3>1, <4>1 DEF Log, Wire, bootVars
    <3>2. CASE PlayerMain \/ AudioInit \/ AudioWrite \/ AudioFails \/ AudioDone \/ Play \/ PlayerEnds
      BY <3>2 DEF PlayerMain, AudioInit, AudioWrite, AudioFails, AudioDone, Play, PlayerEnds, Calls, Plays
    <3> QED BY <1>7, <3>1, <3>2
  <2> QED BY <2>1 DEF Straight, Loads, Plays
<1> QED BY <1>4, <1>5, <1>6, <1>7 DEF Next, Load

LEMMA ConsoleStarts == Init => ConsoleInv
<1> SUFFICES ASSUME Init PROVE ConsoleInv
  OBVIOUS
<1>1. pc = "reset" /\ DOMAIN ddr = Address
  BY DEF Init, BootInit
<1> QED BY <1>1 DEF ConsoleInv, Straight, Plays

LEMMA ConsoleStep == FirmwareInv /\ CodecInv /\ TypesInv /\ ConsoleInv /\ [Next]_firmwareVars => ConsoleInv'
<1> SUFFICES ASSUME FirmwareInv, CodecInv, TypesInv, ConsoleInv, [Next]_firmwareVars PROVE ConsoleInv'
  OBVIOUS
<1>1. faults' = 0 => Straight'
  BY StraightStep DEF ConsoleInv
<1>2. ASSUME pc' \in Plays PROVE ScreenInv'
  <2>1. CASE PlayerMain
    BY <2>1, MainScreen DEF TypesInv, LoaderCursor
  <2>2. CASE pc \in Plays /\ ~PlayerMain
    <3>1. ~Load
      <4>1. LoaderCall => pc \in Loads
        BY LoaderCallsStay
      <4>2. LoaderStep => script # <<>> /\ Head(script)[1] \in LoaderOps
        BY LoaderCallsStay
      <4> QED BY <2>2, <4>1, <4>2, PlayerOps DEF Load, Loads, Plays
    <3>2. ScreenInv
      BY <2>2 DEF ConsoleInv
    <3> QED BY <2>2, <3>1, <3>2, PlayerScreen DEF Next
  <2>3. CASE pc \notin Plays /\ ~PlayerMain
    <3>1. ~(Load \/ Spin \/ UNCHANGED firmwareVars)
      <4>1. ~(pc' = pc)
        BY <1>2, <2>3
      <4>2. ~Load
        BY <1>2, <4>1, LoaderCallsStay DEF Load, Loads, Plays
      <4> QED BY <4>1, <4>2 DEF Spin, firmwareVars, bootVars
    <3>2. ~(Log \/ Wire)
      BY <1>2, <2>3 DEF Log, Wire, bootVars
    <3>3. ~(AudioInit \/ AudioWrite \/ AudioFails \/ AudioDone \/ Play \/ PlayerEnds)
      BY <2>3 DEF AudioInit, AudioWrite, AudioFails, AudioDone, Play, PlayerEnds, Calls, Plays
    <3> QED BY <2>3, <3>1, <3>2, <3>3 DEF Next
  <2> QED BY <2>1, <2>2, <2>3
<1> QED BY <1>1, <1>2 DEF ConsoleInv

LEMMA ConsoleHolds == CodecInv /\ TypesInv /\ ConsoleInv => ConsoleKept
<1> SUFFICES ASSUME CodecInv, TypesInv, ConsoleInv PROVE ConsoleKept
  OBVIOUS
<1>1. Cols \in Nat /\ Cols >= 14 /\ Rows \in Nat /\ Rows >= 4
  BY ScreenAssumption
<1>2. faults = 0 /\ pc = "jump" /\ script = <<>> => loader = PlayerHome
  <2> SUFFICES ASSUME faults = 0, pc = "jump", script = <<>> PROVE loader = At(3, 0)
    BY DEF PlayerHome
  <2>1. Ending
    BY DEF ConsoleInv, Straight
  <2>2. PICK d \in 0 .. 9 :
          /\ Len(script) = 9 - d
          /\ loader = IF d <= 4 THEN At(1, 9 + d) ELSE IF d <= 8 THEN At(2, d - 5) ELSE At(3, 0)
    BY <2>1 DEF Ending
  <2>3. d = 9
    <3>1. Len(script) = 0
      BY Nothing
    <3> QED BY <2>2, <3>1
  <2>4. ~(d <= 4) /\ ~(d <= 8)
    BY <2>3
  <2> QED BY <2>2, <2>4
<1>3. pc \in Plays => \A i \in Recent : LineKept(i)
  <2> SUFFICES ASSUME pc \in Plays, NEW i \in Recent PROVE LineKept(i)
    OBVIOUS
  <2>1. Screened(vram, lines)
    BY DEF ConsoleInv, ScreenInv
  <2>2. i \in 1 .. Len(lines) /\ i > Len(lines) - Rows
    BY <2>1, Sequences DEF Screened, Recent
  <2>3. Kept(vram, lines, i)
    BY <2>1, <2>2 DEF Screened
  <2> QED BY <2>3 DEF Kept, LineKept, RowOf
<1>4. InScreen(loader) /\ loader.ptr = loader.col + loader.row * Cols
  BY Cursors DEF TypesInv, LoaderCursor
<1>5. InScreen(player)
  <2>1. 0 \in 0 .. Cols - 1 /\ 3 \in 0 .. Rows - 1
    BY <1>1
  <2>2. CASE pc \in Loads
    <3>1. player = At(3, 0)
      BY <2>2 DEF TypesInv, LoaderCursor, PlayerHome
    <3> QED BY <2>1, <3>1, Cursors
  <2>3. CASE pc \in Plays
    <3>1. PICK n \in 0 .. 10 : Screened(vram, lines) /\ Standing(player, Len(lines), n)
      BY <2>3 DEF ConsoleInv, ScreenInv
    <3>2. PICK L \in Nat \ {0} : L = Len(lines)
      BY <3>1, Sequences DEF Screened
    <3>3. PICK r \in 0 .. Rows - 1 : r = RowOf(L)
      BY RowsTurn
    <3>4. player.row = r /\ player.col = 0 /\ player.ptr = r * Cols + n
      BY <3>1, <3>2, <3>3 DEF Standing
    <3>5. r * Cols + n \in Cells
      BY CellsDiffer
    <3> QED BY <2>1, <3>4, <3>5 DEF InScreen
  <2> QED BY <2>2, <2>3 DEF CodecInv
<1>6. DOMAIN vram = Cells
  BY DEF TypesInv, LoaderCursor
<1> QED BY <1>2, <1>3, <1>4, <1>5, <1>6 DEF ConsoleKept, CursorKept

\* As long as the loader succeeds at once, its cursor ends where the player's begins; what
\* the player prints stays on the screen until its rows are used up; and neither writes
\* beside the screen (main.c 14-99, bootloader.c 57-136).
THEOREM FirmwareConsole == Spec => []ConsoleKept
<1>1. Spec => []FirmwareInv
  BY FirmwareStarts, FirmwareStep, PTL DEF Spec
<1>2. Spec => []CodecInv
  <2>1. FirmwareInv /\ CodecInv /\ [Next]_firmwareVars => CodecInv'
    BY CodecStep
  <2> QED BY <1>1, <2>1, CodecStarts, PTL DEF Spec
<1>3. Spec => []TypesInv
  BY <1>1, <1>2, TypesStart, TypesStep, PTL DEF Spec
<1>4. Spec => []ConsoleInv
  BY <1>1, <1>2, <1>3, ConsoleStarts, ConsoleStep, PTL DEF Spec
<1> QED BY <1>2, <1>3, <1>4, ConsoleHolds, PTL
=============================================================================
