----------------------------- MODULE BootLoader -----------------------------
(* The boot loader (bootloader.c) between a reset and its jump into the LPDDR. *)
(* Its functions write characters and pins in a fixed order: a call puts these *)
(* operations into script, and a step performs the first of them.              *)
EXTENDS Terminal, SpiFlash

CONSTANTS
  Blocks,    \* blocks that are copied (256)
  Words,     \* words of a block, or of a KB of the memory test (256)
  DdrKb,     \* KB of LPDDR (32768)
  MaxFaults  \* bound: words the LPDDR stores wrongly

ASSUME BootAssumption ==
  /\ {Blocks, Words} \subseteq Nat \ {0} /\ DdrKb >= Blocks /\ DdrKb \in Nat /\ MaxFaults \in Nat
  /\ AppBase + 4 * (Blocks * Words) <= 2 ^ 24

VARIABLES
  pc,        \* where main is
  script,    \* operations of the running call that are still to be done
  bits,      \* the bits spi_recv_byte has received
  verify,    \* bVerify
  block, word, \* i and j of copy_loop, i of DDR_memtest
  ddr,       \* the LPDDR: a word is its four bytes, the low one first
  leds,      \* LEDS
  faults     \* words stored wrongly so far

bootVars == <<pc, bits, verify, block, word, ddr, leds, faults>>

Wrong == <<"wrong">>
Address == 0 .. DdrKb * Words - 1

BootInit ==
  /\ TermInit /\ FlashInit
  /\ pc = "reset" /\ script = <<>> /\ bits = <<>> /\ verify = FALSE /\ block = 0 /\ word = 0
  /\ ddr = [a \in Address |-> Wrong] /\ leds = "off" /\ faults = 0

-----------------------------------------------------------------------------
(* Scripts.                                                                   *)

Puts(text) == [i \in DOMAIN text |-> <<"put", text[i]>>]

\* spi_send_byte and spi_recv_byte: the clock goes up, and for each bit down, the bit, up.
SendByte(b) ==
  [i \in 1 .. 25 |-> IF i % 3 = 0 THEN <<"do", BitOf(b, (i \div 3) - 1)>> ELSE <<"clk", 2 - (i % 3)>>]
Recv(n) == [i \in 1 .. 24 * n |-> IF i % 3 = 0 THEN <<"di">> ELSE <<"clk", (i % 3) - 1>>]

SpiSelect == <<<<"csn", 0>>>>
SpiDeselect == <<<<"csn", 1>>>>
ReadCommand(a) ==
  SpiSelect \o SendByte(ReadData)
    \o SendByte((a \div 65536) % 256) \o SendByte((a \div 256) % 256) \o SendByte(a % 256)

Received(k) ==
  LET b == [i \in 1 .. 8 |-> bits[8 * (k - 1) + i]]
  IN 128 * b[1] + 64 * b[2] + 32 * b[3] + 16 * b[4] + 8 * b[5] + 4 * b[6] + 2 * b[7] + b[8]
ReceivedWord == <<Received(1), Received(2), Received(3), Received(4)>>

Put == /\ Head(script)[1] = "put" /\ TermPutchar(Head(script)[2])
       /\ UNCHANGED <<flashVars, bits>>
Pin == /\ \/ Head(script)[1] = "csn" /\ Select(Head(script)[2])
          \/ Head(script)[1] = "clk" /\ Clock(Head(script)[2])
          \/ Head(script)[1] = "do" /\ Output(Head(script)[2])
       /\ UNCHANGED <<termVars, bits>>
Sample == /\ Head(script)[1] = "di" /\ bits' = Append(bits, miso)
          /\ UNCHANGED <<termVars, flashVars>>

LoaderStep ==
  /\ script # <<>> /\ script' = Tail(script)
  /\ Put \/ Pin \/ Sample
  /\ UNCHANGED <<pc, verify, block, word, ddr, leds, faults>>

-----------------------------------------------------------------------------
(* main, check_id and copy_loop.                                              *)

\* Main is at p and goes on at q, leaving text and pin operations to be done.
Goes(p, q, ops) ==
  /\ pc = p /\ script = <<>> /\ pc' = q /\ script' = ops /\ bits' = <<>>
  /\ UNCHANGED flashVars

Banner == <<"B", "o", "o", "t", NL>>
IdWrongText == <<"I", "D", "?">>
Loading == <<"L", "o", "a", "d", " ">>
Verifying == <<"v", "e", "r", " ">>
Done == <<"d", "o", "n", "e", NL>>
Running == <<"R", "u", "n", NL>>
Text(of) == IF of THEN Verifying ELSE Loading

Boot ==
  /\ Goes("reset", "id", <<<<"clk", 1>>, <<"csn", 1>>>> \o Puts(Banner)
                         \o SpiSelect \o SendByte(ReadId) \o Recv(3) \o SpiDeselect)
  /\ leds' = "green" /\ TermClear
  /\ UNCHANGED <<verify, block, word, ddr, faults>>

M20P80 == <<32, 32, 20>>
IdRead == [k \in 1 .. 3 |-> Received(k)]

IdFails ==
  /\ Goes("id", "badid", Puts(IdWrongText \o Hex(IdRead[1], 2) \o Hex(IdRead[2], 2)
                              \o Hex(IdRead[3], 2) \o <<NL>>))
  /\ IdRead # M20P80
  /\ UNCHANGED <<termVars, verify, block, word, ddr, leds, faults>>

\* Each round of the loop of main loads, then verifies.
StartCopy(v) == verify' = v /\ block' = 0 /\ word' = 0 /\ UNCHANGED <<termVars, ddr, faults>>

IdPasses ==
  /\ Goes("id", "block", Puts(Text(FALSE))) /\ IdRead = M20P80
  /\ StartCopy(FALSE) /\ UNCHANGED leds

\* Wrong: j is not reset for the next block.
BeginBlockKeepsWord ==
  /\ Goes("block", "word", ReadCommand(AppBase + block * 4 * Words) \o Recv(4))
  /\ block < Blocks
  /\ UNCHANGED <<termVars, verify, block, word, ddr, leds, faults>>

BeginBlock ==
  /\ Goes("block", "word", ReadCommand(AppBase + block * 4 * Words) \o Recv(4))
  /\ block < Blocks /\ word' = 0
  /\ UNCHANGED <<termVars, verify, block, ddr, leds, faults>>

DdrPtr == block * Words + word

\* What the LPDDR makes of a write of the words of range that should leave it right.
Stores(right, range) ==
  \/ ddr' = right /\ UNCHANGED faults
  \/ /\ faults < MaxFaults /\ faults' = faults + 1
     /\ \E a \in range : ddr' = [right EXCEPT ![a] = Wrong]

\* The rest of the block: the next word, or the end of the read command.
Onward == IF word + 1 < Words THEN Recv(4) ELSE SpiDeselect
Advance == /\ word' = word + 1
           /\ block' = IF word + 1 < Words THEN block ELSE block + 1
AfterWord == IF word + 1 < Words THEN "word" ELSE "block"

LoadWord ==
  /\ ~verify /\ Goes("word", AfterWord, Onward) /\ Advance
  /\ Stores([ddr EXCEPT ![DdrPtr] = ReceivedWord], {DdrPtr})
  /\ UNCHANGED <<termVars, verify, leds>>

\* Wrong: the first word of a block is not compared.
VerifyWordLate ==
  /\ verify /\ Goes("word", AfterWord, Onward) /\ Advance
  /\ word > 0 => ReceivedWord = ddr[DdrPtr]
  /\ UNCHANGED <<termVars, verify, ddr, leds, faults>>

VerifyWord ==
  /\ verify /\ Goes("word", AfterWord, Onward) /\ Advance
  /\ ReceivedWord = ddr[DdrPtr]
  /\ UNCHANGED <<termVars, verify, ddr, leds, faults>>

VerifyText == <<NL, "V", "e", "r", "r", "o", "r", " ">>
VerifyFails ==
  /\ verify /\ Goes("word", "memtest", Puts(VerifyText \o Hex(AppBase + 4 * DdrPtr, 4) \o <<NL>>)
                                         \o SpiDeselect)
  /\ ReceivedWord # ddr[DdrPtr]
  /\ UNCHANGED <<termVars, verify, block, word, ddr, leds, faults>>

Loaded ==
  /\ ~verify /\ block = Blocks /\ Goes("block", "block", Puts(Text(TRUE)))
  /\ StartCopy(TRUE) /\ UNCHANGED leds

Verified ==
  /\ verify /\ block = Blocks /\ Goes("block", "jump", Puts(Done \o Running))
  /\ leds' = "red" /\ UNCHANGED <<termVars, verify, block, word, ddr, faults>>

-----------------------------------------------------------------------------
(* DDR_memtest, a KB at a time.                                               *)

\* For the counters of one byte the three parts of the pattern do not meet.
TestWord(c) == <<c % 256, 16 * (c % 16), (c \div 16) % 256, c % 256>>
Kb(i) == i * Words .. (i + 1) * Words - 1
Progress(i) == Puts(<<CR>> \o Dec(i + 1))

TestStart ==
  /\ Goes("memtest", "fill", Puts(<<"T", "e", "s", "t", NL, "F", "i", "l", "l", NL>>))
  /\ block' = 0 /\ UNCHANGED <<termVars, verify, word, ddr, leds, faults>>

Fill ==
  /\ block < DdrKb /\ Goes("fill", "fill", Progress(block)) /\ block' = block + 1
  /\ Stores([a \in Address |-> IF a \in Kb(block) THEN TestWord(a) ELSE ddr[a]], Kb(block))
  /\ UNCHANGED <<termVars, verify, word, leds>>

Filled ==
  /\ block = DdrKb /\ Goes("fill", "check", Puts(<<NL, "C", "h", "k", NL>>)) /\ block' = 0
  /\ UNCHANGED <<termVars, verify, word, ddr, leds, faults>>

Bad(i) == {a \in Kb(i) : ddr[a] # TestWord(a)}
\* Wrong: the counter of the second loop stands still.
CheckStuck ==
  /\ block < DdrKb /\ Bad(block) = {} /\ Goes("check", "check", Progress(block))
  /\ UNCHANGED <<termVars, verify, block, word, ddr, leds, faults>>

Check ==
  /\ block < DdrKb /\ Bad(block) = {} /\ Goes("check", "check", Progress(block))
  /\ block' = block + 1 /\ UNCHANGED <<termVars, verify, word, ddr, leds, faults>>

CheckFails ==
  /\ block < DdrKb /\ Bad(block) # {}
  /\ Goes("check", "memfail", Puts(<<NL, "F", "a", "i", "l">>
                     \o Hex(4 * (CHOOSE a \in Bad(block) : \A b \in Bad(block) : a <= b), 8) \o <<NL>>))
  /\ UNCHANGED <<termVars, verify, block, word, ddr, leds, faults>>

TestPasses ==
  /\ block = DdrKb /\ Goes("check", "block", Puts(<<NL, "P", "a", "s", "s", NL>> \o Text(FALSE)))
  /\ StartCopy(FALSE) /\ UNCHANGED leds

LoaderCall ==
  \/ Boot \/ IdFails \/ IdPasses \/ BeginBlock \/ LoadWord \/ VerifyWord \/ VerifyFails
  \/ Loaded \/ Verified \/ TestStart \/ Fill \/ Filled \/ Check \/ CheckFails \/ TestPasses
BootNext == LoaderStep \/ LoaderCall
=============================================================================
