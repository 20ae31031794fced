------------------------------ MODULE SpiFlash ------------------------------
(* The serial flash as the boot loader uses it (bootloader.c 197-289): mode 3, *)
(* the commands 0x9f (identification) and 0x03 (read), and the pins the loader *)
(* drives through the GPIO registers (pano_top.v 564-566, 602-605).            *)
EXTENDS Naturals, Sequences

CONSTANTS
  FlashData,  \* the bytes from AppBase on
  AppBase,    \* 0xC0000
  FlashIds    \* the identifications a board may have

ASSUME FlashAssumption ==
  /\ \A a \in DOMAIN FlashData : FlashData[a] \in 0 .. 255
  /\ AppBase \in Nat /\ FlashIds \subseteq (0 .. 255) \X (0 .. 255) \X (0 .. 255)

VARIABLES
  csn, clk, mosi, miso,  \* the pins
  flashId,               \* identification of this board's chip
  clocks,                \* rising clock edges since the chip was selected
  head                   \* the first bits of the command, as a number

flashVars == <<csn, clk, mosi, miso, flashId, clocks, head>>

ReadId == 159
ReadData == 3

FlashInit ==
  /\ csn \in {0, 1} /\ clk \in {0, 1} /\ mosi = 0 /\ miso = 1
  /\ flashId \in FlashIds /\ clocks = 0 /\ head = 0

FlashByte(a) == IF a - AppBase \in DOMAIN FlashData THEN FlashData[a - AppBase] ELSE 255
BitOf(byte, k) == (byte \div 2 ^ (7 - k)) % 2      \* k = 0: the most significant bit

\* The bit that follows n rising edges; an unknown command leaves the line up.
Answer(n) ==
  IF head \div 2 ^ 24 = ReadData /\ n >= 32
  THEN BitOf(FlashByte((head % 2 ^ 24) + (n - 32) \div 8), (n - 32) % 8)
  ELSE IF head = ReadId /\ n \in 8 .. 31 THEN BitOf(flashId[(n - 8) \div 8 + 1], n % 8)
  ELSE 1

\* A command of 32 bits, unless the first eight ask for the identification.
Shifted == IF clocks < 32 /\ ~(clocks >= 8 /\ head = ReadId) THEN 2 * head + mosi ELSE head

Select(v) ==
  /\ csn' = v /\ clocks' = 0 /\ head' = 0
  /\ UNCHANGED <<clk, mosi, miso, flashId>>

Clock(v) ==
  /\ clk' = v
  /\ IF csn = 0 /\ clk = 0 /\ v = 1
     THEN clocks' = clocks + 1 /\ head' = Shifted /\ UNCHANGED miso
     ELSE UNCHANGED <<clocks, head>>
          /\ miso' = IF csn = 0 /\ clk = 1 /\ v = 0 THEN Answer(clocks) ELSE miso
  /\ UNCHANGED <<csn, mosi, flashId>>

Output(v) == mosi' = v /\ UNCHANGED <<csn, clk, miso, flashId, clocks, head>>
=============================================================================
