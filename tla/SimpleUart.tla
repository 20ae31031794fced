----------------------------- MODULE SimpleUart -----------------------------
(* fpga/simple_uart.v: a strobe of the CPU loads a frame, a divider shifts it *)
(* out, ready is a pulse when the stop bit is over.                           *)
EXTENDS Naturals

CONSTANTS
  UartDiv,   \* reload value of the divider (867)
  Char       \* bytes

ASSUME UartDivAssumption == UartDiv \in Nat \ {0}

FrameLen == 11     \* one bit of idle line, start, eight data bits, stop

VARIABLES
  counter,    \* the divider
  txCount,    \* bits still to come
  lastWstrb,
  uartReady,
  shiftReg,   \* [dat, shifted]: the frame loaded, and how far it has moved; the
              \* line shows bit number shifted, and is idle from 11 on
  held        \* history: clocks the line has shown that bit, up to UartDiv + 2

uartVars == <<counter, txCount, lastWstrb, uartReady, shiftReg, held>>

UartTypeOK ==
  /\ counter \in 0 .. UartDiv /\ txCount \in 0 .. FrameLen
  /\ lastWstrb \in BOOLEAN /\ uartReady \in BOOLEAN
  /\ shiftReg \in [dat : Char, shifted : 0 .. FrameLen]
  /\ held \in 0 .. UartDiv + 2

\* last_wstrb has no reset.
UartInit ==
  /\ counter = UartDiv /\ txCount = 0 /\ uartReady = FALSE
  /\ lastWstrb \in BOOLEAN
  /\ shiftReg \in [dat : Char, shifted : {FrameLen}] /\ held = 0

\* Mutant of Count: the frame is loaded without its length.
CountNoLength(wstrb, dat) ==
  /\ counter # 0 /\ counter' = counter - 1
  /\ lastWstrb' = wstrb /\ uartReady' = FALSE
  /\ shiftReg' = IF wstrb /\ ~lastWstrb THEN [dat |-> dat, shifted |-> 0] ELSE shiftReg
  /\ UNCHANGED txCount

\* Between two bits: only here is the edge of the strobe seen.
Count(wstrb, dat) ==
  /\ counter # 0 /\ counter' = counter - 1
  /\ lastWstrb' = wstrb /\ uartReady' = FALSE
  /\ IF wstrb /\ ~lastWstrb
     THEN shiftReg' = [dat |-> dat, shifted |-> 0] /\ txCount' = FrameLen
     ELSE UNCHANGED <<shiftReg, txCount>>

\* Mutant of Shift: ready one bit early.
ShiftReadyEarly ==
  /\ counter = 0 /\ counter' = UartDiv
  /\ shiftReg' = [shiftReg EXCEPT !.shifted = IF @ = FrameLen THEN @ ELSE @ + 1]
  /\ txCount' = IF txCount = 0 THEN 0 ELSE txCount - 1
  /\ uartReady' = (uartReady \/ txCount = 2)
  /\ UNCHANGED lastWstrb

\* Mutant of Shift: the count of bits is not stopped at zero.
ShiftWraps ==
  /\ counter = 0 /\ counter' = UartDiv
  /\ shiftReg' = [shiftReg EXCEPT !.shifted = IF @ = FrameLen THEN @ ELSE @ + 1]
  /\ txCount' = (txCount + 15) % 16
  /\ uartReady' = (uartReady \/ txCount = 1)
  /\ UNCHANGED lastWstrb

\* The next bit; ones are shifted in from the left.
Shift ==
  /\ counter = 0 /\ counter' = UartDiv
  /\ shiftReg' = [shiftReg EXCEPT !.shifted = IF @ = FrameLen THEN @ ELSE @ + 1]
  /\ txCount' = IF txCount = 0 THEN 0 ELSE txCount - 1
  /\ uartReady' = (uartReady \/ txCount = 1)
  /\ UNCHANGED lastWstrb

\* One rising clock edge.
UartEdge(wstrb, dat) ==
  /\ Count(wstrb, dat) \/ Shift
  /\ held' = IF shiftReg'.shifted # shiftReg.shifted THEN 1
             ELSE IF held = UartDiv + 2 THEN held ELSE held + 1
=============================================================================
