------------------------------- MODULE Library -------------------------------
(* The functions the firmware is built on, each called by the one program that *)
(* runs: the string functions, printf, the delays, the I2C master on its bus,  *)
(* and the capture of samples.  They share nothing, so a behaviour exercises   *)
(* one of them.                                                                *)
EXTENDS TimerDelay, I2cMaster, CString, PrintfC, SampleCapture

CONSTANTS
  StringCalls,  \* sets of [call, mem]
  PrintfCalls,  \* sets of [fct, max, parts, size]
  MaxUs, MaxMs, \* bounds of the delays
  I2cCalls      \* sequences of transfers [fn, adr, reg, data]

\* The calls are as C asks; memory is made of words, which the functions read whole.
ASSUME StringAssumption ==
  /\ MemSize \in Nat /\ MemSize % 4 = 0
  /\ \A C \in StringCalls : \A c \in C : Legal(c.call, c.mem)

ASSUME PrintfAssumption == \A C \in PrintfCalls : \A c \in C : c.max \in Nat /\ c.size \in Nat

VARIABLES
  caller,    \* the part of the library that is used
  transfer,  \* the I2C function that runs, or NoTransfer
  transfers, \* those still to be called
  script,    \* what is left of it
  known      \* history: transfers the device had taken when it was called

ownVars == <<caller, transfer, transfers, script, known>>
vars == <<timerVars, i2cVars, stringVars, printfVars, captureVars, ownVars>>

NoTransfer == [fn |-> "none"]
Unused(name) == caller # name

TimerUnused == Unused("delay") => TimerInit /\ tick = 0
I2cUnused == Unused("i2c") => I2cInit /\ scl = 1 /\ sda = 1 /\ transfers = <<>>
StringUnused == Unused("string") => CallString([fn |-> "none", p |-> 0, q |-> 0, n |-> 0], <<>>)
CaptureUnused == Unused("capture") => /\ CaptureInit /\ clock = 0
                                      /\ lastClk = FALSE /\ rdy = FALSE /\ ovfl = FALSE
PrintfUnused == Unused("printf") => Request("null", 0, <<>>, 0)

CallsString == caller = "string" => \E C \in StringCalls : \E c \in C : CallString(c.call, c.mem)
CallsPrintf == caller = "printf" => \E C \in PrintfCalls : \E c \in C : Request(c.fct, c.max, c.parts, c.size)
CallsDelay == caller = "delay" => TimerInit
CallsCapture == caller = "capture" => CaptureInit
CallsI2c == caller = "i2c" => I2cInit /\ transfers \in I2cCalls

Init ==
  /\ caller \in {"string", "printf", "delay", "i2c", "capture"}
  /\ TimerUnused /\ I2cUnused /\ StringUnused /\ PrintfUnused /\ CaptureUnused
  /\ CallsString /\ CallsPrintf /\ CallsDelay /\ CallsI2c /\ CallsCapture
  /\ transfer = NoTransfer /\ known = 0 /\ script = IF caller = "i2c" THEN I2cSetup ELSE <<>>

-----------------------------------------------------------------------------
(* Each caller makes its call and waits for the return.                       *)

StringRuns == StringStep /\ UNCHANGED <<timerVars, i2cVars, printfVars, captureVars, ownVars>>

PrintfRuns == /\ caller = "printf" /\ PrintfStep
              /\ UNCHANGED <<timerVars, i2cVars, stringVars, captureVars, ownVars>>

\* One delay, begun at any reading of the counter.
DelayCall == us = 0 /\ ((\E k \in 1 .. MaxUs : DelayUs(k)) \/ (\E k \in 1 .. MaxMs : DelayMs(k)))
DelayRuns == /\ caller = "delay" /\ (DelayCall \/ TimerRuns)
             /\ UNCHANGED <<i2cVars, stringVars, printfVars, captureVars, ownVars>>

CaptureRuns == /\ caller = "capture" /\ CaptureData
               /\ UNCHANGED <<timerVars, i2cVars, stringVars, printfVars, ownVars>>

Script(t) ==
  CASE t.fn = "write_reg_nr" -> I2cWriteRegNr(t.adr, t.reg)
    [] t.fn = "write_reg" -> I2cWriteReg(t.adr, t.reg, t.data[1])
    [] t.fn = "write_regs" -> I2cWriteRegs(t.adr, t.reg, t.data)
    [] t.fn = "read_reg" -> I2cReadReg(t.adr, t.reg)
    [] t.fn = "read_regs" -> I2cReadRegs(t.adr, t.reg, Len(t.data))

OtherVars == UNCHANGED <<timerVars, stringVars, printfVars, captureVars, caller>>

I2cCall ==
  /\ script = <<>> /\ transfers # <<>>
  /\ transfer' = Head(transfers) /\ transfers' = Tail(transfers)
  /\ script' = Script(Head(transfers)) /\ known' = Len(taken)
  /\ acked' = TRUE /\ rx' = <<>> /\ UNCHANGED <<scl, sda, device, taken>> /\ OtherVars

I2cWire ==
  /\ script # <<>> /\ Head(script)[1] \in I2cOps
  /\ I2cOp(Head(script)) /\ script' = I2cRest(script)
  /\ UNCHANGED <<transfer, transfers, known>> /\ OtherVars

I2cLog ==
  /\ script # <<>> /\ Head(script)[1] = "elog" /\ script' = Tail(script)
  /\ UNCHANGED <<i2cVars, transfer, transfers, known>> /\ OtherVars

Complete ==
  CASE caller = "string" -> ret # Running
    [] caller = "printf" -> stage = "done"
    [] caller = "delay" -> us # 0 /\ ~busy
    [] caller = "i2c" -> script = <<>> /\ transfers = <<>>
    [] caller = "capture" -> Captured
Completed == Complete /\ UNCHANGED vars

Loops == StringRuns \/ DelayRuns \/ CaptureRuns \/ I2cCall \/ I2cWire \/ I2cLog
Next == Loops \/ PrintfRuns \/ Completed

\* The CPU keeps running.  printf only walks down its format, so nothing is asked of it.
Spec == Init /\ [][Next]_vars /\ WF_vars(Loops)

-----------------------------------------------------------------------------
TypeOK ==
  /\ TimerTypeOK /\ CaptureTypeOK
  /\ DOMAIN mem \subseteq 0 .. MemSize - 1 /\ {p, n} \subseteq Nat
  /\ stage \in {"text", "flags", "width", "precision", "digits", "length", "specifier", "convert", "done"}
  /\ spec.width \in Nat /\ spec.precision \in Nat /\ idx \in Nat
  /\ {scl, sda} \subseteq {0, 1} /\ device.n \in 0 .. 9 /\ device.stretch \in 0 .. MaxStretch
  /\ acked \in BOOLEAN /\ known \in Nat

\* What a call may leave at the device, and what it may read.
Sends(t) == IF t.fn \in {"write_reg", "write_regs"} THEN <<t.reg>> \o t.data ELSE <<t.reg>>
Reads(t) == IF t.fn \in {"read_reg", "read_regs"} THEN Len(t.data) ELSE 0

ByteRead(k) == FoldSeq(LAMBDA b, v : 2 * v + b, 0, Reverse(SubSeq(rx, 8 * k - 7, 8 * k)))
New == SubSeq(taken, known + 1, Len(taken))

\* A transfer that reports success has arrived whole, and what it has read are the bytes
\* the device holds from that register on, however the device stretches the clock; one
\* that reports failure has left no more than its leading bytes; and both leave the lines
\* released, also after a byte was refused (i2c.c 38-258).
I2cDelivers ==
  caller = "i2c" /\ script = <<>> /\ transfer # NoTransfer =>
    /\ BusIdle
    /\ acked => /\ New = <<Sends(transfer)>> /\ Len(rx) = 8 * Reads(transfer)
                /\ \A k \in 1 .. Reads(transfer) : ByteRead(k) = DataByte(transfer.reg + k - 1)
    /\ Len(New) <= 1 /\ \A i \in DOMAIN New : IsPrefix(New[i], Sends(transfer))

\* Every string and every format is worked through to its end and writes what C says it
\* does (stdlib.c 31-195, printf.c 90-790).
CallsRight == StringsRight /\ ConversionsRight

\* Every call returns: a delay whichever way the counter wraps, a transfer as long as the
\* device lets go of the clock in the end, a capture when it has its samples
\* (pano_time.c 36-43, i2c.c 66-95, main.c 158-206).
Returns == <>(Complete \/ caller = "printf")
=============================================================================
