------------------------------ MODULE I2cMaster ------------------------------
(* The bit-banged I2C master (i2c.c) on the open-drain lines of the GPIO       *)
(* registers (pano_top.v 568-569, 584-585, 606-607), with one device.          *)
(* A function is the script of line operations it performs; a refused byte     *)
(* replaces what is left of the script by the way out.  The delays between the *)
(* operations let the device answer, so its reaction is part of each step.     *)
EXTENDS Integers, SequencesExt

CONSTANTS
  DeviceAddress,  \* its 8-bit write address
  DeviceData,     \* what it answers, from register 0 on
  MaxStretch      \* bound: polls for which it holds SCL low

\* The lowest bit of an address is left to the direction.
ASSUME DeviceAssumption ==
  DeviceAddress \in 0 .. 254 /\ DeviceAddress % 2 = 0 /\ MaxStretch \in Nat

VARIABLES
  scl, sda,  \* what the master drives; 1 lets the line float
  device,    \* the device: see Idle
  taken,     \* history: the transfers the device has taken, without the address
  acked,     \* no byte of this call has been refused
  rx         \* the bits that have been read

i2cVars == <<scl, sda, device, taken, acked, rx>>

\* on: addressed or about to be; n: clocks of this byte; byte: its bits so far;
\* bytes: taken since the start; sending: a read transfer; pull: SDA is held low;
\* stretch: polls for which SCL is held low.
Idle == [on |-> FALSE, n |-> 0, byte |-> 0, bytes |-> <<>>, sending |-> FALSE, pull |-> FALSE,
         stretch |-> 0]

I2cInit ==
  /\ scl \in {0, 1} /\ sda \in {0, 1} /\ device = Idle
  /\ taken = <<>> /\ acked = TRUE /\ rx = <<>>

Line(v, held) == IF v = 0 \/ held THEN 0 ELSE 1
SclLine == Line(scl, device.stretch > 0)
SdaLine == Line(sda, device.pull)

-----------------------------------------------------------------------------
(* The device.                                                                *)

Bit(byte, k) == (byte \div 2 ^ (7 - k)) % 2
DataByte(a) == IF a \in DOMAIN DeviceData THEN DeviceData[a] ELSE 255

\* The register a read continues from: the one the last write named.
Pointer == IF taken = <<>> \/ Last(taken) = <<>> THEN 0 ELSE Head(Last(taken))
PullsFor(k, n) == Bit(DataByte(Pointer + k), n) = 0   \* SDA is pulled for a 0
Addressed(d) == d.bytes # <<>>
SentBytes(d) == Len(d.bytes) - 1

Clocked(d) ==
  IF ~d.on THEN {d}
  ELSE IF d.sending /\ Addressed(d)
  THEN {[d EXCEPT !.n = @ + 1, !.stretch = k, !.on = d.n < 8 \/ SdaLine = 0] :
         k \in IF d.n < 8 THEN 0 .. MaxStretch ELSE {0}}
  ELSE {[d EXCEPT !.n = @ + 1, !.byte = IF d.n < 8 THEN 2 * @ + SdaLine ELSE @]}

\* The byte is acknowledged or not; an address only by the device it names.
Judged(d) ==
  LET mine == Addressed(d) \/ d.byte \div 2 = DeviceAddress \div 2
      taking == [d EXCEPT !.pull = TRUE, !.bytes = Append(@, d.byte),
                          !.sending = IF Addressed(d) THEN @ ELSE d.byte % 2 = 1]
  IN {[d EXCEPT !.on = FALSE]} \cup (IF mine THEN {taking} ELSE {})

Fallen(d) ==
  IF ~d.on THEN {[d EXCEPT !.pull = FALSE]}
  ELSE IF d.sending
  THEN CASE d.n = 9 -> {[d EXCEPT !.n = 0, !.byte = 0, !.pull = PullsFor(SentBytes(d), 0),
                                  !.bytes = Append(@, 0)]}
         [] d.n = 8 -> {[d EXCEPT !.pull = FALSE]}
         [] OTHER -> {[d EXCEPT !.pull = PullsFor(SentBytes(d) - 1, d.n)]}
  ELSE CASE d.n = 9 -> {[d EXCEPT !.n = 0, !.byte = 0, !.pull = FALSE]}
         [] d.n = 8 -> Judged(d)
         [] OTHER -> {d}

-----------------------------------------------------------------------------
(* The line operations.                                                       *)

SetScl(v) ==
  /\ scl' = v
  /\ device' \in (IF scl = 0 /\ v = 1 THEN Clocked(device)
                  ELSE IF scl = 1 /\ v = 0 THEN Fallen(device) ELSE {device})
  /\ UNCHANGED <<sda, taken, acked, rx>>

\* SDA moves while SCL is high: a start or a stop.
Started == device' = [Idle EXCEPT !.on = TRUE] /\ UNCHANGED taken
Stopped == /\ device' = Idle
           /\ taken' = IF Addressed(device) /\ ~device.sending
                       THEN Append(taken, Tail(device.bytes)) ELSE taken

SetSda(v) ==
  /\ sda' = v
  /\ CASE SclLine = 1 /\ SdaLine = 1 /\ v = 0 -> Started
       [] SclLine = 1 /\ SdaLine = 0 /\ v = 1 /\ ~device.pull -> Stopped
       [] OTHER -> UNCHANGED <<device, taken>>
  /\ UNCHANGED <<scl, acked, rx>>

GetSda == rx' = Append(rx, SdaLine) /\ UNCHANGED <<scl, sda, device, taken, acked>>

\* while(i2c_get_scl(Port) == 0): one poll.
Poll == /\ device' = [device EXCEPT !.stretch = IF @ > 0 THEN @ - 1 ELSE 0]
        /\ UNCHANGED <<scl, sda, taken, acked, rx>>

GetAck == acked' = (acked /\ SdaLine = 0) /\ UNCHANGED <<scl, sda, device, taken, rx>>

-----------------------------------------------------------------------------
(* The functions.                                                             *)

Scl(v) == <<"scl", v>>
Sda(v) == <<"sda", v>>
Repeat(ops, n) == FlattenSeq([i \in 1 .. n |-> ops])
Elog(text) == [i \in DOMAIN text |-> <<"elog", text[i]>>]

I2cSetup == <<Sda(1), Scl(1)>>
I2cStart == <<Sda(1), Scl(1), Sda(0), Scl(0)>>
I2cStop == <<Sda(0), Scl(1), Sda(1)>>

\* The acknowledge is sampled before its clock; refused is the way out.
AckClock == <<Scl(1), Scl(0)>>
I2cTx(d, refused) ==
  [i \in 1 .. 24 |-> IF i % 3 = 1 THEN Sda(Bit(d, i \div 3)) ELSE Scl((i % 3) \div 2)]
    \o <<Sda(1), <<"ack", AckClock \o refused>>>> \o AckClock

I2cRx(ack) ==
  <<Sda(1)>> \o Repeat(<<Scl(1), <<"poll">>, <<"bit">>, Scl(0)>>, 8)
    \o <<Sda(IF ack THEN 0 ELSE 1), Scl(1), Scl(0), Sda(1)>>

TxAll(data, refused) ==
  [i \in 1 .. 28 * Len(data) |-> I2cTx(data[((i - 1) \div 28) + 1], refused)[((i - 1) % 28) + 1]]

NoAckOnAdr == <<"n", "o", "A", "\n">>
NoDataByte == <<"n", "o", "D", "\n">>

I2cWriteBuf(adr, data) ==
  I2cStart \o I2cTx(adr, I2cStop \o Elog(NoAckOnAdr))
    \o TxAll(data, Elog(NoDataByte) \o I2cStop) \o I2cStop
\* Wrong: the last byte is acknowledged too.
I2cReadBufAckAll(adr, len) ==
  I2cStart \o I2cTx(adr + 1, I2cStop)
    \o FlattenSeq([i \in 1 .. len |-> I2cRx(TRUE)]) \o I2cStop
I2cReadBuf(adr, len) ==
  I2cStart \o I2cTx(adr + 1, I2cStop)
    \o FlattenSeq([i \in 1 .. len |-> I2cRx(i # len)]) \o I2cStop
I2cWriteRegNr(adr, reg) == I2cWriteBuf(adr, <<reg>>)
I2cWriteReg(adr, reg, value) == I2cWriteBuf(adr, <<reg, value>>)
I2cWriteRegs(adr, reg, values) ==
  I2cStart \o TxAll(<<adr, reg>> \o values, I2cStop) \o I2cStop
I2cReadReg(adr, reg) == I2cWriteBuf(adr, <<reg>>) \o I2cReadBuf(adr, 1)
I2cReadRegs(adr, reg, len) == I2cWriteBuf(adr, <<reg>>) \o I2cReadBuf(adr, len)

\* What an operation does, and what is left of the script after it.
I2cOp(op) ==
  CASE op[1] = "scl" -> SetScl(op[2])
    [] op[1] = "sda" -> SetSda(op[2])
    [] op[1] = "bit" -> GetSda
    [] op[1] = "poll" -> Poll
    [] op[1] = "ack" -> GetAck
I2cOps == {"scl", "sda", "bit", "poll", "ack"}

I2cRest(script) ==
  CASE Head(script)[1] = "ack" /\ SdaLine = 1 -> Head(script)[2]
    [] Head(script)[1] = "poll" /\ device.stretch > 0 -> script
    [] OTHER -> Tail(script)

-----------------------------------------------------------------------------
\* Nothing holds the lines: the next start is a start.
BusIdle == SclLine = 1 /\ SdaLine = 1 /\ device = Idle
=============================================================================
