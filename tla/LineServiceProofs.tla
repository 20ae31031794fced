--------------------------- MODULE LineServiceProofs ---------------------------
EXTENDS LineService, SequenceTheorems, TLAPS

(* LineService keeps its refresh ticks, the chip's protocol, the lines and the *)
(* line port, for every set of lines and contents, every refresh interval the  *)
(* assumption of MigController allows and every request of the cache.          *)
(*                                                                             *)
(* One invariant carries all of it: two clocks, k of the open row (0 .. 13)    *)
(* and m of the read (0 .. 17), determine every register. At(k) dates the row, *)
(* the bridge, the commands, the refresh request and the power-up sequence;    *)
(* ChipAt(k) the pins, the addresses, the open row, the burst and the ages of  *)
(* the commands; Whole(k, m) the cache side and the data on their way.         *)

-----------------------------------------------------------------------------
(* The clock of the row: 0 while every row is closed, then one more at every  *)
(* falling edge from ACTIVE on, 13 for a write and 10 for a read.             *)

Place(s, rfc, rp, rcd, wr, cas, burst) ==
  /\ state = s
  /\ count = [rfc |-> rfc, rp |-> rp, rp0 |-> TRUE, rcd |-> rcd, ras |-> rcd, wr |-> wr,
              cas |-> cas, burst |-> burst]

Resting == \/ Place("IDLE", 0, 0, 0, 0, 0, 0)
           \/ Place("AUTO_REFRESH", 0, 0, 0, 0, 0, 0)
           \/ \E n \in 0 .. RFC : Place("AUTO_REFRESH_WAIT", n, 0, 0, 0, 0, 0)

WriteRow(k) ==
  \/ k = 4 /\ Place("FIRST_WRITE", 0, 0, 0, 0, 0, 0)
  \/ k = 5 /\ Place("WRITE_WAIT", 0, 0, 0, 3, 0, 2)
  \/ k = 6 /\ Place("PRECHARGE_AFTER_WRITE", 0, 0, 0, 3, 0, 1)
  \/ k \in 7 .. 10 /\ Place("PRECHARGE_AFTER_WRITE_2", 0, 0, 0, 10 - k, 0, 0)
  \/ k = 11 /\ Place("PRECHARGE", 0, 0, 0, 0, 0, 0)
  \/ k \in 12 .. 13 /\ Place("PRECHARGE_WAIT", 0, 13 - k, 0, 0, 0, 0)

ReadRow(k) ==
  \/ k = 4 /\ Place("BURST_READ", 0, 0, 0, 0, 0, 0)
  \/ k = 5 /\ Place("READ_WAIT", 0, 0, 0, 0, 1, 0)
  \/ k = 6 /\ Place("PRECHARGE_AFTER_WRITE", 0, 0, 0, 0, 0, 0)
  \/ k = 7 /\ Place("PRECHARGE_AFTER_WRITE_2", 0, 0, 0, 0, 0, 0)
  \/ k = 8 /\ Place("PRECHARGE", 0, 0, 0, 0, 0, 0)
  \/ k \in 9 .. 10 /\ Place("PRECHARGE_WAIT", 0, 10 - k, 0, 0, 0, 0)

RowEnd == IF writeCmd1 THEN 13 ELSE 10
RowAt(k) ==
  \/ k = 0 /\ Resting
  \/ k = 1 /\ Place("ACTIVE", 0, 0, 0, 0, 0, 0)
  \/ k \in 2 .. 3 /\ Place("ACTIVE_WAIT", 0, 0, 4 - k, 0, 0, 0)
  \/ IF writeCmd1 THEN WriteRow(k) ELSE ReadRow(k)

\* The bridge counts its clocks to burst_done in step with the row.
Asking == bridgeState \in {"WRITE_CMD", "READ_CMD"}
BridgeAt(k) ==
  /\ k \in 1 .. 3 => /\ bridgeState = IF writeCmd1 THEN "WRITE_WAIT" ELSE "READ_WAIT_1"
                     /\ waitCounter = 4 - k /\ ~burstDone
                     /\ userCmd = IF writeCmd1 THEN "WRITE" ELSE "READ"
  /\ k \in 4 .. 5 => /\ bridgeState = IF writeCmd1 THEN "WRITE_DONE" ELSE "READ_WAIT_2"
                     /\ waitCounter = 6 - k /\ burstDone
  /\ k \notin 1 .. 5 => /\ bridgeState \notin {"WRITE_WAIT", "READ_WAIT_1", "WRITE_DONE"}
                        /\ ~burstDone
                        /\ bridgeState = "READ_WAIT_2" => waitCounter = 1
  /\ burstEnd <=> k \in {5, 6}
  /\ Asking => k = 0 /\ userCmd = IF bridgeState = "WRITE_CMD" THEN "WRITE" ELSE "READ"
  /\ userCmd \in {"WRITE", "READ"} => Asking \/ k \in 1 .. 4

\* A command is opening its row, has opened it, or is over and not yet forgotten.
Opening ==
  /\ Asking /\ state = "IDLE" /\ cmdAck
  /\ writeCmd1 <=> bridgeState = "WRITE_CMD"
  /\ readCmd1 <=> bridgeState = "READ_CMD"
CommandAt(k) ==
  /\ ~(writeCmd1 /\ readCmd1)
  /\ k # 0 => writeCmd1 \/ readCmd1
  /\ goToActive => k \in 1 .. 2 \/ Opening
  /\ Asking => (Opening /\ goToActive) \/ ~(writeCmd1 \/ readCmd1 \/ goToActive \/ cmdAck)
  /\ writeCmd1 \/ readCmd1 => cmdAck
  /\ accept => k = 1 \/ (k = 0 /\ state = "IDLE")

\* A request for a refresh is three clocks older than the order, and as old as the
\* counter shows; the order comes before the counter is round.
RequestAt(k) ==
  /\ refresh.count \in 0 .. MaxRefCnt + 1
  /\ refresh.value <=> refresh.count = MaxRefCnt + 1
  /\ refresh.detect => initDone /\ refresh.count = 0 /\ (boot.mem => boot.count5 <= 5)
  /\ refresh.ref1 => initDone /\ refresh.count = 1 /\ (boot.mem => boot.count5 <= 4)
  /\ refresh.wait1 <=> autoRefReq /\ refresh.count >= 3
  /\ refresh.wait2 <=> autoRefReq /\ refresh.count >= 4
  /\ refresh.ref <=> autoRefReq /\ refresh.count >= 5
  /\ autoRefReq =>
       /\ refresh.count >= 2
       /\ accept => refresh.count = 2
       /\ goToActive /\ k = 0 => refresh.count <= 3
       /\ k # 0 => refresh.count <= k + 3
       /\ state = "IDLE" => IF boot.mem THEN refresh.count + boot.count5 <= 5
                            ELSE IF refresh.rfcOver THEN refresh.count <= 6 ELSE refresh.count <= 5
       /\ state = "AUTO_REFRESH" => refresh.count <= 17

RefreshAt ==
  /\ state = "AUTO_REFRESH" => autoRefReq /\ refresh.ref /\ refresh.rfcOver
  /\ state = "AUTO_REFRESH_WAIT" => ~autoRefReq /\ refresh.count \in 3 .. 25 - count.rfc
  /\ refresh.issued <=> state = "AUTO_REFRESH_WAIT" /\ count.rfc = RFC
  /\ refresh.doneReg <=> state = "AUTO_REFRESH_WAIT" /\ count.rfc = 1
  /\ refresh.rfcOver => initDone /\ ~boot.mem
  /\ state = "AUTO_REFRESH_WAIT" /\ count.rfc = 0 => refresh.rfcOver
  /\ state \notin {"IDLE", "AUTO_REFRESH_WAIT"} \/ accept \/ goToActive => refresh.rfcOver

\* The initialisation: nothing else moves before it is over.
BootInv ==
  /\ boot.count \in 0 .. InitDoneCount /\ boot.count5 \in 0 .. RFC
  /\ rst180 <=> bridgeState = "STARTUP"
  /\ rst180 => userCmd = "NOP" /\ ~boot.mem /\ boot.count = 0 /\ boot.count5 = 0
  /\ userCmd = "INIT" => bridgeState = "WAIT_INIT" /\ boot.count = 0 /\ boot.count5 = 0
  /\ initDone => boot.count = InitDoneCount /\ bridgeState # "STARTUP"
  /\ ~initDone => bridgeState \in {"STARTUP", "WAIT_INIT"} /\ ~autoRefReq
  /\ boot.count = InitDoneCount /\ ~initDone => boot.mem /\ boot.count5 = RFC
  /\ boot.mem /\ initDone => boot.count5 \in 1 .. RFC - 1
  /\ boot.state # "IDLE" => boot.count < InitDoneCount
  /\ boot.memory /\ boot.count < InitDoneCount => boot.mem
  /\ ~initDone \/ boot.mem => state = "IDLE"
  /\ ~boot.mem => boot.count \in {0, InitDoneCount}

Registers ==
  /\ writeCmd1 \in BOOLEAN /\ readCmd1 \in BOOLEAN /\ goToActive \in BOOLEAN /\ accept \in BOOLEAN
  /\ cmdAck \in BOOLEAN /\ burstDone \in BOOLEAN /\ burstEnd \in BOOLEAN /\ autoRefReq \in BOOLEAN
  /\ initDone \in BOOLEAN /\ boot.mem \in BOOLEAN /\ rst180 \in BOOLEAN

At(k) == RowAt(k) /\ BridgeAt(k) /\ CommandAt(k) /\ RequestAt(k) /\ RefreshAt /\ BootInv /\ Registers
Timetable == \E k \in 0 .. 13 : At(k)

-----------------------------------------------------------------------------
(* The pins, the chip and its clock.                                          *)

BootSent(c, n) == boot.count5 = c /\ boot.count \in n
RefreshClock(n) == state = "AUTO_REFRESH_WAIT" /\ count.rfc = n

\* A command reaches its registers and the pins one and two clocks after its state.
Shows(command, k, d) ==
  /\ command \in ChipCommand
  /\ command = "ACT" <=> k = 1 + d
  /\ command = "WR"  <=> k = 4 + d /\ writeCmd1
  /\ command = "RD"  <=> k = 4 + d /\ ~writeCmd1
  /\ command = "PRE" <=> k = RowEnd - 2 + d \/ BootSent(8 - d, {1})
  /\ command = "REF" <=> RefreshClock(8 - d) \/ BootSent(8 - d, {2, 3})
  /\ command = "MRS" <=> BootSent(8 - d, {4, 5})
PinsAt(k) == Shows(cmd2, k, 1) /\ Shows(pin, k, 2)

\* The commands of the initialisation, from the end of one pause to the next.
BootClock ==
  /\ boot.state \in {"IDLE", "PRECHARGE", "AUTO_REFRESH", "LOAD_MODE_REG"}
  /\ boot.state = "PRECHARGE" => boot.count = 0
  /\ boot.state = "AUTO_REFRESH" => boot.count \in {1, 2}
  /\ boot.state = "LOAD_MODE_REG" => boot.count \in {3, 4}
  /\ boot.state # "IDLE" => boot.memory /\ boot.count5 = 0
  /\ boot.count = 0 \/ ~boot.mem => boot.count5 = 0
  /\ boot.memory \in BOOLEAN

\* The line address reaches the pins with the command that opens its row.
Split(a) == [bank |-> a.bank, row |-> a.row, col |-> a.col]
AddressAt(k) ==
  /\ userAddr = taken.addr /\ userAddr \in LineAddr
  /\ Asking /\ cmdAck => adr1 = userAddr
  /\ k # 0 => adr1 = userAddr /\ adr2 = userAddr /\ adr.row = userAddr.row
  /\ k >= 2 => adr = Split(userAddr)
  /\ k >= 3 => pinAdr = Split(userAddr)
  /\ Asking => (taken.wr <=> bridgeState = "WRITE_CMD")
  /\ k # 0 => (taken.wr <=> writeCmd1)
  /\ taken.wr \in BOOLEAN

\* The row is open from the clock after ACTIVE, and used from the one after the burst.
OpenAt(k) ==
  /\ chip.open = IF (IF edge = "rise" THEN k \in 4 .. 13 ELSE k \in 3 .. RowEnd - 1)
                 THEN {Row(taken.addr)} ELSE {}
  /\ (IF edge = "rise" THEN k \in 4 .. 6 ELSE k \in 3 .. 5) => ~chip.used
  /\ (IF edge = "rise" THEN k \in 7 .. 13 ELSE k \in 6 .. 12) => chip.used

\* The chip takes the line for two clocks, from the second after the command.
BurstAt(k) ==
  /\ chip.wr.left = IF ~writeCmd1 \/ k \notin 6 .. 8 \/ (k = 6 /\ edge = "rise") THEN 0 ELSE 9 - k
  /\ chip.wr.left # 0 => chip.wr.lines = {taken.addr}

\* How long ago a command has been on the pins, at least.
Aged(c, n) == chip.since[c] >= IF edge = "rise" THEN n ELSE IF pin = c THEN 1 ELSE n + 1
BootAge == IF boot.count5 <= 5 THEN 6 - boot.count5 ELSE IF boot.count5 = 7 THEN 7 ELSE 8
ActAge(k)  == IF k \in 4 .. 11 THEN k - 3 ELSE 8
ReadAge(k) == IF k \in 7 .. 10 /\ ~writeCmd1 THEN k - 6 ELSE 2
DataAge(k) == IF k \in 8 .. 10 /\ writeCmd1 THEN (IF k = 10 THEN 1 ELSE 0) ELSE 2
PreAge(k)  == IF boot.mem \/ ~initDone THEN BootAge
              ELSE IF k = 0 /\ state # "AUTO_REFRESH_WAIT" THEN 1 ELSE 2
RefAge     == IF state = "AUTO_REFRESH_WAIT" /\ count.rfc <= 5 THEN 6 - count.rfc
              ELSE IF state = "IDLE" THEN BootAge ELSE 7
AgesAt(k) ==
  /\ chip.since \in [ChipCommand \cup {"DATA"} -> 0 .. Horizon]
  /\ Aged("ACT", ActAge(k)) /\ Aged("RD", ReadAge(k)) /\ Aged("DATA", DataAge(k))
  /\ Aged("PRE", PreAge(k)) /\ Aged("MRS", BootAge) /\ Aged("REF", RefAge)

Inputs == memAddr \in LineAddr /\ memWstrb \in BOOLEAN /\ edge \in {"rise", "quarter", "fall"}
ChipAt(k) ==
  /\ At(k) /\ BootClock /\ PinsAt(k) /\ AddressAt(k) /\ OpenAt(k) /\ BurstAt(k) /\ AgesAt(k) /\ Inputs
ChipSchedule == \E k \in 0 .. 13 : ChipAt(k)

-----------------------------------------------------------------------------
(* The data.                                                                  *)

\* Edges of the 90 degree clock, and rising edges, since clock k began.
Quarters(k) == IF edge = "fall" \/ k = 0 THEN k ELSE k - 1
Rises(k) == IF edge = "rise" /\ k # 0 THEN k - 1 ELSE k

Line == store[taken.addr]

\* The read clock goes on when the row is closed, until the line has arrived.
ReadClock(k, m) ==
  /\ k # 0 => m = IF writeCmd1 THEN 0 ELSE k
  /\ k = 0 => m = 0 \/ m \in 11 .. 17
  /\ m \in 6 .. 15 => bridgeState = "READ_WAIT_2"
  /\ m = 16 <=> bridgeState = "READ_DONE"
  /\ m = 17 => bridgeState = "WAIT"
  /\ bridgeState = "READ_WAIT_2" => m \in 4 .. 15
  /\ m # 0 => ~taken.wr

\* The cache holds its request until it is answered, then drops it.
Serving == bridgeState \notin {"STARTUP", "WAIT_INIT", "IDLE", "WAIT_REFRESH", "WAIT"}
CacheAt ==
  /\ memValid \in BOOLEAN /\ memReady \in BOOLEAN /\ readyInt \in BOOLEAN
  /\ held \in 0 .. 2 /\ memWdata \in Lines
  /\ Serving => /\ memValid /\ held = 0 /\ ~memReady /\ ~readyInt
                /\ taken.addr = memAddr /\ (taken.wr <=> memWstrb)
  /\ readyInt => bridgeState = "WAIT" /\ memValid /\ held = 0 /\ (memReady <=> edge # "rise")
  /\ memReady => bridgeState = "WAIT" /\ memValid /\ held = 0 /\ (readyInt <=> edge # "rise")
  /\ held # 0 => bridgeState = "WAIT" /\ memValid /\ ~memWstrb /\ ~memReady /\ ~readyInt
  /\ bridgeState = "WAIT" /\ memValid /\ held = 0 => readyInt \/ memReady
  /\ edge = "rise" /\ bridgeState = "WAIT" => memValid
  /\ ~initDone => ~memValid
  /\ bridgeState \in BridgeState /\ waitCounter \in 0 .. 3 /\ userCmd \in Command

DataAt(k, m) ==
  IF k = 0 /\ goToActive /\ edge # "rise"
  THEN /\ dataState = IF bridgeState = "WRITE_CMD" THEN "WRITE" ELSE "READ_WAIT"
       /\ bridgeState = "WRITE_CMD" => inputInt = memWdata.hi /\ (edge = "fall" => userInput = inputInt)
  ELSE IF writeCmd1 /\ k \in 1 .. 5
  THEN IF Rises(k) = 0 THEN dataState = "WRITE" /\ inputInt = memWdata.hi /\ userInput = inputInt
                       ELSE dataState = "WAIT"
  ELSE IF m # 0
  THEN dataState = IF Rises(m) <= 15 THEN "READ_WAIT" ELSE IF Rises(m) = 16 THEN "READ" ELSE "WAIT"
  ELSE /\ dataState \in {"IDLE", "WAIT"}
       /\ Asking \/ ~initDone \/ (~cmdAck /\ edge # "rise") => dataState = "IDLE"

\* The two halves of a line on their way to the pins, q edges of the 90 degree clock on.
DriversAt(k, q) ==
  /\ strobe.write \in BOOLEAN /\ (strobe.write <=> writeCmd1 /\ k \in 5 .. 6)
  /\ wePipe \in [1 .. 3 -> BOOLEAN] /\ wdPipe \in [1 .. 7 -> Halves]
  /\ inputInt \in Halves /\ userInput \in Halves
  /\ \A i \in 1 .. 3 : wePipe[i] <=> writeCmd1 /\ q \in {4 + i, 5 + i}
HalvesAt(q) ==
  /\ inputInt = Line.lo
  /\ userInput = IF q = 0 THEN Line.hi ELSE Line.lo
  /\ \A i \in 1 .. 7 : (i = q => wdPipe[i] = Line.hi) /\ (i < q => wdPipe[i] = Line.lo)
WriteAt(k) ==
  /\ DriversAt(k, Quarters(k))
  /\ writeCmd1 /\ k \in 1 .. 8 /\ Rises(k) # 0 => HalvesAt(Quarters(k))

MemoryAt(k) ==
  /\ chip.mem \in [LineAddr -> Block] /\ store \in [LineAddr -> Lines]
  /\ \A l \in LineAddr : chip.mem[l] = store[l] \/ (l = taken.addr /\ writeCmd1 /\ k \in 1 .. 8)
  /\ writeCmd1 /\ k = 8 => chip.mem[taken.addr].hi = Line.hi

\* The enables of the read FIFO, the burst of the chip and the two halves of a line
\* on their way to the bridge.
EnablesAt(m) ==
  /\ strobe.cas = IF m \in 6 .. 7 THEN 8 - m ELSE 0
  /\ strobe.left = IF m \in 8 .. 9 THEN 10 - m ELSE 0
  /\ strobe.div <=> m \in 8 .. 9
  /\ strobe.r2 <=> m \in 9 .. 10
  /\ strobe.rden <=> m \in 10 .. 11
  /\ strobe.div \in BOOLEAN /\ strobe.r2 \in BOOLEAN /\ strobe.rden \in BOOLEAN
OutputAt(q) ==
  /\ rdPipe \in [1 .. 5 -> BOOLEAN] /\ dataValid \in BOOLEAN
  /\ \A i \in 1 .. 5 : rdPipe[i] <=> q \in {9 + i, 10 + i}
  /\ dataValid <=> q \in {15, 16}
  /\ outputData \in Halves
  /\ q = 15 => outputData = Line.hi
  /\ q = 16 => outputData = Line.lo
FifoAt(r, q) ==
  /\ chip.rd.left = IF r \in 6 .. 10 THEN 11 - r ELSE 0
  /\ chip.rd.left # 0 => chip.rd.lines = {taken.addr}
  /\ fifo = IF r < 10 THEN << >>
            ELSE IF r = 10 THEN <<Line.hi>>
            ELSE IF q <= 14 THEN <<Line.hi, Line.lo>>
            ELSE IF q = 15 THEN <<Line.lo>> ELSE << >>
BufferAt(r) == rdBuffer \in Block /\ (r = 16 => rdBuffer.hi = Line.hi)
ReadAt(m) ==
  /\ EnablesAt(m) /\ OutputAt(Quarters(m)) /\ FifoAt(Rises(m), Quarters(m)) /\ BufferAt(Rises(m))

Whole(k, m) ==
  /\ ChipAt(k) /\ ReadClock(k, m) /\ CacheAt /\ DataAt(k, m) /\ WriteAt(k) /\ MemoryAt(k) /\ ReadAt(m)
WholeInv == \E k \in 0 .. 13, m \in 0 .. 17 : Whole(k, m)

-----------------------------------------------------------------------------
(* One falling edge of the controller.                                        *)

NextClock(k) == IF k = 0 THEN (IF goToActive THEN 1 ELSE 0) ELSE IF k = RowEnd THEN 0 ELSE k + 1

\* The controller after its reset: every register takes its next value.
Clocked ==
  /\ state' = NextState
  /\ CommandEdge /\ CountEdge /\ RefreshEdge /\ BootEdge

\* The direction of a command is fixed while its row is open; the next one opens with its acknowledge.
LEMMA Commands ==
  ASSUME NEW k \in 0 .. 13, At(k), Clocked
  PROVE  /\ k # 0 => writeCmd1' = writeCmd1 /\ readCmd1' = readCmd1
         /\ k = 0 /\ goToActive => writeCmd1' = writeCmd1 /\ readCmd1' = readCmd1
         /\ goToActive' <=> (accept /\ userCmd \in {"WRITE", "READ"})
         /\ writeCmd1' \in BOOLEAN /\ readCmd1' \in BOOLEAN /\ goToActive' \in BOOLEAN
<1>1. /\ accept' = CanAccept
      /\ writeCmd1' = IF accept THEN WriteCmdIn ELSE writeCmd1
      /\ readCmd1' = IF accept THEN ReadCmd ELSE readCmd1
      /\ goToActive' = (WriteCmdIn \/ ReadCmd)
  BY DEF Clocked, CommandEdge
<1>2. writeCmd1 \in BOOLEAN /\ readCmd1 \in BOOLEAN
  BY DEF At, Registers
<1>3. k # 0 /\ accept => k = 1
  BY DEF At, CommandAt
<1>4. k = 1 => (userCmd = "WRITE" <=> writeCmd1) /\ (userCmd = "READ" <=> readCmd1)
  BY DEF At, CommandAt, BridgeAt
<1>5. k = 0 /\ goToActive => (userCmd = "WRITE" <=> writeCmd1) /\ (userCmd = "READ" <=> readCmd1)
  <2>1. SUFFICES ASSUME k = 0, goToActive
                 PROVE  (userCmd = "WRITE" <=> writeCmd1) /\ (userCmd = "READ" <=> readCmd1)
    OBVIOUS
  <2>2. Opening
    BY <2>1 DEF At, CommandAt
  <2>3. userCmd = IF bridgeState = "WRITE_CMD" THEN "WRITE" ELSE "READ"
    BY <2>2 DEF At, BridgeAt, Opening
  <2> QED BY <2>2, <2>3 DEF Opening, Asking
<1> QED BY <1>1, <1>2, <1>3, <1>4, <1>5 DEF WriteCmdIn, ReadCmd

\* What one clock does to each counter of the row, and where the bursts end.
LEMMA Counting ==
  ASSUME NEW s, NEW rfc \in Nat, NEW rp \in 0 .. 1, NEW rcd \in Nat, NEW wr \in Nat, NEW cas \in Nat,
         NEW burst \in Nat, Place(s, rfc, rp, rcd, wr, cas, burst), CountEdge
  PROVE  count' = [rfc |-> Load(s = "AUTO_REFRESH", 7, rfc), rp |-> Load(s = "PRECHARGE", 1, rp), rp0 |-> TRUE,
                   rcd |-> Load(s = "ACTIVE", 2, rcd), ras |-> Load(s = "ACTIVE", 2, rcd),
                   wr |-> Load(s \in {"FIRST_WRITE", "BURST_WRITE"} \/ burst # 0, 3, wr),
                   cas |-> Load(s = "BURST_READ", 1, cas),
                   burst |-> Load(s \in {"FIRST_WRITE", "BURST_WRITE"}, 2, burst)]
<1>1. state = s /\ count.rfc = rfc /\ count.rp = rp /\ count.rcd = rcd /\ count.ras = rcd
      /\ count.wr = wr /\ count.cas = cas /\ count.burst = burst
  BY DEF Place
<1>2. RAS - 1 = 2 /\ BurstCntMax = 2 /\ BurstCntMax - 1 = 1 /\ RFC = 7 /\ RP = 1
  BY DEF RAS, BurstCntMax, RFC, RP
<1>3. (~(count.rp > 1)) = TRUE
  BY <1>1
<1>4. Writing <=> s \in {"FIRST_WRITE", "BURST_WRITE"}
  BY <1>1 DEF Writing
<1>5. count' = [rfc   |-> Load(state = "AUTO_REFRESH", RFC, count.rfc),
        rp    |-> Load(state = "PRECHARGE", RP, count.rp),
        rp0   |-> ~(count.rp > 1),
        rcd   |-> Load(state = "ACTIVE", 2, count.rcd),
        ras   |-> Load(state = "ACTIVE", RAS - 1, count.ras),
        wr    |-> Load(Writing \/ count.burst # 0, 3, count.wr),
        cas   |-> Load(state = "BURST_READ", BurstCntMax - 1, count.cas),
        burst |-> Load(Writing, BurstCntMax, count.burst)]
  BY DEF CountEdge
<1>6. Load(Writing \/ count.burst # 0, 3, count.wr) = Load(s \in {"FIRST_WRITE", "BURST_WRITE"} \/ burst # 0, 3, wr)
      /\ Load(Writing, BurstCntMax, count.burst) = Load(s \in {"FIRST_WRITE", "BURST_WRITE"}, 2, burst)
  BY <1>1, <1>2, <1>4 DEF Load
<1>7. count' = [rfc   |-> Load(state = "AUTO_REFRESH", RFC, count.rfc),
        rp    |-> Load(state = "PRECHARGE", RP, count.rp),
        rp0   |-> TRUE,
        rcd   |-> Load(state = "ACTIVE", 2, count.rcd),
        ras   |-> Load(state = "ACTIVE", RAS - 1, count.ras),
        wr    |-> Load(s \in {"FIRST_WRITE", "BURST_WRITE"} \/ burst # 0, 3, wr),
        cas   |-> Load(state = "BURST_READ", BurstCntMax - 1, count.cas),
        burst |-> Load(s \in {"FIRST_WRITE", "BURST_WRITE"}, 2, burst)]
  BY <1>3, <1>5, <1>6
<1> QED BY <1>1, <1>2, <1>7

\* The next state of the row machine, state by state.
LEMMA NextStates ==
  /\ state = "IDLE" => NextState = IF boot.mem THEN "IDLE"
                                   ELSE IF refresh.ref /\ refresh.rfcOver /\ count.rp = 0 THEN "AUTO_REFRESH"
                                   ELSE IF goToActive THEN "ACTIVE" ELSE "IDLE"
  /\ state = "AUTO_REFRESH" => NextState = "AUTO_REFRESH_WAIT"
  /\ state = "AUTO_REFRESH_WAIT" => NextState = IF count.rfc = 0 THEN "IDLE" ELSE state
  /\ state = "ACTIVE" => NextState = "ACTIVE_WAIT"
  /\ state = "ACTIVE_WAIT" => NextState = IF count.rcd = 1 /\ writeCmd1 THEN "FIRST_WRITE"
                                          ELSE IF count.rcd = 1 /\ readCmd1 THEN "BURST_READ" ELSE state
  /\ state = "FIRST_WRITE" => NextState = "WRITE_WAIT"
  /\ state = "WRITE_WAIT" => NextState = IF burstEnd THEN "PRECHARGE_AFTER_WRITE"
                                         ELSE IF count.burst = 2 THEN "BURST_WRITE" ELSE state
  /\ state = "BURST_READ" => NextState = "READ_WAIT"
  /\ state = "READ_WAIT" => NextState = IF burstEnd THEN "PRECHARGE_AFTER_WRITE"
                                        ELSE IF count.cas <= 1 THEN "BURST_READ" ELSE state
  /\ state = "PRECHARGE_AFTER_WRITE" => NextState = "PRECHARGE_AFTER_WRITE_2"
  /\ state = "PRECHARGE_AFTER_WRITE_2" => NextState = IF count.wr = 0 /\ count.ras = 0 THEN "PRECHARGE" ELSE state
  /\ state = "PRECHARGE" => NextState = "PRECHARGE_WAIT"
  /\ state = "PRECHARGE_WAIT" => NextState = IF count.rp # 0 THEN "PRECHARGE_WAIT"
                                             ELSE IF refresh.ref THEN "AUTO_REFRESH"
                                             ELSE IF goToActive THEN "ACTIVE" ELSE "IDLE"
BY DEF NextState, Writing

\* The row moves with its clock: k goes to the next value and the row to its place there.
LEMMA RowStep ==
  ASSUME NEW k \in 0 .. 13, At(k), Clocked, NEW j, j = NextClock(k)
  PROVE  RowAt(j)' /\ j \in 0 .. 13
<1>1. state' = NextState /\ CountEdge
  BY DEF Clocked
<1>2. /\ k # 0 \/ goToActive => writeCmd1' = writeCmd1
      /\ k # 0 => writeCmd1 \/ readCmd1
      /\ burstEnd <=> k \in {5, 6}
      /\ k # 0 => (readCmd1 <=> ~writeCmd1)
  BY Commands DEF At, CommandAt, BridgeAt
<1>3. k > 2 => ~goToActive
  BY DEF At, CommandAt, BridgeAt, Opening
<1>4. CASE k = 1 /\ Place("ACTIVE", 0, 0, 0, 0, 0, 0)
  <2>1. Place("ACTIVE_WAIT", 0, 0, 2, 0, 0, 0)'
    BY <1>1, <1>2, <1>4, Counting, NextStates DEF Place, Load
  <2>2. j = 2
    BY <1>4 DEF NextClock, RowEnd
  <2> QED BY <1>2, <1>4, <2>1, <2>2 DEF RowAt
<1>5. CASE k = 2 /\ Place("ACTIVE_WAIT", 0, 0, 2, 0, 0, 0)
  <2>1. Place("ACTIVE_WAIT", 0, 0, 1, 0, 0, 0)'
    BY <1>1, <1>2, <1>5, Counting, NextStates DEF Place, Load
  <2>2. j = 3
    BY <1>5 DEF NextClock, RowEnd
  <2> QED BY <1>2, <1>5, <2>1, <2>2 DEF RowAt
<1>6. CASE k = 3 /\ writeCmd1 /\ Place("ACTIVE_WAIT", 0, 0, 1, 0, 0, 0)
  <2>1. Place("FIRST_WRITE", 0, 0, 0, 0, 0, 0)'
    BY <1>1, <1>2, <1>6, Counting, NextStates DEF Place, Load
  <2>2. j = 4
    BY <1>6 DEF NextClock, RowEnd
  <2> QED BY <1>2, <1>6, <2>1, <2>2 DEF RowAt, WriteRow
<1>7. CASE k = 3 /\ ~writeCmd1 /\ Place("ACTIVE_WAIT", 0, 0, 1, 0, 0, 0)
  <2>1. Place("BURST_READ", 0, 0, 0, 0, 0, 0)'
    BY <1>1, <1>2, <1>7, Counting, NextStates DEF Place, Load
  <2>2. j = 4
    BY <1>7 DEF NextClock, RowEnd
  <2> QED BY <1>2, <1>7, <2>1, <2>2 DEF RowAt, ReadRow
<1>8. CASE k = 4 /\ writeCmd1 /\ Place("FIRST_WRITE", 0, 0, 0, 0, 0, 0)
  <2>1. Place("WRITE_WAIT", 0, 0, 0, 3, 0, 2)'
    BY <1>1, <1>2, <1>8, Counting, NextStates DEF Place, Load
  <2>2. j = 5
    BY <1>8 DEF NextClock, RowEnd
  <2> QED BY <1>2, <1>8, <2>1, <2>2 DEF RowAt, WriteRow
<1>9. CASE k = 5 /\ writeCmd1 /\ Place("WRITE_WAIT", 0, 0, 0, 3, 0, 2)
  <2>1. Place("PRECHARGE_AFTER_WRITE", 0, 0, 0, 3, 0, 1)'
    BY <1>1, <1>2, <1>9, Counting, NextStates DEF Place, Load
  <2>2. j = 6
    BY <1>9 DEF NextClock, RowEnd
  <2> QED BY <1>2, <1>9, <2>1, <2>2 DEF RowAt, WriteRow
<1>10. CASE k = 6 /\ writeCmd1 /\ Place("PRECHARGE_AFTER_WRITE", 0, 0, 0, 3, 0, 1)
  <2>1. Place("PRECHARGE_AFTER_WRITE_2", 0, 0, 0, 3, 0, 0)'
    BY <1>1, <1>2, <1>10, Counting, NextStates DEF Place, Load
  <2>2. j = 7
    BY <1>10 DEF NextClock, RowEnd
  <2> QED BY <1>2, <1>10, <2>1, <2>2 DEF RowAt, WriteRow
<1>11. CASE k = 7 /\ writeCmd1 /\ Place("PRECHARGE_AFTER_WRITE_2", 0, 0, 0, 3, 0, 0)
  <2>1. Place("PRECHARGE_AFTER_WRITE_2", 0, 0, 0, 2, 0, 0)'
    BY <1>1, <1>2, <1>11, Counting, NextStates DEF Place, Load
  <2>2. j = 8
    BY <1>11 DEF NextClock, RowEnd
  <2> QED BY <1>2, <1>11, <2>1, <2>2 DEF RowAt, WriteRow
<1>12. CASE k = 8 /\ writeCmd1 /\ Place("PRECHARGE_AFTER_WRITE_2", 0, 0, 0, 2, 0, 0)
  <2>1. Place("PRECHARGE_AFTER_WRITE_2", 0, 0, 0, 1, 0, 0)'
    BY <1>1, <1>2, <1>12, Counting, NextStates DEF Place, Load
  <2>2. j = 9
    BY <1>12 DEF NextClock, RowEnd
  <2> QED BY <1>2, <1>12, <2>1, <2>2 DEF RowAt, WriteRow
<1>13. CASE k = 9 /\ writeCmd1 /\ Place("PRECHARGE_AFTER_WRITE_2", 0, 0, 0, 1, 0, 0)
  <2>1. Place("PRECHARGE_AFTER_WRITE_2", 0, 0, 0, 0, 0, 0)'
    BY <1>1, <1>2, <1>13, Counting, NextStates DEF Place, Load
  <2>2. j = 10
    BY <1>13 DEF NextClock, RowEnd
  <2> QED BY <1>2, <1>13, <2>1, <2>2 DEF RowAt, WriteRow
<1>14. CASE k = 10 /\ writeCmd1 /\ Place("PRECHARGE_AFTER_WRITE_2", 0, 0, 0, 0, 0, 0)
  <2>1. Place("PRECHARGE", 0, 0, 0, 0, 0, 0)'
    BY <1>1, <1>2, <1>14, Counting, NextStates DEF Place, Load
  <2>2. j = 11
    BY <1>14 DEF NextClock, RowEnd
  <2> QED BY <1>2, <1>14, <2>1, <2>2 DEF RowAt, WriteRow
<1>15. CASE k = 11 /\ writeCmd1 /\ Place("PRECHARGE", 0, 0, 0, 0, 0, 0)
  <2>1. Place("PRECHARGE_WAIT", 0, 1, 0, 0, 0, 0)'
    BY <1>1, <1>2, <1>15, Counting, NextStates DEF Place, Load
  <2>2. j = 12
    BY <1>15 DEF NextClock, RowEnd
  <2> QED BY <1>2, <1>15, <2>1, <2>2 DEF RowAt, WriteRow
<1>16. CASE k = 12 /\ writeCmd1 /\ Place("PRECHARGE_WAIT", 0, 1, 0, 0, 0, 0)
  <2>1. Place("PRECHARGE_WAIT", 0, 0, 0, 0, 0, 0)'
    BY <1>1, <1>2, <1>16, Counting, NextStates DEF Place, Load
  <2>2. j = 13
    BY <1>16 DEF NextClock, RowEnd
  <2> QED BY <1>2, <1>16, <2>1, <2>2 DEF RowAt, WriteRow
<1>17. CASE k = 4 /\ ~writeCmd1 /\ Place("BURST_READ", 0, 0, 0, 0, 0, 0)
  <2>1. Place("READ_WAIT", 0, 0, 0, 0, 1, 0)'
    BY <1>1, <1>2, <1>17, Counting, NextStates DEF Place, Load
  <2>2. j = 5
    BY <1>17 DEF NextClock, RowEnd
  <2> QED BY <1>2, <1>17, <2>1, <2>2 DEF RowAt, ReadRow
<1>18. CASE k = 5 /\ ~writeCmd1 /\ Place("READ_WAIT", 0, 0, 0, 0, 1, 0)
  <2>1. Place("PRECHARGE_AFTER_WRITE", 0, 0, 0, 0, 0, 0)'
    BY <1>1, <1>2, <1>18, Counting, NextStates DEF Place, Load
  <2>2. j = 6
    BY <1>18 DEF NextClock, RowEnd
  <2> QED BY <1>2, <1>18, <2>1, <2>2 DEF RowAt, ReadRow
<1>19. CASE k = 6 /\ ~writeCmd1 /\ Place("PRECHARGE_AFTER_WRITE", 0, 0, 0, 0, 0, 0)
  <2>1. Place("PRECHARGE_AFTER_WRITE_2", 0, 0, 0, 0, 0, 0)'
    BY <1>1, <1>2, <1>19, Counting, NextStates DEF Place, Load
  <2>2. j = 7
    BY <1>19 DEF NextClock, RowEnd
  <2> QED BY <1>2, <1>19, <2>1, <2>2 DEF RowAt, ReadRow
<1>20. CASE k = 7 /\ ~writeCmd1 /\ Place("PRECHARGE_AFTER_WRITE_2", 0, 0, 0, 0, 0, 0)
  <2>1. Place("PRECHARGE", 0, 0, 0, 0, 0, 0)'
    BY <1>1, <1>2, <1>20, Counting, NextStates DEF Place, Load
  <2>2. j = 8
    BY <1>20 DEF NextClock, RowEnd
  <2> QED BY <1>2, <1>20, <2>1, <2>2 DEF RowAt, ReadRow
<1>21. CASE k = 8 /\ ~writeCmd1 /\ Place("PRECHARGE", 0, 0, 0, 0, 0, 0)
  <2>1. Place("PRECHARGE_WAIT", 0, 1, 0, 0, 0, 0)'
    BY <1>1, <1>2, <1>21, Counting, NextStates DEF Place, Load
  <2>2. j = 9
    BY <1>21 DEF NextClock, RowEnd
  <2> QED BY <1>2, <1>21, <2>1, <2>2 DEF RowAt, ReadRow
<1>22. CASE k = 9 /\ ~writeCmd1 /\ Place("PRECHARGE_WAIT", 0, 1, 0, 0, 0, 0)
  <2>1. Place("PRECHARGE_WAIT", 0, 0, 0, 0, 0, 0)'
    BY <1>1, <1>2, <1>22, Counting, NextStates DEF Place, Load
  <2>2. j = 10
    BY <1>22 DEF NextClock, RowEnd
  <2> QED BY <1>2, <1>22, <2>1, <2>2 DEF RowAt, ReadRow
<1>23. CASE k = RowEnd /\ Place("PRECHARGE_WAIT", 0, 0, 0, 0, 0, 0)
  <2>1. state' \in {"IDLE", "AUTO_REFRESH"}
    BY <1>1, <1>3, <1>23, NextStates DEF Place, RowEnd
  <2>2. Place("IDLE", 0, 0, 0, 0, 0, 0)' \/ Place("AUTO_REFRESH", 0, 0, 0, 0, 0, 0)'
    BY <1>1, <1>23, <2>1, Counting DEF Place, Load
  <2>3. j = 0
    BY <1>23 DEF NextClock, RowEnd
  <2> QED BY <2>2, <2>3 DEF RowAt, Resting
<1>24. CASE k = 0 /\ Place("IDLE", 0, 0, 0, 0, 0, 0)
  <2>1. CASE goToActive
    <3>1. ~boot.mem /\ ~refresh.ref
      BY <1>24, <2>1 DEF At, RefreshAt, RequestAt
    <3>2. Place("ACTIVE", 0, 0, 0, 0, 0, 0)'
      BY <1>1, <1>24, <2>1, <3>1, Counting, NextStates DEF Place, Load
    <3>3. j = 1
      BY <1>24, <2>1 DEF NextClock
    <3> QED BY <3>2, <3>3 DEF RowAt
  <2>2. CASE ~goToActive
    <3>1. state' \in {"IDLE", "AUTO_REFRESH"}
      BY <1>1, <1>24, <2>2, NextStates DEF Place
    <3>2. Place("IDLE", 0, 0, 0, 0, 0, 0)' \/ Place("AUTO_REFRESH", 0, 0, 0, 0, 0, 0)'
      BY <1>1, <1>24, <3>1, Counting DEF Place, Load
    <3>3. j = 0
      BY <1>24, <2>2 DEF NextClock
    <3> QED BY <3>2, <3>3 DEF RowAt, Resting
  <2> QED BY <2>1, <2>2
<1>25. CASE k = 0 /\ Place("AUTO_REFRESH", 0, 0, 0, 0, 0, 0)
  <2>1. ~goToActive
    BY <1>25 DEF At, CommandAt, Opening, Place
  <2>2. Place("AUTO_REFRESH_WAIT", 7, 0, 0, 0, 0, 0)'
    BY <1>1, <1>25, Counting, NextStates DEF Place, Load
  <2>3. j = 0 /\ 7 \in 0 .. RFC
    BY <1>25, <2>1 DEF NextClock, RFC
  <2> QED BY <2>2, <2>3 DEF RowAt, Resting
<1>26. ASSUME k = 0, NEW n \in 0 .. RFC, Place("AUTO_REFRESH_WAIT", n, 0, 0, 0, 0, 0)
      PROVE  RowAt(j)' /\ j \in 0 .. 13
  <2>1. ~goToActive
    BY <1>26 DEF At, CommandAt, Opening, Place
  <2>2. j = 0 /\ n \in 0 .. 7
    BY <1>26, <2>1 DEF NextClock, RFC
  <2>3. CASE n = 0
    <3>1. Place("IDLE", 0, 0, 0, 0, 0, 0)'
      BY <1>1, <1>26, <2>3, Counting, NextStates DEF Place, Load
    <3> QED BY <2>2, <3>1 DEF RowAt, Resting
  <2>4. CASE n # 0
    <3>1. Place("AUTO_REFRESH_WAIT", n - 1, 0, 0, 0, 0, 0)'
      BY <1>1, <1>26, <2>2, <2>4, Counting, NextStates DEF Place, Load
    <3>2. n - 1 \in 0 .. RFC
      BY <2>2, <2>4 DEF RFC
    <3> QED BY <2>2, <3>1, <3>2 DEF RowAt, Resting
  <2> QED BY <2>3, <2>4
<1> QED
  <2>1. RowAt(k)
    BY DEF At
  <2>2. CASE k = 0
    <3>1. Resting
      BY <2>1, <2>2 DEF RowAt, WriteRow, ReadRow
    <3> QED BY <2>2, <3>1, <1>24, <1>25, <1>26 DEF Resting
  <2>3. CASE k \in 1 .. 3
    BY <2>1, <2>3, <1>4, <1>5, <1>6, <1>7 DEF RowAt, WriteRow, ReadRow
  <2>4. CASE k > 3 /\ writeCmd1
    <3>1. WriteRow(k)
      BY <2>1, <2>4 DEF RowAt
    <3> QED BY <2>4, <3>1, <1>8, <1>9, <1>10, <1>11, <1>12, <1>13, <1>14, <1>15, <1>16, <1>23 DEF WriteRow, RowEnd
  <2>5. CASE k > 3 /\ ~writeCmd1
    <3>1. ReadRow(k)
      BY <2>1, <2>5 DEF RowAt
    <3> QED BY <2>5, <3>1, <1>17, <1>18, <1>19, <1>20, <1>21, <1>22, <1>23 DEF ReadRow, RowEnd
  <2> QED BY <2>2, <2>3, <2>4, <2>5

\* At a falling edge the bridge takes the step of its state and no other.
LEMMA BridgeMoves ==
  ASSUME BridgeFall
  PROVE  /\ Asking => AwaitAck
         /\ bridgeState \in {"WRITE_WAIT", "READ_WAIT_1"} => RaiseBurstDone
         /\ bridgeState = "WRITE_DONE" => WriteDone
         /\ bridgeState = "READ_WAIT_2" => ReadWait
         /\ bridgeState = "READ_DONE" => ReadDone
         /\ bridgeState = "WAIT" => WaitDrop
         /\ bridgeState = "WAIT_REFRESH" => WaitRefresh
         /\ bridgeState = "STARTUP" => Startup
         /\ bridgeState = "WAIT_INIT" => WaitInit
         /\ bridgeState = "IDLE" => YieldToRefresh \/ StayIdle \/ IssueCommand
         /\ bridgeState \in BridgeState
BY DEF Asking, BridgeFall, Startup, WaitInit, YieldToRefresh, StayIdle, IssueCommand, WaitRefresh, AwaitAck,
       RaiseBurstDone, WriteDone, ReadWait, ReadDone, WaitDrop, BridgeState

\* The bridge stays in step with the row: its wait counts end with the burst.
LEMMA BridgeStep ==
  ASSUME NEW k \in 0 .. 13, At(k), Clocked, BridgeFall, NEW j, j = NextClock(k)
  PROVE  BridgeAt(j)'
<1>1. /\ writeCmd1 \in BOOLEAN /\ readCmd1 \in BOOLEAN /\ burstDone \in BOOLEAN /\ burstEnd \in BOOLEAN
      /\ BridgeAt(k) /\ CommandAt(k)
  BY DEF At, Registers
<1>2. burstEnd' = burstDone
  BY DEF Clocked, CountEdge
<1>3. k # 0 \/ goToActive => writeCmd1' = writeCmd1
  BY Commands
<1>4. CASE k = 0 /\ goToActive
  <2>1. j = 1
    BY <1>4 DEF NextClock
  <2>2. Opening
    BY <1>1, <1>4 DEF CommandAt
  <2>3. AwaitAck
    BY <2>2, BridgeMoves DEF Opening
  <2>4. bridgeState' = IF writeCmd1' THEN "WRITE_WAIT" ELSE "READ_WAIT_1"
    BY <1>3, <1>4, <2>2, <2>3 DEF Opening, AwaitAck, Asking
  <2>5. waitCounter' = 3 /\ burstDone' = burstDone /\ userCmd' = userCmd
    BY <2>2, <2>3 DEF Opening, AwaitAck
  <2>6. userCmd = IF writeCmd1' THEN "WRITE" ELSE "READ"
    BY <1>1, <1>3, <1>4, <2>2 DEF Opening, BridgeAt, Asking
  <2>7. ~burstDone
    BY <1>1, <1>4 DEF BridgeAt
  <2> QED BY <1>2, <2>1, <2>4, <2>5, <2>6, <2>7 DEF BridgeAt, Asking
<1>5. CASE k \in 1 .. 3
  <2>1. j = k + 1
    BY <1>5 DEF NextClock, RowEnd
  <2>2. /\ bridgeState = IF writeCmd1 THEN "WRITE_WAIT" ELSE "READ_WAIT_1"
        /\ waitCounter = 4 - k /\ ~burstDone /\ ~burstEnd
        /\ userCmd = IF writeCmd1 THEN "WRITE" ELSE "READ"
    BY <1>1, <1>5 DEF BridgeAt
  <2>3. RaiseBurstDone
    BY <2>2, BridgeMoves
  <2>4. CASE k \in 1 .. 2
    <3>1. bridgeState' = bridgeState /\ waitCounter' = waitCounter - 1
          /\ burstDone' = burstDone /\ userCmd' = userCmd
      <4>1. waitCounter # 1
        BY <2>2, <2>4
      <4> QED BY <2>3, <4>1 DEF RaiseBurstDone
    <3>2. waitCounter' = 4 - j
      BY <2>1, <2>2, <2>4, <3>1
    <3> QED BY <1>2, <1>3, <1>5, <2>1, <2>2, <2>4, <3>1, <3>2 DEF BridgeAt, Asking
  <2>5. CASE k = 3
    <3>1. bridgeState' = (IF writeCmd1 THEN "WRITE_DONE" ELSE "READ_WAIT_2") /\ waitCounter' = 2
          /\ burstDone' = TRUE /\ userCmd' = userCmd
      BY <2>2, <2>3, <2>5 DEF RaiseBurstDone
    <3> QED BY <1>2, <1>3, <1>5, <2>1, <2>2, <2>5, <3>1 DEF BridgeAt, Asking
  <2> QED BY <1>5, <2>4, <2>5
<1>6. CASE k = 4
  <2>1. j = 5
    BY <1>6 DEF NextClock, RowEnd
  <2>2. /\ bridgeState = IF writeCmd1 THEN "WRITE_DONE" ELSE "READ_WAIT_2"
        /\ waitCounter = 2 /\ burstDone
    BY <1>1, <1>6 DEF BridgeAt
  <2>3. WriteDone \/ ReadWait
    BY <2>2, BridgeMoves
  <2>4. bridgeState' = bridgeState /\ waitCounter' = 1 /\ burstDone' = burstDone /\ userCmd' = "NOP"
    <3>1. CASE WriteDone
      BY <2>2, <3>1 DEF WriteDone
    <3>2. CASE ReadWait
      BY <2>2, <3>2 DEF ReadWait
    <3> QED BY <2>3, <3>1, <3>2
  <2> QED BY <1>1, <1>2, <1>3, <1>6, <2>1, <2>2, <2>4 DEF BridgeAt, Asking
<1>7. CASE k = 5
  <2>1. j = 6
    BY <1>7 DEF NextClock, RowEnd
  <2>2. /\ bridgeState = IF writeCmd1 THEN "WRITE_DONE" ELSE "READ_WAIT_2"
        /\ waitCounter = 1 /\ burstDone
    BY <1>1, <1>7 DEF BridgeAt
  <2>3. WriteDone \/ ReadWait
    BY <2>2, BridgeMoves
  <2>4. bridgeState' \in {"WAIT", "READ_DONE", "READ_WAIT_2"} /\ waitCounter' = 1 /\ ~burstDone' /\ userCmd' = "NOP"
    <3>1. CASE WriteDone
      BY <2>2, <3>1 DEF WriteDone
    <3>2. CASE ReadWait
      BY <2>2, <3>2 DEF ReadWait
    <3> QED BY <2>3, <3>1, <3>2
  <2> QED BY <1>1, <1>2, <1>3, <1>7, <2>1, <2>2, <2>4 DEF BridgeAt, Asking
<1>8. CASE k > 5 \/ (k = 0 /\ ~goToActive)
  <2>1. (j = 0 \/ j > 6) /\ (k = 0 => j = 0)
    BY <1>8 DEF NextClock
  <2>2. /\ bridgeState \notin {"WRITE_WAIT", "READ_WAIT_1", "WRITE_DONE"} /\ ~burstDone
        /\ bridgeState = "READ_WAIT_2" => waitCounter = 1
        /\ burstEnd <=> k = 6
        /\ Asking => k = 0 /\ userCmd = IF bridgeState = "WRITE_CMD" THEN "WRITE" ELSE "READ"
        /\ userCmd \in {"WRITE", "READ"} => Asking
    BY <1>1, <1>8 DEF BridgeAt
  <2>3. /\ Asking => k = 0 /\ ~cmdAck
        /\ k # 0 => cmdAck
    BY <1>1, <1>8, <2>2 DEF CommandAt
  <2>4. /\ bridgeState' \notin {"WRITE_WAIT", "READ_WAIT_1", "WRITE_DONE"} /\ ~burstDone'
        /\ bridgeState' = "READ_WAIT_2" => waitCounter' = 1
        /\ Asking' => k = 0 /\ userCmd' = IF bridgeState' = "WRITE_CMD" THEN "WRITE" ELSE "READ"
        /\ userCmd' \in {"WRITE", "READ"} => Asking'
    <3>1. CASE Asking
      BY <2>2, <2>3, <3>1, BridgeMoves DEF Asking, AwaitAck
    <3>2. CASE bridgeState = "READ_WAIT_2"
      BY <2>2, <2>3, <3>2, BridgeMoves DEF Asking, ReadWait
    <3>3. CASE bridgeState = "READ_DONE"
      BY <2>2, <2>3, <3>3, BridgeMoves DEF Asking, ReadDone
    <3>4. CASE bridgeState = "WAIT"
      BY <2>2, <2>3, <3>4, BridgeMoves DEF Asking, WaitDrop
    <3>5. CASE bridgeState = "WAIT_REFRESH"
      BY <2>2, <2>3, <3>5, BridgeMoves DEF Asking, WaitRefresh
    <3>6. CASE bridgeState = "STARTUP"
      BY <2>2, <2>3, <3>6, BridgeMoves DEF Asking, Startup
    <3>7. CASE bridgeState = "WAIT_INIT"
      BY <2>2, <2>3, <3>7, BridgeMoves DEF Asking, WaitInit
    <3>8. CASE bridgeState = "IDLE"
      <4>1. CASE YieldToRefresh
        BY <2>2, <3>8, <4>1 DEF Asking, YieldToRefresh
      <4>2. CASE StayIdle
        BY <2>2, <3>8, <4>2 DEF Asking, StayIdle
      <4>3. CASE IssueCommand
        <5>1. k = 0
          BY <2>3, <4>3 DEF IssueCommand
        <5> QED BY <2>2, <3>8, <4>3, <5>1 DEF Asking, IssueCommand
      <4> QED BY <3>8, <4>1, <4>2, <4>3, BridgeMoves
    <3> QED BY <2>2, <3>1, <3>2, <3>3, <3>4, <3>5, <3>6, <3>7, <3>8, BridgeMoves DEF BridgeState, Asking
  <2> QED BY <1>1, <1>2, <2>1, <2>2, <2>4 DEF BridgeAt
<1> QED BY <1>4, <1>5, <1>6, <1>7, <1>8

\* The registers of the requester and of the initialisation, one by one.
LEMMA Requests ==
  ASSUME Clocked
  PROVE  /\ autoRefReq' = IF refresh.ref1 /\ ~autoRefReq THEN TRUE ELSE IF Refreshing THEN FALSE ELSE autoRefReq
         /\ arDone' = refresh.doneReg
         /\ refresh'.count = IF refresh.value THEN 0 ELSE refresh.count + 1
         /\ refresh'.value <=> refresh.count = MaxRefCnt
         /\ refresh'.detect <=> refresh.value /\ initDone
         /\ refresh'.ref1 = refresh.detect
         /\ refresh'.wait1 <=> autoRefReq /\ ~Refreshing
         /\ refresh'.wait2 <=> refresh.wait1 /\ ~Refreshing
         /\ refresh'.ref <=> refresh.wait2 /\ ~Refreshing
         /\ refresh'.issued <=> Refreshing
         /\ refresh'.doneReg <=> count.rfc = 2
         /\ refresh'.rfcOver <=> \/ refresh.doneReg \/ (initDone /\ ~boot.mem /\ count.rfc = 0)
                                 \/ (refresh.rfcOver /\ ~refresh.issued)
BY DEF Clocked, RefreshEdge

\* What one clock does to the registers of the power-up sequence.
LEMMA Boots ==
  ASSUME Clocked
  PROVE  /\ initDone' <=> initDone \/ boot.count = InitDoneCount
         /\ initDone' \in BOOLEAN /\ boot'.mem \in BOOLEAN
         /\ boot'.mem <=> \/ userCmd = "INIT"
                          \/ boot.mem /\ ~(boot.count = InitDoneCount /\ boot.count5 = 1)
         /\ boot'.memory <=> boot.mem
         /\ boot.mem \in BOOLEAN => boot'.memory \in BOOLEAN
         /\ boot'.count = IF boot.state # "IDLE" /\ boot.memory THEN boot.count + 1 ELSE boot.count
         /\ boot'.state = BootNext
         /\ boot'.count5 = Load(boot.state # "IDLE", 7, boot.count5)
BY DEF Clocked, BootEdge, RFC

\* Where the row goes: what the other registers need to know of RowStep.
LEMMA RowFacts ==
  ASSUME NEW k \in 0 .. 13, At(k)
  PROVE  /\ k = 0 <=> state \in {"IDLE", "AUTO_REFRESH", "AUTO_REFRESH_WAIT"}
         /\ count.rfc \in 0 .. 7 /\ (state # "AUTO_REFRESH_WAIT" => count.rfc = 0)
         /\ state = "IDLE" => count.rp = 0
<1>1. RowAt(k)
  BY DEF At
<1>2. CASE Resting
  BY <1>1, <1>2 DEF Resting, Place, RowAt, WriteRow, ReadRow, RFC
<1>3. CASE ~Resting /\ k \in 0 .. 3
  BY <1>1, <1>3 DEF RowAt, WriteRow, ReadRow, Place
<1>4. CASE ~Resting /\ k \notin 0 .. 3 /\ writeCmd1
  BY <1>1, <1>4 DEF RowAt, WriteRow, Place
<1>5. CASE ~Resting /\ k \notin 0 .. 3 /\ ~writeCmd1
  BY <1>1, <1>5 DEF RowAt, ReadRow, Place
<1> QED BY <1>2, <1>3, <1>4, <1>5

\* The row machine is at rest exactly when the clock of the row is 0, and leaves rest as its inputs say.
LEMMA StateStep ==
  ASSUME NEW k \in 0 .. 13, At(k), Clocked, NEW j, j = NextClock(k)
  PROVE  /\ j # 0 => state' \notin {"IDLE", "AUTO_REFRESH", "AUTO_REFRESH_WAIT"}
         /\ j = 0 => state' \in {"IDLE", "AUTO_REFRESH", "AUTO_REFRESH_WAIT"}
         /\ state' = "AUTO_REFRESH_WAIT" => \/ state = "AUTO_REFRESH" /\ count'.rfc = 7
                                            \/ /\ state = "AUTO_REFRESH_WAIT" /\ count.rfc # 0
                                               /\ count'.rfc = count.rfc - 1
         /\ state = "AUTO_REFRESH" => state' = "AUTO_REFRESH_WAIT"
         /\ state' = "AUTO_REFRESH" => refresh.ref /\ (state = "IDLE" => refresh.rfcOver) /\ state \in {"IDLE", "PRECHARGE_WAIT"}
         /\ state = "IDLE" => state' = IF boot.mem THEN "IDLE"
                                       ELSE IF refresh.ref /\ refresh.rfcOver THEN "AUTO_REFRESH"
                                       ELSE IF goToActive THEN "ACTIVE" ELSE "IDLE"
         /\ state = "PRECHARGE_WAIT" /\ state' = "IDLE" => ~refresh.ref
         /\ state' = "IDLE" => state \in {"IDLE", "AUTO_REFRESH_WAIT", "PRECHARGE_WAIT"}
         /\ state = "AUTO_REFRESH_WAIT" /\ state' = "IDLE" => count.rfc = 0
<1>1. state' = NextState /\ CountEdge /\ RowAt(k)
  BY DEF Clocked, At
<1>2. \/ state \in {"IDLE", "AUTO_REFRESH", "AUTO_REFRESH_WAIT", "ACTIVE", "ACTIVE_WAIT", "FIRST_WRITE", "WRITE_WAIT",
                    "BURST_READ", "READ_WAIT"}
      \/ state \in {"PRECHARGE_AFTER_WRITE", "PRECHARGE_AFTER_WRITE_2", "PRECHARGE", "PRECHARGE_WAIT"}
  <2>1. CASE Resting
    BY <2>1 DEF Resting, Place
  <2>2. CASE ~Resting /\ k \in 0 .. 3
    BY <1>1, <2>2 DEF RowAt, WriteRow, ReadRow, Place
  <2>3. CASE ~Resting /\ k \notin 0 .. 3 /\ writeCmd1
    BY <1>1, <2>3 DEF RowAt, WriteRow, Place
  <2>4. CASE ~Resting /\ k \notin 0 .. 3 /\ ~writeCmd1
    BY <1>1, <2>4 DEF RowAt, ReadRow, Place
  <2> QED BY <2>1, <2>2, <2>3, <2>4
<1>3. k > 2 => ~goToActive
  BY DEF At, CommandAt, BridgeAt, Opening
<1>4. state = "PRECHARGE_WAIT" => k > 2
  BY <1>1 DEF RowAt, Resting, WriteRow, ReadRow, Place
<1>5. (j # 0 => state' \notin {"IDLE", "AUTO_REFRESH", "AUTO_REFRESH_WAIT"})
      /\ (j = 0 => state' \in {"IDLE", "AUTO_REFRESH", "AUTO_REFRESH_WAIT"})
  <2>1. RowAt(j)' /\ j \in 0 .. 13
    BY RowStep
  <2>2. CASE j = 0
    <3>1. Resting'
      BY <2>1, <2>2 DEF RowAt, WriteRow, ReadRow
    <3> QED BY <2>2, <3>1 DEF Resting, Place
  <2>3. CASE j \in 1 .. 3
    BY <2>1, <2>3 DEF RowAt, WriteRow, ReadRow, Place
  <2>4. CASE j > 3 /\ writeCmd1'
    BY <2>1, <2>4 DEF RowAt, WriteRow, Place
  <2>5. CASE j > 3 /\ ~writeCmd1'
    BY <2>1, <2>5 DEF RowAt, ReadRow, Place
  <2> QED BY <2>1, <2>2, <2>3, <2>4, <2>5
<1>6. state = "IDLE" => state' = IF boot.mem THEN "IDLE"
                                 ELSE IF refresh.ref /\ refresh.rfcOver THEN "AUTO_REFRESH"
                                 ELSE IF goToActive THEN "ACTIVE" ELSE "IDLE"
  BY <1>1, RowFacts, NextStates
<1>7. state = "PRECHARGE_WAIT" => state' \in {"PRECHARGE_WAIT", IF refresh.ref THEN "AUTO_REFRESH" ELSE "IDLE"}
  BY <1>1, <1>3, <1>4, NextStates
<1>8. state \in {"ACTIVE", "ACTIVE_WAIT", "FIRST_WRITE", "WRITE_WAIT", "BURST_READ", "READ_WAIT",
                 "PRECHARGE_AFTER_WRITE", "PRECHARGE_AFTER_WRITE_2", "PRECHARGE"} =>
        state' \notin {"IDLE", "AUTO_REFRESH", "AUTO_REFRESH_WAIT"}
  BY <1>1, NextStates
<1>9. state = "AUTO_REFRESH" => state' = "AUTO_REFRESH_WAIT" /\ count'.rfc = 7
  BY <1>1, NextStates DEF CountEdge, Load, RFC
<1>10. state = "AUTO_REFRESH_WAIT" => IF count.rfc = 0 THEN state' = "IDLE"
                                      ELSE state' = "AUTO_REFRESH_WAIT" /\ count'.rfc = count.rfc - 1
  BY <1>1, NextStates DEF CountEdge, Load, RFC
<1>11. state' = "AUTO_REFRESH_WAIT" => state \in {"AUTO_REFRESH", "AUTO_REFRESH_WAIT"}
  BY <1>2, <1>6, <1>7, <1>8
<1>12. state' = "AUTO_REFRESH" => state \in {"IDLE", "PRECHARGE_WAIT"} /\ refresh.ref /\ (state = "IDLE" => refresh.rfcOver)
  BY <1>2, <1>6, <1>7, <1>8, <1>9, <1>10
<1>13. state' = "IDLE" => state \in {"IDLE", "AUTO_REFRESH_WAIT", "PRECHARGE_WAIT"}
  BY <1>2, <1>8, <1>9
<1> QED BY <1>5, <1>6, <1>7, <1>9, <1>10, <1>11, <1>12, <1>13

\* A command is taken once: acknowledged, opened and forgotten with its row.
LEMMA CommandStep ==
  ASSUME NEW k \in 0 .. 13, At(k), Clocked, BridgeFall, NEW j, j = NextClock(k)
  PROVE  CommandAt(j)'
<1>1. /\ writeCmd1 \in BOOLEAN /\ readCmd1 \in BOOLEAN /\ goToActive \in BOOLEAN /\ accept \in BOOLEAN /\ cmdAck \in BOOLEAN
      /\ BridgeAt(k) /\ CommandAt(k) /\ RequestAt(k) /\ RefreshAt
  BY DEF At, Registers
<1>2. /\ accept' = CanAccept
      /\ writeCmd1' = IF accept THEN WriteCmdIn ELSE writeCmd1
      /\ readCmd1' = IF accept THEN ReadCmd ELSE readCmd1
      /\ goToActive' <=> WriteCmdIn \/ ReadCmd
      /\ cmdAck' <=> WriteCmdIn \/ writeCmd1 \/ ReadCmd \/ readCmd1
      /\ writeCmd1' \in BOOLEAN /\ readCmd1' \in BOOLEAN /\ cmdAck' \in BOOLEAN
  BY <1>1 DEF Clocked, CommandEdge, WriteCmdIn, ReadCmd
<1>3. ~(writeCmd1' /\ readCmd1')
  BY <1>1, <1>2 DEF CommandAt, WriteCmdIn, ReadCmd
<1>4. writeCmd1' \/ readCmd1' => cmdAck'
  BY <1>1, <1>2
<1>5. j # 0 => writeCmd1' \/ readCmd1'
  <2>1. j # 0 => k # 0 \/ goToActive
    BY DEF NextClock
  <2>2. k = 0 /\ goToActive => writeCmd1 \/ readCmd1
    BY <1>1 DEF CommandAt, Opening, Asking
  <2> QED BY <1>1, <2>1, <2>2, Commands DEF CommandAt
<1>6. accept' => j = 1 \/ (j = 0 /\ state' = "IDLE")
  <2>1. SUFFICES ASSUME accept'
                 PROVE  j = 1 \/ (j = 0 /\ state' = "IDLE")
    OBVIOUS
  <2>2. state = "IDLE" /\ ~autoRefReq
    BY <1>2, <2>1 DEF CanAccept
  <2>3. k = 0 /\ ~refresh.ref
    BY <1>1, <2>2, RowFacts DEF RequestAt
  <2>4. CASE goToActive
    BY <2>3, <2>4 DEF NextClock
  <2>5. CASE ~goToActive
    BY <2>2, <2>3, <2>5, StateStep DEF NextClock
  <2> QED BY <2>4, <2>5
\* The bridge asks and the controller takes the command.
<1>7. ASSUME accept, k = 0, Asking, ~goToActive
      PROVE  Opening' /\ goToActive' /\ j = 0
  <2>1. ~writeCmd1 /\ ~readCmd1 /\ ~cmdAck /\ state = "IDLE"
    BY <1>1, <1>7 DEF CommandAt, Opening
  <2>2. ~refresh.ref
    BY <1>1, <1>7 DEF RequestAt
  <2>3. j = 0 /\ state' = "IDLE"
    BY <1>7, <2>1, <2>2, StateStep DEF NextClock
  <2>4. bridgeState' = bridgeState
    BY <1>7, <2>1, BridgeMoves DEF AwaitAck
  <2>5. userCmd = IF bridgeState = "WRITE_CMD" THEN "WRITE" ELSE "READ"
    BY <1>1, <1>7 DEF BridgeAt
  <2>6. /\ writeCmd1' <=> bridgeState = "WRITE_CMD"
        /\ readCmd1' <=> bridgeState = "READ_CMD"
    BY <1>2, <1>7, <2>5 DEF WriteCmdIn, ReadCmd, Asking
  <2>7. goToActive' /\ cmdAck'
    BY <1>2, <1>7, <2>5 DEF WriteCmdIn, ReadCmd
  <2> QED BY <1>7, <2>3, <2>4, <2>6, <2>7 DEF Opening, Asking
<1>8. goToActive' => j \in 1 .. 2 \/ Opening'
  <2>1. SUFFICES ASSUME goToActive'
                 PROVE  j \in 1 .. 2 \/ Opening'
    OBVIOUS
  <2>2. accept /\ userCmd \in {"WRITE", "READ"}
    BY <2>1, Commands
  <2>3. CASE k = 1
    BY <2>3 DEF NextClock, RowEnd
  <2>4. CASE k = 0
    <3>1. Asking
      BY <1>1, <2>2, <2>4 DEF BridgeAt
    <3> QED BY <1>7, <2>2, <2>4, <3>1 DEF NextClock
  <2> QED BY <1>1, <2>2, <2>3, <2>4 DEF CommandAt
<1>9. Asking' => (Opening' /\ goToActive') \/ ~(writeCmd1' \/ readCmd1' \/ goToActive' \/ cmdAck')
  <2>1. SUFFICES ASSUME Asking'
                 PROVE  (Opening' /\ goToActive') \/ ~(writeCmd1' \/ readCmd1' \/ goToActive' \/ cmdAck')
    OBVIOUS
  <2>2. CASE Asking
    <3>1. k = 0 /\ ~cmdAck
      BY <1>1, <2>1, <2>2, BridgeMoves DEF BridgeAt, AwaitAck, Asking
    <3>2. ~writeCmd1 /\ ~readCmd1 /\ ~goToActive
      BY <1>1, <2>2, <3>1 DEF CommandAt, Opening
    <3>3. CASE accept
      BY <1>7, <2>2, <3>1, <3>2, <3>3
    <3>4. CASE ~accept
      BY <1>2, <3>2, <3>4 DEF WriteCmdIn, ReadCmd
    <3> QED BY <3>3, <3>4
  <2>3. CASE ~Asking
    <3>1. IssueCommand
      BY <2>1, <2>3 DEF Asking, BridgeFall, Startup, WaitInit, YieldToRefresh, StayIdle, WaitRefresh, AwaitAck,
                        RaiseBurstDone, WriteDone, ReadWait, ReadDone, WaitDrop
    <3>2. ~writeCmd1 /\ ~readCmd1 /\ k \notin 1 .. 4
      BY <1>1, <3>1 DEF CommandAt, IssueCommand
    <3>3. userCmd \notin {"WRITE", "READ"}
      BY <1>1, <2>3, <3>2 DEF BridgeAt
    <3> QED BY <1>2, <3>2, <3>3 DEF WriteCmdIn, ReadCmd
  <2> QED BY <2>2, <2>3
<1> QED BY <1>3, <1>4, <1>5, <1>6, <1>8, <1>9 DEF CommandAt

\* Once the initialisation is over it stays over: INIT was withdrawn long before.
LEMMA BootOver ==
  ASSUME NEW k \in 0 .. 13, At(k), Clocked, initDone
  PROVE  /\ initDone' /\ boot.state = "IDLE" /\ boot.count = 5 /\ boot'.count5 = Load(FALSE, 7, boot.count5)
         /\ boot'.mem <=> boot.mem /\ boot.count5 # 1
         /\ boot.mem => boot.count5 \in 1 .. 6
<1>1. BootInv /\ InitDoneCount = 5 /\ RFC = 7
  BY DEF At, InitDoneCount, RFC
<1>2. boot.count = 5
  BY <1>1 DEF BootInv
<1>3. userCmd # "INIT" /\ boot.state = "IDLE"
  BY <1>1, <1>2 DEF BootInv
<1>4. boot.mem => boot.count5 \in 1 .. 6
  BY <1>1 DEF BootInv
<1>5. boot'.mem <=> boot.mem /\ ~(boot.count = 5 /\ boot.count5 = 1)
  BY <1>1, <1>3, Boots
<1>6. initDone' /\ boot'.count5 = Load(FALSE, 7, boot.count5)
  BY <1>3, Boots
<1> QED BY <1>2, <1>3, <1>4, <1>5, <1>6

\* The power-up sequence is kept by a falling edge.
LEMMA BootStep ==
  ASSUME NEW k \in 0 .. 13, At(k), Clocked, BridgeFall, ~rst180, ~rst180', NEW j, j = NextClock(k)
  PROVE  BootInv'
<1>1. BootInv /\ RequestAt(k) /\ RefreshAt /\ boot.mem \in BOOLEAN /\ initDone \in BOOLEAN /\ InitDoneCount = 5 /\ RFC = 7
  BY DEF At, Registers, InitDoneCount, RFC
<1>2. boot.count \in 0 .. 5 /\ boot.count5 \in 0 .. 7 /\ bridgeState # "STARTUP"
  BY <1>1 DEF BootInv
<1>3. boot'.state # "IDLE" => boot.state = "IDLE" /\ boot.memory /\ boot.count < 5
  <2>1. boot'.state = BootNext
    BY Boots
  <2>2. boot.state # "IDLE" \/ ~boot.memory => BootNext = "IDLE"
    BY DEF BootNext
  <2>3. boot.count = 5 => BootNext = "IDLE"
    BY DEF BootNext
  <2> QED BY <1>2, <2>1, <2>2, <2>3
<1>4. boot'.count = IF boot.state # "IDLE" /\ boot.memory THEN boot.count + 1 ELSE boot.count
  BY Boots
<1>5. boot.state # "IDLE" => boot.count < 5
  BY <1>1 DEF BootInv
<1>6. boot'.count \in 0 .. 5 /\ boot'.count5 \in 0 .. 7 /\ (boot.count = 5 => boot'.count = 5)
  BY <1>2, <1>4, <1>5, Boots DEF Load
<1>7. bridgeState' # "STARTUP" /\ userCmd' # "INIT"
  <2>1. bridgeState = "WAIT_INIT" \/ userCmd # "INIT"
    BY <1>1 DEF BootInv
  <2>2. CASE Asking
    BY <2>1, <2>2, BridgeMoves DEF Asking, AwaitAck
  <2>3. CASE bridgeState \in {"WRITE_WAIT", "READ_WAIT_1"}
    BY <2>1, <2>3, BridgeMoves DEF RaiseBurstDone
  <2>4. CASE bridgeState = "WRITE_DONE"
    BY <2>1, <2>4, BridgeMoves DEF WriteDone
  <2>5. CASE bridgeState = "READ_WAIT_2"
    BY <2>1, <2>5, BridgeMoves DEF ReadWait
  <2>6. CASE bridgeState = "READ_DONE"
    BY <2>1, <2>6, BridgeMoves DEF ReadDone
  <2>7. CASE bridgeState = "WAIT"
    BY <2>1, <2>7, BridgeMoves DEF WaitDrop
  <2>8. CASE bridgeState = "WAIT_REFRESH"
    BY <2>1, <2>8, BridgeMoves DEF WaitRefresh
  <2>9. CASE bridgeState = "WAIT_INIT"
    BY <2>1, <2>9, BridgeMoves DEF WaitInit
  <2>10. CASE bridgeState = "IDLE"
    BY <2>1, <2>10, BridgeMoves DEF YieldToRefresh, StayIdle, IssueCommand
  <2> QED BY <1>2, <2>2, <2>3, <2>4, <2>5, <2>6, <2>7, <2>8, <2>9, <2>10, BridgeMoves DEF BridgeState, Asking
<1>8. initDone' => boot'.count = 5
  BY <1>1, <1>6, Boots DEF BootInv
<1>9. ~initDone' => bridgeState' \in {"STARTUP", "WAIT_INIT"} /\ ~autoRefReq'
  <2>1. SUFFICES ASSUME ~initDone'
                 PROVE  bridgeState' \in {"STARTUP", "WAIT_INIT"} /\ ~autoRefReq'
    OBVIOUS
  <2>2. ~initDone
    BY <2>1, Boots
  <2>3. bridgeState = "WAIT_INIT" /\ ~autoRefReq /\ ~refresh.ref1
    BY <1>1, <1>2, <2>2 DEF BootInv, RequestAt
  <2> QED BY <2>2, <2>3, BridgeMoves, Requests DEF WaitInit
<1>10. boot'.count = 5 /\ ~initDone' => boot'.mem /\ boot'.count5 = 7
  <2>1. SUFFICES ASSUME boot'.count = 5, ~initDone'
                 PROVE  boot'.mem /\ boot'.count5 = 7
    OBVIOUS
  <2>2. boot.count # 5
    BY <1>1, <2>1, Boots
  <2>3. boot.state # "IDLE" /\ boot.memory
    BY <1>4, <2>1, <2>2
  <2>4. boot.mem
    BY <1>1, <1>2, <2>2, <2>3 DEF BootInv
  <2> QED BY <1>1, <2>2, <2>3, <2>4, Boots DEF Load
<1>11. boot'.mem /\ initDone' => boot'.count5 \in 1 .. 6
  <2>1. SUFFICES ASSUME boot'.mem, initDone'
                 PROVE  boot'.count5 \in 1 .. 6
    OBVIOUS
  <2>2. boot.count = 5
    BY <1>1, <2>1, Boots DEF BootInv
  <2>3. boot.mem /\ boot.count5 # 1
    BY <1>1, <2>1, <2>2, Boots DEF BootInv
  <2>4. boot.count5 \in 2 .. 7
    BY <1>1, <1>2, <2>2, <2>3 DEF BootInv
  <2>5. boot'.count5 = boot.count5 - 1
    BY <1>5, <2>2, <2>4, Boots DEF Load
  <2> QED BY <2>4, <2>5
<1>12. boot'.state # "IDLE" => boot'.count < 5
  BY <1>3, <1>4
<1>13. boot'.memory /\ boot'.count < 5 => boot'.mem
  <2>1. boot'.memory /\ boot'.count < 5 => boot.mem /\ boot.count # 5
    BY <1>6, Boots
  <2> QED BY <1>1, <2>1, Boots
<1>14. ~initDone' \/ boot'.mem => state' = "IDLE"
  <2>1. SUFFICES ASSUME ~initDone' \/ boot'.mem
                 PROVE  state' = "IDLE"
    OBVIOUS
  <2>2. ~initDone \/ boot.mem
    BY <1>1, <2>1, Boots DEF BootInv
  <2>3. state = "IDLE" /\ ~refresh.rfcOver
    BY <1>1, <2>2 DEF BootInv, RefreshAt
  <2>4. ~goToActive
    BY <1>1, <2>3 DEF RefreshAt
  <2> QED BY <2>3, <2>4, StateStep
<1>15. ~boot'.mem => boot'.count \in {0, 5}
  <2>1. CASE boot.mem
    BY <1>1, <1>6, <2>1, Boots
  <2>2. CASE ~boot.mem
    BY <1>1, <1>2, <1>4, <1>6, <2>2 DEF BootInv
  <2> QED BY <2>1, <2>2
<1> QED BY <1>1, <1>6, <1>7, <1>8, <1>9, <1>10, <1>11, <1>12, <1>13, <1>14, <1>15 DEF BootInv, InitDoneCount, RFC

\* A refresh request waits for the row to close and is not lost.
LEMMA RequestStep ==
  ASSUME NEW k \in 0 .. 13, At(k), Clocked, ~rst180, NEW j, j = NextClock(k)
  PROVE  RequestAt(j)'
<1>1. /\ RequestAt(k) /\ RefreshAt /\ BootInv /\ CommandAt(k)
      /\ initDone \in BOOLEAN /\ autoRefReq \in BOOLEAN /\ boot.mem \in BOOLEAN
      /\ MaxRefCnt \in Nat /\ MaxRefCnt >= 25
  BY RefreshAssumption DEF At, Registers
<1>2. /\ refresh.count \in 0 .. MaxRefCnt + 1
      /\ refresh.value <=> refresh.count = MaxRefCnt + 1
      /\ refresh.ref1 => ~autoRefReq /\ ~Refreshing
      /\ Refreshing => autoRefReq
  BY <1>1 DEF RequestAt, RefreshAt, Refreshing
<1>3. /\ refresh'.count = IF refresh.value THEN 0 ELSE refresh.count + 1
      /\ refresh'.count \in 0 .. MaxRefCnt + 1
      /\ refresh'.value <=> refresh'.count = MaxRefCnt + 1
  BY <1>1, <1>2, Requests
<1>4. refresh'.detect => initDone' /\ refresh'.count = 0 /\ (boot'.mem => boot'.count5 <= 5)
  <2>1. SUFFICES ASSUME refresh'.detect
                 PROVE  initDone' /\ refresh'.count = 0 /\ (boot'.mem => boot'.count5 <= 5)
    OBVIOUS
  <2>2. refresh.value /\ initDone
    BY <2>1, Requests
  <2>3. boot'.mem => boot.mem /\ boot.state = "IDLE"
    BY <2>2, BootOver
  <2>4. boot.mem => boot.count5 \in 1 .. 6
    BY <1>1, <2>2 DEF BootInv, RFC
  <2> QED BY <1>3, <2>2, <2>3, <2>4, Boots DEF Load
<1>5. refresh'.ref1 => initDone' /\ refresh'.count = 1 /\ (boot'.mem => boot'.count5 <= 4)
  <2>1. SUFFICES ASSUME refresh'.ref1
                 PROVE  initDone' /\ refresh'.count = 1 /\ (boot'.mem => boot'.count5 <= 4)
    OBVIOUS
  <2>2. refresh.detect /\ initDone /\ refresh.count = 0
    BY <1>1, <2>1, Requests DEF RequestAt
  <2>3. boot'.mem => boot.mem /\ boot.state = "IDLE"
    BY <2>2, BootOver
  <2>4. boot.mem => boot.count5 \in 1 .. 5
    BY <1>1, <2>2 DEF BootInv, RequestAt, RFC
  <2> QED BY <1>1, <1>2, <1>3, <2>2, <2>3, <2>4, Boots DEF Load
\* A request is raised, or was and is not carried out.
<1>6. autoRefReq' <=> refresh.ref1 \/ (autoRefReq /\ ~Refreshing)
  BY <1>1, <1>2, Requests
<1>7. refresh.ref1 => refresh.count = 1 /\ refresh'.count = 2
  BY <1>1, <1>2, <1>3 DEF RequestAt
<1>8. autoRefReq => refresh.count \in 2 .. 17
  <2>1. SUFFICES ASSUME autoRefReq
                 PROVE  refresh.count \in 2 .. 17
    OBVIOUS
  <2>2. state # "AUTO_REFRESH_WAIT" /\ refresh.count >= 2
    BY <1>1, <2>1 DEF RefreshAt, RequestAt
  <2>3. CASE k # 0
    BY <1>1, <1>2, <2>1, <2>2, <2>3 DEF RequestAt
  <2>4. CASE k = 0
    <3>1. state \in {"IDLE", "AUTO_REFRESH"}
      BY <2>2, <2>4, RowFacts
    <3>2. boot.count5 \in 0 .. 7
      BY <1>1 DEF BootInv, RFC
    <3> QED BY <1>1, <1>2, <2>1, <2>2, <3>1, <3>2 DEF RequestAt
  <2> QED BY <2>3, <2>4
<1>9. autoRefReq => refresh'.count = refresh.count + 1
  BY <1>1, <1>2, <1>3, <1>8
<1>10. /\ refresh'.wait1 <=> autoRefReq' /\ refresh'.count >= 3
       /\ refresh'.wait2 <=> autoRefReq' /\ refresh'.count >= 4
       /\ refresh'.ref <=> autoRefReq' /\ refresh'.count >= 5
  <2>1. /\ refresh.wait1 <=> autoRefReq /\ refresh.count >= 3
        /\ refresh.wait2 <=> autoRefReq /\ refresh.count >= 4
    BY <1>1 DEF RequestAt
  <2>2. CASE autoRefReq /\ ~Refreshing
    BY <1>6, <1>8, <1>9, <2>1, <2>2, Requests
  <2>3. CASE ~(autoRefReq /\ ~Refreshing)
    BY <1>2, <1>6, <1>7, <2>1, <2>3, Requests
  <2> QED BY <2>2, <2>3
<1>11. ASSUME autoRefReq'
       PROVE  /\ refresh'.count >= 2
              /\ accept' => refresh'.count = 2
              /\ goToActive' /\ j = 0 => refresh'.count <= 3
              /\ j # 0 => refresh'.count <= j + 3
              /\ state' = "IDLE" => IF boot'.mem THEN refresh'.count + boot'.count5 <= 5
                                    ELSE IF refresh'.rfcOver THEN refresh'.count <= 6 ELSE refresh'.count <= 5
              /\ state' = "AUTO_REFRESH" => refresh'.count <= 17
  <2>1. CASE refresh.ref1
    <3>1. boot'.mem => boot'.count5 <= 3
      <4>1. initDone /\ (boot.mem => boot.count5 \in 1 .. 4)
        BY <1>1, <2>1 DEF RequestAt, BootInv, RFC
      <4>2. boot'.mem => boot.mem /\ boot.state = "IDLE"
        BY <4>1, BootOver
      <4> QED BY <4>1, <4>2, Boots DEF Load
    <3>2. refresh'.count = 2 /\ j \in 0 .. 13 /\ boot'.count5 \in 0 .. 7
      <4>1. boot.count5 \in 0 .. 7
        BY <1>1 DEF BootInv, RFC
      <4> QED BY <1>7, <2>1, <4>1, RowStep, Boots DEF Load
    <3> QED BY <3>1, <3>2
  <2>2. CASE autoRefReq /\ ~Refreshing
    <3>1. refresh'.count = refresh.count + 1 /\ refresh.count \in 2 .. 17
      BY <1>8, <1>9, <2>2
    <3>2. ~accept'
      BY <2>2 DEF Clocked, CommandEdge, CanAccept
    <3>3. goToActive' => refresh'.count <= 3
      BY <1>1, <2>2, <3>1, Commands DEF RequestAt
    <3>4. j # 0 => refresh'.count <= j + 3
      <4>1. CASE k = 0
        BY <1>1, <2>2, <3>1, <4>1 DEF RequestAt, NextClock
      <4>2. CASE k # 0
        BY <1>1, <2>2, <3>1, <4>2 DEF RequestAt, NextClock
      <4> QED BY <4>1, <4>2
    <3>5. CASE state = "IDLE"
      <4>1. state' = "IDLE" => IF boot'.mem THEN refresh'.count + boot'.count5 <= 5
                               ELSE IF refresh'.rfcOver THEN refresh'.count <= 6 ELSE refresh'.count <= 5
        <5>1. CASE boot.mem
          <6>1. refresh.count + boot.count5 <= 5 /\ initDone /\ boot.count5 \in 1 .. 6 /\ boot.state = "IDLE"
            BY <1>1, <2>2, <3>5, <5>1 DEF RequestAt, BootInv, RFC
          <6>2. boot'.count5 = boot.count5 - 1
            BY <6>1, Boots DEF Load
          <6> QED BY <3>1, <6>1, <6>2
        <5>2. CASE ~boot.mem
          <6>1. initDone /\ ~boot'.mem
            <7>1. initDone
              BY <1>1, <2>2 DEF BootInv
            <7> QED BY <5>2, <7>1, BootOver
          <6>2. refresh'.rfcOver
            BY <5>2, <6>1, <3>5, RowFacts, Requests
          <6>3. state' = "IDLE" => refresh.count <= 5
            <7>1. CASE refresh.rfcOver
              <8>1. state' = "IDLE" => ~refresh.ref
                BY <3>5, <5>2, <7>1, StateStep
              <8> QED BY <1>1, <2>2, <3>1, <8>1 DEF RequestAt
            <7>2. CASE ~refresh.rfcOver
              BY <1>1, <2>2, <3>5, <5>2, <7>2 DEF RequestAt
            <7> QED BY <7>1, <7>2
          <6> QED BY <3>1, <6>1, <6>2, <6>3
        <5> QED BY <5>1, <5>2
      <4>2. state' = "AUTO_REFRESH" => refresh'.count <= 17
        <5>1. boot.count5 \in 0 .. 7 /\ refresh.count <= 6
          BY <1>1, <2>2, <3>5, <3>1 DEF RequestAt, BootInv, RFC
        <5> QED BY <3>1, <5>1
      <4> QED BY <3>1, <3>2, <3>3, <3>4, <4>1, <4>2
    <3>6. CASE state # "IDLE"
      <4>1. state' = "IDLE" => refresh.count <= 4 /\ ~boot'.mem /\ refresh'.rfcOver
        <5>1. SUFFICES ASSUME state' = "IDLE"
                       PROVE  refresh.count <= 4 /\ ~boot'.mem /\ refresh'.rfcOver
          OBVIOUS
        <5>2. state = "PRECHARGE_WAIT" /\ ~refresh.ref
          BY <1>1, <2>2, <3>6, <5>1, StateStep DEF RefreshAt
        <5>3. initDone /\ ~boot.mem /\ refresh.rfcOver /\ ~refresh.issued
          BY <1>1, <5>2 DEF BootInv, RefreshAt
        <5>4. ~boot'.mem
          BY <5>3, BootOver
        <5> QED BY <1>1, <2>2, <3>1, <5>2, <5>3, <5>4, Requests DEF RequestAt
      <4>2. state' = "AUTO_REFRESH" => refresh.count <= 16
        <5>1. state' = "AUTO_REFRESH" => k # 0
          BY <3>6, StateStep, RowFacts
        <5> QED BY <1>1, <2>2, <3>1, <5>1 DEF RequestAt
      <4> QED BY <3>1, <3>2, <3>3, <3>4, <4>1, <4>2
    <3> QED BY <3>5, <3>6
  <2> QED BY <1>6, <1>11, <2>1, <2>2
<1> QED BY <1>3, <1>4, <1>5, <1>10, <1>11 DEF RequestAt

\* The refresh counter is kept: a request is over before the next tick.
LEMMA RefreshStep ==
  ASSUME NEW k \in 0 .. 13, At(k), Clocked, ~rst180, NEW j, j = NextClock(k)
  PROVE  RefreshAt'
<1>1. /\ RequestAt(k) /\ RefreshAt /\ BootInv /\ CommandAt(k)
      /\ initDone \in BOOLEAN /\ autoRefReq \in BOOLEAN /\ boot.mem \in BOOLEAN
      /\ MaxRefCnt \in Nat /\ MaxRefCnt >= 25
  BY RefreshAssumption DEF At, Registers
<1>2. count.rfc \in 0 .. 7 /\ (state # "AUTO_REFRESH_WAIT" => count.rfc = 0) /\ (k = 0 <=> state \in {"IDLE", "AUTO_REFRESH", "AUTO_REFRESH_WAIT"})
  BY RowFacts
<1>3. /\ refresh.rfcOver => initDone /\ ~boot.mem
      /\ initDone /\ ~boot.mem => initDone' /\ ~boot'.mem
  BY <1>1, BootOver DEF RefreshAt
<1>4. refresh.issued <=> state = "AUTO_REFRESH_WAIT" /\ count.rfc = 7
  BY <1>1 DEF RefreshAt, RFC
<1>5. refresh.doneReg <=> state = "AUTO_REFRESH_WAIT" /\ count.rfc = 1
  BY <1>1 DEF RefreshAt
<1>6. state # "AUTO_REFRESH_WAIT" /\ refresh.rfcOver => refresh'.rfcOver
  BY <1>4, Requests
<1>7. state' = "AUTO_REFRESH" => autoRefReq' /\ refresh'.ref /\ refresh'.rfcOver
  <2>1. SUFFICES ASSUME state' = "AUTO_REFRESH"
                 PROVE  autoRefReq' /\ refresh'.ref /\ refresh'.rfcOver
    OBVIOUS
  <2>2. refresh.ref /\ state \in {"IDLE", "PRECHARGE_WAIT"} /\ refresh.rfcOver
    BY <1>1, <2>1, StateStep DEF RefreshAt
  <2>3. autoRefReq /\ refresh.wait2 /\ ~refresh.ref1 /\ ~Refreshing
    BY <1>1, <2>2 DEF RequestAt, Refreshing
  <2> QED BY <1>1, <1>6, <2>2, <2>3, Requests
<1>8. state' = "AUTO_REFRESH_WAIT" => ~autoRefReq' /\ refresh'.count \in 3 .. 25 - count'.rfc
  <2>1. CASE state = "AUTO_REFRESH"
    <3>1. autoRefReq /\ refresh.count \in 5 .. 17 /\ ~refresh.ref1 /\ Refreshing
      BY <1>1, <2>1 DEF RefreshAt, RequestAt, Refreshing
    <3>2. ~refresh.value
      BY <1>1, <3>1 DEF RequestAt
    <3>3. refresh'.count = refresh.count + 1 /\ ~autoRefReq'
      BY <3>1, <3>2, Requests
    <3>4. count'.rfc = 7
      BY <2>1, StateStep
    <3> QED BY <3>1, <3>3, <3>4
  <2>2. CASE state' = "AUTO_REFRESH_WAIT" /\ state = "AUTO_REFRESH_WAIT"
    <3>1. ~autoRefReq /\ refresh.count \in 3 .. 25 - count.rfc /\ ~refresh.ref1
      BY <1>1, <2>2 DEF RefreshAt, RequestAt
    <3>2. count'.rfc = count.rfc - 1 /\ count.rfc # 0
      BY <2>2, StateStep
    <3>3. ~refresh.value
      BY <1>1, <1>2, <3>1, <3>2 DEF RequestAt
    <3>4. refresh'.count = refresh.count + 1 /\ ~autoRefReq'
      BY <1>1, <2>2, <3>1, <3>3, Requests DEF Refreshing
    <3> QED BY <1>2, <3>1, <3>2, <3>4
  <2> QED BY <2>1, <2>2, StateStep
<1>9. refresh'.issued <=> state' = "AUTO_REFRESH_WAIT" /\ count'.rfc = 7
  <2>1. refresh'.issued <=> state = "AUTO_REFRESH"
    BY Requests DEF Refreshing
  <2> QED BY <1>2, <2>1, StateStep
<1>10. refresh'.doneReg <=> state' = "AUTO_REFRESH_WAIT" /\ count'.rfc = 1
  <2>1. refresh'.doneReg <=> count.rfc = 2
    BY Requests
  <2>2. count.rfc = 2 => state' = "AUTO_REFRESH_WAIT" /\ count'.rfc = 1
    BY <1>2, NextStates DEF Clocked, CountEdge, Load
  <2> QED BY <1>2, <2>1, <2>2, StateStep
<1>11. refresh'.rfcOver => initDone' /\ ~boot'.mem
  <2>1. refresh'.rfcOver => initDone /\ ~boot.mem
    BY <1>1, <1>3, <1>5, Requests DEF BootInv
  <2> QED BY <1>3, <2>1
<1>12. state' = "AUTO_REFRESH_WAIT" /\ count'.rfc = 0 => refresh'.rfcOver
  BY <1>2, <1>5, StateStep, Requests
<1>13. state' \notin {"IDLE", "AUTO_REFRESH_WAIT"} \/ accept' \/ goToActive' => refresh'.rfcOver
  <2>1. accept' => refresh'.rfcOver
    BY Requests DEF Clocked, CommandEdge, CanAccept
  <2>2. goToActive' => refresh'.rfcOver
    <3>1. goToActive' => accept
      BY Commands
    <3>2. accept => state # "AUTO_REFRESH_WAIT" /\ refresh.rfcOver
      BY <1>1, <1>2 DEF CommandAt, RefreshAt
    <3> QED BY <1>6, <3>1, <3>2
  <2>3. state' \notin {"IDLE", "AUTO_REFRESH_WAIT"} => refresh'.rfcOver
    <3>1. CASE state = "IDLE"
      BY <1>1, <1>6, <3>1, StateStep DEF RefreshAt
    <3>2. CASE state = "AUTO_REFRESH_WAIT"
      BY <3>2, NextStates DEF Clocked
    <3>3. CASE state \notin {"IDLE", "AUTO_REFRESH_WAIT"}
      BY <1>1, <1>6, <3>3 DEF RefreshAt
    <3> QED BY <3>1, <3>2, <3>3
  <2> QED BY <2>1, <2>2, <2>3
<1>14. RFC = 7
  BY DEF RFC
<1> QED BY <1>7, <1>8, <1>9, <1>10, <1>11, <1>12, <1>13, <1>14 DEF RefreshAt

\* A falling edge out of reset takes the whole timetable to the next clock.
LEMMA RegistersStep ==
  ASSUME NEW k \in 0 .. 13, At(k), Clocked, BridgeFall, rst180' = FALSE
  PROVE  Registers'
<1>1. /\ autoRefReq \in BOOLEAN /\ burstDone \in BOOLEAN
  BY DEF At, Registers
<1>2. accept' \in BOOLEAN /\ cmdAck' \in BOOLEAN
  BY DEF At, Registers, Clocked, CommandEdge, CanAccept
<1>3. burstEnd' \in BOOLEAN
  BY <1>1 DEF Clocked, CountEdge
<1>4. autoRefReq' \in BOOLEAN
  BY <1>1, Requests
<1>5. initDone' \in BOOLEAN /\ boot'.mem \in BOOLEAN
  BY Boots
<1>6. burstDone' \in BOOLEAN
  BY <1>1 DEF BridgeFall, Startup, WaitInit, YieldToRefresh, StayIdle, IssueCommand, WaitRefresh, AwaitAck,
                    RaiseBurstDone, WriteDone, ReadWait, ReadDone, WaitDrop
<1> QED BY <1>2, <1>3, <1>4, <1>5, <1>6, Commands DEF Registers

\* The edge at which the controller leaves its reset: the bridge asks for the
\* initialisation, and no other register moves.
LEMMA FirstFall ==
  ASSUME NEW k \in 0 .. 13, At(k), rst180, rst180' = FALSE, BridgeFall,
         UNCHANGED <<state, accept, writeCmd1, readCmd1, goToActive, count, burstEnd,
                      refresh, boot, cmd2, adr, pin, pinAdr, strobe, initDone,
                      autoRefReq, arDone, cmdAck>>
  PROVE  At(k)'
<1>1. bridgeState = "STARTUP" /\ ~initDone
  BY DEF At, BootInv
<1>2. /\ bridgeState' = "WAIT_INIT" /\ userCmd' = "INIT" /\ waitCounter' = waitCounter /\ burstDone' = burstDone
  BY <1>1, BridgeMoves DEF Startup
<1>3. RowAt(k)' <=> RowAt(k)
  BY DEF RowAt, Resting, WriteRow, ReadRow, Place
<1>4. ~Asking /\ ~Asking' /\ userCmd = "NOP"
  BY <1>1, <1>2 DEF Asking, At, BootInv
<1>5. k = 0 /\ ~goToActive
  BY <1>4, RowFacts DEF At, CommandAt, BootInv, Opening, BridgeAt
<1>6. BridgeAt(k)'
  BY <1>1, <1>2, <1>4, <1>5 DEF At, BridgeAt
<1>7. CommandAt(k)'
  BY <1>4, <1>5 DEF At, CommandAt
<1>8. RequestAt(k)' /\ RefreshAt'
  <2>1. RequestAt(k) /\ RefreshAt
    BY DEF At
  <2>2. RequestAt(k)'
    BY <2>1 DEF RequestAt
  <2>3. RefreshAt'
    BY <2>1 DEF RefreshAt
  <2> QED BY <2>2, <2>3
<1>9. BootInv'
  BY <1>1, <1>2 DEF At, BootInv
<1>10. Registers'
  BY <1>2 DEF At, Registers
<1> QED BY <1>3, <1>6, <1>7, <1>8, <1>9, <1>10 DEF At

\* The other two edges of the clock move nothing of this.
LEMMA OtherEdges ==
  ASSUME NEW k \in 0 .. 13, At(k), UNCHANGED <<bridgeFall, ctlVars>>
  PROVE  At(k)'
<1>1. RowAt(k)' <=> RowAt(k)
  BY DEF RowAt, Resting, WriteRow, ReadRow, Place, ctlVars
<1>2. BridgeAt(k)' <=> BridgeAt(k)
  BY DEF BridgeAt, Asking, ctlVars, bridgeFall
<1>3. CommandAt(k)' <=> CommandAt(k)
  BY DEF CommandAt, Asking, Opening, ctlVars, bridgeFall
<1>4. RequestAt(k)' <=> RequestAt(k)
  BY DEF RequestAt, ctlVars
<1>5. RefreshAt' <=> RefreshAt
  BY DEF RefreshAt, ctlVars
<1>6. BootInv' <=> BootInv
  BY DEF BootInv, ctlVars, bridgeFall
<1>7. Registers' <=> Registers
  BY DEF Registers, ctlVars, bridgeFall
<1> QED BY <1>1, <1>2, <1>3, <1>4, <1>5, <1>6, <1>7 DEF At

\* One falling edge, in the reset and after it.
LEMMA FallStep ==
  ASSUME NEW k \in 0 .. 13, At(k), BridgeFall, ControllerFall
  PROVE  IF rst180 THEN At(k)' ELSE Clocked /\ \E j \in 0 .. 13 : j = NextClock(k) /\ At(j)'
<1>1. rst180' = FALSE
  BY DEF ControllerFall
<1>2. CASE rst180
  BY <1>1, <1>2, FirstFall DEF ControllerFall
<1>3. CASE ~rst180
  <2>1. Clocked
    BY <1>3 DEF ControllerFall, Clocked
  <2>0. PICK j : j = NextClock(k)
    OBVIOUS
  <2>2. RowAt(j)' /\ j \in 0 .. 13
    BY <2>0, <2>1, RowStep
  <2>3. BridgeAt(j)' /\ CommandAt(j)' /\ RequestAt(j)' /\ RefreshAt' /\ BootInv'
    BY <1>1, <1>3, <2>0, <2>1, BridgeStep, CommandStep, RequestStep, RefreshStep, BootStep
  <2>4. Registers'
    BY <1>1, <2>1, RegistersStep
  <2>5. At(j)'
    BY <2>2, <2>3, <2>4 DEF At
  <2> QED BY <1>3, <2>0, <2>1, <2>2, <2>5
<1> QED BY <1>2, <1>3

\* At power-up every clock is 0.
LEMMA InitAt == Init => At(0)
<1> SUFFICES ASSUME Init PROVE At(0)
  OBVIOUS
<1>1. /\ rst180 = TRUE /\ state = "IDLE"
      /\ accept = FALSE /\ writeCmd1 = FALSE /\ readCmd1 = FALSE /\ goToActive = FALSE
      /\ burstEnd = FALSE /\ initDone = FALSE /\ autoRefReq = FALSE /\ cmdAck = FALSE
      /\ bridgeState = "STARTUP" /\ waitCounter = 0 /\ userCmd = "NOP" /\ burstDone = FALSE
  BY DEF Init, ControllerInit, BridgeInit
<1>2. RowAt(0)
  BY DEF Init, ControllerInit, RowAt, Resting, Place
<1>3. BridgeAt(0)
  BY <1>1 DEF BridgeAt, Asking
<1>4. CommandAt(0)
  BY <1>1 DEF CommandAt, Asking, Opening
<1>5. RequestAt(0)
  BY <1>1, RefreshAssumption DEF Init, ControllerInit, RequestAt
<1>6. RefreshAt
  BY <1>1 DEF Init, ControllerInit, RefreshAt
<1>7. BootInv
  BY <1>1 DEF Init, ControllerInit, BootInv, InitDoneCount, RFC
<1>8. Registers
  BY <1>1 DEF Init, ControllerInit, Registers
<1> QED BY <1>2, <1>3, <1>4, <1>5, <1>6, <1>7, <1>8 DEF At

\* The timetable holds at power-up.
LEMMA InitTimetable == Init => Timetable
BY InitAt DEF Timetable

\* Every step keeps the timetable.
LEMMA StepTimetable == Timetable /\ [Next]_vars => Timetable'
<1> SUFFICES ASSUME NEW k \in 0 .. 13, At(k), [Next]_vars PROVE Timetable'
  BY DEF Timetable
<1>1. CASE Fall
  BY <1>1, FallStep DEF Fall, Timetable
<1>2. CASE Rise \/ Quarter \/ UNCHANGED vars
  <2>1. UNCHANGED <<bridgeFall, ctlVars>>
    BY <1>2 DEF Rise, Quarter, vars
  <2> QED BY <2>1, OtherEdges DEF Timetable
<1> QED BY <1>1, <1>2 DEF Next

\* The bridge and the controller, whose machines count their clocks apart from one
\* another, keep one timetable: the place in the row cycle determines both.
THEOREM InStep == Safety => []Timetable
BY InitTimetable, StepTimetable, PTL DEF Safety

\* The timetable implies the property.
LEMMA KeptNow == Timetable => RefreshesKept
<1> SUFFICES ASSUME NEW k \in 0 .. 13, At(k) PROVE RefreshesKept
  BY DEF Timetable
<1>1. NoTickDropped
  BY DEF NoTickDropped, At, RequestAt
<1>2. ActivateNotLost
  <2>1. SUFFICES ASSUME goToActive, state \notin {"ACTIVE", "ACTIVE_WAIT"}
                 PROVE  NextState = "ACTIVE"
    BY DEF ActivateNotLost
  <2>2. k \notin 1 .. 2
    BY <2>1 DEF At, RowAt, WriteRow, ReadRow, Place
  <2>3. state = "IDLE" /\ k = 0
    BY <2>1, <2>2, RowFacts DEF At, CommandAt, Opening
  <2>4. ~refresh.ref /\ ~boot.mem
    BY <2>1, <2>3 DEF At, RequestAt, RefreshAt
  <2> QED BY <2>1, <2>3, <2>4, NextStates
<1> QED BY <1>1, <1>2 DEF RefreshesKept

\* An order to open a row is never overtaken by a refresh, and no refresh tick is
\* dropped, whatever the cache asks for and when.
THEOREM NothingForgotten == Safety => []RefreshesKept
BY InStep, KeptNow, PTL

-----------------------------------------------------------------------------
(* What the chip sees.                                                        *)

\* Where the row cycle is, by the state of the controller.
LEMMA Places ==
  ASSUME NEW k \in 0 .. 13, At(k)
  PROVE  /\ k <= RowEnd /\ RowEnd \in {10, 13}
         /\ state = "ACTIVE" <=> k = 1
         /\ Writing <=> k = 4 /\ writeCmd1
         /\ state = "BURST_READ" <=> k = 4 /\ ~writeCmd1
         /\ state = "PRECHARGE" <=> k = RowEnd - 2
         /\ count.burst > 1 <=> k = 5 /\ writeCmd1
<1>1. RowAt(k) /\ RowEnd \in {10, 13} /\ (writeCmd1 => RowEnd = 13) /\ (~writeCmd1 => RowEnd = 10)
  BY DEF At, RowEnd
<1>2. CASE Resting
  <2>1. k = 0
    BY <1>2, RowFacts DEF Resting, Place
  <2> QED BY <1>1, <1>2, <2>1 DEF Resting, Place, Writing
<1>3. CASE ~Resting /\ k \in 0 .. 3
  BY <1>1, <1>3 DEF RowAt, WriteRow, ReadRow, Place, Writing
<1>4. CASE ~Resting /\ k \notin 0 .. 3 /\ writeCmd1
  BY <1>1, <1>4 DEF RowAt, WriteRow, Place, Writing
<1>5. CASE ~Resting /\ k \notin 0 .. 3 /\ ~writeCmd1
  BY <1>1, <1>5 DEF RowAt, ReadRow, Place, Writing
<1> QED BY <1>2, <1>3, <1>4, <1>5

\* From one clock of the row to the next.
LEMMA Turns ==
  ASSUME NEW k \in 0 .. 13, At(k), Clocked, NEW j, j = NextClock(k)
  PROVE  /\ j \in 0 .. 13 /\ (j # 0 => (writeCmd1' <=> writeCmd1) /\ RowEnd' = RowEnd)
         /\ k \in 0 .. RowEnd /\ RowEnd \in {10, 13} /\ RowEnd' \in {10, 13}
         /\ j = IF k = 0 THEN (IF goToActive THEN 1 ELSE 0) ELSE IF k = RowEnd THEN 0 ELSE k + 1
<1>1. k # 0 \/ goToActive => writeCmd1' = writeCmd1
  BY Commands
<1>2. k \in 0 .. RowEnd /\ RowEnd \in {10, 13}
  BY Places
<1>3. j = IF k = 0 THEN (IF goToActive THEN 1 ELSE 0) ELSE IF k = RowEnd THEN 0 ELSE k + 1
  BY DEF NextClock
<1>4. RowEnd' \in {10, 13}
  BY DEF RowEnd
<1>5. k # 0 \/ goToActive => RowEnd' = RowEnd
  BY <1>1 DEF RowEnd
<1> QED BY <1>1, <1>2, <1>3, <1>4, <1>5

\* Once the initialisation is over or before it began, no command of it is out.
LEMMA BootClockStep ==
  ASSUME NEW k \in 0 .. 13, At(k), BootClock, Clocked
  PROVE  BootClock'
<1>1. BootInv /\ InitDoneCount = 5 /\ boot.count \in 0 .. 5 /\ boot.count5 \in 0 .. 7
  BY DEF At, BootInv, InitDoneCount, RFC
<1>2. /\ boot.mem \in BOOLEAN /\ (boot.memory /\ boot.count < 5 => boot.mem)
      /\ boot.state # "IDLE" => boot.count < 5
      /\ ~boot.mem => boot.count \in {0, 5}
  BY <1>1 DEF At, Registers, BootInv
<1>3. \/ boot'.state = "IDLE"
      \/ /\ boot.state = "IDLE" /\ boot.memory
         /\ \/ boot'.state = "PRECHARGE" /\ boot.count = 0
            \/ boot'.state = "AUTO_REFRESH" /\ boot.count \in {1, 2} /\ boot.count5 = 1
            \/ boot'.state = "LOAD_MODE_REG" /\ boot.count \in {3, 4} /\ boot.count5 = 1
  <2>1. boot'.state = BootNext
    BY Boots
  <2> QED BY <1>1, <2>1 DEF BootNext
<1>4. boot'.state # "IDLE" => boot'.memory /\ boot'.count5 = 0 /\ boot'.count = boot.count
  BY <1>1, <1>2, <1>3, Boots DEF BootClock, Load
<1>5. boot'.count = 0 => boot'.count5 = 0
  BY <1>1, <1>2, Boots DEF BootClock, Load
<1>6. ~boot'.mem => boot'.count5 = 0
  BY <1>1, <1>2, Boots DEF BootClock, Load
<1>7. boot'.memory \in BOOLEAN
  BY <1>2, Boots
<1> QED BY <1>3, <1>4, <1>5, <1>6, <1>7 DEF BootClock

\* The same registers, in the timetable: the sequence runs while the row machine rests.
LEMMA BootMoves ==
  ASSUME NEW k \in 0 .. 13, At(k), BootClock, Clocked
  PROVE  /\ boot'.count5 = 7 <=> boot.state # "IDLE"
         /\ boot'.count5 = 6 <=> boot.count5 = 7
         /\ boot'.count5 \in 0 .. 7 /\ boot.count5 \in 0 .. 7
         /\ boot.state # "IDLE" => boot'.count = boot.count + 1
         /\ boot.state = "IDLE" => boot'.count = boot.count
         /\ boot'.count5 = IF boot.state # "IDLE" THEN 7 ELSE IF boot.count5 = 0 THEN 0 ELSE boot.count5 - 1
         /\ boot.state # "IDLE" => state = "IDLE" /\ boot.count5 = 0
<1>1. BootInv /\ InitDoneCount = 5 /\ RFC = 7
  BY DEF At, InitDoneCount, RFC
<1>2. boot.count \in 0 .. 5 /\ boot.count5 \in 0 .. 7
  BY <1>1 DEF BootInv
<1>3. boot.state # "IDLE" => boot.memory /\ boot.count5 = 0
  BY DEF BootClock
<1>4. boot.state # "IDLE" => boot.count # 5
  BY <1>1 DEF BootInv
<1>5. boot.state # "IDLE" => state = "IDLE"
  <2>1. boot.state # "IDLE" => ~initDone \/ boot.mem
    BY <1>1, <1>4 DEF BootInv
  <2> QED BY <1>1, <2>1 DEF BootInv
<1> QED BY <1>2, <1>3, <1>5, Boots DEF Load

\* The pins carry the command the row calls for at its clock.
LEMMA PinsStep ==
  ASSUME NEW k \in 0 .. 13, At(k), BootClock, PinsAt(k), Clocked, PinEdge, NEW j, j = NextClock(k)
  PROVE  PinsAt(j)'
<1>1. cmd2' = Command1 /\ pin' = cmd2
  BY DEF PinEdge
<1>2. /\ RefreshClock(7)' <=> state = "AUTO_REFRESH"
      /\ RefreshClock(6)' <=> RefreshClock(7)
  <2>1. RefreshClock(7)' <=> state = "AUTO_REFRESH"
    BY StateStep, RowFacts DEF RefreshClock
  <2>2. RefreshClock(7) => RefreshClock(6)'
    BY NextStates DEF RefreshClock, Clocked, CountEdge, Load
  <2>3. RefreshClock(6)' => RefreshClock(7)
    BY StateStep, RowFacts DEF RefreshClock
  <2> QED BY <2>1, <2>2, <2>3
<1>4. /\ BootSent(7, {1})' <=> boot.state = "PRECHARGE"
      /\ BootSent(7, {2, 3})' <=> boot.state = "AUTO_REFRESH"
      /\ BootSent(7, {4, 5})' <=> boot.state = "LOAD_MODE_REG"
  BY BootMoves DEF BootSent, BootClock
<1>5. Command1 \in ChipCommand
  BY DEF Command1, ChipCommand
<1>6. /\ Command1 = "ACT" <=> k = 1
      /\ Command1 = "WR" <=> k = 4 /\ writeCmd1
      /\ Command1 = "RD" <=> k = 4 /\ ~writeCmd1
      /\ Command1 = "PRE" <=> k = RowEnd - 2 \/ boot.state = "PRECHARGE"
      /\ Command1 = "REF" <=> state = "AUTO_REFRESH" \/ boot.state = "AUTO_REFRESH"
      /\ Command1 = "MRS" <=> boot.state = "LOAD_MODE_REG"
  <2>1. boot.state # "IDLE" => state = "IDLE"
    BY BootMoves
  <2>2. boot.state \in {"IDLE", "PRECHARGE", "AUTO_REFRESH", "LOAD_MODE_REG"}
    BY DEF BootClock
  <2>3. CASE boot.state # "IDLE"
    BY <2>1, <2>2, <2>3, Places DEF Command1, Writing
  <2>4. CASE boot.state = "IDLE"
    <3>1. Command1 = CASE state = "ACTIVE" -> "ACT" [] state = "PRECHARGE" -> "PRE" [] state = "AUTO_REFRESH" -> "REF"
                        [] state = "BURST_READ" -> "RD" [] Writing -> "WR" [] OTHER -> "NOP"
      BY <2>4 DEF Command1
    <3>2. Writing <=> state \in {"FIRST_WRITE", "BURST_WRITE"}
      BY DEF Writing
    <3> QED BY <2>4, <3>1, <3>2, Places
  <2> QED BY <2>3, <2>4
<1>7. Shows(cmd2, j, 1)'
  <2>1. /\ j = 2 <=> k = 1
        /\ j = 5 /\ writeCmd1' <=> k = 4 /\ writeCmd1
        /\ j = 5 /\ ~writeCmd1' <=> k = 4 /\ ~writeCmd1
        /\ j = RowEnd' - 1 <=> k = RowEnd - 2
    BY Turns
  <2>2. /\ cmd2' \in ChipCommand
        /\ cmd2' = "ACT" <=> j = 2
        /\ cmd2' = "WR"  <=> j = 5 /\ writeCmd1'
        /\ cmd2' = "RD"  <=> j = 5 /\ ~writeCmd1'
        /\ cmd2' = "PRE" <=> j = RowEnd' - 1 \/ BootSent(7, {1})'
        /\ cmd2' = "REF" <=> RefreshClock(7)' \/ BootSent(7, {2, 3})'
        /\ cmd2' = "MRS" <=> BootSent(7, {4, 5})'
    BY <1>1, <1>2, <1>4, <1>5, <1>6, <2>1
  <2>3. RowEnd' - 1 = RowEnd' - 2 + 1
    BY Turns
  <2> QED BY <2>2, <2>3 DEF Shows, BootSent, RefreshClock
<1>8. Shows(pin, j, 2)'
  <2>1. /\ j = 3 <=> k = 2
        /\ j = 6 /\ writeCmd1' <=> k = 5 /\ writeCmd1
        /\ j = 6 /\ ~writeCmd1' <=> k = 5 /\ ~writeCmd1
        /\ j = RowEnd' <=> k = RowEnd - 1
    BY Turns
  <2>2. /\ cmd2 \in ChipCommand
        /\ cmd2 = "ACT" <=> k = 2
        /\ cmd2 = "WR"  <=> k = 5 /\ writeCmd1
        /\ cmd2 = "RD"  <=> k = 5 /\ ~writeCmd1
        /\ cmd2 = "PRE" <=> k = RowEnd - 1 \/ BootSent(7, {1})
        /\ cmd2 = "REF" <=> RefreshClock(7) \/ BootSent(7, {2, 3})
        /\ cmd2 = "MRS" <=> BootSent(7, {4, 5})
    <3>1. RowEnd - 1 = RowEnd - 2 + 1
      BY Turns
    <3> QED BY <3>1 DEF PinsAt, Shows, BootSent, RefreshClock
  <2>3. /\ BootSent(6, {1})' <=> BootSent(7, {1})
        /\ BootSent(6, {2, 3})' <=> BootSent(7, {2, 3})
        /\ BootSent(6, {4, 5})' <=> BootSent(7, {4, 5})
    BY BootMoves DEF BootSent, BootClock
  <2>4. /\ pin' \in ChipCommand
        /\ pin' = "ACT" <=> j = 3
        /\ pin' = "WR"  <=> j = 6 /\ writeCmd1'
        /\ pin' = "RD"  <=> j = 6 /\ ~writeCmd1'
        /\ pin' = "PRE" <=> j = RowEnd' \/ BootSent(6, {1})'
        /\ pin' = "REF" <=> RefreshClock(6)' \/ BootSent(6, {2, 3})'
        /\ pin' = "MRS" <=> BootSent(6, {4, 5})'
    BY <1>1, <1>2, <2>1, <2>2, <2>3
  <2>5. RowEnd' = RowEnd' - 2 + 2
    BY Turns
  <2> QED BY <2>4, <2>5 DEF Shows, BootSent, RefreshClock
<1> QED BY <1>7, <1>8 DEF PinsAt

\* A falling edge after the reset, of the bridge, the controller and the chip.
Falling(k, j) ==
  /\ At(k) /\ At(j)' /\ j = NextClock(k) /\ edge = "fall" /\ edge' = "rise"
  /\ Clocked /\ PinEdge /\ StrobeEdge /\ AddressEdge /\ BridgeFall /\ ChipFall
  /\ UNCHANGED <<held, cacheSide, bridgeRise, pathVars>>

\* The bridge latches an address only when it takes a request, with the row at rest.
LEMMA TakenMoves ==
  ASSUME NEW k \in 0 .. 13, NEW j \in 0 .. 13, Falling(k, j)
  PROVE  \/ IssueCommand /\ k = 0 /\ j = 0 /\ bridgeState = "IDLE" /\ ~cmdAck' /\ ~goToActive' /\ ~goToActive
         \/ UNCHANGED <<userAddr, taken>> /\ (Asking' => Asking /\ bridgeState' = bridgeState)
<1>0. At(k) /\ At(j)' /\ BridgeFall /\ Clocked /\ j = NextClock(k)
  BY DEF Falling
<1>1. CASE IssueCommand
  <2>1. bridgeState = "IDLE" /\ ~cmdAck
    BY <1>1 DEF IssueCommand
  <2>2. k = 0 /\ userCmd \notin {"WRITE", "READ"}
    BY <1>0, <2>1 DEF At, CommandAt, BridgeAt, Asking
  <2>3. ~goToActive /\ j = 0
    BY <1>0, <2>1, <2>2 DEF At, CommandAt, Opening, Asking, NextClock
  <2>4. ~goToActive'
    BY <1>0, <2>2, Commands
  <2>5. Asking'
    BY <1>1 DEF IssueCommand, Asking
  <2>6. ~cmdAck'
    BY <1>0, <2>4, <2>5 DEF At, CommandAt
  <2> QED BY <1>1, <2>1, <2>2, <2>3, <2>4, <2>6
<1>2. CASE ~IssueCommand
  BY <1>0, <1>2 DEF BridgeFall, Startup, WaitInit, YieldToRefresh, StayIdle, WaitRefresh, AwaitAck,
                    RaiseBurstDone, WriteDone, ReadWait, ReadDone, WaitDrop, Asking
<1> QED BY <1>1, <1>2

\* The address on the pins is that of the request being served.
LEMMA AddressStep ==
  ASSUME NEW k \in 0 .. 13, NEW j \in 0 .. 13, Falling(k, j), AddressAt(k), memAddr \in LineAddr, memWstrb \in BOOLEAN
  PROVE  AddressAt(j)'
<1>0. At(k) /\ At(j)' /\ Clocked /\ AddressEdge /\ PinEdge /\ j = NextClock(k)
  BY DEF Falling
<1>1. j # 0 => (writeCmd1' <=> writeCmd1) /\ (IF j = 1 THEN k = 0 /\ goToActive ELSE k = j - 1)
  BY <1>0, Turns
<1>2. adr1' = userAddr /\ adr2' = adr1 /\ pinAdr' = adr
      /\ adr' = [bank |-> adr2.bank, row |-> adr1.row, col |-> adr2.col]
  BY <1>0 DEF AddressEdge, PinEdge
<1>3. CASE IssueCommand /\ k = 0 /\ j = 0 /\ bridgeState = "IDLE" /\ ~cmdAck'
  <2>1. userAddr' = memAddr /\ taken' = [addr |-> memAddr, wr |-> memWstrb]
        /\ bridgeState' = IF memWstrb THEN "WRITE_CMD" ELSE "READ_CMD"
    BY <1>3 DEF IssueCommand
  <2>2. taken'.addr = memAddr /\ taken'.wr = memWstrb
    BY <2>1
  <2> QED BY <1>3, <2>1, <2>2 DEF AddressAt
<1>4. CASE UNCHANGED <<userAddr, taken>> /\ (Asking' => Asking /\ bridgeState' = bridgeState)
  <2>1. userAddr' = userAddr /\ taken' = taken
    BY <1>4
  <2>2. Asking' => adr1' = userAddr'
    BY <1>2, <2>1
  <2>3. k = 0 /\ goToActive => adr1 = userAddr /\ (taken.wr <=> writeCmd1)
    BY <1>0 DEF At, CommandAt, Opening, AddressAt
  <2>4. j # 0 => /\ adr1' = userAddr' /\ adr2' = userAddr' /\ adr'.row = userAddr'.row
                 /\ (taken'.wr <=> writeCmd1')
    BY <1>1, <1>2, <2>1, <2>3 DEF AddressAt
  <2>5. j >= 2 => adr' = Split(userAddr')
    BY <1>1, <1>2, <2>1 DEF AddressAt, Split
  <2>6. j >= 3 => pinAdr' = Split(userAddr')
    BY <1>1, <1>2, <2>1 DEF AddressAt
  <2>7. Split(userAddr') = Split(userAddr)'
    BY DEF Split
  <2> QED BY <1>4, <2>1, <2>2, <2>4, <2>5, <2>6, <2>7 DEF AddressAt
<1> QED BY <1>3, <1>4, TakenMoves

\* What the falling edge leaves alone in the chip.
LEMMA ChipFalls ==
  ASSUME ChipFall
  PROVE  /\ chip'.open = chip.open /\ chip'.used = chip.used /\ chip'.rd = chip.rd
         /\ chip'.wr = Progress(chip.wr)
         /\ chip'.since = IF chip.wr.left \in {1, 2} THEN [chip.since EXCEPT !["DATA"] = 0] ELSE chip.since
BY DEF ChipFall

\* A falling edge leaves the open row alone while the clock of the row moves.
LEMMA OpenFall ==
  ASSUME NEW k \in 0 .. 13, NEW j \in 0 .. 13, Falling(k, j), OpenAt(k)
  PROVE  OpenAt(j)'
<1>0. At(k) /\ Clocked /\ ChipFall /\ j = NextClock(k) /\ edge = "fall" /\ edge' = "rise"
  BY DEF Falling
<1>1. chip'.open = chip.open /\ chip'.used = chip.used
  BY <1>0, ChipFalls
<1>2. k # 0 => taken' = taken
  BY TakenMoves
<1>3. /\ j \in 4 .. 13 <=> k \in 3 .. RowEnd - 1
      /\ j \in 4 .. 6 => k \in 3 .. 5
      /\ j \in 7 .. 13 => k \in 6 .. 12
  BY <1>0, Turns
<1>4. chip.open = IF k \in 3 .. RowEnd - 1 THEN {Row(taken.addr)} ELSE {}
  BY <1>0 DEF OpenAt
<1>5. chip'.open = IF j \in 4 .. 13 THEN {Row(taken.addr)'} ELSE {}
  <2>1. k # 0 => Row(taken.addr)' = Row(taken.addr)
    BY <1>2 DEF Row
  <2> QED BY <1>1, <1>3, <1>4, <2>1
<1>6. (k \in 3 .. 5 => ~chip.used) /\ (k \in 6 .. 12 => chip.used)
  BY <1>0 DEF OpenAt
<1> QED BY <1>0, <1>1, <1>3, <1>5, <1>6 DEF OpenAt

\* What is on the pins, by the clock of the row.
LEMMA PinFacts ==
  ASSUME NEW k \in 0 .. 13, At(k), BootClock, PinsAt(k)
  PROVE  /\ pin = "ACT" <=> k = 3
         /\ pin = "WR" <=> k = 6 /\ writeCmd1
         /\ pin = "RD" <=> k = 6 /\ ~writeCmd1
         /\ k = RowEnd => pin = "PRE"
         /\ pin = "PRE" /\ k # RowEnd => k = 0 /\ boot.mem /\ boot.count5 = 6
         /\ pin = "REF" => k = 0 /\ (RefreshClock(6) \/ (boot.mem /\ boot.count5 = 6))
         /\ pin = "MRS" => k = 0 /\ boot.mem /\ boot.count5 = 6
         /\ RefreshClock(6) => pin = "REF"
         /\ pin # "DATA"
<1>1. /\ pin \in ChipCommand
      /\ pin = "ACT" <=> k = 3
      /\ pin = "WR" <=> k = 6 /\ writeCmd1
      /\ pin = "RD" <=> k = 6 /\ ~writeCmd1
      /\ pin = "PRE" <=> k = RowEnd \/ BootSent(6, {1})
      /\ pin = "REF" <=> RefreshClock(6) \/ BootSent(6, {2, 3})
      /\ pin = "MRS" <=> BootSent(6, {4, 5})
  <2>1. RowEnd = RowEnd - 2 + 2
    BY Places
  <2> QED BY <2>1 DEF PinsAt, Shows, BootSent, RefreshClock
<1>2. boot.count5 = 6 => boot.mem /\ k = 0
  <2>1. boot.count5 = 6 => boot.mem
    BY DEF BootClock
  <2>2. boot.mem => state = "IDLE"
    BY DEF At, BootInv
  <2> QED BY <2>1, <2>2, RowFacts
<1>3. RefreshClock(6) => k = 0
  BY RowFacts DEF RefreshClock
<1>4. "DATA" \notin ChipCommand
  BY DEF ChipCommand
<1> QED BY <1>1, <1>2, <1>3, <1>4 DEF BootSent

\* A rising edge of the chip, a little before anything else moves.
Rising(k) ==
  /\ At(k) /\ BootClock /\ PinsAt(k) /\ AddressAt(k) /\ edge = "rise" /\ edge' = "quarter"
  /\ ChipRise /\ UNCHANGED <<bridgeFall, ctlVars, wdPipe, wePipe, rdPipe, outputData, dataValid, userInput>>

\* The chip takes the command on its pins at the rising edge.
LEMMA ChipRises ==
  ASSUME ChipRise
  PROVE  /\ chip'.open = IF pin = "ACT" THEN chip.open \cup {Row(pinAdr)} ELSE IF pin = "PRE" THEN {} ELSE chip.open
         /\ chip'.used <=> (pin \in {"RD", "WR"} \/ (chip.used /\ pin # "ACT"))
         /\ chip'.wr = IF pin = "WR" THEN [left |-> 3, lines |-> Selected] ELSE chip.wr
         /\ chip'.rd = IF pin = "RD" THEN [left |-> CasLatency + 2, lines |-> Selected] ELSE Progress(chip.rd)
         /\ chip'.since = [c \in DOMAIN chip.since |->
                             IF c = pin THEN 1 ELSE IF chip.since[c] = Horizon THEN Horizon ELSE chip.since[c] + 1]
         /\ chip'.mem = chip.mem
<1>1. chip'.open = IF pin = "ACT" THEN chip.open \cup {Row(pinAdr)} ELSE IF pin = "PRE" THEN {} ELSE chip.open
  BY DEF ChipRise
<1>2. chip'.used <=> (pin \in {"RD", "WR"} \/ (chip.used /\ pin # "ACT"))
  <2>1. chip'.used = (pin \in {"RD", "WR"} \/ (chip.used /\ pin # "ACT"))
    BY DEF ChipRise
  <2> QED BY <2>1
<1>3. chip'.wr = IF pin = "WR" THEN [left |-> 3, lines |-> Selected] ELSE chip.wr
  BY DEF ChipRise
<1>4. chip'.rd = IF pin = "RD" THEN [left |-> CasLatency + 2, lines |-> Selected] ELSE Progress(chip.rd)
  BY DEF ChipRise
<1>5. chip'.since = [c \in DOMAIN chip.since |->
                             IF c = pin THEN 1 ELSE IF chip.since[c] = Horizon THEN Horizon ELSE chip.since[c] + 1]
  BY DEF ChipRise
<1>6. chip'.mem = chip.mem
  BY DEF ChipRise
<1> QED BY <1>1, <1>2, <1>3, <1>4, <1>5, <1>6

\* At a rising edge the row opens with ACT and closes with PRE.
LEMMA OpenRise ==
  ASSUME NEW k \in 0 .. 13, Rising(k), OpenAt(k)
  PROVE  OpenAt(k)'
<1>0. At(k) /\ BootClock /\ PinsAt(k) /\ AddressAt(k) /\ edge = "rise" /\ edge' = "quarter" /\ ChipRise
  BY DEF Rising
<1>1. taken' = taken /\ (writeCmd1' <=> writeCmd1) /\ RowEnd' = RowEnd /\ RowEnd \in {10, 13} /\ k <= RowEnd
  BY <1>0, Places DEF Rising, ctlVars, bridgeFall, RowEnd
<1>2. chip'.open = IF pin = "ACT" THEN chip.open \cup {Row(pinAdr)} ELSE IF pin = "PRE" THEN {} ELSE chip.open
  BY <1>0, ChipRises
<1>3. chip.open = IF k \in 4 .. 13 THEN {Row(taken.addr)} ELSE {}
  BY <1>0 DEF OpenAt
<1>4. k = 3 => Row(pinAdr) = Row(taken.addr)
  BY <1>0 DEF AddressAt, Split, Row
<1>5. chip'.open = IF k \in 3 .. RowEnd - 1 THEN {Row(taken.addr)} ELSE {}
  <2>1. CASE k = 3
    <3>1. chip'.open = chip.open \cup {Row(pinAdr)}
      BY <1>0, <1>2, <2>1, PinFacts
    <3> QED BY <1>1, <1>3, <1>4, <2>1, <3>1
  <2>2. CASE k = RowEnd
    <3>1. chip'.open = {}
      BY <1>0, <1>2, <2>2, PinFacts
    <3> QED BY <1>1, <2>2, <3>1
  <2>3. CASE k # 3 /\ k # RowEnd
    <3>1. pin # "ACT" /\ (pin = "PRE" => k = 0)
      BY <1>0, <2>3, PinFacts
    <3>2. chip'.open = IF pin = "PRE" THEN {} ELSE chip.open
      BY <1>2, <3>1
    <3> QED BY <1>1, <1>3, <2>3, <3>1, <3>2
  <2> QED BY <2>1, <2>2, <2>3
<1>6. Row(taken.addr)' = Row(taken.addr)
  BY <1>1 DEF Row
<1>7. chip'.used <=> (k = 6 \/ (chip.used /\ k # 3))
  BY <1>0, ChipRises, PinFacts
<1>8. (k \in 4 .. 6 => ~chip.used) /\ (k \in 7 .. 13 => chip.used)
  BY <1>0 DEF OpenAt
<1>9. (k \in 3 .. 5 => ~chip'.used) /\ (k \in 6 .. 12 => chip'.used)
  BY <1>7, <1>8
<1> QED BY <1>0, <1>1, <1>5, <1>6, <1>9 DEF OpenAt

\* The age of one command after a rising edge.
LEMMA AgeRises ==
  ASSUME NEW c \in ChipCommand \cup {"DATA"}, NEW n \in 0 .. 8, Aged(c, n), edge = "rise", ChipRise,
         chip.since \in [ChipCommand \cup {"DATA"} -> 0 .. Horizon]
  PROVE  chip'.since[c] >= IF pin = c THEN 1 ELSE n + 1
<1>1. chip.since[c] >= n /\ chip.since[c] \in 0 .. 9 /\ Horizon = 9
  BY DEF Aged, Horizon
<1>2. chip'.since[c] = IF c = pin THEN 1 ELSE IF chip.since[c] = Horizon THEN Horizon ELSE chip.since[c] + 1
  BY ChipRises
<1> QED BY <1>1, <1>2

\* No age passes its cap.
LEMMA AgeBounds ==
  ASSUME NEW k \in 0 .. 13, At(k)
  PROVE  /\ ActAge(k) \in 0 .. 8 /\ ReadAge(k) \in 0 .. 8 /\ DataAge(k) \in 0 .. 8 /\ PreAge(k) \in 0 .. 8
         /\ BootAge \in 1 .. 8 /\ RefAge \in 0 .. 8 /\ boot.count5 \in 0 .. 7
<1>1. boot.count5 \in 0 .. 7
  BY DEF At, BootInv, RFC
<1>2. BootAge \in 1 .. 8
  BY <1>1 DEF BootAge
<1>3. RefAge \in 0 .. 8
  BY <1>2, RowFacts DEF RefAge
<1> QED BY <1>1, <1>2, <1>3 DEF ActAge, ReadAge, DataAge, PreAge

\* At a rising edge the ages of the commands follow the clock of the row.
LEMMA AgesRise ==
  ASSUME NEW k \in 0 .. 13, Rising(k), AgesAt(k)
  PROVE  AgesAt(k)'
<1>0. At(k) /\ BootClock /\ PinsAt(k) /\ edge = "rise" /\ edge' = "quarter" /\ ChipRise
      /\ pin' = pin
  BY DEF Rising, ctlVars
<1>1. /\ ActAge(k)' = ActAge(k) /\ ReadAge(k)' = ReadAge(k) /\ DataAge(k)' = DataAge(k)
      /\ PreAge(k)' = PreAge(k) /\ BootAge' = BootAge /\ RefAge' = RefAge
  BY DEF ActAge, ReadAge, DataAge, PreAge, BootAge, RefAge, Rising, ctlVars
<1>2. chip.since \in [ChipCommand \cup {"DATA"} -> 0 .. Horizon]
  BY DEF AgesAt
<1>3. chip'.since \in [ChipCommand \cup {"DATA"} -> 0 .. Horizon]
  <2>1. \A c \in ChipCommand \cup {"DATA"} :
          (IF c = pin THEN 1 ELSE IF chip.since[c] = Horizon THEN Horizon ELSE chip.since[c] + 1) \in 0 .. Horizon
    BY <1>2 DEF Horizon
  <2> QED BY <1>0, <1>2, <2>1, ChipRises
<1>4. {"ACT", "RD", "PRE", "MRS", "REF", "DATA"} \subseteq ChipCommand \cup {"DATA"}
  BY DEF ChipCommand
<1>5. chip'.since["ACT"] >= IF pin = "ACT" THEN 1 ELSE ActAge(k) + 1
  BY <1>0, <1>2, <1>4, AgeRises, AgeBounds DEF AgesAt
<1>6. chip'.since["RD"] >= IF pin = "RD" THEN 1 ELSE ReadAge(k) + 1
  BY <1>0, <1>2, <1>4, AgeRises, AgeBounds DEF AgesAt
<1>7. chip'.since["DATA"] >= IF pin = "DATA" THEN 1 ELSE DataAge(k) + 1
  BY <1>0, <1>2, <1>4, AgeRises, AgeBounds DEF AgesAt
<1>8. chip'.since["PRE"] >= IF pin = "PRE" THEN 1 ELSE PreAge(k) + 1
  BY <1>0, <1>2, <1>4, AgeRises, AgeBounds DEF AgesAt
<1>9. chip'.since["MRS"] >= IF pin = "MRS" THEN 1 ELSE BootAge + 1
  BY <1>0, <1>2, <1>4, AgeRises, AgeBounds DEF AgesAt
<1>10. chip'.since["REF"] >= IF pin = "REF" THEN 1 ELSE RefAge + 1
  BY <1>0, <1>2, <1>4, AgeRises, AgeBounds DEF AgesAt
<1>11. Aged("ACT", ActAge(k))' /\ Aged("RD", ReadAge(k))'
  BY <1>0, <1>1, <1>5, <1>6 DEF Aged
<1>12. Aged("DATA", DataAge(k))' /\ Aged("PRE", PreAge(k))'
  BY <1>0, <1>1, <1>7, <1>8 DEF Aged
<1>13. Aged("MRS", BootAge)' /\ Aged("REF", RefAge)'
  BY <1>0, <1>1, <1>9, <1>10 DEF Aged
<1> QED BY <1>3, <1>11, <1>12, <1>13 DEF AgesAt


\* A falling edge leaves the ages alone while the clock of the row moves.
LEMMA AgesFall ==
  ASSUME NEW k \in 0 .. 13, NEW j \in 0 .. 13, Falling(k, j), BootClock, PinsAt(k), AgesAt(k),
         chip.wr.left = IF ~writeCmd1 \/ k \notin 6 .. 8 THEN 0 ELSE 9 - k
  PROVE  AgesAt(j)'
<1>0. At(k) /\ At(j)' /\ Clocked /\ ChipFall /\ j = NextClock(k) /\ edge = "fall" /\ edge' = "rise"
  BY DEF Falling
<1>1. /\ chip.since \in [ChipCommand \cup {"DATA"} -> 0 .. Horizon] /\ Horizon = 9
      /\ {"ACT", "RD", "PRE", "MRS", "REF"} \subseteq ChipCommand /\ "DATA" \notin ChipCommand
  BY DEF AgesAt, ChipCommand, Horizon
<1>2. chip'.since = IF chip.wr.left \in {1, 2} THEN [chip.since EXCEPT !["DATA"] = 0] ELSE chip.since
  BY <1>0, ChipFalls
<1>3. /\ chip'.since \in [ChipCommand \cup {"DATA"} -> 0 .. Horizon]
      /\ \A c \in ChipCommand : chip'.since[c] = chip.since[c]
      /\ chip'.since["DATA"] = IF writeCmd1 /\ k \in 7 .. 8 THEN 0 ELSE chip.since["DATA"]
  BY <1>1, <1>2
<1>4. /\ chip.since["ACT"] >= IF pin = "ACT" THEN 1 ELSE ActAge(k) + 1
      /\ chip.since["RD"] >= IF pin = "RD" THEN 1 ELSE ReadAge(k) + 1
      /\ chip.since["DATA"] >= DataAge(k) + 1
  BY <1>0, PinFacts DEF AgesAt, Aged
<1>5. /\ chip.since["PRE"] >= IF pin = "PRE" THEN 1 ELSE PreAge(k) + 1
      /\ chip.since["MRS"] >= IF pin = "MRS" THEN 1 ELSE BootAge + 1
      /\ chip.since["REF"] >= IF pin = "REF" THEN 1 ELSE RefAge + 1
  BY <1>0 DEF AgesAt, Aged
<1>6. /\ \A c \in ChipCommand : chip.since[c] \in 0 .. 9
      /\ chip.since["DATA"] \in 0 .. 9
  BY <1>1
<1>7. /\ k \in 0 .. RowEnd /\ RowEnd \in {10, 13} /\ (RowEnd = 13 <=> writeCmd1)
      /\ j = IF k = 0 THEN (IF goToActive THEN 1 ELSE 0) ELSE IF k = RowEnd THEN 0 ELSE k + 1
      /\ j # 0 => (writeCmd1' <=> writeCmd1)
  BY <1>0, Turns DEF RowEnd
<1>8. chip'.since["ACT"] >= ActAge(j)'
  <2>1. ActAge(j)' = ActAge(j)
    BY DEF ActAge
  <2>2. chip.since["ACT"] >= ActAge(j)
    BY <1>0, <1>1, <1>4, <1>6, <1>7, PinFacts DEF ActAge
  <2> QED BY <1>1, <1>3, <2>1, <2>2
<1>9. chip'.since["RD"] >= ReadAge(j)'
  <2>1. ReadAge(j)' = IF j \in 7 .. 10 /\ ~writeCmd1 THEN j - 6 ELSE 2
    BY <1>7 DEF ReadAge
  <2>2. chip.since["RD"] >= IF j \in 7 .. 10 /\ ~writeCmd1 THEN j - 6 ELSE 2
    BY <1>0, <1>1, <1>4, <1>6, <1>7, PinFacts DEF ReadAge
  <2> QED BY <1>1, <1>3, <2>1, <2>2
<1>10. chip'.since["DATA"] >= DataAge(j)'
  <2>1. DataAge(j)' = IF j \in 8 .. 10 /\ writeCmd1 THEN (IF j = 10 THEN 1 ELSE 0) ELSE 2
    BY <1>7 DEF DataAge
  <2> QED BY <1>3, <1>4, <1>6, <1>7, <2>1 DEF DataAge
\* The commands of the initialisation.
<1>11. /\ boot'.count5 = IF boot.state # "IDLE" THEN 7 ELSE IF boot.count5 = 0 THEN 0 ELSE boot.count5 - 1
       /\ boot.count5 \in 0 .. 7 /\ (boot.state # "IDLE" => boot.count5 = 0)
  BY <1>0, BootMoves
<1>12. /\ BootAge' <= BootAge + 1 /\ BootAge \in 1 .. 8 /\ BootAge' \in 1 .. 8
       /\ boot.count5 = 6 => BootAge' = 1
  BY <1>11 DEF BootAge
<1>13. chip'.since["MRS"] >= BootAge'
  BY <1>0, <1>1, <1>3, <1>5, <1>6, <1>12, PinFacts
<1>14. initDone /\ ~boot.mem => initDone' /\ ~boot'.mem
  BY <1>0, BootOver
<1>15. ~boot'.mem => boot'.count5 = 0 /\ BootAge' = 6
  <2>1. ~boot'.mem => boot'.count5 = 0
    BY <1>0, BootClockStep DEF BootClock
  <2> QED BY <2>1 DEF BootAge
<1>16. state # "IDLE" => initDone /\ ~boot.mem
  BY <1>0 DEF At, BootInv
<1>17. state' = "AUTO_REFRESH_WAIT" => state \in {"AUTO_REFRESH", "AUTO_REFRESH_WAIT"}
  BY <1>0, StateStep
<1>18. chip'.since["PRE"] >= PreAge(j)'
  <2>1. PreAge(j)' = IF boot'.mem \/ ~initDone' THEN BootAge'
                     ELSE IF j = 0 /\ state' # "AUTO_REFRESH_WAIT" THEN 1 ELSE 2
    BY DEF PreAge
  <2>2. CASE boot.mem \/ ~initDone
    <3>1. PreAge(k) = BootAge
      BY <2>2 DEF PreAge
    <3>2. pin = "PRE" => boot.count5 = 6 /\ boot'.mem
      <4>1. state = "IDLE" /\ k = 0
        BY <1>0, <1>16, <2>2, RowFacts
      <4>2. pin = "PRE" => boot.count5 = 6
        BY <1>0, <1>7, <4>1, PinFacts
      <4>3. boot.count5 = 6 => boot'.count5 = 5
        BY <1>11
      <4> QED BY <1>15, <4>2, <4>3
    <3> QED BY <1>1, <1>3, <1>5, <1>6, <1>12, <2>1, <3>1, <3>2
  <2>3. CASE ~(boot.mem \/ ~initDone)
    <3>1. PreAge(j)' = IF j = 0 /\ state' # "AUTO_REFRESH_WAIT" THEN 1 ELSE 2
      BY <1>14, <2>1, <2>3
    <3>2. pin = "PRE" => k = RowEnd
      BY <1>0, <2>3, PinFacts
    <3>3. PreAge(k) >= 1 /\ PreAge(k) \in 0 .. 8
      BY <1>0, <2>3, AgeBounds DEF PreAge
    <3>4. pin = "PRE" => j = 0 /\ state' # "AUTO_REFRESH_WAIT"
      BY <1>0, <1>7, <1>17, <3>2, RowFacts
    <3> QED BY <1>1, <1>3, <1>5, <1>6, <3>1, <3>3, <3>4
  <2> QED BY <2>2, <2>3
<1>19. chip'.since["REF"] >= RefAge'
  <2>1. chip'.since["REF"] = chip.since["REF"] /\ chip.since["REF"] \in 0 .. 9
    BY <1>1, <1>3, <1>6
  <2>2. CASE state' = "AUTO_REFRESH_WAIT"
    <3>1. count'.rfc \in 0 .. 7 /\ count.rfc \in 0 .. 7
      <4>1. count.rfc \in 0 .. 7
        BY <1>0, RowFacts
      <4>2. (count'.rfc = 7) \/ (count.rfc # 0 /\ count'.rfc = count.rfc - 1)
        BY <1>0, <2>2, StateStep
      <4> QED BY <4>1, <4>2
    <3>2. RefAge' = IF count'.rfc <= 5 THEN 6 - count'.rfc ELSE 7
      BY <2>2 DEF RefAge
    <3>3. CASE state = "AUTO_REFRESH"
      <4>1. pin # "REF" /\ count'.rfc = 7
        BY <1>0, <2>2, <3>3, StateStep, PinFacts DEF RefreshClock, At, BootInv
      <4>2. RefAge = 7
        BY <3>3 DEF RefAge
      <4> QED BY <1>5, <2>1, <3>2, <4>1, <4>2
    <3>4. CASE state = "AUTO_REFRESH_WAIT"
      <4>1. count'.rfc = count.rfc - 1
        BY <1>0, <2>2, <3>4, StateStep
      <4>2. pin = "REF" => count.rfc = 6
        BY <1>0, <1>16, <3>4, PinFacts DEF RefreshClock
      <4>3. RefAge = IF count.rfc <= 5 THEN 6 - count.rfc ELSE 7
        BY <3>4 DEF RefAge
      <4>4. count.rfc = 6 => RefAge' = 1
        BY <3>1, <3>2, <4>1
      <4>5. RefAge' <= RefAge + 1 /\ RefAge \in 0 .. 8 /\ RefAge' \in 0 .. 8
        BY <3>1, <3>2, <4>1, <4>3
      <4> QED BY <1>5, <2>1, <4>2, <4>4, <4>5
    <3> QED BY <1>17, <2>2, <3>3, <3>4
  <2>3. CASE state' = "IDLE"
    <3>1. RefAge' = BootAge'
      BY <2>3 DEF RefAge
    <3>2. CASE state = "IDLE"
      <4>1. RefAge = BootAge
        BY <3>2 DEF RefAge
      <4>2. pin = "REF" => boot.count5 = 6
        BY <1>0, <3>2, PinFacts DEF RefreshClock
      <4> QED BY <1>5, <1>12, <2>1, <3>1, <4>1, <4>2
    <3>3. CASE state # "IDLE"
      <4>1. BootAge' = 6
        BY <1>14, <1>15, <1>16, <3>3
      <4>2. pin # "REF" /\ RefAge >= 6
        <5>1. state = "AUTO_REFRESH_WAIT" => count.rfc = 0
          BY <1>0, <2>3, StateStep
        <5>2. pin # "REF"
          BY <1>0, <1>16, <3>3, <5>1, PinFacts DEF RefreshClock
        <5> QED BY <3>3, <5>1, <5>2 DEF RefAge
      <4>3. RefAge \in 0 .. 8
        BY <1>0, AgeBounds
      <4> QED BY <1>5, <2>1, <3>1, <4>1, <4>2, <4>3
    <3> QED BY <3>2, <3>3
  <2>4. CASE state' \notin {"IDLE", "AUTO_REFRESH_WAIT"}
    <3>1. RefAge' = 7
      BY <2>4 DEF RefAge
    <3>2. state # "AUTO_REFRESH_WAIT"
      BY <1>0, <2>4, NextStates DEF Clocked
    <3>3. pin # "REF" /\ RefAge \in 6 .. 7
      <4>1. state' = "IDLE" \/ ~boot.mem
        BY <1>0, <1>16, StateStep
      <4>2. ~boot.mem => boot.count5 = 0
        BY DEF BootClock
      <4>3. pin # "REF"
        BY <1>0, <2>4, <3>2, <4>1, PinFacts DEF RefreshClock
      <4>4. RefAge = IF state = "IDLE" THEN BootAge ELSE 7
        BY <3>2 DEF RefAge
      <4>5. boot.count5 = 0 => BootAge = 6
        BY DEF BootAge
      <4> QED BY <2>4, <4>1, <4>2, <4>3, <4>4, <4>5
    <3> QED BY <1>5, <2>1, <3>1, <3>3
  <2> QED BY <2>2, <2>3, <2>4
<1>20. Aged("ACT", ActAge(j))' /\ Aged("RD", ReadAge(j))'
  BY <1>0, <1>8, <1>9 DEF Aged
<1>21. Aged("DATA", DataAge(j))' /\ Aged("PRE", PreAge(j))'
  BY <1>0, <1>10, <1>18 DEF Aged
<1>22. Aged("MRS", BootAge)' /\ Aged("REF", RefAge)'
  BY <1>0, <1>13, <1>19 DEF Aged
<1> QED BY <1>3, <1>20, <1>21, <1>22 DEF AgesAt

-----------------------------------------------------------------------------
(* The burst goes to the line that was taken; the commands of the chip.       *)

\* With one row open, bank and column select exactly the line of the request.
LEMMA OneLine ==
  ASSUME NEW k \in 0 .. 13, k = 6, AddressAt(k), OpenAt(k), edge = "rise"
  PROVE  Selected = {taken.addr}
<1>1. chip.open = {Row(taken.addr)}
  BY DEF OpenAt
<1>2. pinAdr = Split(taken.addr) /\ taken.addr \in LineAddr
  BY DEF AddressAt
<1>3. pinAdr.bank = taken.addr.bank /\ pinAdr.col = taken.addr.col
  BY <1>2 DEF Split
<1>4. taken.addr \in Selected
  BY <1>1, <1>2, <1>3 DEF Selected
<1>5. ASSUME NEW l \in Selected PROVE l = taken.addr
  <2>1. l \in LineAddr /\ l.bank = pinAdr.bank /\ l.col = pinAdr.col /\ Row(l) = Row(taken.addr)
    BY <1>1 DEF Selected
  <2>2. l.row = taken.addr.row
    BY <2>1 DEF Row
  <2>3. l \in [bank : Nat, row : Nat, col : Nat] /\ taken.addr \in [bank : Nat, row : Nat, col : Nat]
    BY <1>2, <2>1, AddrAssumption
  <2> QED BY <1>3, <2>1, <2>2, <2>3
<1> QED BY <1>4, <1>5

\* A burst starts at the rising edge that takes its command.
LEMMA BurstRise ==
  ASSUME NEW k \in 0 .. 13, Rising(k), OpenAt(k), BurstAt(k)
  PROVE  BurstAt(k)'
<1>0. At(k) /\ BootClock /\ PinsAt(k) /\ AddressAt(k) /\ edge = "rise" /\ edge' = "quarter" /\ ChipRise
  BY DEF Rising
<1>1. taken' = taken /\ (writeCmd1' <=> writeCmd1)
  BY DEF Rising, ctlVars, bridgeFall
<1>2. chip'.wr = IF pin = "WR" THEN [left |-> 3, lines |-> Selected] ELSE chip.wr
  BY <1>0, ChipRises
<1>3. CASE k = 6 /\ writeCmd1
  <2>1. chip'.wr = [left |-> 3, lines |-> {taken.addr}]
    BY <1>0, <1>2, <1>3, OneLine, PinFacts
  <2>2. chip'.wr.left = 3 /\ chip'.wr.lines = {taken.addr}
    BY <2>1
  <2> QED BY <1>0, <1>1, <1>3, <2>2 DEF BurstAt
<1>4. CASE ~(k = 6 /\ writeCmd1)
  <2>1. chip'.wr = chip.wr
    BY <1>0, <1>2, <1>4, PinFacts
  <2> QED BY <1>0, <1>1, <1>4, <2>1 DEF BurstAt
<1> QED BY <1>3, <1>4

\* A burst moves one half at every falling edge.
LEMMA BurstFall ==
  ASSUME NEW k \in 0 .. 13, NEW j \in 0 .. 13, Falling(k, j), BurstAt(k)
  PROVE  BurstAt(j)'
<1>0. At(k) /\ Clocked /\ ChipFall /\ j = NextClock(k) /\ edge = "fall" /\ edge' = "rise"
  BY DEF Falling
<1>1. k # 0 => taken' = taken
  BY TakenMoves
<1>2. chip'.wr = [chip.wr EXCEPT !.left = IF @ = 0 THEN 0 ELSE @ - 1]
  BY <1>0, ChipFalls DEF Progress
<1>3. chip.wr.left = IF ~writeCmd1 \/ k \notin 6 .. 8 THEN 0 ELSE 9 - k
  BY <1>0 DEF BurstAt
<1>4. /\ k \in 0 .. RowEnd /\ RowEnd \in {10, 13} /\ (RowEnd = 13 <=> writeCmd1)
      /\ j = IF k = 0 THEN (IF goToActive THEN 1 ELSE 0) ELSE IF k = RowEnd THEN 0 ELSE k + 1
      /\ j # 0 => (writeCmd1' <=> writeCmd1)
  BY <1>0, Turns DEF RowEnd
<1>5. chip'.wr.left # 0 => chip'.wr.left = chip.wr.left - 1 /\ chip'.wr.lines = chip.wr.lines /\ chip.wr.left # 0
  BY <1>2
<1>6. chip'.wr.left = IF chip.wr.left = 0 THEN 0 ELSE chip.wr.left - 1
  BY <1>2
<1>7. chip'.wr.left = IF ~writeCmd1' \/ j \notin 6 .. 8 \/ j = 6 THEN 0 ELSE 9 - j
  BY <1>3, <1>4, <1>6
<1>8. chip'.wr.left # 0 => chip'.wr.lines = {taken'.addr}
  BY <1>0, <1>1, <1>3, <1>5 DEF BurstAt
<1> QED BY <1>0, <1>7, <1>8 DEF BurstAt

\* The chip starts idle, every row closed.
LEMMA InitChip == Init => ChipAt(0)
<1> SUFFICES ASSUME Init PROVE ChipAt(0)
  OBVIOUS
<1>1. At(0)
  BY InitAt
<1>2. /\ bridgeState = "STARTUP" /\ userAddr = Addr0 /\ taken = [addr |-> Addr0, wr |-> FALSE]
      /\ writeCmd1 = FALSE /\ cmd2 = "NOP" /\ pin = "NOP" /\ state = "IDLE"
      /\ boot = [mem |-> FALSE, memory |-> FALSE, count |-> 0, state |-> "IDLE", count5 |-> 0]
      /\ edge = "fall" /\ memAddr = Addr0 /\ memWstrb = FALSE
      /\ chip = [mem |-> store, open |-> {}, used |-> FALSE, wr |-> Idle, rd |-> Idle,
                 since |-> [c \in ChipCommand \cup {"DATA"} |-> Horizon]]
  BY DEF Init, BridgeInit, ControllerInit
<1>3. /\ boot.mem = FALSE /\ boot.memory = FALSE /\ boot.count = 0 /\ boot.state = "IDLE" /\ boot.count5 = 0
      /\ taken.addr = Addr0 /\ taken.wr = FALSE /\ Addr0 \in LineAddr
      /\ chip.open = {} /\ chip.wr = Idle
      /\ chip.since = [c \in ChipCommand \cup {"DATA"} |-> Horizon]
  BY <1>2, AddrAssumption
<1>4. BootClock
  BY <1>3 DEF BootClock
<1>5. PinsAt(0)
  <2>1. RowEnd = 10
    BY <1>2 DEF RowEnd
  <2>2. \A d \in 1 .. 2 : ~RefreshClock(8 - d) /\ ~BootSent(8 - d, {1}) /\ ~BootSent(8 - d, {2, 3}) /\ ~BootSent(8 - d, {4, 5})
    BY <1>2, <1>3 DEF RefreshClock, BootSent
  <2>3. Shows(cmd2, 0, 1)
    BY <1>2, <2>1, <2>2 DEF Shows, ChipCommand
  <2>4. Shows(pin, 0, 2)
    BY <1>2, <2>1, <2>2 DEF Shows, ChipCommand
  <2> QED BY <2>3, <2>4 DEF PinsAt
<1>6. AddressAt(0)
  BY <1>2, <1>3 DEF AddressAt, Asking
<1>7. OpenAt(0)
  <2>1. RowEnd = 10
    BY <1>2 DEF RowEnd
  <2> QED BY <1>2, <1>3, <2>1 DEF OpenAt
<1>8. BurstAt(0)
  BY <1>2, <1>3 DEF BurstAt, Idle
<1>9. AgesAt(0)
  <2>1. /\ \A c \in ChipCommand \cup {"DATA"} : chip.since[c] = 9
        /\ chip.since \in [ChipCommand \cup {"DATA"} -> 0 .. Horizon]
        /\ {"ACT", "RD", "PRE", "MRS", "REF", "DATA"} \subseteq ChipCommand \cup {"DATA"}
    BY <1>3 DEF Horizon, ChipCommand
  <2>2. \A c \in ChipCommand \cup {"DATA"} : \A n \in 0 .. 8 : Aged(c, n)
    BY <1>2, <2>1 DEF Aged
  <2> QED BY <1>1, <2>1, <2>2, AgeBounds DEF AgesAt
<1>10. Inputs
  BY <1>2, <1>3 DEF Inputs
<1> QED BY <1>1, <1>4, <1>5, <1>6, <1>7, <1>8, <1>9, <1>10 DEF ChipAt

\* What depends on the falling edge alone stays as it is at the others.
LEMMA PinsStay ==
  ASSUME NEW k \in 0 .. 13, UNCHANGED <<bridgeFall, ctlVars>>
  PROVE  (BootClock' <=> BootClock) /\ (PinsAt(k)' <=> PinsAt(k)) /\ (AddressAt(k)' <=> AddressAt(k))
<1>1. BootClock' <=> BootClock
  BY DEF BootClock, ctlVars
<1>2. PinsAt(k)' <=> PinsAt(k)
  BY DEF PinsAt, Shows, RefreshClock, BootSent, RowEnd, ctlVars
<1>3. AddressAt(k)' <=> AddressAt(k)
  BY DEF AddressAt, Asking, Split, ctlVars, bridgeFall
<1> QED BY <1>1, <1>2, <1>3

\* A rising edge keeps the schedule of the chip.
LEMMA RiseChip ==
  ASSUME NEW k \in 0 .. 13, ChipAt(k), Rise
  PROVE  ChipAt(k)' /\ Rising(k)
<1>1. /\ At(k) /\ BootClock /\ PinsAt(k) /\ AddressAt(k) /\ OpenAt(k) /\ BurstAt(k) /\ AgesAt(k) /\ Inputs
      /\ UNCHANGED <<bridgeFall, ctlVars>>
  BY DEF ChipAt, Rise
<1>2. Rising(k)
  BY <1>1 DEF Rise, Rising
<1>3. At(k)' /\ BootClock' /\ PinsAt(k)' /\ AddressAt(k)'
  BY <1>1, PinsStay, OtherEdges
<1>4. OpenAt(k)' /\ BurstAt(k)' /\ AgesAt(k)'
  BY <1>1, <1>2, OpenRise, BurstRise, AgesRise
<1>5. Inputs'
  BY <1>1 DEF Inputs, Rise, Raise, Hold, Linger, Drop, cacheSide
<1> QED BY <1>2, <1>3, <1>4, <1>5 DEF ChipAt

\* Between the rising and the falling edge the chip stands still.
LEMMA QuarterChip ==
  ASSUME NEW k \in 0 .. 13, ChipAt(k), UNCHANGED <<cacheSide, bridgeFall, ctlVars, chip>>,
         edge' = edge \/ (edge = "quarter" /\ edge' = "fall")
  PROVE  ChipAt(k)'
<1>1. /\ At(k) /\ BootClock /\ PinsAt(k) /\ AddressAt(k) /\ OpenAt(k) /\ BurstAt(k) /\ AgesAt(k) /\ Inputs
      /\ UNCHANGED <<bridgeFall, ctlVars>>
  BY DEF ChipAt
<1>2. edge' = "rise" <=> edge = "rise"
  OBVIOUS
<1>3. At(k)' /\ BootClock' /\ PinsAt(k)' /\ AddressAt(k)'
  BY <1>1, PinsStay, OtherEdges
<1>4. taken' = taken /\ writeCmd1' = writeCmd1 /\ RowEnd' = RowEnd /\ pin' = pin /\ chip' = chip
  BY DEF bridgeFall, ctlVars, RowEnd
<1>5. OpenAt(k)'
  BY <1>1, <1>2, <1>4 DEF OpenAt, Row
<1>6. BurstAt(k)'
  BY <1>1, <1>2, <1>4 DEF BurstAt
<1>7. AgesAt(k)'
  <2>1. /\ ActAge(k)' = ActAge(k) /\ ReadAge(k)' = ReadAge(k) /\ DataAge(k)' = DataAge(k)
        /\ PreAge(k)' = PreAge(k) /\ BootAge' = BootAge /\ RefAge' = RefAge
    BY DEF ActAge, ReadAge, DataAge, PreAge, BootAge, RefAge, ctlVars
  <2>2. \A c : Aged(c, ActAge(k))' <=> Aged(c, ActAge(k))
    BY <1>2, <1>4, <2>1 DEF Aged
  <2>3. \A c : Aged(c, ReadAge(k))' <=> Aged(c, ReadAge(k))
    BY <1>2, <1>4, <2>1 DEF Aged
  <2>4. \A c : Aged(c, DataAge(k))' <=> Aged(c, DataAge(k))
    BY <1>2, <1>4, <2>1 DEF Aged
  <2>5. \A c : Aged(c, PreAge(k))' <=> Aged(c, PreAge(k))
    BY <1>2, <1>4, <2>1 DEF Aged
  <2>6. \A c : Aged(c, BootAge)' <=> Aged(c, BootAge)
    BY <1>2, <1>4, <2>1 DEF Aged
  <2>7. \A c : Aged(c, RefAge)' <=> Aged(c, RefAge)
    BY <1>2, <1>4, <2>1 DEF Aged
  <2> QED BY <1>1, <1>4, <2>2, <2>3, <2>4, <2>5, <2>6, <2>7 DEF AgesAt
<1>8. Inputs'
  BY <1>1 DEF Inputs, cacheSide
<1> QED BY <1>3, <1>5, <1>6, <1>7, <1>8 DEF ChipAt

\* The falling edge that ends the reset.
LEMMA ResetChip ==
  ASSUME NEW k \in 0 .. 13, ChipAt(k), Fall, rst180
  PROVE  ChipAt(k)' /\ k = 0 /\ chip.wr.left = 0
<1>1. /\ At(k) /\ BootClock /\ PinsAt(k) /\ AddressAt(k) /\ OpenAt(k) /\ BurstAt(k) /\ AgesAt(k) /\ Inputs
      /\ BridgeFall /\ ControllerFall /\ ChipFall /\ edge = "fall" /\ edge' = "rise"
      /\ UNCHANGED <<held, cacheSide, bridgeRise, pathVars>>
  BY DEF ChipAt, Fall
<1>2. At(k)'
  BY <1>1, FallStep
<1>3. /\ bridgeState = "STARTUP" /\ boot.count5 = 0 /\ ~boot.mem /\ ~initDone
      /\ state = "IDLE"
  BY <1>1 DEF At, BootInv
<1>4. k = 0
  BY <1>1, <1>3, RowFacts
<1>5. UNCHANGED <<state, writeCmd1, count, boot, cmd2, adr, pin, pinAdr, initDone>>
  BY <1>1 DEF ControllerFall
<1>6. UNCHANGED <<userAddr, taken>> /\ bridgeState' \in {"IDLE", "WAIT_INIT"}
  BY <1>1, <1>3, BridgeMoves DEF Startup
<1>7. chip.wr.left = 0 /\ pin \notin {"ACT", "RD", "WR", "PRE", "REF", "MRS", "DATA"}
  <2>1. ~RefreshClock(6)
    BY <1>3 DEF RefreshClock
  <2>2. k # RowEnd
    BY <1>4 DEF RowEnd
  <2> QED BY <1>1, <1>3, <1>4, <2>1, <2>2, PinFacts DEF BurstAt
<1>8. chip'.open = chip.open /\ chip'.used = chip.used /\ chip'.wr.left = 0 /\ chip'.since = chip.since
  <2>1. chip'.wr = [chip.wr EXCEPT !.left = IF @ = 0 THEN 0 ELSE @ - 1]
    BY <1>1, ChipFalls DEF Progress
  <2>2. chip'.wr.left = 0
    BY <1>7, <2>1
  <2> QED BY <1>1, <1>7, <2>2, ChipFalls
<1>9. BootClock'
  BY <1>1, <1>5 DEF BootClock
<1>10. PinsAt(k)'
  BY <1>1, <1>5 DEF PinsAt, Shows, RefreshClock, BootSent, RowEnd
<1>11. AddressAt(k)'
  BY <1>1, <1>4, <1>6 DEF AddressAt, Asking
<1>12. OpenAt(k)'
  <2>1. RowEnd' \in {10, 13} /\ RowEnd \in {10, 13}
    BY DEF RowEnd
  <2> QED BY <1>1, <1>4, <1>8, <2>1 DEF OpenAt
<1>13. BurstAt(k)'
  BY <1>4, <1>8 DEF BurstAt
<1>14. AgesAt(k)'
  <2>1. /\ ActAge(k)' = ActAge(k) /\ ReadAge(k)' = ReadAge(k) /\ DataAge(k)' = DataAge(k)
        /\ PreAge(k)' = PreAge(k) /\ BootAge' = BootAge /\ RefAge' = RefAge
    BY <1>5 DEF ActAge, ReadAge, DataAge, PreAge, BootAge, RefAge
  <2>2. /\ \A c \in ChipCommand \cup {"DATA"} : chip.since[c] \in 0 .. 9
        /\ {"ACT", "RD", "PRE", "MRS", "REF", "DATA"} \subseteq ChipCommand \cup {"DATA"}
    BY <1>1 DEF AgesAt, Horizon, ChipCommand
  <2>3. /\ ActAge(k) \in 0 .. 8 /\ ReadAge(k) \in 0 .. 8 /\ DataAge(k) \in 0 .. 8 /\ PreAge(k) \in 0 .. 8
        /\ BootAge \in 0 .. 8 /\ RefAge \in 0 .. 8
    BY <1>1, AgeBounds
  <2>4. ASSUME NEW c \in {"ACT", "RD", "PRE", "MRS", "REF", "DATA"}, NEW n \in 0 .. 8, Aged(c, n)
        PROVE  chip'.since[c] >= n
    BY <1>1, <1>7, <1>8, <2>2, <2>4 DEF Aged
  <2>5. /\ chip'.since["ACT"] >= ActAge(k) /\ chip'.since["RD"] >= ReadAge(k)
        /\ chip'.since["DATA"] >= DataAge(k)
    BY <1>1, <2>3, <2>4 DEF AgesAt
  <2>6. /\ chip'.since["PRE"] >= PreAge(k) /\ chip'.since["MRS"] >= BootAge
        /\ chip'.since["REF"] >= RefAge
    BY <1>1, <2>3, <2>4 DEF AgesAt
  <2> QED BY <1>1, <1>8, <2>1, <2>5, <2>6 DEF AgesAt, Aged
<1>15. Inputs'
  BY <1>1 DEF Inputs, cacheSide
<1> QED BY <1>2, <1>4, <1>7, <1>9, <1>10, <1>11, <1>12, <1>13, <1>14, <1>15 DEF ChipAt

\* A falling edge takes the schedule of the chip to the next clock.
LEMMA FallChip ==
  ASSUME NEW k \in 0 .. 13, ChipAt(k), Fall, ~rst180
  PROVE  \E j \in 0 .. 13 : Falling(k, j) /\ ChipAt(j)'
<1>1. /\ At(k) /\ BootClock /\ PinsAt(k) /\ AddressAt(k) /\ OpenAt(k) /\ BurstAt(k) /\ AgesAt(k) /\ Inputs
      /\ BridgeFall /\ ControllerFall /\ ChipFall /\ edge = "fall" /\ edge' = "rise"
      /\ UNCHANGED <<held, cacheSide, bridgeRise, pathVars>>
  BY DEF ChipAt, Fall
<1>2. PICK j \in 0 .. 13 : Clocked /\ j = NextClock(k) /\ At(j)'
  BY <1>1, FallStep
<1>3. PinEdge /\ StrobeEdge /\ AddressEdge
  BY <1>1 DEF ControllerFall
<1>4. Falling(k, j)
  BY <1>1, <1>2, <1>3 DEF Falling
<1>5. BootClock' /\ PinsAt(j)'
  BY <1>1, <1>2, <1>3, BootClockStep, PinsStep
<1>6. AddressAt(j)'
  BY <1>1, <1>4, AddressStep DEF Inputs
<1>7. OpenAt(j)' /\ BurstAt(j)'
  BY <1>1, <1>4, OpenFall, BurstFall
<1>8. AgesAt(j)'
  <2>1. chip.wr.left = IF ~writeCmd1 \/ k \notin 6 .. 8 THEN 0 ELSE 9 - k
    BY <1>1 DEF BurstAt
  <2> QED BY <1>1, <1>4, <2>1, AgesFall
<1>9. Inputs'
  BY <1>1 DEF Inputs, cacheSide
<1>10. ChipAt(j)'
  BY <1>2, <1>5, <1>6, <1>7, <1>8, <1>9 DEF ChipAt
<1> QED BY <1>4, <1>10

\* Every step keeps the schedule of the chip.
LEMMA StepChip == ChipSchedule /\ [Next]_vars => ChipSchedule'
<1> SUFFICES ASSUME NEW k \in 0 .. 13, ChipAt(k), [Next]_vars PROVE ChipSchedule'
  BY DEF ChipSchedule
<1>1. CASE Rise
  BY <1>1, RiseChip DEF ChipSchedule
<1>2. CASE Quarter \/ UNCHANGED vars
  <2>1. /\ UNCHANGED <<cacheSide, bridgeFall, ctlVars, chip>>
        /\ edge' = edge \/ (edge = "quarter" /\ edge' = "fall")
    BY <1>2 DEF Quarter, vars
  <2> QED BY <2>1, QuarterChip DEF ChipSchedule
<1>3. CASE Fall /\ rst180
  BY <1>3, ResetChip DEF ChipSchedule
<1>4. CASE Fall /\ ~rst180
  BY <1>4, FallChip DEF ChipSchedule
<1> QED BY <1>1, <1>2, <1>3, <1>4 DEF Next

\* Pins, addresses, open row and the age of every command follow the same clock.
THEOREM ChipInStep == Safety => []ChipSchedule
<1>1. Init => ChipSchedule
  BY InitChip DEF ChipSchedule
<1> QED BY <1>1, StepChip, PTL DEF Safety

\* An ACT comes with every row closed and long enough after PRE, REF and ACT.
LEMMA ActTimes ==
  ASSUME NEW k \in 0 .. 13, ChipAt(k), edge = "rise", pin = "ACT"
  PROVE  /\ chip.since["PRE"] >= 2 /\ chip.since["REF"] >= 7 /\ chip.since["ACT"] >= 6
         /\ chip.since["MRS"] >= 2
<1>1. k = 3 /\ At(k) /\ BootClock /\ AgesAt(k)
  BY PinFacts DEF ChipAt
<1>2. state \notin {"IDLE", "AUTO_REFRESH", "AUTO_REFRESH_WAIT"}
  BY <1>1, RowFacts
<1>3. ~boot.mem /\ initDone /\ boot.count5 = 0
  BY <1>1, <1>2 DEF At, BootInv, BootClock
<1>4. PreAge(k) = 2 /\ RefAge = 7 /\ ActAge(k) = 8 /\ BootAge = 6
  BY <1>1, <1>2, <1>3 DEF PreAge, RefAge, ActAge, BootAge
<1>5. {"ACT", "PRE", "MRS", "REF"} \subseteq ChipCommand
  BY DEF ChipCommand
<1>6. \A c \in ChipCommand : chip.since[c] \in 0 .. 9
  BY <1>1 DEF AgesAt, Horizon
<1> QED BY <1>1, <1>4, <1>5, <1>6 DEF AgesAt, Aged

\* A READ or a WRITE comes long enough after its ACT.
LEMMA BurstTimes ==
  ASSUME NEW k \in 0 .. 13, ChipAt(k), edge = "rise", pin \in {"RD", "WR"}
  PROVE  chip.since["ACT"] >= 2
<1>1. k = 6 /\ At(k) /\ AgesAt(k)
  BY PinFacts DEF ChipAt
<1>2. ActAge(k) = 3
  BY <1>1 DEF ActAge
<1>3. chip.since["ACT"] \in 0 .. 9
  BY <1>1 DEF AgesAt, Horizon, ChipCommand
<1> QED BY <1>1, <1>2, <1>3 DEF AgesAt, Aged

\* A PRE comes long enough after the ACT and the last word written.
LEMMA PreTimes ==
  ASSUME NEW k \in 0 .. 13, ChipAt(k), edge = "rise", pin = "PRE"
  PROVE  chip.since["ACT"] >= 5 /\ chip.since["DATA"] >= 2 /\ chip.since["RD"] >= 2
<1>1. k \in {0, RowEnd} /\ At(k) /\ AgesAt(k)
  BY PinFacts DEF ChipAt
<1>2. RowEnd = IF writeCmd1 THEN 13 ELSE 10
  BY DEF RowEnd
<1>3. ActAge(k) >= 5 /\ ActAge(k) \in 0 .. 8
  BY <1>1, <1>2 DEF ActAge
<1>4. DataAge(k) >= 2 /\ DataAge(k) \in 0 .. 8
  BY <1>1, <1>2 DEF DataAge
<1>5. ReadAge(k) >= 2 /\ ReadAge(k) \in 0 .. 8
  BY <1>1, <1>2 DEF ReadAge
<1>6. /\ {"ACT", "RD", "DATA"} \subseteq ChipCommand \cup {"DATA"}
      /\ \A c \in ChipCommand \cup {"DATA"} : chip.since[c] \in 0 .. 9
  BY <1>1 DEF AgesAt, Horizon, ChipCommand
<1> QED BY <1>1, <1>3, <1>4, <1>5, <1>6 DEF AgesAt, Aged

\* A REF comes with every row closed and long enough after PRE and REF.
LEMMA RefTimes ==
  ASSUME NEW k \in 0 .. 13, ChipAt(k), edge = "rise", pin \in {"REF", "MRS"}
  PROVE  /\ chip.since["PRE"] >= 2 /\ chip.since["REF"] >= 7 /\ chip.since["ACT"] >= 6
         /\ chip.since["MRS"] >= 2
<1>1. k = 0 /\ At(k) /\ BootClock /\ AgesAt(k) /\ (RefreshClock(6) \/ (boot.mem /\ boot.count5 = 6))
  BY PinFacts DEF ChipAt
<1>2. ActAge(k) = 8
  BY <1>1 DEF ActAge
<1>3. PreAge(k) \in 2 .. 8 /\ RefAge \in 7 .. 8 /\ BootAge \in 2 .. 8
  <2>1. CASE RefreshClock(6)
    <3>1. ~boot.mem /\ initDone /\ boot.count5 = 0
      BY <1>1, <2>1 DEF At, BootInv, BootClock, RefreshClock
    <3> QED BY <2>1, <3>1 DEF PreAge, RefAge, BootAge, RefreshClock
  <2>2. CASE boot.mem /\ boot.count5 = 6
    <3>1. state = "IDLE"
      BY <1>1, <2>2 DEF At, BootInv
    <3> QED BY <2>2, <3>1 DEF PreAge, RefAge, BootAge
  <2> QED BY <1>1, <2>1, <2>2
<1>4. {"ACT", "PRE", "MRS", "REF"} \subseteq ChipCommand
  BY DEF ChipCommand
<1>5. \A c \in ChipCommand : chip.since[c] \in 0 .. 9
  BY <1>1 DEF AgesAt, Horizon
<1> QED BY <1>1, <1>2, <1>3, <1>4, <1>5 DEF AgesAt, Aged

\* What the chip is told at a rising edge, named for the steps.
RowDisciplineNow ==
  /\ pin \in {"RD", "WR"} => Selected = {taken.addr} /\ taken.wr = (pin = "WR")
  /\ pin \in {"ACT", "REF"} => chip.open = {}
OneBurstNow ==
  /\ pin \in {"RD", "WR"} => ~chip.used
  /\ pin = "PRE" /\ chip.open # {} => chip.used

\* On the schedule each command finds the row in the state it needs.
LEMMA DisciplineNow ==
  ASSUME NEW k \in 0 .. 13, ChipAt(k), edge = "rise"
  PROVE  RowDisciplineNow /\ OneBurstNow
<1>1. At(k) /\ BootClock /\ PinsAt(k) /\ AddressAt(k) /\ OpenAt(k)
  BY DEF ChipAt
<1>2. RowEnd \in {10, 13}
  BY DEF RowEnd
<1>3. ASSUME pin \in {"RD", "WR"}
      PROVE  Selected = {taken.addr} /\ taken.wr = (pin = "WR") /\ ~chip.used
  <2>1. k = 6 /\ (writeCmd1 <=> pin = "WR")
    BY <1>1, <1>3, PinFacts
  <2>2. Selected = {taken.addr}
    BY <1>1, <2>1, OneLine
  <2>3. taken.wr \in BOOLEAN /\ (taken.wr <=> pin = "WR")
    BY <1>1, <2>1 DEF AddressAt
  <2>4. ~chip.used
    BY <1>1, <2>1 DEF OpenAt
  <2> QED BY <2>2, <2>3, <2>4
<1>4. pin \in {"ACT", "REF"} => chip.open = {}
  <2>1. pin \in {"ACT", "REF"} => k \in {0, 3}
    BY <1>1, PinFacts
  <2> QED BY <1>1, <2>1 DEF OpenAt
<1>5. pin = "PRE" /\ chip.open # {} => chip.used
  <2>1. pin = "PRE" => k \in {0, RowEnd}
    BY <1>1, PinFacts
  <2> QED BY <1>1, <1>2, <2>1 DEF OpenAt
<1> QED BY <1>3, <1>4, <1>5 DEF RowDisciplineNow, OneBurstNow

TimingNow ==
  LET After(c, n) == chip.since[c] >= n IN
  /\ pin = "ACT" => After("PRE", tRP) /\ After("REF", tRFC) /\ After("ACT", tRC) /\ After("MRS", tMRD)
  /\ pin \in {"RD", "WR"} => After("ACT", tRCD)
  /\ pin = "PRE" => After("ACT", tRAS) /\ After("DATA", tWR) /\ After("RD", BurstCntMax)
  /\ pin \in {"REF", "MRS"} => After("PRE", tRP) /\ After("REF", tRFC) /\ After("ACT", tRC) /\ After("MRS", tMRD)

\* On the schedule each command keeps its distance to those before it.
LEMMA TimesNow ==
  ASSUME NEW k \in 0 .. 13, ChipAt(k), edge = "rise"
  PROVE  TimingNow
BY ActTimes, BurstTimes, PreTimes, RefTimes DEF TimingNow, tRAS, tRC, tRCD, tRP, tWR, tRFC, tMRD, BurstCntMax

\* Every command the chip is given is one it allows: a burst goes to the line that was
\* taken and in its direction, one burst to a row, no row is closed without one, and the
\* minimum times of the chip are kept, whatever the cache asks for and when.
THEOREM ProtocolKept == Safety => ChipProtocol
<1>1. ChipSchedule /\ edge = "rise" => RowDisciplineNow /\ OneBurstNow /\ TimingNow
  BY DisciplineNow, TimesNow DEF ChipSchedule
<1>2. ChipSchedule /\ [Next]_vars => [edge = "rise" => RowDisciplineNow]_vars
  BY <1>1
<1>3. ChipSchedule /\ [Next]_vars => [edge = "rise" => OneBurstNow]_vars
  BY <1>1
<1>4. ChipSchedule /\ [Next]_vars => [edge = "rise" => TimingNow]_vars
  BY <1>1
<1>5. Safety => [][edge = "rise" => RowDisciplineNow]_vars
  BY <1>2, ChipInStep, PTL DEF Safety
<1>6. Safety => [][edge = "rise" => OneBurstNow]_vars
  BY <1>3, ChipInStep, PTL DEF Safety
<1>7. Safety => [][edge = "rise" => TimingNow]_vars
  BY <1>4, ChipInStep, PTL DEF Safety
<1>8. Safety => RowDiscipline
  BY <1>5 DEF RowDiscipline, RowDisciplineNow
<1>9. Safety => OneBurst
  BY <1>6 DEF OneBurst, OneBurstNow
<1>10. Safety => ChipTiming
  BY <1>7 DEF ChipTiming, TimingNow
<1> QED BY <1>8, <1>9, <1>10 DEF ChipProtocol
-----------------------------------------------------------------------------
(* The clock of the read, which outlasts the row.                             *)

NextRead(k, m) ==
  IF m = 0 THEN (IF k = 0 /\ goToActive /\ ~writeCmd1 THEN 1 ELSE 0) ELSE IF m = 17 THEN 0 ELSE m + 1

\* When the bridge enters and leaves the states of a read.
LEMMA BridgeReads ==
  ASSUME BridgeFall
  PROVE  /\ bridgeState' = "READ_WAIT_2" => \/ bridgeState = "READ_WAIT_1" /\ waitCounter = 1
                                            \/ bridgeState = "READ_WAIT_2" /\ ~(waitCounter = 1 /\ dataValid)
         /\ bridgeState' = "READ_DONE" => bridgeState = "READ_WAIT_2" /\ waitCounter = 1 /\ dataValid
         /\ bridgeState = "READ_WAIT_2" => bridgeState' = IF waitCounter = 1 /\ dataValid THEN "READ_DONE" ELSE "READ_WAIT_2"
         /\ bridgeState = "READ_DONE" => bridgeState' = "WAIT"
         /\ bridgeState = "WAIT" => bridgeState' \in {"WAIT", "IDLE"}
BY DEF BridgeFall, Startup, WaitInit, YieldToRefresh, StayIdle, IssueCommand, WaitRefresh, AwaitAck,
       RaiseBurstDone, WriteDone, ReadWait, ReadDone, WaitDrop

\* While a line is being read the bridge takes no other.
LEMMA ReadKeeps ==
  ASSUME NEW k \in 0 .. 13, NEW j \in 0 .. 13, Falling(k, j), NEW m \in 0 .. 17, ReadClock(k, m),
         NEW n, n = NextRead(k, m), n # 0
  PROVE  taken' = taken
<1>1. At(k)
  BY DEF Falling
<1>2. CASE m = 0
  <2>1. goToActive
    BY <1>2 DEF NextRead
  <2> QED BY <2>1, TakenMoves
<1>3. CASE m # 0
  <2>1. bridgeState # "IDLE" \/ k # 0
    BY <1>3 DEF ReadClock
  <2> QED BY <2>1, TakenMoves
<1> QED BY <1>2, <1>3

\* The read clock starts with its row and runs on to the answer.
LEMMA ReadTurns ==
  ASSUME NEW k \in 0 .. 13, NEW j \in 0 .. 13, Falling(k, j), AddressAt(k), NEW m \in 0 .. 17, ReadClock(k, m),
         dataValid <=> m \in {15, 16}, NEW n, n = NextRead(k, m)
  PROVE  ReadClock(j, n)' /\ n \in 0 .. 17
<1>0. At(k) /\ At(j)' /\ Clocked /\ BridgeFall /\ j = NextClock(k)
  BY DEF Falling
<1>1. /\ k # 0 => m = IF writeCmd1 THEN 0 ELSE k
      /\ k = 0 => m = 0 \/ m \in 11 .. 17
      /\ m \in 6 .. 15 => bridgeState = "READ_WAIT_2"
      /\ m = 16 <=> bridgeState = "READ_DONE"
      /\ m = 17 => bridgeState = "WAIT"
      /\ bridgeState = "READ_WAIT_2" => m \in 4 .. 15
  BY DEF ReadClock
<1>2. /\ k \in 0 .. RowEnd /\ (writeCmd1 => RowEnd = 13) /\ (~writeCmd1 => RowEnd = 10)
      /\ j = IF k = 0 THEN (IF goToActive THEN 1 ELSE 0) ELSE IF k = RowEnd THEN 0 ELSE k + 1
      /\ j # 0 => (writeCmd1' <=> writeCmd1)
  BY <1>0, Turns DEF RowEnd
<1>3. k = 0 /\ m # 0 => ~goToActive
  <2>1. k = 0 /\ m # 0 => ~Asking
    BY <1>1 DEF Asking
  <2> QED BY <1>0, <2>1 DEF At, CommandAt, Opening
<1>4. n = IF m = 0 THEN (IF k = 0 /\ goToActive /\ ~writeCmd1 THEN 1 ELSE 0) ELSE IF m = 17 THEN 0 ELSE m + 1
  BY DEF NextRead
<1>5. n \in 0 .. 17
  BY <1>4
<1>6. j # 0 => n = IF writeCmd1' THEN 0 ELSE j
  <2>1. CASE k = 0
    BY <1>1, <1>2, <1>3, <1>4, <2>1
  <2>2. CASE k # 0
    BY <1>1, <1>2, <1>4, <2>2
  <2> QED BY <2>1, <2>2
<1>7. j = 0 => n = 0 \/ n \in 11 .. 17
  <2>1. CASE k = 0
    BY <1>1, <1>2, <1>4, <2>1
  <2>2. CASE k # 0
    BY <1>1, <1>2, <1>4, <2>2
  <2> QED BY <2>1, <2>2
<1>8. /\ k \in 1 .. 3 => bridgeState = (IF writeCmd1 THEN "WRITE_WAIT" ELSE "READ_WAIT_1") /\ waitCounter = 4 - k
      /\ k \in 4 .. 5 => bridgeState = (IF writeCmd1 THEN "WRITE_DONE" ELSE "READ_WAIT_2") /\ waitCounter = 6 - k
      /\ k \notin 1 .. 5 => bridgeState # "READ_WAIT_1" /\ (bridgeState = "READ_WAIT_2" => waitCounter = 1)
  BY <1>0 DEF At, BridgeAt
<1>9. n \in 6 .. 15 => bridgeState' = "READ_WAIT_2"
  <2>1. n \in 6 .. 15 => m \in 5 .. 14
    BY <1>4
  <2>2. m = 5 => k = 5 /\ ~writeCmd1
    BY <1>1
  <2>3. m \in 5 .. 14 => bridgeState = "READ_WAIT_2" /\ ~dataValid
    BY <1>1, <1>8, <2>2
  <2> QED BY <1>0, <2>1, <2>3, BridgeReads
<1>10. n = 16 <=> bridgeState' = "READ_DONE"
  <2>1. n = 16 <=> m = 15
    BY <1>4
  <2>2. m = 15 => k = 0 /\ bridgeState = "READ_WAIT_2" /\ dataValid
    BY <1>1
  <2>3. m = 15 => bridgeState' = "READ_DONE"
    BY <1>0, <1>8, <2>2, BridgeReads
  <2>4. bridgeState' = "READ_DONE" => m = 15
    BY <1>0, <1>1, BridgeReads
  <2> QED BY <2>1, <2>3, <2>4
<1>11. n = 17 => bridgeState' = "WAIT"
  <2>1. n = 17 => m = 16
    BY <1>4
  <2> QED BY <1>0, <1>1, <2>1, BridgeReads
<1>12. bridgeState' = "READ_WAIT_2" => n \in 4 .. 15
  <2>1. CASE bridgeState = "READ_WAIT_1" /\ waitCounter = 1
    <3>1. k = 3 /\ ~writeCmd1
      BY <1>8, <2>1
    <3> QED BY <1>1, <1>4, <3>1
  <2>2. CASE bridgeState = "READ_WAIT_2" /\ ~(waitCounter = 1 /\ dataValid)
    <3>1. m \in 4 .. 15
      BY <1>1, <2>2
    <3>2. m # 15
      BY <1>1, <1>8, <2>2
    <3> QED BY <1>4, <3>1, <3>2
  <2> QED BY <1>0, <2>1, <2>2, BridgeReads
<1>13. n # 0 => ~taken'.wr
  <2>1. SUFFICES ASSUME n # 0 PROVE ~taken.wr
    BY ReadKeeps
  <2>2. CASE m # 0
    BY <2>2 DEF ReadClock
  <2>3. CASE m = 0
    <3>1. k = 0 /\ goToActive /\ ~writeCmd1
      BY <1>4, <2>1, <2>3
    <3>2. Opening /\ Asking
      BY <1>0, <3>1 DEF At, CommandAt, Opening
    <3> QED BY <3>1, <3>2 DEF AddressAt, Opening
  <2> QED BY <2>2, <2>3
<1> QED BY <1>5, <1>6, <1>7, <1>9, <1>10, <1>11, <1>12, <1>13 DEF ReadClock

\* The clocks of the edges at the end of a clock of the read.
LEMMA ReadTicks ==
  ASSUME NEW k \in 0 .. 13, NEW m \in 0 .. 17, NEW n, n = NextRead(k, m), edge = "fall", edge' = "rise"
  PROVE  /\ Quarters(m) = m /\ Rises(m) = m
         /\ Quarters(n)' = IF n = 0 THEN 0 ELSE m
         /\ Rises(n)' = IF n = 0 THEN 0 ELSE m
         /\ n = 0 => m \in {0, 17}
         /\ n # 0 => n = m + 1
         /\ n \in 0 .. 17
BY DEF NextRead, Quarters, Rises

\* A falling edge moves the read enables and the FIFO with the read clock.
LEMMA ReadFall ==
  ASSUME NEW k \in 0 .. 13, NEW j \in 0 .. 13, Falling(k, j), PinsAt(k), NEW m \in 0 .. 17, ReadClock(k, m),
         ReadAt(m), NEW n, n = NextRead(k, m)
  PROVE  ReadAt(n)'
<1>0. /\ At(k) /\ Clocked /\ StrobeEdge /\ ChipFall /\ edge = "fall" /\ edge' = "rise"
      /\ UNCHANGED <<bridgeRise, pathVars>>
  BY DEF Falling
<1>1. EnablesAt(m) /\ OutputAt(m) /\ FifoAt(m, m) /\ BufferAt(m)
  BY <1>0, ReadTicks DEF ReadAt
<1>2. n \in 0 .. 17 /\ (n = 0 => m \in {0, 17}) /\ (n # 0 => n = m + 1)
  BY <1>0, ReadTicks
<1>3. cmd2 = "RD" <=> m = 5
  <2>1. cmd2 = "RD" <=> k = 4 + 1 /\ ~writeCmd1
    BY DEF PinsAt, Shows
  <2> QED BY <2>1 DEF ReadClock
<1>4. n # 0 => taken' = taken
  BY ReadKeeps
<1>5. UNCHANGED <<store, rdPipe, fifo, outputData, dataValid, rdBuffer>> /\ chip'.rd = chip.rd
  BY <1>0, ChipFalls DEF bridgeRise, pathVars
<1>6. n # 0 => Line' = Line
  BY <1>4, <1>5 DEF Line
<1>7. EnablesAt(n)'
  <2>1. strobe' = [write |-> Writing \/ count.burst > 1,
                   cas  |-> Load(cmd2 = "RD", 2, strobe.cas),
                   left |-> Load(strobe.cas = 1, 2, strobe.left),
                   div  |-> strobe.cas = 1 \/ (strobe.div /\ ~(strobe.left = 1 /\ strobe.cas = 0)),
                   r2   |-> strobe.div,
                   rden |-> strobe.r2]
    BY <1>0 DEF StrobeEdge, BurstCntMax
  <2>2. /\ strobe'.cas = Load(cmd2 = "RD", 2, strobe.cas)
        /\ strobe'.left = Load(strobe.cas = 1, 2, strobe.left)
    BY <2>1
  <2>3. strobe'.div <=> strobe.cas = 1 \/ (strobe.div /\ ~(strobe.left = 1 /\ strobe.cas = 0))
    BY <2>1
  <2>4. strobe'.r2 = strobe.div /\ strobe'.rden = strobe.r2
    BY <2>1
  <2>5. /\ strobe.cas = IF m \in 6 .. 7 THEN 8 - m ELSE 0
        /\ strobe.left = IF m \in 8 .. 9 THEN 10 - m ELSE 0
        /\ strobe.div <=> m \in 8 .. 9
        /\ strobe.r2 <=> m \in 9 .. 10
    BY <1>1 DEF EnablesAt
  <2>6. strobe'.cas = IF n \in 6 .. 7 THEN 8 - n ELSE 0
    BY <1>2, <1>3, <2>2, <2>5 DEF Load
  <2>7. strobe'.left = IF n \in 8 .. 9 THEN 10 - n ELSE 0
    BY <1>2, <2>2, <2>5 DEF Load
  <2>8. strobe'.div <=> n \in 8 .. 9
    BY <1>2, <2>3, <2>5
  <2>9. (strobe'.r2 <=> n \in 9 .. 10) /\ (strobe'.rden <=> n \in 10 .. 11)
    BY <1>2, <2>4, <2>5
  <2>10. strobe'.div \in BOOLEAN
    BY <2>1
  <2>11. strobe'.r2 \in BOOLEAN /\ strobe'.rden \in BOOLEAN
    BY <1>1, <2>4 DEF EnablesAt
  <2> QED BY <2>6, <2>7, <2>8, <2>9, <2>10, <2>11 DEF EnablesAt
<1>8. CASE n # 0
  <2>1. OutputAt(m)' /\ FifoAt(m, m)' /\ BufferAt(m)'
    <3>1. OutputAt(m)'
      BY <1>1, <1>5, <1>6, <1>8 DEF OutputAt
    <3>2. FifoAt(m, m)'
      BY <1>1, <1>4, <1>5, <1>6, <1>8 DEF FifoAt
    <3>3. BufferAt(m)'
      BY <1>1, <1>5, <1>6, <1>8 DEF BufferAt, Block
    <3> QED BY <3>1, <3>2, <3>3
  <2>2. Quarters(n)' = m /\ Rises(n)' = m
    BY <1>0, <1>8, ReadTicks
  <2>3. OutputAt(Quarters(n))' /\ FifoAt(Rises(n), Quarters(n))' /\ BufferAt(Rises(n))'
    BY <2>1, <2>2 DEF OutputAt, FifoAt, BufferAt
  <2> QED BY <1>7, <2>3 DEF ReadAt
<1>9. CASE n = 0
  <2>1. OutputAt(0)' /\ FifoAt(0, 0)' /\ BufferAt(0)'
    <3>1. OutputAt(0)'
      BY <1>1, <1>2, <1>5, <1>9 DEF OutputAt
    <3>2. FifoAt(0, 0)'
      BY <1>1, <1>2, <1>5, <1>9 DEF FifoAt
    <3>3. BufferAt(0)'
      BY <1>1, <1>5 DEF BufferAt, Block
    <3> QED BY <3>1, <3>2, <3>3
  <2>2. Quarters(n)' = 0 /\ Rises(n)' = 0
    BY <1>0, <1>9, ReadTicks
  <2>3. OutputAt(Quarters(n))' /\ FifoAt(Rises(n), Quarters(n))' /\ BufferAt(Rises(n))'
    BY <2>1, <2>2 DEF OutputAt, FifoAt, BufferAt
  <2> QED BY <1>7, <2>3 DEF ReadAt
<1> QED BY <1>8, <1>9

\* The FIFO holds two halves at most.
LEMMA Pairs ==
  ASSUME NEW S, NEW a \in S, NEW b \in S
  PROVE  /\ Append(<< >>, a) = <<a>> /\ Append(<<a>>, b) = <<a, b>>
         /\ Head(<<a, b>>) = a /\ Tail(<<a, b>>) = <<b>> /\ <<a, b>> # << >>
         /\ Head(<<a>>) = a /\ Tail(<<a>>) = << >> /\ <<a>> # << >>
<1>1. <<a>> \in Seq(S) /\ <<a, b>> \in Seq(S) /\ << >> \in Seq(S) /\ <<b>> \in Seq(S)
  OBVIOUS
<1>2. Append(<< >>, a) = <<a>>
  BY <1>1
<1>3. Append(<<a>>, b) = <<a, b>>
  <2>1. Append(<<a>>, b) \in Seq(S)
    BY <1>1
  <2>2. Len(Append(<<a>>, b)) = 2
    BY <1>1
  <2>3. Append(<<a>>, b)[1] = a /\ Append(<<a>>, b)[2] = b
    BY <1>1
  <2>4. <<a, b>> \in Seq(S) /\ Len(<<a, b>>) = 2 /\ <<a, b>>[1] = a /\ <<a, b>>[2] = b
    BY <1>1
  <2>5. \A i \in 1 .. 2 : Append(<<a>>, b)[i] = <<a, b>>[i]
    BY <2>3, <2>4
  <2> QED BY <2>1, <2>2, <2>4, <2>5, SeqEqual
<1>4. Head(<<a, b>>) = a /\ Head(<<a>>) = a
  BY <1>1
<1>5. <<a, b>> # << >> /\ <<a>> # << >>
  BY <1>1
<1>6. Tail(<<a>>) = << >>
  BY <1>1
<1>7. Tail(<<a, b>>) = <<b>>
  BY <1>1
<1> QED BY <1>2, <1>3, <1>4, <1>5, <1>6, <1>7

\* Halves of lines that the bridge has taken.
LEMMA LineHalves ==
  ASSUME NEW k \in 0 .. 13, AddressAt(k), MemoryAt(k)
  PROVE  /\ Line \in [hi : Half, lo : Half] /\ Line.hi \in Halves /\ Line.lo \in Halves
         /\ taken.addr \in LineAddr
<1>1. taken.addr \in LineAddr
  BY DEF AddressAt
<1>2. Line \in Lines
  BY <1>1 DEF Line, MemoryAt
<1>3. Line \in [hi : Half, lo : Half]
  BY <1>2, LinesAssumption
<1> QED BY <1>1, <1>3 DEF Halves

\* The quarter edge moves the read strobes and the output register.
LEMMA ReadQuarter ==
  ASSUME NEW m \in 0 .. 17, ReadAt(m), edge = "quarter", edge' = "fall", ReadPath, Line.hi \in Halves, Line.lo \in Halves,
         UNCHANGED <<ctlVars, chip, store, taken, rdBuffer>>
  PROVE  ReadAt(m)'
<1>0. PICK q \in 0 .. 17 : q = IF m = 0 THEN 0 ELSE m - 1
  OBVIOUS
<1>1. Quarters(m) = q /\ Rises(m) = m /\ Quarters(m)' = m /\ Rises(m)' = m
  BY <1>0 DEF Quarters, Rises
<1>2. EnablesAt(m) /\ OutputAt(q) /\ FifoAt(m, q) /\ BufferAt(m)
  BY <1>1 DEF ReadAt
<1>3. EnablesAt(m)'
  BY <1>2 DEF EnablesAt, ctlVars
<1>4. BufferAt(m)'
  BY <1>2 DEF BufferAt, Line, Block
<1>5. Line' = Line
  BY DEF Line
<1>6. /\ rdPipe \in [1 .. 5 -> BOOLEAN] /\ \A i \in 1 .. 5 : rdPipe[i] <=> q \in {9 + i, 10 + i}
      /\ outputData \in Halves
  BY <1>2 DEF OutputAt
<1>7. rdPipe[5] <=> q \in {14, 15}
  BY <1>6
<1>8. rdPipe[5] <=> m \in {15, 16}
  BY <1>0, <1>7
<1>9. rdPipe' \in [1 .. 5 -> BOOLEAN] /\ \A i \in 1 .. 5 : rdPipe'[i] <=> m \in {9 + i, 10 + i}
  <2>1. rdPipe' = [i \in 1 .. 5 |-> IF i = 1 THEN strobe.rden ELSE rdPipe[i - 1]]
    BY DEF ReadPath
  <2>2. strobe.rden <=> m \in 10 .. 11
    BY <1>2 DEF EnablesAt
  <2>3. strobe.rden \in BOOLEAN
    BY <1>2 DEF EnablesAt
  <2>4. rdPipe' \in [1 .. 5 -> BOOLEAN]
    BY <1>6, <2>1, <2>3
  <2>5. ASSUME NEW i \in 1 .. 5 PROVE rdPipe'[i] <=> m \in {9 + i, 10 + i}
    <3>1. CASE i = 1
      <4>1. rdPipe'[i] = strobe.rden
        BY <2>1, <3>1
      <4> QED BY <2>2, <3>1, <4>1
    <3>2. CASE i # 1
      <4>1. rdPipe'[i] = rdPipe[i - 1] /\ i - 1 \in 1 .. 5
        BY <2>1, <3>2
      <4>2. rdPipe[i - 1] <=> q \in {8 + i, 9 + i}
        BY <1>6, <4>1
      <4> QED BY <1>0, <4>1, <4>2
    <3> QED BY <3>1, <3>2
  <2> QED BY <2>4, <2>5
<1>10. m = 15 => fifo = <<Line.hi, Line.lo>>
  BY <1>0, <1>2 DEF FifoAt
<1>11. m = 16 => fifo = <<Line.lo>>
  BY <1>0, <1>2 DEF FifoAt
<1>12. dataValid' \in BOOLEAN /\ (dataValid' <=> m \in {15, 16})
  <2>1. dataValid' = rdPipe[5]
    BY DEF ReadPath
  <2> QED BY <1>6, <1>8, <2>1
<1>13. /\ outputData' = IF m = 15 THEN Line.hi ELSE IF m = 16 THEN Line.lo ELSE outputData
       /\ fifo' = IF m = 15 THEN <<Line.lo>> ELSE IF m = 16 THEN << >> ELSE fifo
  <2>1. CASE m = 15
    <3>1. fifo # << >> /\ Head(fifo) = Line.hi /\ Tail(fifo) = <<Line.lo>>
      <4>1. LET s == <<Line.hi, Line.lo>> IN s # << >> /\ Head(s) = Line.hi /\ Tail(s) = <<Line.lo>>
        BY Pairs
      <4> QED BY <1>10, <2>1, <4>1
    <3>2. outputData' = Head(fifo) /\ fifo' = Tail(fifo)
      BY <1>8, <2>1, <3>1 DEF ReadPath
    <3> QED BY <2>1, <3>1, <3>2
  <2>2. CASE m = 16
    <3>1. fifo # << >> /\ Head(fifo) = Line.lo /\ Tail(fifo) = << >>
      BY <1>11, <2>2, Pairs
    <3>2. outputData' = Head(fifo) /\ fifo' = Tail(fifo)
      BY <1>8, <2>2, <3>1 DEF ReadPath
    <3> QED BY <2>2, <3>1, <3>2
  <2>3. CASE m \notin {15, 16}
    BY <1>8, <2>3 DEF ReadPath
  <2> QED BY <2>1, <2>2, <2>3
<1>14. OutputAt(m)'
  BY <1>5, <1>6, <1>9, <1>12, <1>13 DEF OutputAt
<1>15. FifoAt(m, m)'
  <2>1. /\ chip.rd.left = IF m \in 6 .. 10 THEN 11 - m ELSE 0
        /\ chip.rd.left # 0 => chip.rd.lines = {taken.addr}
        /\ fifo = IF m < 10 THEN << >>
                  ELSE IF m = 10 THEN <<Line.hi>>
                  ELSE IF q <= 14 THEN <<Line.hi, Line.lo>>
                  ELSE IF q = 15 THEN <<Line.lo>> ELSE << >>
    BY <1>2 DEF FifoAt
  <2>2. fifo' = IF m < 10 THEN << >>
                ELSE IF m = 10 THEN <<Line.hi>>
                ELSE IF m <= 14 THEN <<Line.hi, Line.lo>>
                ELSE IF m = 15 THEN <<Line.lo>> ELSE << >>
    BY <1>0, <1>13, <2>1
  <2> QED BY <1>5, <2>1, <2>2 DEF FifoAt
<1>16. OutputAt(Quarters(m))' /\ FifoAt(Rises(m), Quarters(m))' /\ BufferAt(Rises(m))'
  BY <1>1, <1>4, <1>14, <1>15 DEF OutputAt, FifoAt, BufferAt
<1> QED BY <1>3, <1>16 DEF ReadAt

\* Which part of the data state machine moves.
LEMMA DataMoves ==
  ASSUME BridgeRise
  PROVE  /\ dataState = "IDLE" \/ ~initDone => DataIdle
         /\ dataState = "WRITE" /\ initDone => DataWrite
         /\ dataState = "READ_WAIT" /\ initDone => DataReadWait
         /\ dataState = "READ" /\ initDone => DataRead
         /\ dataState = "WAIT" /\ initDone => DataWait
         /\ memReady' = readyInt
BY DEF BridgeRise, DataIdle, DataWrite, DataReadWait, DataRead, DataWait

\* The rising edge takes the valid halves into the read buffer.
LEMMA ReadRise ==
  ASSUME NEW k \in 0 .. 13, Rising(k), NEW m \in 0 .. 17, ReadClock(k, m), OpenAt(k), MemoryAt(k), DataAt(k, m),
         ReadAt(m), BridgeRise
  PROVE  ReadAt(m)'
<1>a. /\ At(k) /\ BootClock /\ PinsAt(k) /\ AddressAt(k) /\ edge = "rise" /\ edge' = "quarter" /\ ChipRise
      /\ UNCHANGED <<bridgeFall, ctlVars, rdPipe, outputData, dataValid>>
  BY DEF Rising
<1>0. PICK q \in 0 .. 17 : q = IF m = 0 THEN 0 ELSE m - 1
  OBVIOUS
<1>1. Quarters(m) = q /\ Rises(m) = q /\ Quarters(m)' = q /\ Rises(m)' = m
  BY <1>0, <1>a DEF Quarters, Rises
<1>2. EnablesAt(m) /\ OutputAt(q) /\ FifoAt(q, q) /\ BufferAt(q)
  BY <1>1 DEF ReadAt
<1>3. EnablesAt(m)'
  BY <1>a, <1>2 DEF EnablesAt, ctlVars
<1>4. taken' = taken /\ (writeCmd1' <=> writeCmd1)
  BY <1>a DEF bridgeFall, ctlVars
\* The line does not change under the read.
<1>5. m # 0 => initDone /\ dataState = IF q <= 15 THEN "READ_WAIT" ELSE IF q = 16 THEN "READ" ELSE "WAIT"
  <2>1. SUFFICES ASSUME m # 0
                 PROVE  initDone /\ dataState = IF q <= 15 THEN "READ_WAIT" ELSE IF q = 16 THEN "READ" ELSE "WAIT"
    OBVIOUS
  <2>2. ~(writeCmd1 /\ k \in 1 .. 5)
    BY <2>1 DEF ReadClock
  <2>3. bridgeState \notin {"STARTUP", "WAIT_INIT"} \/ k # 0
    BY <2>1 DEF ReadClock
  <2>4. initDone
    BY <1>a, <2>3, RowFacts DEF At, BootInv
  <2> QED BY <1>1, <1>a, <2>1, <2>2, <2>4 DEF DataAt
<1>6. m # 0 => store' = store /\ Line' = Line
  <2>1. m # 0 => store' = store
    BY <1>5, DataMoves DEF DataReadWait, DataRead, DataWait
  <2> QED BY <1>4, <2>1 DEF Line
<1>7. OutputAt(q)'
  BY <1>0, <1>a, <1>2, <1>6 DEF OutputAt
<1>8. BufferAt(m)'
  <2>1. outputData \in Halves /\ rdBuffer \in Block /\ (q = 15 => dataValid /\ outputData = Line.hi)
    BY <1>2 DEF OutputAt, BufferAt
  <2>2. rdBuffer' \in {rdBuffer, [rdBuffer EXCEPT !.hi = outputData], [rdBuffer EXCEPT !.lo = outputData]}
    BY DEF BridgeRise, DataIdle, DataWrite, DataReadWait, DataRead, DataWait
  <2>3. rdBuffer' \in Block
    BY <2>1, <2>2 DEF Block
  <2>4. m = 16 => rdBuffer'.hi = Line'.hi
    <3>1. SUFFICES ASSUME m = 16 PROVE rdBuffer'.hi = Line'.hi
      OBVIOUS
    <3>2. DataReadWait /\ dataValid /\ outputData = Line.hi
      BY <1>0, <1>5, <2>1, <3>1, DataMoves
    <3>3. rdBuffer' = [rdBuffer EXCEPT !.hi = Line.hi]
      BY <3>2 DEF DataReadWait
    <3>4. rdBuffer'.hi = Line.hi
      BY <2>1, <3>3 DEF Block
    <3> QED BY <1>6, <3>1, <3>4
  <2> QED BY <2>3, <2>4 DEF BufferAt, Block
<1>9. FifoAt(m, q)'
  <2>1. /\ chip.rd.left = IF q \in 6 .. 10 THEN 11 - q ELSE 0
        /\ chip.rd.left # 0 => chip.rd.lines = {taken.addr}
        /\ fifo = IF q < 10 THEN << >>
                  ELSE IF q = 10 THEN <<Line.hi>>
                  ELSE IF q <= 14 THEN <<Line.hi, Line.lo>>
                  ELSE IF q = 15 THEN <<Line.lo>> ELSE << >>
    BY <1>2 DEF FifoAt
  <2>2. pin = "RD" <=> m = 6
    <3>1. pin = "RD" <=> k = 6 /\ ~writeCmd1
      BY <1>a, PinFacts
    <3> QED BY <3>1 DEF ReadClock
  <2>3. chip'.rd = IF m = 6 THEN [left |-> 5, lines |-> {taken.addr}]
                   ELSE [chip.rd EXCEPT !.left = IF @ = 0 THEN 0 ELSE @ - 1]
    <3>1. chip'.rd = IF pin = "RD" THEN [left |-> CasLatency + 2, lines |-> Selected] ELSE Progress(chip.rd)
      BY <1>a, ChipRises
    <3>2. m = 6 => Selected = {taken.addr}
      <4>1. m = 6 => k = 6
        BY DEF ReadClock
      <4> QED BY <1>a, <4>1, OneLine
    <3> QED BY <2>2, <3>1, <3>2 DEF CasLatency, Progress
  <2>4. chip'.rd.left = IF m \in 6 .. 10 THEN 11 - m ELSE 0
    <3>1. m = 6 => chip'.rd.left = 5
      BY <2>3
    <3>2. m # 6 => chip'.rd.left = IF chip.rd.left = 0 THEN 0 ELSE chip.rd.left - 1
      BY <2>3
    <3> QED BY <1>0, <2>1, <3>1, <3>2
  <2>5. chip'.rd.left # 0 => chip'.rd.lines = {taken.addr}
    <3>1. m = 6 => chip'.rd.lines = {taken.addr}
      BY <2>3
    <3>2. m # 6 => chip'.rd.lines = chip.rd.lines /\ (chip'.rd.left # 0 => chip.rd.left # 0)
      BY <2>3
    <3> QED BY <2>1, <3>1, <3>2
  <2>6. m \in 10 .. 11 => Stored(chip.rd.lines) = Line
    <3>1. SUFFICES ASSUME m \in 10 .. 11 PROVE Stored(chip.rd.lines) = Line
      OBVIOUS
    <3>2. chip.rd.lines = {taken.addr}
      BY <1>0, <2>1, <3>1
    <3>3. taken.addr \in LineAddr /\ ~(writeCmd1 /\ k \in 1 .. 8)
      BY <1>a, <3>1 DEF ReadClock, AddressAt
    <3>4. chip.mem[taken.addr] = store[taken.addr]
      BY <3>3 DEF MemoryAt
    <3>5. (CHOOSE l \in {taken.addr} : TRUE) = taken.addr
      OBVIOUS
    <3> QED BY <3>2, <3>4, <3>5 DEF Stored, Line
  <2>7. fifo' = IF m = 10 THEN <<Line.hi>> ELSE IF m = 11 THEN <<Line.hi, Line.lo>> ELSE fifo
    <3>1. fifo' = IF chip.rd.left = 2 THEN Append(fifo, Stored(chip.rd.lines).hi)
                  ELSE IF chip.rd.left = 1 THEN Append(fifo, Stored(chip.rd.lines).lo) ELSE fifo
      BY <1>a DEF ChipRise
    <3>2. (chip.rd.left = 2 <=> m = 10) /\ (chip.rd.left = 1 <=> m = 11)
      BY <1>0, <2>1
    <3>3. CASE m = 10
      BY <1>0, <2>1, <2>6, <3>1, <3>2, <3>3
    <3>4. CASE m = 11
      <4>1. fifo = <<Line.hi>> /\ fifo' = Append(fifo, Line.lo)
        BY <1>0, <2>1, <2>6, <3>1, <3>2, <3>4
      <4>2. Append(<<Line.hi>>, Line.lo) = <<Line.hi, Line.lo>>
        BY <1>a, LineHalves, Pairs
      <4> QED BY <3>4, <4>1, <4>2
    <3>5. CASE m \notin {10, 11}
      BY <3>1, <3>2, <3>5
    <3> QED BY <3>3, <3>4, <3>5
  <2>8. fifo' = IF m < 10 THEN << >>
                ELSE IF m = 10 THEN <<Line.hi>>
                ELSE IF q <= 14 THEN <<Line.hi, Line.lo>>
                ELSE IF q = 15 THEN <<Line.lo>> ELSE << >>
    BY <1>0, <2>1, <2>7
  <2>9. fifo' = IF m < 10 THEN << >>
                ELSE IF m = 10 THEN <<Line'.hi>>
                ELSE IF q <= 14 THEN <<Line'.hi, Line'.lo>>
                ELSE IF q = 15 THEN <<Line'.lo>> ELSE << >>
    BY <1>6, <2>8
  <2> QED BY <1>4, <2>4, <2>5, <2>9 DEF FifoAt
<1>10. OutputAt(Quarters(m))' /\ FifoAt(Rises(m), Quarters(m))' /\ BufferAt(Rises(m))'
  BY <1>1, <1>7, <1>8, <1>9 DEF OutputAt, FifoAt, BufferAt
<1> QED BY <1>3, <1>10 DEF ReadAt
-----------------------------------------------------------------------------
(* A line on its way to the chip.                                             *)

\* The clocks of the row as the three edges see them, and what a falling edge keeps of them.
LEMMA WriteTicks ==
  ASSUME NEW k \in 0 .. 13, NEW j \in 0 .. 13, Falling(k, j)
  PROVE  /\ Quarters(k) = k /\ Rises(k) = k
         /\ Quarters(j)' = (IF j = 0 THEN 0 ELSE j - 1) /\ Rises(j)' = IF j = 0 THEN 0 ELSE j - 1
         /\ j # 0 => j = k + 1 /\ (writeCmd1' <=> writeCmd1)
         /\ j = 0 => k = 0 \/ k = RowEnd
         /\ RowEnd = IF writeCmd1 THEN 13 ELSE 10
         /\ j # 0 => taken' = taken
         /\ writeCmd1 \in BOOLEAN /\ writeCmd1' \in BOOLEAN
<1>0. At(k) /\ At(j)' /\ Clocked /\ j = NextClock(k) /\ edge = "fall" /\ edge' = "rise"
  BY DEF Falling
<1>1. /\ j # 0 => j = k + 1 /\ (writeCmd1' <=> writeCmd1)
      /\ j = 0 => k = 0 \/ k = RowEnd
  BY <1>0, Turns
<1>2. j # 0 => taken' = taken
  BY TakenMoves
<1>3. writeCmd1 \in BOOLEAN /\ writeCmd1' \in BOOLEAN
  BY <1>0 DEF At, Registers
<1> QED BY <1>0, <1>1, <1>2, <1>3 DEF Quarters, Rises, RowEnd

\* A falling edge keeps the write registers in step with the row.
LEMMA WriteFall ==
  ASSUME NEW k \in 0 .. 13, NEW j \in 0 .. 13, Falling(k, j), WriteAt(k)
  PROVE  WriteAt(j)'
<1>0. At(k) /\ Clocked /\ StrobeEdge /\ UNCHANGED <<bridgeRise, pathVars>>
  BY DEF Falling
<1>1. DriversAt(k, k) /\ (writeCmd1 /\ k \in 1 .. 8 => HalvesAt(k))
  <2>1. Quarters(k) = k /\ Rises(k) = k
    BY WriteTicks
  <2> QED BY <2>1 DEF WriteAt
<1>2. UNCHANGED <<store, wdPipe, wePipe, inputInt, userInput>>
  BY <1>0 DEF bridgeRise, pathVars
<1>3. strobe'.write \in BOOLEAN /\ (strobe'.write <=> writeCmd1' /\ j \in 5 .. 6)
  <2>1. strobe'.write = (Writing \/ count.burst > 1)
    BY <1>0 DEF StrobeEdge
  <2>2. strobe'.write <=> writeCmd1 /\ k \in 4 .. 5
    <3>1. strobe'.write <=> Writing \/ count.burst > 1
      BY <2>1
    <3>2. Writing <=> k = 4 /\ writeCmd1
      BY <1>0, Places
    <3>3. count.burst > 1 <=> k = 5 /\ writeCmd1
      BY <1>0, Places
    <3> QED BY <3>1, <3>2, <3>3
  <2>3. strobe'.write \in BOOLEAN
    BY <2>1
  <2>4. writeCmd1 /\ k \in 4 .. 5 <=> writeCmd1' /\ j \in 5 .. 6
    BY WriteTicks
  <2> QED BY <2>2, <2>3, <2>4
<1>4. PICK q \in 0 .. 12 : q = IF j = 0 THEN 0 ELSE j - 1
  OBVIOUS
<1>5. DriversAt(j, q)'
  <2>1. \A i \in 1 .. 3 : wePipe'[i] <=> writeCmd1' /\ q \in {4 + i, 5 + i}
    <3>1. \A i \in 1 .. 3 : wePipe[i] <=> writeCmd1 /\ k \in {4 + i, 5 + i}
      BY <1>1 DEF DriversAt
    <3>2. CASE j = 0
      <4>1. q = 0 /\ \A i \in 1 .. 3 : ~wePipe[i]
        BY <1>4, <3>1, <3>2, WriteTicks
      <4> QED BY <1>2, <4>1
    <3>3. CASE j # 0
      <4>1. q = k /\ (writeCmd1' <=> writeCmd1)
        BY <1>4, <3>3, WriteTicks
      <4> QED BY <1>2, <3>1, <4>1
    <3> QED BY <3>2, <3>3
  <2> QED BY <1>1, <1>2, <1>3, <2>1 DEF DriversAt
<1>6. writeCmd1' /\ j \in 1 .. 8 /\ Rises(j)' # 0 => HalvesAt(q)'
  <2>1. SUFFICES ASSUME writeCmd1', j \in 1 .. 8, Rises(j)' # 0 PROVE HalvesAt(q)'
    OBVIOUS
  <2>2. q = k /\ writeCmd1 /\ k \in 1 .. 8 /\ taken' = taken
    BY <1>4, <2>1, WriteTicks
  <2>3. HalvesAt(k) /\ Line' = Line
    BY <1>1, <1>2, <2>2 DEF Line
  <2> QED BY <1>2, <2>2, <2>3 DEF HalvesAt
<1>7. Quarters(j)' = q
  BY <1>4, WriteTicks
<1>8. DriversAt(j, Quarters(j))' /\ (writeCmd1' /\ j \in 1 .. 8 /\ Rises(j)' # 0 => HalvesAt(Quarters(j))')
  BY <1>5, <1>6, <1>7 DEF DriversAt, HalvesAt
<1> QED BY <1>8 DEF WriteAt

\* The quarter edge moves the two halves and their enable along the drivers.
LEMMA WriteQuarter ==
  ASSUME NEW k \in 0 .. 13, WriteAt(k), edge = "quarter", edge' = "fall", WritePath, BridgeQuarter,
         UNCHANGED <<ctlVars, store, taken, inputInt>>
  PROVE  WriteAt(k)'
<1>0. PICK q \in 0 .. 13 : q = IF k = 0 THEN 0 ELSE k - 1
  OBVIOUS
<1>1. Quarters(k) = q /\ Rises(k) = k /\ Quarters(k)' = k /\ Rises(k)' = k
  BY <1>0 DEF Quarters, Rises
<1>2. DriversAt(k, q) /\ (writeCmd1 /\ k \in 1 .. 8 => HalvesAt(q))
  BY <1>1 DEF WriteAt
<1>3. /\ userInput' = inputInt
      /\ wdPipe' = [i \in 1 .. 7 |-> IF i = 1 THEN userInput ELSE wdPipe[i - 1]]
      /\ wePipe' = [i \in 1 .. 3 |-> IF i = 1 THEN strobe.write ELSE wePipe[i - 1]]
      /\ strobe' = strobe /\ (writeCmd1' <=> writeCmd1) /\ Line' = Line
  BY DEF WritePath, BridgeQuarter, ctlVars, Line
<1>4. /\ strobe.write <=> writeCmd1 /\ k \in 5 .. 6
      /\ strobe.write \in BOOLEAN
      /\ wePipe \in [1 .. 3 -> BOOLEAN] /\ wdPipe \in [1 .. 7 -> Halves]
      /\ inputInt \in Halves /\ userInput \in Halves
      /\ \A i \in 1 .. 3 : wePipe[i] <=> writeCmd1 /\ q \in {4 + i, 5 + i}
  BY <1>2 DEF DriversAt
<1>5. DriversAt(k, k)'
  <2>1. wePipe' \in [1 .. 3 -> BOOLEAN] /\ wdPipe' \in [1 .. 7 -> Halves]
    BY <1>3, <1>4
  <2>2. ASSUME NEW i \in 1 .. 3 PROVE wePipe'[i] <=> writeCmd1 /\ k \in {4 + i, 5 + i}
    <3>1. CASE i = 1
      <4>1. wePipe'[i] = strobe.write
        BY <1>3, <3>1
      <4> QED BY <1>4, <3>1, <4>1
    <3>2. CASE i # 1
      <4>1. wePipe'[i] = wePipe[i - 1] /\ i - 1 \in 1 .. 3
        BY <1>3, <3>2
      <4>2. wePipe[i - 1] <=> writeCmd1 /\ q \in {3 + i, 4 + i}
        BY <1>4, <4>1
      <4> QED BY <1>0, <4>1, <4>2
    <3> QED BY <3>1, <3>2
  <2> QED BY <1>3, <1>4, <2>1, <2>2 DEF DriversAt
<1>6. writeCmd1 /\ k \in 1 .. 8 => HalvesAt(k)'
  <2>1. SUFFICES ASSUME writeCmd1, k \in 1 .. 8 PROVE HalvesAt(k)'
    OBVIOUS
  <2>2. /\ inputInt = Line.lo /\ q = k - 1
        /\ userInput = IF q = 0 THEN Line.hi ELSE Line.lo
        /\ \A i \in 1 .. 7 : (i = q => wdPipe[i] = Line.hi) /\ (i < q => wdPipe[i] = Line.lo)
    BY <1>0, <1>2, <2>1 DEF HalvesAt
  <2>3. ASSUME NEW i \in 1 .. 7
        PROVE  (i = k => wdPipe'[i] = Line.hi) /\ (i < k => wdPipe'[i] = Line.lo)
    <3>1. CASE i = 1
      BY <1>3, <2>1, <2>2, <3>1
    <3>2. CASE i # 1
      <4>1. wdPipe'[i] = wdPipe[i - 1] /\ i - 1 \in 1 .. 7
        BY <1>3, <3>2
      <4> QED BY <2>1, <2>2, <4>1
    <3> QED BY <3>1, <3>2
  <2> QED BY <1>3, <2>1, <2>2, <2>3 DEF HalvesAt
<1>7. DriversAt(k, Quarters(k))' /\ (writeCmd1' /\ k \in 1 .. 8 /\ Rises(k)' # 0 => HalvesAt(Quarters(k))')
  BY <1>1, <1>3, <1>5, <1>6 DEF DriversAt, HalvesAt
<1> QED BY <1>7 DEF WriteAt

\* The cache holds its request while it is served.
LEMMA RequestHeld ==
  ASSUME CacheAt, Serving, Raise \/ Hold \/ Linger \/ Drop
  PROVE  UNCHANGED <<cacheSide, held>>
<1>1. memValid /\ held = 0 /\ ~memReady
  BY DEF CacheAt
<1> QED BY <1>1 DEF Raise, Hold, Linger, Drop

\* At a rising edge the data state machine is here.
LEMMA DataPlaces ==
  ASSUME NEW k \in 0 .. 13, Rising(k), NEW m \in 0 .. 17, ReadClock(k, m), DataAt(k, m)
  PROVE  /\ k # 0 \/ m # 0 => initDone
         /\ writeCmd1 /\ k = 1 => dataState = "WRITE" /\ inputInt = memWdata.hi /\ userInput = inputInt
         /\ writeCmd1 /\ k \in 2 .. 5 => dataState = "WAIT"
         /\ writeCmd1 /\ k \in 1 .. 5 => m = 0
         /\ m # 0 => /\ ~(writeCmd1 /\ k \in 1 .. 5)
                     /\ dataState = IF m <= 16 THEN "READ_WAIT" ELSE "READ"
         /\ m = 0 /\ ~(writeCmd1 /\ k \in 1 .. 5) =>
              dataState \in {"IDLE", "WAIT"} /\ (Asking \/ ~initDone => dataState = "IDLE")
<1>0. At(k) /\ edge = "rise"
  BY DEF Rising
<1>1. k # 0 \/ m # 0 => initDone
  <2>1. m # 0 => bridgeState \notin {"STARTUP", "WAIT_INIT"} \/ k # 0
    BY DEF ReadClock
  <2> QED BY <1>0, <2>1, RowFacts DEF At, BootInv
<1>2. writeCmd1 /\ k \in 1 .. 5 => m = 0
  BY DEF ReadClock
<1>3. m # 0 => Rises(m) = m - 1
  BY <1>0 DEF Rises
<1>4. k # 0 => Rises(k) = k - 1
  BY <1>0 DEF Rises
<1>5. writeCmd1 /\ k \in 1 .. 5 => IF k = 1 THEN dataState = "WRITE" /\ inputInt = memWdata.hi /\ userInput = inputInt
                                           ELSE dataState = "WAIT"
  BY <1>0, <1>4 DEF DataAt
<1>6. m # 0 => dataState = IF m - 1 <= 15 THEN "READ_WAIT" ELSE IF m - 1 = 16 THEN "READ" ELSE "WAIT"
  BY <1>0, <1>2, <1>3 DEF DataAt
<1>7. m = 0 /\ ~(writeCmd1 /\ k \in 1 .. 5) =>
        dataState \in {"IDLE", "WAIT"} /\ (Asking \/ ~initDone => dataState = "IDLE")
  BY <1>0 DEF DataAt
<1> QED BY <1>1, <1>2, <1>5, <1>6, <1>7

\* The data path takes nothing but the line of the write that has just opened its row.
LEMMA StoreMoves ==
  ASSUME NEW k \in 0 .. 13, Rising(k), NEW m \in 0 .. 17, ReadClock(k, m), DataAt(k, m), BridgeRise
  PROVE  IF writeCmd1 /\ k = 1 THEN DataWrite ELSE store' = store
<1>1. writeCmd1 /\ k = 1 => DataWrite
  BY DataPlaces, DataMoves
<1>2. ~(writeCmd1 /\ k = 1) => dataState # "WRITE" \/ ~initDone
  BY DataPlaces
<1> QED BY <1>1, <1>2 DEF BridgeRise, DataIdle, DataWrite, DataReadWait, DataRead, DataWait

\* While the bridge waits for the row, a request is being served.
LEMMA ServedAt ==
  ASSUME NEW k \in 0 .. 13, At(k), k \in 1 .. 5
  PROVE  Serving
BY DEF At, BridgeAt, Serving

\* A rising edge keeps the write registers and the memory.
LEMMA WriteRise ==
  ASSUME NEW k \in 0 .. 13, Rising(k), NEW m \in 0 .. 17, ReadClock(k, m), DataAt(k, m), WriteAt(k), MemoryAt(k),
         CacheAt, Raise \/ Hold \/ Linger \/ Drop, BridgeRise
  PROVE  WriteAt(k)' /\ MemoryAt(k)'
<1>0. /\ At(k) /\ AddressAt(k) /\ edge = "rise" /\ edge' = "quarter" /\ ChipRise
      /\ UNCHANGED <<bridgeFall, ctlVars, wdPipe, wePipe, userInput>>
  BY DEF Rising
<1>1. PICK q \in 0 .. 13 : q = IF k = 0 THEN 0 ELSE k - 1
  OBVIOUS
<1>2. Quarters(k) = q /\ Rises(k) = q /\ Quarters(k)' = q /\ Rises(k)' = k
  BY <1>0, <1>1 DEF Quarters, Rises
<1>3. DriversAt(k, q) /\ (writeCmd1 /\ k \in 1 .. 8 /\ q # 0 => HalvesAt(q))
  BY <1>2 DEF WriteAt
<1>4. /\ taken' = taken /\ (writeCmd1' <=> writeCmd1) /\ strobe' = strobe /\ taken.addr \in LineAddr
      /\ chip'.mem = chip.mem
  BY <1>0, ChipRises DEF bridgeFall, ctlVars, AddressAt
<1>5. memWdata \in [hi : Half, lo : Half] /\ memWdata \in Lines
  BY LinesAssumption DEF CacheAt
<1>6. inputInt' \in Halves
  <2>1. inputInt' \in {inputInt, memWdata.hi, memWdata.lo}
    BY DEF BridgeRise, DataIdle, DataWrite, DataReadWait, DataRead, DataWait
  <2>2. inputInt \in Halves
    BY <1>3 DEF DriversAt
  <2> QED BY <1>5, <2>1, <2>2 DEF Halves
<1>7. DriversAt(k, q)'
  BY <1>0, <1>3, <1>4, <1>6 DEF DriversAt
<1>8. CASE writeCmd1 /\ k = 1
  <2>1. DataWrite /\ inputInt = memWdata.hi /\ userInput = inputInt
    BY <1>8, DataPlaces, StoreMoves
  <2>2. store' = [store EXCEPT ![taken.addr] = [hi |-> memWdata.hi, lo |-> memWdata.lo]] /\ inputInt' = memWdata.lo
    BY <2>1 DEF DataWrite
  <2>3. [hi |-> memWdata.hi, lo |-> memWdata.lo] = memWdata
    BY <1>5
  <2>4. store' = [store EXCEPT ![taken.addr] = memWdata] /\ store \in [LineAddr -> Lines]
    BY <2>2, <2>3 DEF MemoryAt
  <2>5. Line' = memWdata /\ store' \in [LineAddr -> Lines] /\ \A l \in LineAddr : l # taken.addr => store'[l] = store[l]
    BY <1>4, <1>5, <2>4 DEF Line
  <2>6. q = 0 /\ userInput' = Line'.hi /\ inputInt' = Line'.lo
    BY <1>0, <1>1, <1>8, <2>1, <2>2, <2>5
  <2>7. HalvesAt(q)'
    BY <2>6 DEF HalvesAt
  <2>8. MemoryAt(k)'
    BY <1>4, <1>8, <2>5 DEF MemoryAt, Block
  <2> QED BY <1>2, <1>7, <2>7, <2>8 DEF WriteAt, DriversAt, HalvesAt
<1>9. CASE ~(writeCmd1 /\ k = 1)
  <2>1. store' = store /\ Line' = Line
    BY <1>4, <1>9, StoreMoves DEF Line
  <2>2. MemoryAt(k)'
    BY <1>4, <2>1 DEF MemoryAt, Block
  <2>3. writeCmd1 /\ k \in 1 .. 8 => HalvesAt(q)'
    <3>1. SUFFICES ASSUME writeCmd1, k \in 1 .. 8 PROVE HalvesAt(q)'
      OBVIOUS
    <3>2. q # 0 /\ k \in 2 .. 8 /\ HalvesAt(q)
      BY <1>1, <1>3, <1>9, <3>1
    <3>3. dataState # "WRITE" /\ (userCmd = "WRITE" => dataState # "IDLE") /\ initDone
      <4>1. m = 0
        BY <3>1 DEF ReadClock
      <4>2. userCmd = "WRITE" => k \in 1 .. 4
        BY <1>0, <3>1 DEF At, BridgeAt
      <4> QED BY <3>1, <3>2, <4>1, <4>2, DataPlaces
    <3>4. inputInt' = inputInt
      BY <3>3 DEF BridgeRise, DataIdle, DataWrite, DataReadWait, DataRead, DataWait
    <3> QED BY <1>0, <2>1, <3>2, <3>4 DEF HalvesAt
  <2> QED BY <1>2, <1>4, <1>7, <2>2, <2>3 DEF WriteAt, DriversAt, HalvesAt
<1> QED BY <1>8, <1>9

\* A falling edge writes the half the chip is due, and the line of no one else.
LEMMA MemoryFall ==
  ASSUME NEW k \in 0 .. 13, NEW j \in 0 .. 13, Falling(k, j), AddressAt(k), BurstAt(k), WriteAt(k), MemoryAt(k)
  PROVE  MemoryAt(j)'
<1>0. At(k) /\ ChipFall /\ edge = "fall" /\ UNCHANGED bridgeRise
  BY DEF Falling
<1>1. Quarters(k) = k /\ Rises(k) = k
  BY WriteTicks
<1>2. DriversAt(k, k) /\ (writeCmd1 /\ k \in 1 .. 8 => HalvesAt(k))
  BY <1>1 DEF WriteAt
<1>3. Driven \in Halves
  BY <1>2 DEF DriversAt, Driven, Halves
<1>4. writeCmd1 /\ k \in 7 .. 8 => Driven = IF k = 7 THEN Line.hi ELSE Line.lo
  <2>1. SUFFICES ASSUME writeCmd1, k \in 7 .. 8 PROVE Driven = IF k = 7 THEN Line.hi ELSE Line.lo
    OBVIOUS
  <2>2. wePipe[3]
    BY <1>2, <2>1 DEF DriversAt
  <2>3. wdPipe[7] = IF k = 7 THEN Line.hi ELSE Line.lo
    BY <1>2, <2>1 DEF HalvesAt
  <2> QED BY <2>2, <2>3 DEF Driven
<1>5. /\ chip.wr.left = IF ~writeCmd1 \/ k \notin 6 .. 8 THEN 0 ELSE 9 - k
      /\ chip.wr.left # 0 => chip.wr.lines = {taken.addr}
  BY <1>0 DEF BurstAt
<1>6. /\ chip.mem \in [LineAddr -> Block] /\ store \in [LineAddr -> Lines] /\ taken.addr \in LineAddr
      /\ \A l \in LineAddr : chip.mem[l] = store[l] \/ (l = taken.addr /\ writeCmd1 /\ k \in 1 .. 8)
      /\ writeCmd1 /\ k = 8 => chip.mem[taken.addr].hi = Line.hi
  BY DEF MemoryAt, AddressAt
<1>7. chip'.mem = [l \in LineAddr |->
                     IF l \notin chip.wr.lines \/ chip.wr.left \notin {1, 2} THEN chip.mem[l]
                     ELSE IF chip.wr.left = 2 THEN [chip.mem[l] EXCEPT !.hi = Driven]
                     ELSE [chip.mem[l] EXCEPT !.lo = Driven]]
  BY <1>0 DEF ChipFall
<1>8. store' = store /\ (j # 0 => taken' = taken /\ Line' = Line)
  BY <1>0, WriteTicks DEF bridgeRise, Line
<1>9. CASE writeCmd1 /\ k \in 7 .. 8
  <2>1. chip.wr.left = 9 - k /\ chip.wr.lines = {taken.addr} /\ j = k + 1 /\ (writeCmd1' <=> writeCmd1)
    BY <1>5, <1>9, WriteTicks
  <2>2. \A l \in LineAddr : l # taken.addr => chip'.mem[l] = chip.mem[l]
    BY <1>7, <2>1
  <2>3. chip'.mem[taken.addr] = IF k = 7 THEN [chip.mem[taken.addr] EXCEPT !.hi = Line.hi]
                                ELSE [chip.mem[taken.addr] EXCEPT !.lo = Line.lo]
    BY <1>4, <1>6, <1>7, <1>9, <2>1
  <2>4. chip.mem[taken.addr] \in Block /\ Line \in [hi : Half, lo : Half] /\ Line.hi \in Halves /\ Line.lo \in Halves
    BY <1>6, LineHalves
  <2>5. chip'.mem \in [LineAddr -> Block]
    <3>1. chip'.mem[taken.addr] \in Block
      BY <2>3, <2>4 DEF Block
    <3>2. \A l \in LineAddr : chip'.mem[l] \in Block
      BY <1>6, <2>2, <3>1
    <3> QED BY <1>7, <3>2
  <2>6. CASE k = 7
    <3>1. chip'.mem[taken.addr].hi = Line.hi
      BY <2>3, <2>4, <2>6 DEF Block
    <3> QED BY <1>6, <1>8, <1>9, <2>1, <2>2, <2>5, <2>6, <3>1 DEF MemoryAt, Block
  <2>7. CASE k = 8
    <3>1. chip.mem[taken.addr].hi = Line.hi
      BY <1>6, <1>9, <2>7
    <3>2. chip'.mem[taken.addr] = [hi |-> Line.hi, lo |-> Line.lo]
      BY <2>3, <2>4, <2>7, <3>1 DEF Block
    <3>3. chip'.mem[taken.addr] = Line
      BY <2>4, <3>2
    <3>4. \A l \in LineAddr : chip'.mem[l] = store[l]
      BY <1>6, <2>2, <3>3 DEF Line
    <3> QED BY <1>6, <1>8, <2>1, <2>5, <2>7, <3>4 DEF MemoryAt, Block
  <2> QED BY <1>9, <2>6, <2>7
<1>10. CASE ~(writeCmd1 /\ k \in 7 .. 8)
  <2>1. chip.wr.left \notin {1, 2}
    BY <1>5, <1>10
  <2>2. chip'.mem = chip.mem
    BY <1>6, <1>7, <2>1
  <2>3. writeCmd1 /\ k \in 1 .. 8 => j \in 2 .. 8 /\ writeCmd1'
    BY <1>10, WriteTicks
  <2>4. \A l \in LineAddr : chip'.mem[l] = store'[l] \/ (l = taken'.addr /\ writeCmd1' /\ j \in 1 .. 8)
    BY <1>6, <1>8, <2>2, <2>3
  <2>5. ~(writeCmd1' /\ j = 8)
    BY <1>10, WriteTicks
  <2> QED BY <1>6, <1>8, <2>2, <2>4, <2>5 DEF MemoryAt, Block
<1> QED BY <1>9, <1>10
-----------------------------------------------------------------------------
(* The cache and the data state machine.                                      *)

\* A rising edge keeps the agreement of the cache and the bridge on the request.
LEMMA CacheRise ==
  ASSUME NEW k \in 0 .. 13, At(k), CacheAt, Raise \/ Hold \/ Linger \/ Drop, BridgeRise,
         edge = "rise", edge' = "quarter", UNCHANGED <<bridgeFall, ctlVars>>
  PROVE  CacheAt'
<1>1. /\ memValid \in BOOLEAN /\ memReady \in BOOLEAN /\ readyInt \in BOOLEAN
      /\ held \in 0 .. 2 /\ memWdata \in Lines
      /\ Serving => memValid /\ held = 0 /\ ~memReady /\ ~readyInt /\ taken.addr = memAddr /\ (taken.wr <=> memWstrb)
      /\ readyInt => bridgeState = "WAIT" /\ memValid /\ held = 0 /\ ~memReady
      /\ memReady => bridgeState = "WAIT" /\ memValid /\ held = 0 /\ ~readyInt
      /\ held # 0 => bridgeState = "WAIT" /\ memValid /\ ~memWstrb /\ ~memReady /\ ~readyInt
      /\ bridgeState = "WAIT" => memValid
      /\ bridgeState = "WAIT" /\ held = 0 => readyInt \/ memReady
      /\ ~initDone => ~memValid
      /\ bridgeState \in BridgeState /\ waitCounter \in 0 .. 3 /\ userCmd \in Command
  BY DEF CacheAt
<1>2. /\ memReady' = readyInt /\ bridgeState' = bridgeState /\ waitCounter' = waitCounter /\ readyInt' = readyInt
      /\ userCmd' = userCmd /\ taken' = taken /\ initDone' = initDone
  BY DEF BridgeRise, bridgeFall, ctlVars
<1>3. memReady' \in BOOLEAN /\ readyInt' \in BOOLEAN /\ (memReady' <=> readyInt)
  BY <1>1, <1>2
<1>4. Serving' <=> Serving
  BY <1>2 DEF Serving
<1>5. bridgeState = "WAIT" => ~Serving
  BY DEF Serving
<1>6. CASE Raise
  <2>1. ~memValid /\ initDone /\ held = 0 /\ ~readyInt /\ ~Serving /\ bridgeState # "WAIT"
    BY <1>1, <1>6 DEF Raise
  <2>2. memValid' = TRUE /\ held' = held /\ memWdata' \in Lines
    BY <1>1, <1>6 DEF Raise
  <2> QED BY <1>1, <1>2, <1>3, <1>4, <2>1, <2>2 DEF CacheAt
<1>7. CASE Hold
  <2>1. (memValid => ~memReady /\ held = 0) /\ memValid' = memValid /\ memAddr' = memAddr /\ memWstrb' = memWstrb
        /\ memWdata' = memWdata /\ held' = held
    BY <1>7 DEF Hold, cacheSide
  <2>2. ~memReady /\ held = 0
    BY <1>1, <2>1
  <2>3. bridgeState = "WAIT" => readyInt
    BY <1>1, <2>2
  <2> QED BY <1>1, <1>2, <1>3, <1>4, <2>1, <2>2, <2>3 DEF CacheAt
<1>8. CASE Linger
  <2>1. memValid /\ ~memWstrb /\ ((held = 0 /\ memReady) \/ held = 1) /\ held' = held + 1
        /\ memValid' = memValid /\ memAddr' = memAddr /\ memWstrb' = memWstrb /\ memWdata' = memWdata
    BY <1>8 DEF Linger, cacheSide
  <2>2. bridgeState = "WAIT" /\ ~readyInt /\ held' \in 1 .. 2 /\ ~Serving
    BY <1>1, <1>5, <2>1
  <2> QED BY <1>1, <1>2, <1>3, <1>4, <2>1, <2>2 DEF CacheAt
<1>9. CASE Drop
  <2>1. memValid /\ ((memWstrb /\ memReady) \/ held > 0) /\ memValid' = FALSE /\ held' = 0 /\ memWdata' = memWdata
    BY <1>9 DEF Drop
  <2>2. ~readyInt /\ ~Serving
    BY <1>1, <2>1
  <2>3. ~memValid' /\ memValid' \in BOOLEAN /\ ~readyInt' /\ ~memReady'
    BY <1>2, <1>3, <2>1, <2>2
  <2> QED BY <1>1, <1>2, <1>4, <2>1, <2>2, <2>3 DEF CacheAt
<1> QED BY <1>6, <1>7, <1>8, <1>9

\* The quarter edge leaves the request as it is.
LEMMA CacheQuarter ==
  ASSUME CacheAt, edge = "quarter", edge' = "fall",
         UNCHANGED <<held, cacheSide, bridgeFall, bridgeRise, ctlVars>>
  PROVE  CacheAt'
<1>1. Serving' <=> Serving
  BY DEF Serving, bridgeFall
<1> QED BY <1>1 DEF CacheAt, cacheSide, bridgeFall, bridgeRise, ctlVars

\* What the falling edge does to a request.
LEMMA BridgeServes ==
  ASSUME NEW k \in 0 .. 13, At(k), BridgeFall, CacheAt
  PROVE  /\ Serving => /\ readyInt' <=> bridgeState' = "WAIT"
                       /\ taken' = taken /\ (Serving' \/ bridgeState' = "WAIT")
         /\ ~Serving => /\ readyInt' => readyInt /\ bridgeState # "WAIT"
                        /\ Serving' => /\ IssueCommand /\ bridgeState = "IDLE" /\ memValid /\ ~readyInt'
                                       /\ taken' = [addr |-> memAddr, wr |-> memWstrb]
                        /\ bridgeState' = "WAIT" <=> bridgeState = "WAIT" /\ memValid
         /\ readyInt' \in BOOLEAN /\ bridgeState' \in BridgeState /\ waitCounter' \in 0 .. 3 /\ userCmd' \in Command
<1>1. /\ readyInt \in BOOLEAN /\ bridgeState \in BridgeState /\ waitCounter \in 0 .. 3 /\ userCmd \in Command
      /\ Serving => ~readyInt
      /\ readyInt => bridgeState = "WAIT"
  BY DEF CacheAt
<1>2. /\ bridgeState \in {"WRITE_WAIT", "READ_WAIT_1", "WRITE_DONE", "READ_WAIT_2"} => waitCounter # 0
  BY DEF At, BridgeAt
<1>3. CASE Startup
  BY <1>1, <1>3 DEF Startup, Serving, BridgeState, Command
<1>4. CASE WaitInit
  BY <1>1, <1>4 DEF WaitInit, Serving, BridgeState, Command
<1>5. CASE YieldToRefresh
  BY <1>1, <1>5 DEF YieldToRefresh, Serving, BridgeState
<1>6. CASE StayIdle
  BY <1>1, <1>6 DEF StayIdle, Serving
<1>7. CASE IssueCommand
  BY <1>1, <1>7 DEF IssueCommand, Serving, BridgeState, Command
<1>8. CASE WaitRefresh
  BY <1>1, <1>8 DEF WaitRefresh, Serving, BridgeState
<1>9. CASE AwaitAck
  BY <1>1, <1>9 DEF AwaitAck, Serving, BridgeState
<1>10. CASE RaiseBurstDone
  BY <1>1, <1>2, <1>10 DEF RaiseBurstDone, Serving, BridgeState
<1>11. CASE WriteDone
  <2>1. /\ bridgeState = "WRITE_DONE" /\ userCmd' = "NOP" /\ taken' = taken /\ waitCounter \in 1 .. 3
        /\ IF waitCounter = 1 THEN readyInt' = TRUE /\ bridgeState' = "WAIT" /\ waitCounter' = waitCounter
           ELSE waitCounter' = waitCounter - 1 /\ readyInt' = readyInt /\ bridgeState' = bridgeState
    BY <1>1, <1>2, <1>11 DEF WriteDone
  <2>2. Serving /\ ~readyInt
    BY <1>1, <2>1 DEF Serving
  <2>3. CASE waitCounter = 1
    BY <1>1, <2>1, <2>2, <2>3 DEF BridgeState, Command
  <2>4. CASE waitCounter # 1
    BY <1>1, <2>1, <2>2, <2>4 DEF Serving, BridgeState, Command
  <2> QED BY <2>3, <2>4
<1>12. CASE ReadWait
  BY <1>1, <1>2, <1>12 DEF ReadWait, Serving, BridgeState, Command
<1>13. CASE ReadDone
  BY <1>1, <1>13 DEF ReadDone, Serving, BridgeState, Command
<1>14. CASE WaitDrop
  BY <1>1, <1>14 DEF WaitDrop, Serving, BridgeState
<1> QED BY <1>3, <1>4, <1>5, <1>6, <1>7, <1>8, <1>9, <1>10, <1>11, <1>12, <1>13, <1>14 DEF BridgeFall

\* A falling edge keeps the agreement of the cache and the bridge on the request.
LEMMA CacheFall ==
  ASSUME NEW k \in 0 .. 13, At(k), CacheAt, BridgeFall, edge = "fall", edge' = "rise", initDone => initDone',
         UNCHANGED <<held, cacheSide, bridgeRise>>
  PROVE  CacheAt'
<1>1. /\ memValid \in BOOLEAN /\ memReady \in BOOLEAN /\ readyInt \in BOOLEAN
      /\ held \in 0 .. 2 /\ memWdata \in Lines
      /\ Serving => memValid /\ held = 0 /\ ~memReady /\ ~readyInt /\ taken.addr = memAddr /\ (taken.wr <=> memWstrb)
      /\ readyInt => bridgeState = "WAIT" /\ memReady
      /\ memReady => bridgeState = "WAIT" /\ memValid /\ held = 0
      /\ held # 0 => bridgeState = "WAIT" /\ memValid /\ ~memWstrb /\ ~memReady /\ ~readyInt
      /\ bridgeState = "WAIT" /\ memValid /\ held = 0 => memReady
      /\ ~initDone => ~memValid
  BY DEF CacheAt
<1>2. UNCHANGED <<held, memValid, memAddr, memWstrb, memWdata, memReady>>
  BY DEF cacheSide, bridgeRise
<1>3. bridgeState = "WAIT" => ~Serving
  BY DEF Serving
<1>4. bridgeState' = "WAIT" => ~Serving'
  BY DEF Serving
<1>5. readyInt' \in BOOLEAN /\ bridgeState' \in BridgeState /\ waitCounter' \in 0 .. 3 /\ userCmd' \in Command
  BY BridgeServes
<1>6. CASE Serving
  <2>1. (readyInt' <=> bridgeState' = "WAIT") /\ taken' = taken
    BY <1>6, BridgeServes
  <2> QED BY <1>1, <1>2, <1>4, <1>5, <1>6, <2>1 DEF CacheAt
<1>7. CASE ~Serving
  <2>1. /\ ~readyInt' /\ (bridgeState' = "WAIT" <=> bridgeState = "WAIT" /\ memValid)
        /\ Serving' => bridgeState = "IDLE" /\ memValid /\ taken'.addr = memAddr /\ taken'.wr = memWstrb
    BY <1>1, <1>7, BridgeServes
  <2>2. Serving' => held = 0 /\ ~memReady
    BY <1>1, <2>1
  <2> QED BY <1>1, <1>2, <1>4, <1>5, <2>1, <2>2 DEF CacheAt
<1> QED BY <1>6, <1>7

\* The data state machine at a rising edge, at the next and at the falling edge.
LEMMA DataRise ==
  ASSUME NEW k \in 0 .. 13, Rising(k), NEW m \in 0 .. 17, ReadClock(k, m), DataAt(k, m), CacheAt,
         dataValid <=> m \in {16, 17}, Raise \/ Hold \/ Linger \/ Drop, BridgeRise
  PROVE  DataAt(k, m)'
<1>0. /\ At(k) /\ edge = "rise" /\ edge' = "quarter" /\ UNCHANGED <<bridgeFall, ctlVars>>
  BY DEF Rising
<1>1. /\ goToActive' = goToActive /\ bridgeState' = bridgeState /\ writeCmd1' = writeCmd1 /\ cmdAck' = cmdAck
      /\ initDone' = initDone /\ (Asking' <=> Asking)
  BY <1>0 DEF bridgeFall, ctlVars, Asking
<1>2. Rises(k)' = k /\ Rises(m)' = m
  BY <1>0 DEF Rises
<1>3. CASE k = 0 /\ goToActive
  <2>1. Opening /\ Asking /\ cmdAck
    BY <1>0, <1>3 DEF At, CommandAt, Opening
  <2>2. m = 0
    BY <1>3, <2>1 DEF ReadClock, Asking
  <2>3. dataState = "IDLE"
    BY <1>3, <2>1, <2>2, DataPlaces
  <2>4. initDone
    BY <1>0, <1>3 DEF At, RefreshAt
  <2>5. userCmd = IF bridgeState = "WRITE_CMD" THEN "WRITE" ELSE "READ"
    BY <1>0, <2>1 DEF At, BridgeAt
  <2>6. memWdata' = memWdata
    <3>1. Serving
      BY <2>1 DEF Asking, Serving
    <3> QED BY <3>1, RequestHeld DEF cacheSide
  <2>7. /\ dataState' = IF bridgeState = "WRITE_CMD" THEN "WRITE" ELSE "READ_WAIT"
        /\ bridgeState = "WRITE_CMD" => inputInt' = memWdata.hi
    BY <2>1, <2>3, <2>4, <2>5, DataMoves DEF DataIdle
  <2> QED BY <1>0, <1>1, <1>3, <2>6, <2>7 DEF DataAt
<1>4. CASE ~(k = 0 /\ goToActive) /\ writeCmd1 /\ k \in 1 .. 5
  <2>1. initDone /\ cmdAck
    BY <1>0, <1>4, DataPlaces DEF At, CommandAt
  <2>2. dataState = IF k = 1 THEN "WRITE" ELSE "WAIT"
    BY <1>4, DataPlaces
  <2>3. dataState' = "WAIT"
    BY <2>1, <2>2, DataMoves DEF DataWrite, DataWait
  <2> QED BY <1>1, <1>2, <1>4, <2>3 DEF DataAt
<1>5. CASE ~(k = 0 /\ goToActive) /\ ~(writeCmd1 /\ k \in 1 .. 5) /\ m # 0
  <2>1. initDone /\ dataState = IF m <= 16 THEN "READ_WAIT" ELSE "READ"
    BY <1>5, DataPlaces
  <2>2. dataState' = IF m <= 15 THEN "READ_WAIT" ELSE IF m = 16 THEN "READ" ELSE "WAIT"
    BY <2>1, DataMoves DEF DataReadWait, DataRead
  <2> QED BY <1>1, <1>2, <1>5, <2>2 DEF DataAt
<1>6. CASE ~(k = 0 /\ goToActive) /\ ~(writeCmd1 /\ k \in 1 .. 5) /\ m = 0
  <2>1. dataState \in {"IDLE", "WAIT"} /\ (Asking \/ ~initDone => dataState = "IDLE")
    BY <1>6, DataPlaces
  <2>2. userCmd \in {"WRITE", "READ"} => ~cmdAck /\ Asking
    <3>1. k \notin 1 .. 4
      BY <1>6 DEF ReadClock
    <3>2. userCmd \in {"WRITE", "READ"} => Asking
      BY <1>0, <3>1 DEF At, BridgeAt
    <3>3. Asking => ~goToActive
      BY <1>0, <1>6 DEF At, BridgeAt
    <3> QED BY <1>0, <3>2, <3>3 DEF At, CommandAt
  <2>3. dataState = "IDLE" \/ ~initDone => dataState' = "IDLE"
    BY <2>2, DataMoves DEF DataIdle
  <2>4. dataState = "WAIT" /\ initDone => dataState' = IF cmdAck THEN "WAIT" ELSE "IDLE"
    BY DataMoves DEF DataWait
  <2>5. dataState' \in {"IDLE", "WAIT"} /\ (Asking \/ ~initDone \/ ~cmdAck => dataState' = "IDLE")
    BY <2>1, <2>3, <2>4
  <2> QED BY <1>0, <1>1, <1>6, <2>5 DEF DataAt
<1> QED BY <1>3, <1>4, <1>5, <1>6

\* The quarter edge hands the first half on and keeps the data machine in step.
LEMMA DataQuarter ==
  ASSUME NEW k \in 0 .. 13, NEW m \in 0 .. 17, DataAt(k, m), edge = "quarter", edge' = "fall", BridgeQuarter,
         UNCHANGED <<cacheSide, bridgeFall, bridgeRise, ctlVars>>
  PROVE  DataAt(k, m)'
<1>1. /\ goToActive' = goToActive /\ bridgeState' = bridgeState /\ writeCmd1' = writeCmd1 /\ cmdAck' = cmdAck
      /\ initDone' = initDone /\ (Asking' <=> Asking) /\ dataState' = dataState /\ inputInt' = inputInt
      /\ memWdata' = memWdata /\ userInput' = inputInt
  BY DEF bridgeFall, bridgeRise, ctlVars, cacheSide, Asking, BridgeQuarter
<1>2. Rises(k)' = k /\ Rises(m)' = m /\ Rises(k) = k /\ Rises(m) = m
  BY DEF Rises
<1>3. CASE k = 0 /\ goToActive
  BY <1>1, <1>3 DEF DataAt
<1>4. CASE ~(k = 0 /\ goToActive) /\ writeCmd1 /\ k \in 1 .. 5
  BY <1>1, <1>2, <1>4 DEF DataAt
<1>5. CASE ~(k = 0 /\ goToActive) /\ ~(writeCmd1 /\ k \in 1 .. 5) /\ m # 0
  BY <1>1, <1>2, <1>5 DEF DataAt
<1>6. CASE ~(k = 0 /\ goToActive) /\ ~(writeCmd1 /\ k \in 1 .. 5) /\ m = 0
  BY <1>1, <1>6 DEF DataAt
<1> QED BY <1>3, <1>4, <1>5, <1>6

\* A falling edge takes the data machine to the next clocks of row and read.
LEMMA DataFall ==
  ASSUME NEW k \in 0 .. 13, NEW j \in 0 .. 13, Falling(k, j), NEW m \in 0 .. 17, ReadClock(k, m), DataAt(k, m),
         NEW n \in 0 .. 17, n = NextRead(k, m), ReadClock(j, n)'
  PROVE  DataAt(j, n)'
<1>0. /\ At(k) /\ At(j)' /\ Clocked /\ edge = "fall" /\ edge' = "rise"
      /\ UNCHANGED <<cacheSide, bridgeRise, pathVars>>
  BY DEF Falling
<1>1. dataState' = dataState /\ inputInt' = inputInt /\ userInput' = userInput /\ memWdata' = memWdata
  BY <1>0 DEF bridgeRise, pathVars, cacheSide
<1>2. /\ Rises(k) = k /\ Rises(m) = m
      /\ Rises(j)' = (IF j = 0 THEN 0 ELSE j - 1) /\ Rises(n)' = (IF n = 0 THEN 0 ELSE n - 1)
  BY <1>0 DEF Rises
<1>3. /\ j = IF k = 0 THEN (IF goToActive THEN 1 ELSE 0) ELSE IF k = RowEnd THEN 0 ELSE k + 1
      /\ RowEnd \in {10, 13} /\ (j # 0 => (writeCmd1' <=> writeCmd1))
      /\ n = IF m = 0 THEN (IF k = 0 /\ goToActive /\ ~writeCmd1 THEN 1 ELSE 0) ELSE IF m = 17 THEN 0 ELSE m + 1
  BY <1>0, Turns DEF Falling, NextRead
<1>4. initDone => initDone'
  BY <1>0, BootOver
<1>5. k # 0 \/ m # 0 => initDone
  <2>1. m # 0 => bridgeState \notin {"STARTUP", "WAIT_INIT"} \/ k # 0
    BY DEF ReadClock
  <2> QED BY <1>0, <2>1, RowFacts DEF At, BootInv
<1>6. Asking' => j = 0 /\ (Asking \/ (~cmdAck /\ bridgeState = "IDLE"))
  <2>1. Asking' => j = 0
    BY <1>0 DEF At, BridgeAt
  <2>2. IssueCommand => ~cmdAck
    BY DEF IssueCommand
  <2>3. (IssueCommand /\ bridgeState = "IDLE") \/ (Asking' => Asking)
    BY TakenMoves
  <2> QED BY <2>1, <2>2, <2>3
<1>7. CASE k = 0 /\ goToActive
  <2>1. Opening /\ Asking
    BY <1>0, <1>7 DEF At, CommandAt, Opening
  <2>2. m = 0 /\ j = 1 /\ (writeCmd1 <=> bridgeState = "WRITE_CMD") /\ (writeCmd1' <=> writeCmd1)
    BY <1>3, <1>7, <2>1 DEF ReadClock, Opening, Asking
  <2>3. /\ dataState = IF bridgeState = "WRITE_CMD" THEN "WRITE" ELSE "READ_WAIT"
        /\ bridgeState = "WRITE_CMD" => inputInt = memWdata.hi /\ userInput = inputInt
    BY <1>0, <1>7 DEF DataAt
  <2>4. CASE writeCmd1
    BY <1>0, <1>1, <1>2, <2>2, <2>3, <2>4 DEF DataAt
  <2>5. CASE ~writeCmd1
    <3>1. n = 1
      BY <1>3, <1>7, <2>2, <2>5
    <3> QED BY <1>0, <1>1, <1>2, <2>2, <2>3, <2>5, <3>1 DEF DataAt
  <2> QED BY <2>4, <2>5
<1>8. CASE writeCmd1 /\ k \in 1 .. 5
  <2>1. dataState = "WAIT"
    BY <1>2, <1>8 DEF DataAt
  <2>2. m = 0 /\ n = 0 /\ j = k + 1 /\ writeCmd1'
    BY <1>3, <1>8 DEF ReadClock
  <2>3. initDone' /\ ~Asking'
    BY <1>4, <1>5, <1>6, <1>8, <2>2
  <2> QED BY <1>0, <1>1, <1>2, <1>8, <2>1, <2>2, <2>3 DEF DataAt
<1>9. CASE ~(k = 0 /\ goToActive) /\ ~(writeCmd1 /\ k \in 1 .. 5) /\ m # 0
  <2>1. dataState = IF m <= 15 THEN "READ_WAIT" ELSE IF m = 16 THEN "READ" ELSE "WAIT"
    BY <1>0, <1>2, <1>9 DEF DataAt
  <2>2. CASE m = 17
    <3>1. k = 0 /\ bridgeState = "WAIT"
      BY <2>2 DEF ReadClock
    <3>2. j = 0 /\ n = 0
      BY <1>3, <1>9, <2>2, <3>1
    <3>3. initDone' /\ ~Asking'
      BY <1>4, <1>5, <1>6, <1>9, <3>1 DEF Asking
    <3> QED BY <1>0, <1>1, <2>1, <2>2, <3>2, <3>3 DEF DataAt
  <2>3. CASE m # 17
    <3>1. n = m + 1 /\ Rises(n)' = m
      BY <1>2, <1>3, <1>9, <2>3
    <3>2. ~(writeCmd1' /\ j \in 1 .. 5)
      BY <3>1 DEF ReadClock
    <3> QED BY <1>0, <1>1, <2>1, <3>1, <3>2 DEF DataAt
  <2> QED BY <2>2, <2>3
<1>10. CASE ~(k = 0 /\ goToActive) /\ ~(writeCmd1 /\ k \in 1 .. 5) /\ m = 0
  <2>1. dataState \in {"IDLE", "WAIT"} /\ (Asking \/ ~initDone \/ ~cmdAck => dataState = "IDLE")
    BY <1>0, <1>10 DEF DataAt
  <2>2. n = 0 /\ ~(writeCmd1' /\ j \in 1 .. 5)
    <3>1. k # 0 => k \notin 1 .. 5
      BY <1>10 DEF ReadClock
    <3> QED BY <1>3, <1>10, <3>1
  <2>3. Asking' \/ ~initDone' => dataState' = "IDLE"
    BY <1>1, <1>4, <1>6, <2>1
  <2> QED BY <1>0, <1>1, <2>1, <2>2, <2>3 DEF DataAt
<1> QED BY <1>7, <1>8, <1>9, <1>10

-----------------------------------------------------------------------------
(* Together.                                                                  *)

\* A rising edge keeps the invariant, at the same clocks.
LEMMA WholeRise ==
  ASSUME NEW k \in 0 .. 13, NEW m \in 0 .. 17, Whole(k, m), Rise
  PROVE  Whole(k, m)'
<1>0. /\ ChipAt(k) /\ ReadClock(k, m) /\ CacheAt /\ DataAt(k, m) /\ WriteAt(k) /\ MemoryAt(k) /\ ReadAt(m)
      /\ (Raise \/ Hold \/ Linger \/ Drop) /\ BridgeRise
  BY DEF Whole, Rise
<1>1. Rising(k) /\ ChipAt(k)'
  BY <1>0, RiseChip
<1>2. /\ At(k) /\ OpenAt(k) /\ edge = "rise" /\ edge' = "quarter" /\ UNCHANGED <<bridgeFall, ctlVars>>
  BY <1>0, <1>1 DEF ChipAt, Rising
<1>3. ReadClock(k, m)'
  BY <1>0, <1>2 DEF ReadClock, bridgeFall, ctlVars
<1>4. CacheAt'
  BY <1>0, <1>2, CacheRise
<1>5. dataValid <=> m \in {16, 17}
  <2>1. PICK q \in 0 .. 17 : q = IF m = 0 THEN 0 ELSE m - 1
    OBVIOUS
  <2>2. Quarters(m) = q
    BY <1>2, <2>1 DEF Quarters
  <2>3. dataValid <=> q \in {15, 16}
    BY <1>0, <2>2 DEF ReadAt, OutputAt
  <2> QED BY <2>1, <2>3
<1>6. DataAt(k, m)'
  BY <1>0, <1>1, <1>5, DataRise
<1>7. WriteAt(k)' /\ MemoryAt(k)'
  BY <1>0, <1>1, WriteRise
<1>8. ReadAt(m)'
  BY <1>0, <1>1, <1>2, ReadRise
<1> QED BY <1>1, <1>3, <1>4, <1>6, <1>7, <1>8 DEF Whole

\* The memory invariant depends on these variables only.
LEMMA MemoryStays ==
  ASSUME NEW k \in 0 .. 13, MemoryAt(k), UNCHANGED <<chip, store, taken, writeCmd1>>
  PROVE  MemoryAt(k)'
<1>1. Line' = Line
  BY DEF Line
<1> QED BY <1>1 DEF MemoryAt, Block

\* The quarter edge keeps the invariant, at the same clocks.
LEMMA WholeQuarter ==
  ASSUME NEW k \in 0 .. 13, NEW m \in 0 .. 17, Whole(k, m), Quarter
  PROVE  Whole(k, m)'
<1>0. /\ ChipAt(k) /\ ReadClock(k, m) /\ CacheAt /\ DataAt(k, m) /\ WriteAt(k) /\ MemoryAt(k) /\ ReadAt(m)
      /\ edge = "quarter" /\ edge' = "fall" /\ BridgeQuarter /\ WritePath /\ ReadPath
      /\ UNCHANGED <<held, cacheSide, bridgeFall, bridgeRise, ctlVars, chip>>
  BY DEF Whole, Quarter
<1>1. UNCHANGED <<store, taken, inputInt, rdBuffer, writeCmd1>>
  BY <1>0 DEF bridgeFall, bridgeRise, ctlVars
<1>2. ChipAt(k)'
  BY <1>0, QuarterChip
<1>3. ReadClock(k, m)'
  BY <1>0 DEF ReadClock, bridgeFall, ctlVars
<1>4. CacheAt'
  BY <1>0, CacheQuarter
<1>5. DataAt(k, m)'
  BY <1>0, DataQuarter
<1>6. WriteAt(k)'
  BY <1>0, <1>1, WriteQuarter
<1>7. MemoryAt(k)'
  BY <1>0, <1>1, MemoryStays
<1>8. ReadAt(m)'
  <2>1. Line.hi \in Halves /\ Line.lo \in Halves
    BY <1>0, LineHalves DEF ChipAt
  <2> QED BY <1>0, <1>1, <2>1, ReadQuarter
<1> QED BY <1>2, <1>3, <1>4, <1>5, <1>6, <1>7, <1>8 DEF Whole

\* A falling edge out of reset takes the invariant to the next clocks.
LEMMA WholeFall ==
  ASSUME NEW k \in 0 .. 13, NEW m \in 0 .. 17, Whole(k, m), Fall, ~rst180
  PROVE  \E j \in 0 .. 13 : \E n \in 0 .. 17 : Whole(j, n)'
<1>0. /\ ChipAt(k) /\ ReadClock(k, m) /\ CacheAt /\ DataAt(k, m) /\ WriteAt(k) /\ MemoryAt(k) /\ ReadAt(m)
  BY DEF Whole
<1>1. PICK j \in 0 .. 13 : Falling(k, j) /\ ChipAt(j)'
  BY <1>0, FallChip
<1>2. /\ At(k) /\ Clocked /\ BridgeFall /\ edge = "fall" /\ edge' = "rise" /\ PinsAt(k) /\ AddressAt(k) /\ BurstAt(k)
      /\ UNCHANGED <<held, cacheSide, bridgeRise>>
  BY <1>0, <1>1 DEF Falling, ChipAt
<1>3. PICK n : n = NextRead(k, m)
  OBVIOUS
<1>4. dataValid <=> m \in {15, 16}
  <2>1. Quarters(m) = m
    BY <1>2 DEF Quarters
  <2> QED BY <1>0, <2>1 DEF ReadAt, OutputAt
<1>5. ReadClock(j, n)' /\ n \in 0 .. 17
  BY <1>0, <1>1, <1>2, <1>3, <1>4, ReadTurns
<1>6. CacheAt'
  <2>1. initDone => initDone'
    BY <1>2, BootOver
  <2> QED BY <1>0, <1>2, <2>1, CacheFall
<1>7. DataAt(j, n)'
  BY <1>0, <1>1, <1>3, <1>5, DataFall
<1>8. WriteAt(j)'
  BY <1>0, <1>1, WriteFall
<1>9. MemoryAt(j)'
  BY <1>0, <1>1, <1>2, MemoryFall
<1>10. ReadAt(n)'
  BY <1>0, <1>1, <1>2, <1>3, ReadFall
<1>11. Whole(j, n)'
  BY <1>1, <1>5, <1>6, <1>7, <1>8, <1>9, <1>10 DEF Whole
<1> QED BY <1>5, <1>11

\* Before the reset is over the data path is empty.
LEMMA WholeReset ==
  ASSUME NEW k \in 0 .. 13, NEW m \in 0 .. 17, Whole(k, m), Fall, rst180
  PROVE  Whole(k, m)'
<1>0. /\ ChipAt(k) /\ ReadClock(k, m) /\ CacheAt /\ DataAt(k, m) /\ WriteAt(k) /\ MemoryAt(k) /\ ReadAt(m)
      /\ BridgeFall /\ ControllerFall /\ ChipFall /\ edge = "fall" /\ edge' = "rise"
      /\ UNCHANGED <<held, cacheSide, bridgeRise, pathVars>>
  BY DEF Whole, Fall
<1>1. ChipAt(k)' /\ k = 0 /\ chip.wr.left = 0
  BY <1>0, ResetChip
<1>2. At(k) /\ bridgeState = "STARTUP" /\ ~initDone /\ state = "IDLE"
  BY <1>0 DEF ChipAt, At, BootInv
<1>3. UNCHANGED <<state, writeCmd1, goToActive, cmdAck, strobe, initDone>>
  BY <1>0 DEF ControllerFall
<1>4. bridgeState' = "WAIT_INIT" /\ taken' = taken
  BY <1>0, <1>2, BridgeMoves DEF Startup
<1>5. m = 0
  BY <1>0, <1>1, <1>2 DEF ReadClock
<1>6. ReadClock(k, m)'
  BY <1>1, <1>4, <1>5 DEF ReadClock
<1>7. CacheAt'
  BY <1>0, <1>2, <1>3, CacheFall
<1>8. ~goToActive /\ ~goToActive'
  BY <1>1, <1>2, <1>3 DEF At, CommandAt, Opening, Asking
<1>9. UNCHANGED <<store, wdPipe, wePipe, inputInt, userInput, dataState, rdPipe, fifo, outputData, dataValid, rdBuffer>>
  BY <1>0 DEF bridgeRise, pathVars
<1>10. DataAt(k, m)'
  <2>1. dataState = "IDLE"
    BY <1>0, <1>1, <1>2, <1>5, <1>8 DEF DataAt
  <2> QED BY <1>1, <1>5, <1>8, <1>9, <2>1 DEF DataAt
<1>11. Quarters(0) = 0 /\ Rises(0) = 0 /\ Quarters(0)' = 0 /\ Rises(0)' = 0
  BY DEF Quarters, Rises
<1>12. WriteAt(0)'
  <2>1. DriversAt(0, 0)
    BY <1>0, <1>1, <1>11 DEF WriteAt
  <2>2. DriversAt(0, 0)'
    BY <1>3, <1>9, <2>1 DEF DriversAt
  <2>3. DriversAt(0, Quarters(0))'
    BY <1>11, <2>2 DEF DriversAt
  <2> QED BY <1>1, <2>3 DEF WriteAt
<1>13. chip'.mem = chip.mem /\ chip'.rd = chip.rd
  <2>1. chip'.mem = [l \in LineAddr |->
                       IF l \notin chip.wr.lines \/ chip.wr.left \notin {1, 2} THEN chip.mem[l]
                       ELSE IF chip.wr.left = 2 THEN [chip.mem[l] EXCEPT !.hi = Driven]
                       ELSE [chip.mem[l] EXCEPT !.lo = Driven]]
    BY <1>0 DEF ChipFall
  <2>2. chip.mem \in [LineAddr -> Block]
    BY <1>0 DEF MemoryAt
  <2> QED BY <1>0, <1>1, <2>1, <2>2, ChipFalls
<1>14. MemoryAt(0)'
  BY <1>0, <1>1, <1>9, <1>13 DEF MemoryAt, Block
<1>15. ReadAt(0)'
  <2>1. EnablesAt(0) /\ OutputAt(0) /\ FifoAt(0, 0) /\ BufferAt(0)
    BY <1>0, <1>5, <1>11 DEF ReadAt
  <2>2. EnablesAt(0)'
    BY <1>3, <2>1 DEF EnablesAt
  <2>3. OutputAt(0)'
    BY <1>9, <2>1 DEF OutputAt
  <2>4. FifoAt(0, 0)'
    BY <1>9, <1>13, <2>1 DEF FifoAt
  <2>5. BufferAt(0)'
    BY <1>9, <2>1 DEF BufferAt, Block
  <2>6. OutputAt(Quarters(0))' /\ FifoAt(Rises(0), Quarters(0))' /\ BufferAt(Rises(0))'
    BY <1>11, <2>3, <2>4, <2>5 DEF OutputAt, FifoAt, BufferAt
  <2> QED BY <2>2, <2>6 DEF ReadAt
<1>16. WriteAt(k)' /\ MemoryAt(k)' /\ ReadAt(m)'
  BY <1>1, <1>5, <1>12, <1>14, <1>15
<1> QED BY <1>1, <1>6, <1>7, <1>10, <1>16 DEF Whole

\* The invariant depends on the variables only.
LEMMA WholeStutter ==
  ASSUME NEW k \in 0 .. 13, NEW m \in 0 .. 17, Whole(k, m), UNCHANGED vars
  PROVE  Whole(k, m)'
<1>0. /\ ChipAt(k) /\ ReadClock(k, m) /\ CacheAt /\ DataAt(k, m) /\ WriteAt(k) /\ MemoryAt(k) /\ ReadAt(m)
      /\ UNCHANGED <<edge, held, cacheSide, bridgeFall, bridgeRise, ctlVars, pathVars, chip>>
  BY DEF Whole, vars
<1>1. ChipAt(k)'
  BY <1>0, QuarterChip
<1>2. ReadClock(k, m)'
  BY <1>0 DEF ReadClock, bridgeFall, ctlVars
<1>3. CacheAt'
  <2>1. Serving' <=> Serving
    BY <1>0 DEF Serving, bridgeFall
  <2> QED BY <1>0, <2>1 DEF CacheAt, cacheSide, bridgeFall, bridgeRise, ctlVars
<1>4. Rises(k)' = Rises(k) /\ Rises(m)' = Rises(m) /\ Quarters(k)' = Quarters(k) /\ Quarters(m)' = Quarters(m)
  BY <1>0 DEF Rises, Quarters
<1>5. DataAt(k, m)'
  BY <1>0, <1>4 DEF DataAt, Asking, bridgeFall, bridgeRise, ctlVars, cacheSide, pathVars
<1>6. Line' = Line
  BY <1>0 DEF Line, bridgeFall, bridgeRise
<1>7. WriteAt(k)'
  <2>1. \A q : DriversAt(k, q)' <=> DriversAt(k, q)
    BY <1>0 DEF DriversAt, bridgeRise, ctlVars, pathVars
  <2>2. \A q : HalvesAt(q)' <=> HalvesAt(q)
    BY <1>0, <1>6 DEF HalvesAt, bridgeRise, pathVars
  <2>3. DriversAt(k, Quarters(k))' <=> DriversAt(k, Quarters(k))
    BY <1>0, <1>4 DEF DriversAt, bridgeRise, ctlVars, pathVars
  <2>4. HalvesAt(Quarters(k))' <=> HalvesAt(Quarters(k))
    BY <1>0, <1>4, <1>6 DEF HalvesAt, bridgeRise, pathVars
  <2> QED BY <1>0, <1>4, <2>3, <2>4 DEF WriteAt, ctlVars
<1>8. MemoryAt(k)'
  BY <1>0, MemoryStays DEF bridgeFall, bridgeRise, ctlVars
<1>9. ReadAt(m)'
  <2>1. EnablesAt(m)' <=> EnablesAt(m)
    BY <1>0 DEF EnablesAt, ctlVars
  <2>2. OutputAt(Quarters(m))' <=> OutputAt(Quarters(m))
    BY <1>0, <1>4, <1>6 DEF OutputAt, pathVars
  <2>3. FifoAt(Rises(m), Quarters(m))' <=> FifoAt(Rises(m), Quarters(m))
    BY <1>0, <1>4, <1>6 DEF FifoAt, pathVars, bridgeFall
  <2>4. BufferAt(Rises(m))' <=> BufferAt(Rises(m))
    BY <1>0, <1>4, <1>6 DEF BufferAt, bridgeRise, Block
  <2> QED BY <1>0, <2>1, <2>2, <2>3, <2>4 DEF ReadAt
<1> QED BY <1>1, <1>2, <1>3, <1>5, <1>7, <1>8, <1>9 DEF Whole

\* The invariant holds at power-up, both clocks at 0.
LEMMA InitWhole == Init => Whole(0, 0)
<1> SUFFICES ASSUME Init PROVE Whole(0, 0)
  OBVIOUS
<1>0. ChipAt(0)
  BY InitChip
<1>1. /\ edge = "fall" /\ held = 0 /\ memValid = FALSE /\ memAddr = Addr0 /\ memWstrb = FALSE /\ memWdata \in Lines
      /\ store \in [LineAddr -> Lines] /\ fifo = << >> /\ outputData = Junk /\ dataValid = FALSE
      /\ wdPipe = [i \in 1..7 |-> Junk] /\ wePipe = [i \in 1..3 |-> FALSE] /\ rdPipe = [i \in 1..5 |-> FALSE]
      /\ chip.mem = store /\ chip.rd = Idle
  BY DEF Init
<1>2. /\ bridgeState = "STARTUP" /\ waitCounter = 0 /\ readyInt = FALSE /\ userCmd = "NOP" /\ memReady = FALSE
      /\ rdBuffer = [hi |-> Junk, lo |-> Junk] /\ dataState = "IDLE" /\ inputInt = Junk /\ userInput = Junk
  BY DEF Init, BridgeInit
<1>3. /\ writeCmd1 = FALSE /\ goToActive = FALSE /\ initDone = FALSE
      /\ strobe = [write |-> FALSE, cas |-> 0, left |-> 0, div |-> FALSE, r2 |-> FALSE, rden |-> FALSE]
  BY DEF Init, ControllerInit
<1>4. Quarters(0) = 0 /\ Rises(0) = 0
  BY DEF Quarters, Rises
<1>5. ReadClock(0, 0)
  BY <1>2 DEF ReadClock
<1>6. CacheAt
  <2>1. ~Serving /\ bridgeState # "WAIT" /\ bridgeState \in BridgeState /\ userCmd \in Command
    BY <1>2 DEF Serving, BridgeState, Command
  <2>2. /\ ~memValid /\ memValid \in BOOLEAN /\ ~memReady /\ memReady \in BOOLEAN
        /\ ~readyInt /\ readyInt \in BOOLEAN
    BY <1>1, <1>2
  <2> QED BY <1>1, <1>2, <2>1, <2>2 DEF CacheAt
<1>7. DataAt(0, 0)
  BY <1>2, <1>3 DEF DataAt
<1>8. WriteAt(0)
  <2>1. DriversAt(0, 0)
    BY <1>1, <1>2, <1>3 DEF DriversAt, Halves
  <2> QED BY <1>4, <2>1 DEF WriteAt
<1>9. MemoryAt(0)
  <2>1. Lines \subseteq Block
    BY LinesAssumption DEF Block, Halves
  <2> QED BY <1>1, <1>3, <2>1 DEF MemoryAt
<1>10. ReadAt(0)
  <2>1. EnablesAt(0)
    BY <1>3 DEF EnablesAt
  <2>2. OutputAt(0)
    <3>1. rdPipe \in [1 .. 5 -> BOOLEAN] /\ \A i \in 1 .. 5 : ~rdPipe[i]
      BY <1>1
    <3>2. ~dataValid /\ dataValid \in BOOLEAN /\ outputData \in Halves
      BY <1>1 DEF Halves
    <3> QED BY <3>1, <3>2 DEF OutputAt
  <2>3. FifoAt(0, 0)
    BY <1>1 DEF FifoAt, Idle
  <2>4. BufferAt(0)
    BY <1>2 DEF BufferAt, Block, Halves
  <2> QED BY <1>4, <2>1, <2>2, <2>3, <2>4 DEF ReadAt
<1> QED BY <1>0, <1>5, <1>6, <1>7, <1>8, <1>9, <1>10 DEF Whole

\* The invariant holds at power-up.
LEMMA InitWholeInv == Init => WholeInv
BY InitWhole DEF WholeInv

\* Every step keeps the invariant.
LEMMA StepWhole == WholeInv /\ [Next]_vars => WholeInv'
<1> SUFFICES ASSUME NEW k \in 0 .. 13, NEW m \in 0 .. 17, Whole(k, m), [Next]_vars PROVE WholeInv'
  BY DEF WholeInv
<1>1. CASE Rise
  BY <1>1, WholeRise DEF WholeInv
<1>2. CASE Quarter
  BY <1>2, WholeQuarter DEF WholeInv
<1>3. CASE Fall /\ ~rst180
  BY <1>3, WholeFall DEF WholeInv
<1>4. CASE Fall /\ rst180
  BY <1>4, WholeReset DEF WholeInv
<1>5. CASE UNCHANGED vars
  BY <1>5, WholeStutter DEF WholeInv
<1> QED BY <1>1, <1>2, <1>3, <1>4, <1>5 DEF Next

\* The two halves of a line, on their way between the bridge and the chip, are where
\* the two clocks of the row and of the read say they are.
THEOREM DataInStep == Safety => []WholeInv
BY InitWholeInv, StepWhole, PTL DEF Safety

\* When the controller is idle every line it was given is in the chip, whole and in
\* order: MemoryAt with the clock of the row at rest.
THEOREM LinesArrive == Safety => []BlocksArrive
<1>1. ASSUME NEW k \in 0 .. 13, NEW m \in 0 .. 17, Whole(k, m)
      PROVE  BlocksArrive
  <2>1. At(k) /\ MemoryAt(k)
    BY <1>1 DEF Whole, ChipAt
  <2>2. state = "IDLE" => k = 0
    BY <2>1, RowFacts
  <2>3. k = 0 => chip.mem = store
    BY <2>1 DEF MemoryAt
  <2> QED BY <2>2, <2>3 DEF BlocksArrive
<1>2. WholeInv => BlocksArrive
  BY <1>1 DEF WholeInv
<1> QED BY <1>2, DataInStep, PTL

-----------------------------------------------------------------------------
(* The line port of the cache.                                                *)

Rdata == IF dataState = "READ" THEN [rdBuffer EXCEPT !.lo = outputData] ELSE rdBuffer

\* The steps of the port, in the registers of bridge and controller.
TransferStep ==
  /\ Port = "BUSY" /\ Port' = "DONE"
  /\ IF taken.wr
     THEN store' = [store EXCEPT ![taken.addr] = memWdata] /\ Rdata' = Rdata
     ELSE store' = store /\ Rdata' = store[taken.addr]
  /\ taken' = taken
PendingStep ==
  /\ Rdata' \in (IF Port = "BUSY" /\ ~taken.wr THEN Block ELSE {Rdata})
  /\ Port' = Port /\ taken' = taken /\ store' = store
AcceptStep ==
  /\ Port = "IDLE" /\ memValid /\ Port' = "BUSY"
  /\ taken' = [addr |-> memAddr, wr |-> memWstrb]
  /\ readyInt' = readyInt /\ store' = store /\ Rdata' = Rdata
FinishStep ==
  /\ Port = "DONE" /\ Port' = "ACK" /\ readyInt' = TRUE
  /\ taken' = taken /\ store' = store /\ Rdata' = Rdata
ReleaseStep ==
  /\ Port = "ACK" /\ readyInt' = FALSE
  /\ Port' = IF memValid THEN "ACK" ELSE "IDLE"
  /\ taken' = taken /\ store' = store /\ Rdata' = Rdata

\* The steps of the port, named: each is the action of LinePort under the mapping.
LEMMA PortSteps ==
  /\ TransferStep <=> L!Transfer
  /\ PendingStep <=> L!Pending
  /\ AcceptStep <=> L!Accept
  /\ FinishStep <=> L!Finish
  /\ ReleaseStep <=> L!Release
<1>1. TransferStep <=> L!Transfer
  BY DEF TransferStep, L!Transfer, Rdata
<1>2. PendingStep <=> L!Pending
  BY DEF PendingStep, L!Pending, Rdata
<1>3. AcceptStep <=> L!Accept
  BY DEF AcceptStep, L!Accept, Rdata
<1>4. FinishStep <=> L!Finish
  BY DEF FinishStep, L!Finish, Rdata
<1>5. ReleaseStep <=> L!Release
  BY DEF ReleaseStep, L!Release, Rdata
<1> QED BY <1>1, <1>2, <1>3, <1>4, <1>5

\* Where the two clocks are while a line is served.
LEMMA Served ==
  ASSUME NEW k \in 0 .. 13, At(k), NEW m \in 0 .. 17, ReadClock(k, m), CacheAt, Serving
  PROVE  \/ Asking /\ k = 0 /\ m = 0
         \/ writeCmd1 /\ k \in 1 .. 5 /\ m = 0
         \/ m \in 1 .. 16
<1>1. bridgeState \in {"WRITE_CMD", "READ_CMD", "WRITE_WAIT", "READ_WAIT_1", "WRITE_DONE", "READ_WAIT_2", "READ_DONE"}
  BY DEF CacheAt, Serving, BridgeState
<1>2. CASE Asking
  <2>1. k = 0
    BY <1>2 DEF At, BridgeAt
  <2> QED BY <1>2, <2>1 DEF ReadClock, Asking
<1>3. CASE bridgeState \in {"WRITE_WAIT", "READ_WAIT_1", "WRITE_DONE"}
  <2>1. k \in 1 .. 5
    BY <1>3 DEF At, BridgeAt
  <2>2. m = IF writeCmd1 THEN 0 ELSE k
    BY <2>1 DEF ReadClock
  <2> QED BY <2>1, <2>2
<1>4. CASE bridgeState \in {"READ_WAIT_2", "READ_DONE"}
  BY <1>4 DEF ReadClock
<1> QED BY <1>1, <1>2, <1>3, <1>4 DEF Asking

\* The line the port shows is a line.
LEMMA RdataType ==
  ASSUME NEW m \in 0 .. 17, ReadAt(m)
  PROVE  Rdata \in Block
<1>1. rdBuffer \in Block /\ outputData \in Halves
  BY DEF ReadAt, BufferAt, OutputAt
<1> QED BY <1>1 DEF Rdata, Block

\* A rising edge moves the line of a write, or nothing but the read buffer of an open read.
LEMMA PortRises ==
  ASSUME NEW k \in 0 .. 13, Rising(k), NEW m \in 0 .. 17, ReadClock(k, m), DataAt(k, m), CacheAt, MemoryAt(k),
         ReadAt(m), Raise \/ Hold \/ Linger \/ Drop, BridgeRise
  PROVE  TransferStep \/ PendingStep
<1>0. /\ At(k) /\ AddressAt(k) /\ edge = "rise" /\ UNCHANGED <<bridgeFall, ctlVars, rdPipe, outputData, dataValid>>
  BY DEF Rising
<1>1. /\ taken' = taken /\ bridgeState' = bridgeState /\ dataValid' = dataValid /\ rdPipe' = rdPipe
      /\ outputData' = outputData
  BY <1>0 DEF bridgeFall
<1>2. PICK q \in 0 .. 17 : q = IF m = 0 THEN 0 ELSE m - 1
  OBVIOUS
<1>3. (dataValid <=> q \in {15, 16}) /\ (rdPipe[5] <=> q \in {14, 15}) /\ outputData \in Halves /\ rdBuffer \in Block
  <2>1. Quarters(m) = q
    BY <1>0, <1>2 DEF Quarters
  <2>2. OutputAt(q)
    BY <2>1 DEF ReadAt
  <2> QED BY <2>2 DEF OutputAt, ReadAt, BufferAt
<1>4. bridgeState = "WAIT" => Port' = Port
  BY <1>1 DEF Port
<1>5. CASE writeCmd1 /\ k = 1
  <2>1. DataWrite /\ dataState = "WRITE" /\ inputInt = memWdata.hi
    BY <1>5, DataPlaces, StoreMoves
  <2>2. Serving /\ taken.wr
    BY <1>0, <1>5, ServedAt DEF AddressAt
  <2>3. memWdata = [hi |-> memWdata.hi, lo |-> memWdata.lo]
    BY LinesAssumption DEF CacheAt
  <2>4. store' = [store EXCEPT ![taken.addr] = memWdata] /\ dataState' = "WAIT" /\ rdBuffer' = rdBuffer
    BY <2>1, <2>3 DEF DataWrite
  <2>5. Port = "BUSY" /\ Port' = "DONE"
    <3>1. ~Moved /\ Moved'
      BY <2>1, <2>4 DEF Moved
    <3> QED BY <1>1, <2>2, <3>1 DEF Port, Serving
  <2>6. Rdata' = Rdata
    BY <2>1, <2>4 DEF Rdata
  <2> QED BY <1>1, <2>2, <2>4, <2>5, <2>6 DEF TransferStep
<1>6. CASE writeCmd1 /\ k \in 2 .. 5
  <2>1. dataState = "WAIT" /\ initDone /\ cmdAck
    BY <1>0, <1>6, DataPlaces DEF At, CommandAt
  <2>2. dataState' = "WAIT" /\ store' = store /\ rdBuffer' = rdBuffer
    BY <2>1, DataMoves DEF DataWait
  <2>3. Port' = Port /\ Rdata' = Rdata
    BY <1>1, <2>1, <2>2 DEF Port, Moved, Rdata
  <2> QED BY <1>1, <2>2, <2>3, RdataType DEF PendingStep
<1>7. CASE m \in 1 .. 16
  <2>1. initDone /\ dataState = "READ_WAIT" /\ ~taken.wr
    BY <1>7, DataPlaces DEF ReadClock
  <2>2. DataReadWait
    BY <2>1, DataMoves
  <2>3. /\ dataState' = (IF dataValid THEN "READ" ELSE "READ_WAIT") /\ store' = store
        /\ rdBuffer' = IF dataValid THEN [rdBuffer EXCEPT !.hi = outputData] ELSE rdBuffer
    BY <2>2 DEF DataReadWait
  <2>4. dataValid => rdPipe[5]
    BY <1>2, <1>3, <1>7
  <2>5. ~Moved /\ ~Moved'
    BY <1>1, <2>1, <2>3, <2>4 DEF Moved
  <2>6. Port' = Port
    BY <1>1, <2>5 DEF Port
  <2>7. Rdata' \in Block /\ (~dataValid => Rdata' = Rdata)
    BY <1>1, <1>3, <2>1, <2>3 DEF Rdata, Block
  <2>8. dataValid => Port = "BUSY"
    <3>1. dataValid => m = 16
      BY <1>2, <1>3, <1>7
    <3>2. m = 16 => bridgeState = "READ_DONE"
      BY DEF ReadClock
    <3> QED BY <2>5, <3>1, <3>2 DEF Port
  <2> QED BY <1>1, <2>1, <2>3, <2>6, <2>7, <2>8 DEF PendingStep
<1>8. CASE m = 17
  <2>1. initDone /\ dataState = "READ" /\ bridgeState = "WAIT"
    BY <1>8, DataPlaces DEF ReadClock
  <2>2. dataState' = "WAIT" /\ rdBuffer' = [rdBuffer EXCEPT !.lo = outputData] /\ store' = store
    BY <2>1, DataMoves DEF DataRead
  <2>3. Rdata' = Rdata
    BY <2>1, <2>2 DEF Rdata
  <2> QED BY <1>1, <1>4, <2>1, <2>2, <2>3, RdataType DEF PendingStep
<1>9. CASE m = 0 /\ ~(writeCmd1 /\ k \in 1 .. 5)
  <2>1. dataState \in {"IDLE", "WAIT"} /\ (Asking \/ ~initDone => dataState = "IDLE")
    BY <1>9, DataPlaces
  <2>2. store' = store /\ rdBuffer' = rdBuffer /\ dataState' # "READ"
    BY <2>1, DataMoves DEF DataIdle, DataWait
  <2>3. Rdata' = Rdata
    BY <2>1, <2>2 DEF Rdata
  <2>4. Port' = Port
    <3>1. CASE Serving
      <4>1. Asking
        BY <1>0, <1>9, <3>1, Served
      <4>2. dataState = "IDLE" /\ dataState' \notin {"WAIT", "READ"}
        BY <2>1, <4>1, DataMoves DEF DataIdle
      <4> QED BY <1>1, <4>2 DEF Port, Moved
    <3>2. CASE ~Serving
      BY <1>1, <3>2 DEF Port, Serving
    <3> QED BY <3>1, <3>2
  <2> QED BY <1>1, <2>2, <2>3, <2>4, RdataType DEF PendingStep
<1> QED
  <2>1. writeCmd1 /\ k \in 1 .. 5 => k = 1 \/ k \in 2 .. 5
    OBVIOUS
  <2> QED BY <1>5, <1>6, <1>7, <1>8, <1>9, <2>1

\* On the 90 degree clock the second half of a read arrives, or nothing changes.
LEMMA PortQuarters ==
  ASSUME NEW k \in 0 .. 13, ChipAt(k), NEW m \in 0 .. 17, ReadClock(k, m), DataAt(k, m), CacheAt, MemoryAt(k),
         ReadAt(m), ReadAt(m)', edge = "quarter", edge' = "fall",
         UNCHANGED <<held, cacheSide, bridgeFall, bridgeRise, ctlVars>>
  PROVE  TransferStep \/ UNCHANGED <<Port, taken>>
<1>1. /\ taken' = taken /\ bridgeState' = bridgeState /\ dataState' = dataState /\ store' = store
      /\ rdBuffer' = rdBuffer
  BY DEF bridgeFall, bridgeRise
<1>2. CASE dataState # "READ"
  <2>1. Moved' <=> Moved
    BY <1>1, <1>2 DEF Moved
  <2>2. Port' = Port
    BY <1>1, <2>1 DEF Port
  <2> QED BY <1>1, <2>2
<1>3. CASE dataState = "READ"
  <2>1. m = 16
    <3>1. Rises(m) = m /\ Rises(k) = k
      BY DEF Rises
    <3>2. ~(k = 0 /\ goToActive)
      BY <1>3 DEF DataAt
    <3>3. ~(writeCmd1 /\ k \in 1 .. 5)
      BY <1>3, <3>1, <3>2 DEF DataAt
    <3>4. m # 0
      BY <1>3, <3>2, <3>3 DEF DataAt
    <3> QED BY <1>3, <3>1, <3>2, <3>3, <3>4 DEF DataAt
  <2>2. bridgeState = "READ_DONE" /\ ~taken.wr
    BY <2>1 DEF ReadClock
  <2>3. Quarters(16) = 15 /\ Quarters(16)' = 16 /\ Rises(16) = 16
    BY DEF Quarters, Rises
  <2>4. OutputAt(15) /\ BufferAt(16) /\ OutputAt(Quarters(16))'
    BY <2>1, <2>3 DEF ReadAt
  <2>5. OutputAt(16)'
    BY <2>3, <2>4 DEF OutputAt
  <2>6. rdPipe[5] /\ dataValid' /\ ~rdPipe'[5] /\ outputData' = Line'.lo /\ rdBuffer.hi = Line.hi /\ rdBuffer \in Block
    BY <2>4, <2>5 DEF OutputAt, BufferAt
  <2>7. Port = "BUSY" /\ Port' = "DONE"
    <3>1. ~Moved /\ Moved'
      BY <1>1, <1>3, <2>2, <2>6 DEF Moved
    <3> QED BY <1>1, <2>2, <3>1 DEF Port
  <2>8. Rdata' = store[taken.addr]
    <3>1. Line' = Line /\ Line \in [hi : Half, lo : Half]
      BY <1>1, LineHalves DEF Line, ChipAt
    <3>2. Rdata' = [rdBuffer EXCEPT !.lo = Line.lo]
      BY <1>1, <1>3, <2>6, <3>1 DEF Rdata
    <3>3. Rdata' = [hi |-> Line.hi, lo |-> Line.lo]
      BY <2>6, <3>2 DEF Block
    <3> QED BY <3>1, <3>3 DEF Line
  <2> QED BY <1>1, <2>2, <2>7, <2>8 DEF TransferStep
<1> QED BY <1>2, <1>3

\* At a falling edge a request is taken, answered or let go; its data does not move.
LEMMA PortFalls ==
  ASSUME NEW k \in 0 .. 13, At(k), NEW m \in 0 .. 17, ReadClock(k, m), DataAt(k, m), CacheAt, ReadAt(m), BridgeFall,
         edge = "fall", UNCHANGED <<held, cacheSide, bridgeRise, pathVars>>
  PROVE  \/ AcceptStep \/ FinishStep \/ ReleaseStep
         \/ PendingStep /\ Port # "ACK" /\ readyInt' = readyInt
<1>1. /\ dataState' = dataState /\ store' = store /\ Rdata' = Rdata /\ dataValid' = dataValid /\ rdPipe' = rdPipe
  BY DEF bridgeRise, pathVars, Rdata
<1>2. taken' = taken => (Moved' <=> Moved)
  BY <1>1 DEF Moved
<1>3. readyInt \in BOOLEAN /\ (readyInt => bridgeState = "WAIT")
  BY DEF CacheAt
<1>4. Rises(m) = m /\ Rises(k) = k /\ Quarters(m) = m
  BY DEF Rises, Quarters
<1>5. CASE IssueCommand
  <2>1. /\ bridgeState = "IDLE" /\ memValid /\ ~cmdAck /\ readyInt' = FALSE
        /\ taken' = [addr |-> memAddr, wr |-> memWstrb] /\ bridgeState' \in {"WRITE_CMD", "READ_CMD"}
    BY <1>5 DEF IssueCommand
  <2>2. k = 0 /\ ~goToActive
    BY <2>1 DEF At, CommandAt, BridgeAt, Asking, Opening
  <2>3. m = 0
    BY <2>1, <2>2 DEF ReadClock
  <2>4. dataState = "IDLE"
    BY <2>1, <2>2, <2>3 DEF DataAt
  <2>5. Port = "IDLE" /\ Port' = "BUSY"
    BY <1>1, <2>1, <2>4 DEF Port, Moved
  <2>6. readyInt' = readyInt
    BY <1>3, <2>1
  <2> QED BY <1>1, <2>1, <2>5, <2>6 DEF AcceptStep
<1>6. CASE Startup \/ WaitInit \/ YieldToRefresh \/ StayIdle \/ WaitRefresh
  <2>1. /\ bridgeState \in {"STARTUP", "WAIT_INIT", "IDLE", "WAIT_REFRESH"}
        /\ bridgeState' \in {"STARTUP", "WAIT_INIT", "IDLE", "WAIT_REFRESH"}
        /\ taken' = taken /\ readyInt' \in {readyInt, FALSE}
    BY <1>6 DEF Startup, WaitInit, YieldToRefresh, StayIdle, WaitRefresh
  <2>2. readyInt' = readyInt
    BY <1>3, <2>1
  <2>3. Port = "IDLE" /\ Port' = "IDLE"
    BY <2>1 DEF Port
  <2> QED BY <1>1, <2>1, <2>2, <2>3 DEF PendingStep
<1>7. CASE AwaitAck \/ RaiseBurstDone \/ ReadWait \/ (WriteDone /\ waitCounter # 1)
  <2>1. /\ bridgeState \notin {"STARTUP", "WAIT_INIT", "IDLE", "WAIT_REFRESH", "WAIT"}
        /\ bridgeState' \notin {"STARTUP", "WAIT_INIT", "IDLE", "WAIT_REFRESH", "WAIT"}
        /\ taken' = taken /\ readyInt' = readyInt
    BY <1>7 DEF AwaitAck, RaiseBurstDone, ReadWait, WriteDone
  <2>2. Port' = Port /\ Port # "ACK"
    BY <1>2, <2>1 DEF Port
  <2> QED BY <1>1, <2>1, <2>2, RdataType DEF PendingStep
<1>8. CASE WriteDone /\ waitCounter = 1
  <2>1. bridgeState = "WRITE_DONE" /\ bridgeState' = "WAIT" /\ readyInt' = TRUE /\ taken' = taken
    BY <1>8 DEF WriteDone
  <2>2. k = 5 /\ writeCmd1
    BY <1>8, <2>1 DEF At, BridgeAt
  <2>3. dataState = "WAIT"
    BY <1>4, <2>2 DEF DataAt
  <2>4. Port = "DONE" /\ Port' = "ACK"
    BY <2>1, <2>3 DEF Port, Moved
  <2> QED BY <1>1, <2>1, <2>4 DEF FinishStep
<1>9. CASE ReadDone
  <2>1. bridgeState = "READ_DONE" /\ bridgeState' = "WAIT" /\ readyInt' = TRUE /\ taken' = taken
    BY <1>9 DEF ReadDone
  <2>2. m = 16 /\ ~taken.wr
    BY <2>1 DEF ReadClock
  <2>3. k = 0 /\ ~goToActive
    BY <2>1, <2>2 DEF ReadClock, At, CommandAt, Opening, Asking
  <2>4. dataState = "READ"
    BY <1>4, <2>2, <2>3 DEF DataAt
  <2>5. OutputAt(16)
    BY <1>4, <2>2 DEF ReadAt
  <2>6. dataValid /\ ~rdPipe[5]
    BY <2>5 DEF OutputAt
  <2>7. Port = "DONE" /\ Port' = "ACK"
    BY <2>1, <2>2, <2>4, <2>6 DEF Port, Moved
  <2> QED BY <1>1, <2>1, <2>7 DEF FinishStep
<1>10. CASE WaitDrop
  <2>1. /\ bridgeState = "WAIT" /\ readyInt' = FALSE /\ taken' = taken
        /\ bridgeState' = IF memValid THEN "WAIT" ELSE "IDLE"
    BY <1>10 DEF WaitDrop
  <2>2. Port = "ACK" /\ Port' = IF memValid THEN "ACK" ELSE "IDLE"
    BY <2>1 DEF Port
  <2> QED BY <1>1, <2>1, <2>2 DEF ReleaseStep
<1> QED BY <1>5, <1>6, <1>7, <1>8, <1>9, <1>10 DEF BridgeFall

PortRiseNow    == edge = "rise" => L!PortRise
PortQuarterNow == edge = "quarter" => L!PortFall \/ UNCHANGED <<L!portVars, memReady, store>>
PortFallNow    == edge = "fall" => L!PortFall

\* Every step of the service is a step of the port or leaves it alone.
LEMMA PortKept ==
  ASSUME NEW k \in 0 .. 13, NEW m \in 0 .. 17, Whole(k, m), Next
  PROVE  PortRiseNow /\ PortQuarterNow /\ PortFallNow
<1>0. /\ ChipAt(k) /\ At(k) /\ ReadClock(k, m) /\ CacheAt /\ DataAt(k, m) /\ WriteAt(k) /\ MemoryAt(k) /\ ReadAt(m)
  BY DEF Whole, ChipAt
<1>1. CASE Rise
  <2>1. TransferStep \/ PendingStep
    BY <1>0, <1>1, RiseChip, PortRises DEF Rise
  <2>2. memReady' = readyInt /\ readyInt' = readyInt /\ edge = "rise"
    BY <1>1 DEF Rise, BridgeRise, bridgeFall
  <2> QED BY <2>1, <2>2, PortSteps DEF PortRiseNow, PortQuarterNow, PortFallNow, L!PortRise
<1>2. CASE Quarter
  <2>1. /\ edge = "quarter" /\ edge' = "fall"
        /\ UNCHANGED <<held, cacheSide, bridgeFall, bridgeRise, ctlVars>>
    BY <1>2 DEF Quarter
  <2>2. ReadAt(m)'
    BY <1>2, WholeQuarter DEF Whole
  <2>3. TransferStep \/ UNCHANGED <<Port, taken>>
    BY <1>0, <2>1, <2>2, PortQuarters
  <2>4. memReady' = memReady /\ readyInt' = readyInt /\ store' = store
    BY <2>1 DEF bridgeFall, bridgeRise
  <2>5. TransferStep => Port # "ACK"
    BY DEF TransferStep
  <2>6. TransferStep => L!PortFall
    BY <2>4, <2>5, PortSteps DEF L!PortFall
  <2>7. UNCHANGED <<Port, taken>> => UNCHANGED <<L!portVars, memReady, store>>
    BY <2>4 DEF L!portVars
  <2> QED BY <2>1, <2>3, <2>6, <2>7 DEF PortRiseNow, PortQuarterNow, PortFallNow
<1>3. CASE Fall
  <2>1. edge = "fall" /\ BridgeFall /\ UNCHANGED <<held, cacheSide, bridgeRise, pathVars>> /\ memReady' = memReady
    BY <1>3 DEF Fall, bridgeRise
  <2>2. \/ AcceptStep \/ FinishStep \/ ReleaseStep
        \/ PendingStep /\ Port # "ACK" /\ readyInt' = readyInt
    BY <1>0, <2>1, PortFalls
  <2>3. L!PortFall
    BY <2>1, <2>2, PortSteps DEF L!PortFall
  <2> QED BY <2>1, <2>3 DEF PortRiseNow, PortQuarterNow, PortFallNow
<1> QED BY <1>1, <1>2, <1>3 DEF Next

\* The service starts as an idle port.
LEMMA PortStarts == Init => L!PortInit
<1> SUFFICES ASSUME Init PROVE L!PortInit
  OBVIOUS
<1>1. /\ bridgeState = "STARTUP" /\ readyInt = FALSE /\ memReady = FALSE /\ dataState = "IDLE"
      /\ taken = [addr |-> Addr0, wr |-> FALSE] /\ rdBuffer = [hi |-> Junk, lo |-> Junk]
  BY DEF Init, BridgeInit
<1>2. store \in [LineAddr -> Block]
  <2>1. Lines \subseteq Block
    BY LinesAssumption DEF Block, Halves
  <2> QED BY <2>1 DEF Init
<1>3. Port = "IDLE"
  BY <1>1 DEF Port
<1>4. rdBuffer \in Block
  BY <1>1 DEF Block, Halves
<1> QED BY <1>1, <1>2, <1>3, <1>4 DEF L!PortInit

\* Bridge and controller are the line port of the cache: a line is taken once, moved
\* whole before it is answered, answered by one pulse, and moved at no other time.
THEOREM PortImplemented == Safety => IsLinePort
<1>1. WholeInv /\ [Next]_vars => [/\ PortRiseNow
                                 /\ PortQuarterNow
                                 /\ PortFallNow]_vars
  BY PortKept DEF WholeInv
<1>2. Safety => [][/\ PortRiseNow
                   /\ PortQuarterNow
                   /\ PortFallNow]_vars
  BY <1>1, DataInStep, PTL DEF Safety
<1>3. Safety => L!PortInit
  BY PortStarts DEF Safety
<1> QED BY <1>2, <1>3 DEF IsLinePort, PortRiseNow, PortQuarterNow, PortFallNow

-----------------------------------------------------------------------------
(* The ranges of the registers.                                               *)

\* The timetable gives the registers of the controller and the chip their ranges.
LEMMA RowTypes ==
  ASSUME NEW k \in 0 .. 13, RowAt(k)
  PROVE  /\ state \in MainState
         /\ count.rfc \in 0 .. 7 /\ count.rp \in 0 .. 1 /\ count.rcd \in 0 .. 2
         /\ count.ras \in 0 .. 3 /\ count.wr \in 0 .. 3 /\ count.burst \in 0 .. 2
<1>1. CASE Resting
  BY <1>1 DEF Resting, Place, MainState, RFC
<1>2. CASE ~Resting /\ k \in 1 .. 3
  BY <1>2 DEF RowAt, WriteRow, ReadRow, Place, MainState
<1>3. CASE ~Resting /\ k \notin 1 .. 3 /\ writeCmd1
  BY <1>3 DEF RowAt, WriteRow, Place, MainState
<1>4. CASE ~Resting /\ k \notin 1 .. 3 /\ ~writeCmd1
  BY <1>4 DEF RowAt, ReadRow, Place, MainState
<1> QED BY <1>1, <1>2, <1>3, <1>4

\* The invariant gives the registers of the data path their ranges.
LEMMA DataTypes ==
  ASSUME NEW k \in 0 .. 13, NEW m \in 0 .. 17, Whole(k, m)
  PROVE  /\ dataState \in DataState /\ inputInt \in Halves /\ userInput \in Halves
         /\ strobe.cas \in 0 .. 2 /\ strobe.left \in 0 .. 2 /\ rdBuffer \in Block /\ outputData \in Halves
         /\ fifo \in Seq(Halves) /\ Len(fifo) <= 2
<1>1. DataAt(k, m) /\ WriteAt(k) /\ ReadAt(m) /\ AddressAt(k) /\ MemoryAt(k)
  BY DEF Whole, ChipAt
<1>2. dataState \in DataState
  BY <1>1 DEF DataAt, DataState
<1>3. inputInt \in Halves /\ userInput \in Halves
  BY <1>1 DEF WriteAt, DriversAt
<1>4. strobe.cas \in 0 .. 2 /\ strobe.left \in 0 .. 2
  BY <1>1 DEF ReadAt, EnablesAt
<1>5. rdBuffer \in Block /\ outputData \in Halves
  BY <1>1 DEF ReadAt, BufferAt, OutputAt
<1>6. Line.hi \in Halves /\ Line.lo \in Halves
  BY <1>1, LineHalves
<1>7. fifo \in {<< >>, <<Line.hi>>, <<Line.hi, Line.lo>>, <<Line.lo>>}
  BY <1>1 DEF ReadAt, FifoAt
<1>8. fifo \in Seq(Halves) /\ Len(fifo) <= 2
  <2>1. << >> \in Seq(Halves) /\ Len(<< >>) = 0
    OBVIOUS
  <2>2. <<Line.hi>> \in Seq(Halves) /\ Len(<<Line.hi>>) = 1
    BY <1>6
  <2>3. <<Line.lo>> \in Seq(Halves) /\ Len(<<Line.lo>>) = 1
    BY <1>6
  <2>4. <<Line.hi, Line.lo>> \in Seq(Halves) /\ Len(<<Line.hi, Line.lo>>) = 2
    BY <1>6
  <2>5. CASE fifo = << >>
    BY <2>1, <2>5
  <2>6. CASE fifo = <<Line.hi>>
    BY <2>2, <2>6
  <2>7. CASE fifo = <<Line.lo>>
    BY <2>3, <2>7
  <2>8. CASE fifo = <<Line.hi, Line.lo>>
    BY <2>4, <2>8
  <2> QED BY <1>7, <2>5, <2>6, <2>7, <2>8
<1> QED BY <1>2, <1>3, <1>4, <1>5, <1>8

\* Every register stays in its range.
THEOREM LineTypes == Safety => []TypeOK
<1>1. ASSUME NEW k \in 0 .. 13, NEW m \in 0 .. 17, Whole(k, m)
      PROVE  TypeOK
  <2>1. /\ At(k) /\ PinsAt(k) /\ AddressAt(k) /\ Inputs /\ CacheAt /\ MemoryAt(k)
    BY <1>1 DEF Whole, ChipAt
  <2>2. /\ edge \in {"rise", "quarter", "fall"} /\ memAddr \in LineAddr /\ memWstrb \in BOOLEAN
    BY <2>1 DEF Inputs
  <2>3. /\ held \in 0 .. 2 /\ memValid \in BOOLEAN /\ memWdata \in Lines /\ memReady \in BOOLEAN
        /\ bridgeState \in BridgeState /\ waitCounter \in 0 .. 3 /\ readyInt \in BOOLEAN /\ userCmd \in Command
    BY <2>1 DEF CacheAt
  <2>4. userAddr \in LineAddr /\ burstDone \in BOOLEAN /\ pin \in ChipCommand /\ cmd2 \in ChipCommand
    BY <2>1 DEF AddressAt, At, Registers, PinsAt, Shows
  <2>5. /\ state \in MainState
        /\ count.rfc \in 0 .. RFC /\ count.rp \in 0 .. RP /\ count.rcd \in 0 .. 2
        /\ count.ras \in 0 .. RAS /\ count.wr \in 0 .. 3 /\ count.burst \in 0 .. BurstCntMax
    BY <2>1, RowTypes DEF At, RFC, RP, RAS, BurstCntMax
  <2>6. /\ refresh.count \in 0 .. (MaxRefCnt + 1) /\ boot.count \in 0 .. InitDoneCount /\ boot.count5 \in 0 .. RFC
    BY <2>1 DEF At, RequestAt, BootInv
  <2>7. store \in [LineAddr -> Lines] /\ chip.mem \in [LineAddr -> Block]
    BY <2>1 DEF MemoryAt
  <2> QED BY <1>1, <2>2, <2>3, <2>4, <2>5, <2>6, <2>7, DataTypes DEF TypeOK
<1>2. WholeInv => TypeOK
  BY <1>1 DEF WholeInv
<1> QED BY <1>2, DataInStep, PTL

=============================================================================
