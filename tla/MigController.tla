--------------------------- MODULE MigController ---------------------------
(* fpga/mig/mig_controller_0.v: the command side of the LPDDR controller.     *)
(* Every register moves on the falling edge of the clock.  Burst length 4     *)
(* (two clocks of 64 bits) and CAS latency 3, as mig_parameters_0.v sets the  *)
(* mode register.                                                             *)
EXTENDS MigBridge

CONSTANT MaxRefCnt   \* clocks between two refresh ticks, less 2 (742 in the code)

\* A line and the refresh behind it are over before the next tick.
ASSUME RefreshAssumption == MaxRefCnt \in Nat /\ MaxRefCnt >= 25

RFC == 7
RAS == 3
RP  == 1
BurstCntMax   == 2
InitDoneCount == 5

MainState ==
  {"IDLE", "PRECHARGE", "PRECHARGE_WAIT", "AUTO_REFRESH", "AUTO_REFRESH_WAIT",
   "ACTIVE", "ACTIVE_WAIT", "FIRST_WRITE", "WRITE_WAIT", "BURST_WRITE",
   "PRECHARGE_AFTER_WRITE", "PRECHARGE_AFTER_WRITE_2", "READ_WAIT", "BURST_READ"}
ChipCommand == {"NOP", "ACT", "PRE", "REF", "MRS", "RD", "WR"}

VARIABLES
  rst180,      \* the reset after its register
  state,       \* the main state machine
  accept, writeCmd1, readCmd1, goToActive,  \* the command taken from the bridge
  count,       \* [rfc, rp, rcd, ras, wr, cas, burst] down counters, rp0
  burstEnd,    \* burst_done, registered
  refresh,     \* the refresh requester: [count, value, detect, ref1, wait1,
               \* wait2, ref, issued, doneReg, rfcOver]
  boot,        \* the initialisation: [mem, memory, count, state, count5]
  adr1, adr2,  \* the line address, one and two registers later
  cmd2, adr,   \* command and address, registered
  pin, pinAdr, \* ... and on the pins
  strobe       \* the enables of the data path: [write], [cas, left, div,
               \* r2, rden] for the read FIFO

ctlVars == <<rst180, state, accept, writeCmd1, readCmd1, goToActive, count,
             burstEnd, refresh, boot, adr1, adr2, cmd2, adr, pin, pinAdr, strobe,
             initDone, autoRefReq, arDone, cmdAck>>

ControllerInit ==
  /\ rst180 = TRUE /\ state = "IDLE"
  /\ accept = FALSE /\ writeCmd1 = FALSE /\ readCmd1 = FALSE /\ goToActive = FALSE
  /\ count = [rfc |-> 0, rp |-> 0, rp0 |-> TRUE, rcd |-> 0, ras |-> 0, wr |-> 0,
              cas |-> 0, burst |-> 0]
  /\ burstEnd = FALSE
  /\ refresh = [count |-> 0, value |-> FALSE, detect |-> FALSE, ref1 |-> FALSE,
                wait1 |-> FALSE, wait2 |-> FALSE, ref |-> FALSE, issued |-> FALSE,
                doneReg |-> FALSE, rfcOver |-> FALSE]
  /\ boot = [mem |-> FALSE, memory |-> FALSE, count |-> 0, state |-> "IDLE", count5 |-> 0]
  /\ adr1 = Addr0 /\ adr2 = Addr0 /\ adr = Addr0 /\ pinAdr = Addr0
  /\ cmd2 = "NOP" /\ pin = "NOP"
  /\ strobe = [write |-> FALSE, cas |-> 0, left |-> 0, div |-> FALSE, r2 |-> FALSE,
               rden |-> FALSE]
  /\ initDone = FALSE /\ autoRefReq = FALSE /\ arDone = FALSE /\ cmdAck = FALSE

-----------------------------------------------------------------------------
(* The command of the bridge.                                                 *)

WriteCmdIn == userCmd = "WRITE" /\ accept
ReadCmd    == userCmd = "READ" /\ accept

CanAccept ==
  state = "IDLE" /\ count.rp0 /\ refresh.rfcOver /\ ~autoRefReq /\ ~refresh.issued

\* Mutant of CommandEdge: the command registers follow the wires at every edge.
CommandForgotten ==
  /\ accept' = CanAccept
  /\ writeCmd1' = WriteCmdIn
  /\ readCmd1' = ReadCmd
  /\ goToActive' = (WriteCmdIn \/ ReadCmd)
  /\ cmdAck' = (WriteCmdIn \/ writeCmd1 \/ ReadCmd \/ readCmd1)

\* The acknowledgement stays up until the controller is idle again and has
\* seen that the bridge withdrew the command.
CommandEdge ==
  /\ accept' = CanAccept
  /\ writeCmd1' = IF accept THEN WriteCmdIn ELSE writeCmd1
  /\ readCmd1' = IF accept THEN ReadCmd ELSE readCmd1
  /\ goToActive' = (WriteCmdIn \/ ReadCmd)
  /\ cmdAck' = (WriteCmdIn \/ writeCmd1 \/ ReadCmd \/ readCmd1)

-----------------------------------------------------------------------------
(* Timing counters.                                                           *)

Load(when, value, c) == IF when THEN value ELSE IF c = 0 THEN 0 ELSE c - 1

Writing == state \in {"FIRST_WRITE", "BURST_WRITE"}

\* ACTIVE to READ or WRITE, ACTIVE to PRECHARGE, write recovery, refresh.
CountEdge ==
  /\ burstEnd' = burstDone
  /\ count' =
       [rfc   |-> Load(state = "AUTO_REFRESH", RFC, count.rfc),
        rp    |-> Load(state = "PRECHARGE", RP, count.rp),
        rp0   |-> ~(count.rp > 1),
        rcd   |-> Load(state = "ACTIVE", 2, count.rcd),
        ras   |-> Load(state = "ACTIVE", RAS - 1, count.ras),
        wr    |-> Load(Writing \/ count.burst # 0, 3, count.wr),
        cas   |-> Load(state = "BURST_READ", BurstCntMax - 1, count.cas),
        burst |-> Load(Writing, BurstCntMax, count.burst)]

-----------------------------------------------------------------------------
(* Refresh: a tick becomes a request (autoRefReq), the request an order to    *)
(* the main state machine three clocks later, when every command that was     *)
(* accepted before the request has left IDLE.                                 *)

Refreshing == state = "AUTO_REFRESH"

\* Mutant of RefreshEdge: the order goes out with the request.
RefreshAtOnce ==
  /\ autoRefReq' = IF refresh.ref1 /\ ~autoRefReq THEN TRUE
                   ELSE IF Refreshing THEN FALSE ELSE autoRefReq
  /\ arDone' = refresh.doneReg
  /\ refresh' =
       [count   |-> IF refresh.value THEN 0 ELSE refresh.count + 1,
        value   |-> refresh.count = MaxRefCnt,
        detect  |-> refresh.value /\ initDone,
        ref1    |-> refresh.detect,
        wait1   |-> autoRefReq /\ ~Refreshing,
        wait2   |-> refresh.wait1 /\ ~Refreshing,
        ref     |-> refresh.ref1 /\ ~Refreshing,
        issued  |-> Refreshing,
        doneReg |-> count.rfc = 2,
        rfcOver |-> refresh.doneReg \/ (initDone /\ ~boot.mem /\ count.rfc = 0)
                      \/ (refresh.rfcOver /\ ~refresh.issued)]

\* Mutant of RefreshEdge: the request is not cleared when the refresh is made.
RefreshNotCleared ==
  /\ autoRefReq' = IF refresh.ref1 /\ ~autoRefReq THEN TRUE
                   ELSE autoRefReq
  /\ arDone' = refresh.doneReg
  /\ refresh' =
       [count   |-> IF refresh.value THEN 0 ELSE refresh.count + 1,
        value   |-> refresh.count = MaxRefCnt,
        detect  |-> refresh.value /\ initDone,
        ref1    |-> refresh.detect,
        wait1   |-> autoRefReq /\ ~Refreshing,
        wait2   |-> refresh.wait1 /\ ~Refreshing,
        ref     |-> refresh.wait2 /\ ~Refreshing,
        issued  |-> Refreshing,
        doneReg |-> count.rfc = 2,
        rfcOver |-> refresh.doneReg \/ (initDone /\ ~boot.mem /\ count.rfc = 0)
                      \/ (refresh.rfcOver /\ ~refresh.issued)]

RefreshEdge ==
  /\ autoRefReq' = IF refresh.ref1 /\ ~autoRefReq THEN TRUE
                   ELSE IF Refreshing THEN FALSE ELSE autoRefReq
  /\ arDone' = refresh.doneReg
  /\ refresh' =
       [count   |-> IF refresh.value THEN 0 ELSE refresh.count + 1,
        value   |-> refresh.count = MaxRefCnt,
        detect  |-> refresh.value /\ initDone,
        ref1    |-> refresh.detect,
        wait1   |-> autoRefReq /\ ~Refreshing,
        wait2   |-> refresh.wait1 /\ ~Refreshing,
        ref     |-> refresh.wait2 /\ ~Refreshing,
        issued  |-> Refreshing,
        doneReg |-> count.rfc = 2,
        rfcOver |-> refresh.doneReg \/ (initDone /\ ~boot.mem /\ count.rfc = 0)
                      \/ (refresh.rfcOver /\ ~refresh.issued)]

-----------------------------------------------------------------------------
(* Initialisation: precharge, two refreshes, two mode registers.              *)

\* Mutant of BootNext: one mode register more.
BootOneMore ==
  IF boot.state # "IDLE" \/ ~boot.memory THEN "IDLE"
  ELSE
  CASE boot.count = 0 -> "PRECHARGE"
    [] boot.count \in {1, 2} /\ boot.count5 = 1 -> "AUTO_REFRESH"
    [] boot.count \in {3, 4, 5} /\ boot.count5 = 1 -> "LOAD_MODE_REG"
    [] OTHER -> "IDLE"

BootNext ==
  IF boot.state # "IDLE" \/ ~boot.memory THEN "IDLE"
  ELSE
  CASE boot.count = 0 -> "PRECHARGE"
    [] boot.count \in {1, 2} /\ boot.count5 = 1 -> "AUTO_REFRESH"
    [] boot.count \in {3, 4} /\ boot.count5 = 1 -> "LOAD_MODE_REG"
    [] OTHER -> "IDLE"

\* Mutant of BootEdge: the pause after a refresh is two clocks short.
BootRefreshShort ==
  /\ initDone' = (initDone \/ boot.count = InitDoneCount)
  /\ boot' =
       [mem    |-> userCmd = "INIT"
                     \/ (boot.mem /\ ~(boot.count = InitDoneCount /\ boot.count5 = 1)),
        memory |-> boot.mem,
        count  |-> IF boot.state # "IDLE" /\ boot.memory THEN boot.count + 1 ELSE boot.count,
        state  |-> BootNext,
        count5 |-> Load(boot.state # "IDLE", RFC - 2, boot.count5)]

BootEdge ==
  /\ initDone' = (initDone \/ boot.count = InitDoneCount)
  /\ boot' =
       [mem    |-> userCmd = "INIT"
                     \/ (boot.mem /\ ~(boot.count = InitDoneCount /\ boot.count5 = 1)),
        memory |-> boot.mem,
        count  |-> IF boot.state # "IDLE" /\ boot.memory THEN boot.count + 1 ELSE boot.count,
        state  |-> BootNext,
        count5 |-> Load(boot.state # "IDLE", RFC, boot.count5)]

-----------------------------------------------------------------------------
(* The main state machine.                                                    *)

NextState ==
  CASE state = "IDLE" ->
         IF boot.mem THEN "IDLE"
         ELSE IF refresh.ref /\ refresh.rfcOver /\ count.rp = 0 THEN "AUTO_REFRESH"
         ELSE IF goToActive THEN "ACTIVE" ELSE "IDLE"
    [] state = "PRECHARGE" -> "PRECHARGE_WAIT"
    [] state = "PRECHARGE_WAIT" ->
         IF count.rp # 0 THEN "PRECHARGE_WAIT"
         ELSE IF refresh.ref THEN "AUTO_REFRESH"
         ELSE IF goToActive THEN "ACTIVE" ELSE "IDLE"
    [] state = "AUTO_REFRESH" -> "AUTO_REFRESH_WAIT"
    [] state = "AUTO_REFRESH_WAIT" -> IF count.rfc = 0 THEN "IDLE" ELSE state
    [] state = "ACTIVE" -> "ACTIVE_WAIT"
    [] state = "ACTIVE_WAIT" ->
         IF count.rcd = 1 /\ writeCmd1 THEN "FIRST_WRITE"
         ELSE IF count.rcd = 1 /\ readCmd1 THEN "BURST_READ" ELSE state
    [] Writing -> "WRITE_WAIT"
    [] state = "WRITE_WAIT" ->
         IF burstEnd THEN "PRECHARGE_AFTER_WRITE"
         ELSE IF count.burst = 2 THEN "BURST_WRITE" ELSE state
    [] state = "BURST_READ" -> "READ_WAIT"
    [] state = "READ_WAIT" ->
         IF burstEnd THEN "PRECHARGE_AFTER_WRITE"
         ELSE IF count.cas <= 1 THEN "BURST_READ" ELSE state
    [] state = "PRECHARGE_AFTER_WRITE" -> "PRECHARGE_AFTER_WRITE_2"
    [] state = "PRECHARGE_AFTER_WRITE_2" ->
         IF count.wr = 0 /\ count.ras = 0 THEN "PRECHARGE" ELSE state

-----------------------------------------------------------------------------
(* Command and address pins, and the enable of the read FIFO.                 *)

Command1 ==
  CASE state = "ACTIVE" -> "ACT"
    [] state = "PRECHARGE" \/ boot.state = "PRECHARGE" -> "PRE"
    [] state = "AUTO_REFRESH" \/ boot.state = "AUTO_REFRESH" -> "REF"
    [] boot.state = "LOAD_MODE_REG" -> "MRS"
    [] state = "BURST_READ" -> "RD"
    [] Writing -> "WR"
    [] OTHER -> "NOP"

\* The bank and the column reach the pins one register later than the row.
PinEdge ==
  /\ cmd2' = Command1 /\ pin' = cmd2
  /\ adr' = [bank |-> adr2.bank, row |-> adr1.row, col |-> adr2.col]
  /\ pinAdr' = adr

StrobeEdge ==
  strobe' =
    [write |-> Writing \/ count.burst > 1,
     cas  |-> Load(cmd2 = "RD", BurstCntMax, strobe.cas),
     left |-> Load(strobe.cas = 1, 2, strobe.left),
     div  |-> strobe.cas = 1 \/ (strobe.div /\ ~(strobe.left = 1 /\ strobe.cas = 0)),
     r2   |-> strobe.div,
     rden |-> strobe.r2]

AddressEdge == adr1' = userAddr /\ adr2' = adr1

ControllerFall ==
  /\ rst180' = FALSE
  /\ AddressEdge
  /\ IF rst180
     THEN UNCHANGED <<state, accept, writeCmd1, readCmd1, goToActive, count, burstEnd,
                      refresh, boot, cmd2, adr, pin, pinAdr, strobe, initDone,
                      autoRefReq, arDone, cmdAck>>
     ELSE /\ state' = NextState
          /\ CommandEdge /\ CountEdge /\ RefreshEdge /\ BootEdge
          /\ PinEdge /\ StrobeEdge
=============================================================================
