----------------------------- MODULE MigBridge -----------------------------
(* fpga/mig/cache_mig_bridge.v: the bridge between the cache and the command  *)
(* protocol of the MIG controller.  Its state machine moves on the falling    *)
(* edge of the 100 MHz clock, its data path on the rising edge, the word it   *)
(* sends to the controller on the rising edge of the 90 degree clock.         *)
EXTENDS Naturals, Sequences

CONSTANTS
  LineAddr,    \* line addresses in use
  Half,        \* values of half a line (64 bits)
  Junk,        \* half a line nobody drove
  Addr0        \* the address register after reset

ASSUME AddrAssumption ==
  /\ LineAddr \subseteq [bank : Nat, row : Nat, col : Nat] /\ Addr0 \in LineAddr
  /\ Junk \notin Half

Halves == Half \cup {Junk}
Block  == [hi : Halves, lo : Halves]

BridgeState ==
  {"STARTUP", "WAIT_INIT", "IDLE", "WAIT_REFRESH", "WRITE_CMD", "WRITE_WAIT",
   "WRITE_DONE", "READ_CMD", "READ_WAIT_1", "READ_WAIT_2", "READ_DONE", "WAIT"}
DataState == {"IDLE", "WRITE", "READ_WAIT", "READ", "WAIT"}
Command   == {"NOP", "INIT", "WRITE", "READ"}

VARIABLES
  \* the cache's side
  memValid, memAddr, memWstrb, memWdata, memReady, rdBuffer,
  \* registers of the bridge
  bridgeState, waitCounter, readyInt, dataState, inputInt, userInput,
  \* wires to the controller
  userCmd, userAddr, burstDone,
  \* wires from the controller
  initDone, autoRefReq, arDone, cmdAck, dataValid, outputData,
  \* history, read by no action
  taken,       \* the line and direction of the last command
  store        \* the memory with every line the data path has taken

cacheSide  == <<memValid, memAddr, memWstrb, memWdata>>
bridgeFall == <<bridgeState, waitCounter, readyInt, userCmd, userAddr, burstDone, taken>>
bridgeRise == <<memReady, rdBuffer, dataState, inputInt, store>>

BridgeInit ==
  /\ bridgeState = "STARTUP" /\ waitCounter = 0 /\ readyInt = FALSE
  /\ userCmd = "NOP" /\ userAddr = Addr0 /\ burstDone = FALSE
  /\ memReady = FALSE /\ rdBuffer = [hi |-> Junk, lo |-> Junk]
  /\ dataState = "IDLE" /\ inputInt = Junk /\ userInput = Junk
  /\ taken = [addr |-> Addr0, wr |-> FALSE]

-----------------------------------------------------------------------------
(* The state machine, falling edge.                                           *)

Startup ==
  /\ bridgeState = "STARTUP"
  /\ readyInt' = FALSE
  /\ userCmd' = IF initDone THEN userCmd ELSE "INIT"
  /\ bridgeState' = IF initDone THEN "IDLE" ELSE "WAIT_INIT"
  /\ UNCHANGED <<waitCounter, userAddr, burstDone, taken>>

WaitInit ==
  /\ bridgeState = "WAIT_INIT"
  /\ userCmd' = "NOP"
  /\ bridgeState' = IF initDone THEN "IDLE" ELSE "WAIT_INIT"
  /\ UNCHANGED <<waitCounter, readyInt, userAddr, burstDone, taken>>

\* A refresh request goes before a request of the cache.
YieldToRefresh ==
  /\ bridgeState = "IDLE" /\ autoRefReq
  /\ bridgeState' = "WAIT_REFRESH"
  /\ UNCHANGED <<waitCounter, readyInt, userCmd, userAddr, burstDone, taken>>

StayIdle ==
  /\ bridgeState = "IDLE" /\ ~autoRefReq /\ (memValid => cmdAck)
  /\ readyInt' = FALSE
  /\ UNCHANGED <<bridgeState, waitCounter, userCmd, userAddr, burstDone, taken>>

\* Mutant of IssueCommand: the address is loaded for writes only.
IssueStaleAddress ==
  /\ bridgeState = "IDLE" /\ ~autoRefReq /\ memValid /\ ~cmdAck
  /\ readyInt' = FALSE
  /\ userCmd' = IF memWstrb THEN "WRITE" ELSE "READ"
  /\ bridgeState' = IF memWstrb THEN "WRITE_CMD" ELSE "READ_CMD"
  /\ userAddr' = IF memWstrb THEN memAddr ELSE userAddr
  /\ taken' = [addr |-> memAddr, wr |-> memWstrb]
  /\ UNCHANGED <<waitCounter, burstDone>>

IssueCommand ==
  /\ bridgeState = "IDLE" /\ ~autoRefReq /\ memValid /\ ~cmdAck
  /\ readyInt' = FALSE
  /\ userCmd' = IF memWstrb THEN "WRITE" ELSE "READ"
  /\ bridgeState' = IF memWstrb THEN "WRITE_CMD" ELSE "READ_CMD"
  /\ userAddr' = memAddr
  /\ taken' = [addr |-> memAddr, wr |-> memWstrb]
  /\ UNCHANGED <<waitCounter, burstDone>>

WaitRefresh ==
  /\ bridgeState = "WAIT_REFRESH"
  /\ bridgeState' = IF arDone THEN "IDLE" ELSE "WAIT_REFRESH"
  /\ readyInt' = IF memValid THEN FALSE ELSE readyInt
  /\ UNCHANGED <<waitCounter, userCmd, userAddr, burstDone, taken>>

AwaitAck ==
  /\ bridgeState \in {"WRITE_CMD", "READ_CMD"}
  /\ waitCounter' = IF cmdAck THEN 3 ELSE waitCounter
  /\ bridgeState' = IF ~cmdAck THEN bridgeState
                    ELSE IF bridgeState = "WRITE_CMD" THEN "WRITE_WAIT" ELSE "READ_WAIT_1"
  /\ UNCHANGED <<readyInt, userCmd, userAddr, burstDone, taken>>

\* Mutant of RaiseBurstDone: one clock late.
RaiseBurstDoneLate ==
  /\ bridgeState \in {"WRITE_WAIT", "READ_WAIT_1"}
  /\ burstDone' = (waitCounter = 0)
  /\ waitCounter' = IF waitCounter = 0 THEN 2 ELSE waitCounter - 1
  /\ bridgeState' = IF waitCounter # 0 THEN bridgeState
                    ELSE IF bridgeState = "WRITE_WAIT" THEN "WRITE_DONE" ELSE "READ_WAIT_2"
  /\ UNCHANGED <<readyInt, userCmd, userAddr, taken>>

\* Mutant of RaiseBurstDone: it is not raised at all.
BurstDoneNotRaised ==
  /\ bridgeState \in {"WRITE_WAIT", "READ_WAIT_1"}
  /\ waitCounter' = IF waitCounter = 1 THEN 2 ELSE waitCounter - 1
  /\ bridgeState' = IF waitCounter # 1 THEN bridgeState
                    ELSE IF bridgeState = "WRITE_WAIT" THEN "WRITE_DONE" ELSE "READ_WAIT_2"
  /\ UNCHANGED <<readyInt, userCmd, userAddr, burstDone, taken>>

\* burst_done is raised three clocks after the acknowledgement was seen.
RaiseBurstDone ==
  /\ bridgeState \in {"WRITE_WAIT", "READ_WAIT_1"}
  /\ burstDone' = IF waitCounter = 1 THEN TRUE ELSE burstDone
  /\ waitCounter' = IF waitCounter = 1 THEN 2 ELSE waitCounter - 1
  /\ bridgeState' = IF waitCounter # 1 THEN bridgeState
                    ELSE IF bridgeState = "WRITE_WAIT" THEN "WRITE_DONE" ELSE "READ_WAIT_2"
  /\ UNCHANGED <<readyInt, userCmd, userAddr, taken>>

\* ... and held for two; a write is answered as it falls.
WriteDone ==
  /\ bridgeState = "WRITE_DONE"
  /\ userCmd' = "NOP"
  /\ IF waitCounter = 1
     THEN /\ burstDone' = FALSE /\ readyInt' = TRUE /\ bridgeState' = "WAIT"
          /\ UNCHANGED waitCounter
     ELSE /\ waitCounter' = waitCounter - 1
          /\ UNCHANGED <<burstDone, readyInt, bridgeState>>
  /\ UNCHANGED <<userAddr, taken>>

\* Mutant of ReadWait: the valid line of the controller is not waited for.
ReadNotAwaited ==
  /\ bridgeState = "READ_WAIT_2"
  /\ userCmd' = "NOP"
  /\ IF waitCounter = 1
     THEN /\ burstDone' = FALSE /\ bridgeState' = "READ_DONE"
          /\ UNCHANGED waitCounter
     ELSE waitCounter' = waitCounter - 1 /\ UNCHANGED <<burstDone, bridgeState>>
  /\ UNCHANGED <<readyInt, userAddr, taken>>

ReadWait ==
  /\ bridgeState = "READ_WAIT_2"
  /\ userCmd' = "NOP"
  /\ IF waitCounter = 1
     THEN /\ burstDone' = FALSE
          /\ bridgeState' = IF dataValid THEN "READ_DONE" ELSE "READ_WAIT_2"
          /\ UNCHANGED waitCounter
     ELSE waitCounter' = waitCounter - 1 /\ UNCHANGED <<burstDone, bridgeState>>
  /\ UNCHANGED <<readyInt, userAddr, taken>>

ReadDone ==
  /\ bridgeState = "READ_DONE"
  /\ userCmd' = "NOP" /\ readyInt' = TRUE /\ bridgeState' = "WAIT"
  /\ UNCHANGED <<waitCounter, userAddr, burstDone, taken>>

WaitDrop ==
  /\ bridgeState = "WAIT"
  /\ readyInt' = FALSE
  /\ bridgeState' = IF memValid THEN "WAIT" ELSE "IDLE"
  /\ UNCHANGED <<waitCounter, userCmd, userAddr, burstDone, taken>>

BridgeFall ==
  \/ Startup \/ WaitInit \/ YieldToRefresh \/ StayIdle \/ IssueCommand
  \/ WaitRefresh \/ AwaitAck \/ RaiseBurstDone \/ WriteDone \/ ReadWait
  \/ ReadDone \/ WaitDrop

-----------------------------------------------------------------------------
(* The data path, rising edge.                                                *)

DataIdle ==
  /\ dataState = "IDLE" \/ ~initDone
  /\ LET go == initDone /\ cmdAck IN
     /\ dataState' = IF go /\ userCmd = "WRITE" THEN "WRITE"
                     ELSE IF go /\ userCmd = "READ" THEN "READ_WAIT" ELSE "IDLE"
     /\ inputInt' = IF go /\ userCmd = "WRITE" THEN memWdata.hi ELSE inputInt
  /\ UNCHANGED <<rdBuffer, store>>

\* The second half follows the first; from here on the line is on its way.
DataWrite ==
  /\ initDone /\ dataState = "WRITE"
  /\ dataState' = "WAIT" /\ inputInt' = memWdata.lo
  /\ store' = [store EXCEPT ![taken.addr] = [hi |-> inputInt, lo |-> memWdata.lo]]
  /\ UNCHANGED rdBuffer

DataReadWait ==
  /\ initDone /\ dataState = "READ_WAIT"
  /\ dataState' = IF dataValid THEN "READ" ELSE "READ_WAIT"
  /\ rdBuffer' = IF dataValid THEN [rdBuffer EXCEPT !.hi = outputData] ELSE rdBuffer
  /\ UNCHANGED <<inputInt, store>>

DataRead ==
  /\ initDone /\ dataState = "READ"
  /\ dataState' = "WAIT"
  /\ rdBuffer' = [rdBuffer EXCEPT !.lo = outputData]
  /\ UNCHANGED <<inputInt, store>>

\* One command is one transfer: the next waits for the acknowledgement to fall.
DataWait ==
  /\ initDone /\ dataState = "WAIT"
  /\ dataState' = IF cmdAck THEN "WAIT" ELSE "IDLE"
  /\ UNCHANGED <<inputInt, rdBuffer, store>>

BridgeRise ==
  /\ memReady' = readyInt
  /\ DataIdle \/ DataWrite \/ DataReadWait \/ DataRead \/ DataWait

BridgeQuarter == userInput' = inputInt
=============================================================================
