------------------------------ MODULE LinePort ------------------------------
(* What the cache is promised by the bridge below it: one line is read or     *)
(* written for each time memValid rises, and memReady is a single pulse.      *)
(* The bridge moves on the falling edge, its registered answer on the rising  *)
(* one (fpga/mig/cache_mig_bridge.v); how long a line takes is not promised.  *)

CONSTANTS
  LineAddr, Block,
  Addr0       \* the address register after reset

VARIABLES
  memValid, memAddr, memWstrb, memWdata,  \* the request, driven by the cache
  memReady, memRdata,                     \* the answer
  port,      \* "IDLE", "BUSY", "DONE" (data moved), "ACK" (answer given)
  readyInt,  \* the answer before the register of the rising edge
  cmd,       \* the line and direction taken with the request
  store      \* the LPDDR contents

portVars == <<port, readyInt, cmd>>

PortInit ==
  /\ port = "IDLE" /\ readyInt = FALSE /\ memReady = FALSE
  /\ cmd = [addr |-> Addr0, wr |-> FALSE]
  /\ memRdata \in Block
  /\ store \in [LineAddr -> Block]

\* The data of the open request moves, at either edge; until it has, a read
\* may leave anything in the read buffer.
Transfer ==
  /\ port = "BUSY" /\ port' = "DONE"
  /\ IF cmd.wr
     THEN store' = [store EXCEPT ![cmd.addr] = memWdata] /\ memRdata' = memRdata
     ELSE store' = store /\ memRdata' = store[cmd.addr]
  /\ UNCHANGED cmd

Pending ==
  /\ memRdata' \in (IF port = "BUSY" /\ ~cmd.wr THEN Block ELSE {memRdata})
  /\ UNCHANGED <<port, cmd, store>>

\* Rising edge: the registered answer, and possibly the transfer.
PortRise ==
  /\ memReady' = readyInt /\ UNCHANGED readyInt
  /\ Transfer \/ Pending

\* A request is taken; nothing is promised about when (a refresh comes first).
Accept ==
  /\ port = "IDLE" /\ memValid
  /\ port' = "BUSY"
  /\ cmd' = [addr |-> memAddr, wr |-> memWstrb]
  /\ UNCHANGED <<readyInt, store, memRdata>>

Finish ==
  /\ port = "DONE"
  /\ port' = "ACK" /\ readyInt' = TRUE
  /\ UNCHANGED <<cmd, store, memRdata>>

\* The pulse ends; the port is free once the cache has dropped the request.
Release ==
  /\ port = "ACK"
  /\ readyInt' = FALSE
  /\ port' = IF memValid THEN "ACK" ELSE "IDLE"
  /\ UNCHANGED <<cmd, store, memRdata>>

PortFall ==
  /\ UNCHANGED memReady
  /\ \/ Accept \/ Finish \/ Release
     \/ (Transfer \/ Pending) /\ port # "ACK" /\ UNCHANGED readyInt
=============================================================================
