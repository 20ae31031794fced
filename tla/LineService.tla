---------------------------- MODULE LineService ----------------------------
(* The bridge, the command side of the controller, its data path and the      *)
(* LPDDR chip, serving lines to the cache.  A clock has three edges: rising   *)
(* (cache, data state machine, chip), rising of the 90 degree clock (data     *)
(* path), falling (bridge, controller).                                       *)
EXTENDS MigController

CONSTANT Lines    \* what the cache writes, and what the chip holds at first

ASSUME LinesAssumption == Lines \subseteq [hi : Half, lo : Half]

Horizon == 9     \* clocks after which the chip no longer cares
CasLatency == 3

\* What the chip's simulation model requires, in clocks of 10 ns (speed grade
\* sg6 of mobile_ddr_parameters.vh: 42, 60, 18, 18, 12 and 70 ns; 2 clocks).
tRAS == 5
tRC  == 6
tRCD == 2
tRP  == 2
tWR  == 2
tRFC == 7
tMRD == 2

VARIABLES
  edge,      \* the next edge: "rise", "quarter" or "fall"
  held,      \* edges the cache has held its read request since it was answered
  wdPipe,    \* the write data registers, from the bridge to the pins
  wePipe,    \* the write enable registers, to the tristate drivers
  rdPipe,    \* the FIFO read enable registers; the fifth loads outputData
  fifo,      \* the read FIFO
  chip       \* [mem, open, used, wr, rd, since]: contents, open rows, has the
             \* open row been used, bursts under way, clocks since each command

pathVars == <<wdPipe, wePipe, rdPipe, fifo, outputData, dataValid, userInput>>
vars == <<edge, held, cacheSide, bridgeFall, bridgeRise, ctlVars, pathVars, chip>>

Idle  == [left |-> 0, lines |-> {}]

Init ==
  /\ BridgeInit /\ ControllerInit
  /\ edge = "fall" /\ held = 0
  /\ memValid = FALSE /\ memAddr = Addr0 /\ memWstrb = FALSE
  /\ memWdata \in Lines
  /\ store \in [LineAddr -> Lines]
  /\ wdPipe = [i \in 1..7 |-> Junk]
  /\ wePipe = [i \in 1..3 |-> FALSE]
  /\ rdPipe = [i \in 1..5 |-> FALSE]
  /\ fifo = <<>> /\ outputData = Junk /\ dataValid = FALSE
  /\ chip = [mem |-> store, open |-> {}, used |-> FALSE, wr |-> Idle, rd |-> Idle,
             since |-> [c \in ChipCommand \cup {"DATA"} |-> Horizon]]

-----------------------------------------------------------------------------
(* The cache's side: a request is raised when the last answer has gone, and   *)
(* held until it is answered; the cache drops a write at once and a read one  *)
(* (RW_MISS) or two (WRITE_MISS_APPLY) edges later.                           *)

Raise ==
  /\ ~memValid /\ initDone /\ ~memReady
  /\ memValid' = TRUE /\ memAddr' \in LineAddr /\ memWstrb' \in BOOLEAN
  /\ memWdata' \in (IF memWstrb' THEN Lines ELSE {memWdata})
  /\ UNCHANGED held

Hold ==
  /\ memValid => ~memReady /\ held = 0
  /\ UNCHANGED <<cacheSide, held>>

Linger ==
  /\ memValid /\ ~memWstrb
  /\ (held = 0 /\ memReady) \/ held = 1
  /\ held' = held + 1
  /\ UNCHANGED cacheSide

Drop ==
  /\ memValid
  /\ (memWstrb /\ memReady) \/ held > 0
  /\ memValid' = FALSE /\ held' = 0
  /\ UNCHANGED <<memAddr, memWstrb, memWdata>>

-----------------------------------------------------------------------------
(* The data path, on the 90 degree clock.                                     *)

\* Mutant of WritePath: the drivers are enabled for the clock of the command only.
WriteEnableShort ==
  /\ wdPipe' = [i \in 1..7 |-> IF i = 1 THEN userInput ELSE wdPipe[i - 1]]
  /\ wePipe' = [i \in 1..3 |-> IF i = 1 THEN Writing ELSE wePipe[i - 1]]

\* Seven registers for the data, three for the enable of the drivers.
WritePath ==
  /\ wdPipe' = [i \in 1..7 |-> IF i = 1 THEN userInput ELSE wdPipe[i - 1]]
  /\ wePipe' = [i \in 1..3 |-> IF i = 1 THEN strobe.write ELSE wePipe[i - 1]]

ReadPath ==
  /\ rdPipe' = [i \in 1..5 |-> IF i = 1 THEN strobe.rden ELSE rdPipe[i - 1]]
  /\ dataValid' = rdPipe[5]
  /\ outputData' = IF ~rdPipe[5] THEN outputData ELSE IF fifo = <<>> THEN Junk ELSE Head(fifo)
  /\ fifo' = IF rdPipe[5] /\ fifo # <<>> THEN Tail(fifo) ELSE fifo

-----------------------------------------------------------------------------
(* The chip.  It samples its pins on the rising edge; write data arrives one  *)
(* clock later and is complete on the second and third falling edge, read     *)
(* data after the CAS latency, in the FIFO at the fourth and fifth edge.      *)

Row(a) == [bank |-> a.bank, row |-> a.row]

\* The line that bank and column on the pins select in the open row.
Selected ==
  {l \in LineAddr : l.bank = pinAdr.bank /\ l.col = pinAdr.col /\ Row(l) \in chip.open}

Stored(lines) == IF lines = {} THEN [hi |-> Junk, lo |-> Junk]
                 ELSE chip.mem[CHOOSE l \in lines : TRUE]

Progress(burst) == [burst EXCEPT !.left = IF @ = 0 THEN 0 ELSE @ - 1]

ChipRise ==
  /\ chip' = [chip EXCEPT
       !.open = IF pin = "ACT" THEN @ \cup {Row(pinAdr)} ELSE IF pin = "PRE" THEN {} ELSE @,
       !.used = pin \in {"RD", "WR"} \/ (@ /\ pin # "ACT"),
       !.wr = IF pin = "WR" THEN [left |-> 3, lines |-> Selected] ELSE @,
       !.rd = IF pin = "RD" THEN [left |-> CasLatency + 2, lines |-> Selected]
              ELSE Progress(@),
       !.since = [c \in DOMAIN @ |-> IF c = pin THEN 1
                                     ELSE IF @[c] = Horizon THEN Horizon ELSE @[c] + 1]]
  /\ fifo' = IF chip.rd.left = 2 THEN Append(fifo, Stored(chip.rd.lines).hi)
             ELSE IF chip.rd.left = 1 THEN Append(fifo, Stored(chip.rd.lines).lo)
             ELSE fifo

Driven == IF wePipe[3] THEN wdPipe[7] ELSE Junk

ChipFall ==
  chip' = [chip EXCEPT
    !.wr = Progress(@),
    !.mem = [l \in LineAddr |->
               IF l \notin chip.wr.lines \/ chip.wr.left \notin {1, 2} THEN @[l]
               ELSE IF chip.wr.left = 2 THEN [@[l] EXCEPT !.hi = Driven]
               ELSE [@[l] EXCEPT !.lo = Driven]],
    !.since = IF chip.wr.left \in {1, 2} THEN [@ EXCEPT !["DATA"] = 0] ELSE @]

-----------------------------------------------------------------------------
Rise ==
  /\ edge = "rise" /\ edge' = "quarter"
  /\ Raise \/ Hold \/ Linger \/ Drop
  /\ BridgeRise /\ ChipRise
  /\ UNCHANGED <<bridgeFall, ctlVars, wdPipe, wePipe, rdPipe, outputData, dataValid,
                 userInput>>

Quarter ==
  /\ edge = "quarter" /\ edge' = "fall"
  /\ BridgeQuarter /\ WritePath /\ ReadPath
  /\ UNCHANGED <<held, cacheSide, bridgeFall, bridgeRise, ctlVars, chip>>

Fall ==
  /\ edge = "fall" /\ edge' = "rise"
  /\ BridgeFall /\ ControllerFall /\ ChipFall
  /\ UNCHANGED <<held, cacheSide, bridgeRise, pathVars>>

Next == Rise \/ Quarter \/ Fall

Safety == Init /\ [][Next]_vars

\* The clock runs; nothing else is assumed.
Spec == Safety /\ WF_vars(Next)

-----------------------------------------------------------------------------
(* Properties.                                                                *)

\* Every register stays in its range.
TypeOK ==
  /\ edge \in {"rise", "quarter", "fall"} /\ held \in 0..2
  /\ memValid \in BOOLEAN /\ memAddr \in LineAddr /\ memWstrb \in BOOLEAN
  /\ memWdata \in Lines /\ memReady \in BOOLEAN /\ rdBuffer \in Block
  /\ bridgeState \in BridgeState /\ waitCounter \in 0..3 /\ readyInt \in BOOLEAN
  /\ dataState \in DataState /\ inputInt \in Halves /\ userInput \in Halves
  /\ userCmd \in Command /\ userAddr \in LineAddr /\ burstDone \in BOOLEAN
  /\ state \in MainState /\ pin \in ChipCommand /\ cmd2 \in ChipCommand
  /\ count.rfc \in 0..RFC /\ count.rp \in 0..RP /\ count.rcd \in 0..2
  /\ count.ras \in 0..RAS /\ count.wr \in 0..3 /\ count.burst \in 0..BurstCntMax
  /\ refresh.count \in 0..(MaxRefCnt + 1) /\ boot.count \in 0..InitDoneCount
  /\ boot.count5 \in 0..RFC /\ strobe.cas \in 0..2 /\ strobe.left \in 0..2
  /\ fifo \in Seq(Halves) /\ Len(fifo) <= 2
  /\ outputData \in Halves /\ store \in [LineAddr -> Lines]
  /\ chip.mem \in [LineAddr -> Block]

\* A burst goes to the line of the command that was taken, in its direction,
\* though bank, row and column reach the pins through registers of different
\* depth; a row is opened, and a refresh made, only when every row is closed.
RowDiscipline ==
  [][edge = "rise" =>
       /\ pin \in {"RD", "WR"} => Selected = {taken.addr} /\ taken.wr = (pin = "WR")
       /\ pin \in {"ACT", "REF"} => chip.open = {}]_vars

\* One command, one burst: burst_done comes neither so late that the controller
\* starts a second burst, nor so early that the row is closed without one.
OneBurst ==
  [][edge = "rise" =>
       /\ pin \in {"RD", "WR"} => ~chip.used
       /\ pin = "PRE" /\ chip.open # {} => chip.used]_vars

\* The chip's minimum times between commands are kept, initialisation included,
\* and no row is closed under a read burst.
ChipTiming ==
  [][edge = "rise" =>
       LET After(c, n) == chip.since[c] >= n IN
       /\ pin = "ACT" => After("PRE", tRP) /\ After("REF", tRFC) /\ After("ACT", tRC)
                           /\ After("MRS", tMRD)
       /\ pin \in {"RD", "WR"} => After("ACT", tRCD)
       /\ pin = "PRE" => After("ACT", tRAS) /\ After("DATA", tWR)
                           /\ After("RD", BurstCntMax)
       /\ pin \in {"REF", "MRS"} => After("PRE", tRP) /\ After("REF", tRFC)
                           /\ After("ACT", tRC) /\ After("MRS", tMRD)]_vars

\* The chip is never given a command it does not allow in its state or at that distance
\* from the ones before (mobile_ddr.v 1721-1838): bridge and controller count their clocks
\* apart from one another.
ChipProtocol == RowDiscipline /\ OneBurst /\ ChipTiming

\* When the controller is idle, every line the bridge has taken is in the chip,
\* both halves, in order: the data pipeline and the command pipeline agree to
\* the clock, for a write that waited behind a refresh too.
BlocksArrive == state = "IDLE" => chip.mem = store

\* The order to open a row lasts three clocks and is not remembered: a refresh
\* never overtakes it, the row has been opened or opens at the next edge.
ActivateNotLost == goToActive => state \in {"ACTIVE", "ACTIVE_WAIT"} \/ NextState = "ACTIVE"

\* No refresh tick finds the previous request still waiting: it would be dropped.
NoTickDropped == refresh.ref1 => ~autoRefReq

\* Neither side of the contest between a line and a refresh is forgotten: the order to
\* open a row and the request for a refresh live for a few clocks in one machine and are
\* consumed by another (mig_controller_0.v 485-523, 806-935).
RefreshesKept == ActivateNotLost /\ NoTickDropped

\* The abstract line port of the cache (LinePort) is what the bridge and the
\* controller implement; a write has moved when the bridge holds both halves,
\* a read when the second half is at the controller's output.
Moved == dataState = "WAIT" \/ (dataState = "READ" /\ ~taken.wr /\ dataValid /\ ~rdPipe[5])
Port ==
  IF bridgeState \in {"STARTUP", "WAIT_INIT", "IDLE", "WAIT_REFRESH"} THEN "IDLE"
  ELSE IF bridgeState = "WAIT" THEN "ACK"
  ELSE IF Moved THEN "DONE" ELSE "BUSY"
L == INSTANCE LinePort WITH
       memRdata <- IF dataState = "READ" THEN [rdBuffer EXCEPT !.lo = outputData] ELSE rdBuffer,
       port <- Port, cmd <- taken

IsLinePort ==
  /\ L!PortInit
  /\ [][/\ edge = "rise" => L!PortRise
        /\ edge = "quarter" => L!PortFall \/ UNCHANGED <<L!portVars, memReady, store>>
        /\ edge = "fall" => L!PortFall]_vars

\* Every request of the cache is answered, whatever the refreshes do.
Answered == (memValid /\ held = 0) ~> memReady

\* Every refresh request is carried out, whatever the cache asks for.
Refreshed == autoRefReq ~> state = "AUTO_REFRESH"
=============================================================================
