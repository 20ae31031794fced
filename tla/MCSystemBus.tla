---------------------------- MODULE MCSystemBus -----------------------------
(* Instances of SystemBus for TLC.                                            *)
EXTENDS SystemBus, FiniteSets

CONSTANTS
  Blank,      \* what every place holds at first
  MaxMarks    \* places that may hold something else at a time

\* The initial states, without the registers nobody reads before they are written.
MCInit ==
  /\ memValid = FALSE /\ memAddr \in Place /\ memWstrb = FALSE /\ memWdata = Blank
  /\ addrIn = "hole" /\ defaultReady = FALSE /\ memValidLast = FALSE /\ cpuIrq = FALSE
  /\ ref = [p \in Written |-> Blank]
  /\ usbChip = [r \in Reg |-> Blank] /\ usbRdn = TRUE /\ usbWrn = TRUE
  /\ usbA = CHOOSE r \in Reg : TRUE
  /\ usbDout = Blank /\ shiftReg = [dat |-> Blank, shifted |-> FrameLen]
  /\ ramRdata = Blank /\ gpioRdata = Blank /\ ddrRdata = Blank
  /\ Init

\* Data that differ from Blank mark the places they were stored at; two marks
\* are enough to see one device take what was meant for another.
Marked == {p \in Written : ref[p] # Blank}
FewMarks ==
  ~memValid /\ memValid' /\ memWstrb' /\ memWdata' # Blank
    => Cardinality(Marked \cup {memAddr'}) <= MaxMarks
MCSafety == MCInit /\ [][Next /\ FewMarks]_vars

\* The fairness of Spec.  An edge is always possible, so that it is weakly fair means
\* that there is always another; an access to the LPDDR is possible when one waits.
DdrAsked == Selected("ddr") /\ ddrState = "IDLE"
MCSpec == MCSafety /\ []<><<TRUE>>_vars /\ ([]<>DdrAsked => []<><<DdrServe>>_vars)

\* What a device shows while it is not selected, or has not yet read, is not looked at.
BusView ==
  <<memValid, memAddr, memWstrb, memWdata, IF memValid THEN addrIn ELSE "hole", defaultReady,
    memValidLast, cpuIrq, ram, IF Selected("ram") /\ MemReady THEN ramRdata ELSE Junk, vram,
    gpio, IF Selected("gpio") /\ MemReady THEN gpioRdata ELSE Junk, opl, ddr, ddrState, ddrReady,
    IF ddrReady THEN ddrRdata ELSE Junk, uartVars, usbState, usbCounter, usbReady,
    usbCsn, usbRdn, usbWrn, IF usbCsn THEN Junk ELSE usbA, IF Writing THEN usbDout ELSE Junk,
    busDir, IF usbReady /\ ~memWstrb THEN usbRdata ELSE Junk, usbChip, strobe, ref, usbOpen>>
=============================================================================
