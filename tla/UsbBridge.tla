----------------------------- MODULE UsbBridge ------------------------------
(* fpga/usb_picorv_bridge.v: one 16-bit access to the USB controller for each *)
(* access of the CPU.  A write is answered before the chip has seen it.       *)
(* Signals whose names end in n are low when active.                          *)
EXTENDS Naturals

CONSTANTS
  Reg,          \* registers of the USB controller
  Data,         \* their contents
  Junk,         \* what the bus shows, or the chip takes, out of time
  AccessClocks  \* clocks of strobe the chip needs

\* The bridge strobes for four clocks: a chip that needs no more is served.
ASSUME AccessAssumption == AccessClocks \in 1 .. 4

VARIABLES
  usbState, usbCounter, usbReady,
  usbCsn, usbRdn, usbWrn, usbA, usbDout,
  busDir,       \* TRUE: the chip may drive the data bus
  usbRdata,
  usbChip,      \* the registers of the chip
  strobe        \* clocks the present strobe has lasted, up to AccessClocks

usbVars == <<usbState, usbCounter, usbReady, usbCsn, usbRdn, usbWrn, usbA, usbDout,
             busDir, usbRdata, usbChip, strobe>>

Word == Data \cup {Junk}

UsbTypeOK ==
  /\ usbState \in {"IDLE", "WRITE", "READ", "LATCH"} /\ usbCounter \in 0 .. 7
  /\ {usbReady, usbCsn, usbRdn, usbWrn, busDir} \subseteq BOOLEAN
  /\ usbA \in Reg /\ usbDout \in Data
  /\ usbRdata \in Word /\ usbChip \in [Reg -> Word] /\ strobe \in 0 .. AccessClocks

\* Strobes, address and data have no reset; chip select keeps them off.
UsbInit ==
  /\ usbState = "IDLE" /\ usbReady = FALSE /\ usbCsn = TRUE /\ busDir = TRUE
  /\ usbCounter = 0 /\ usbRdn \in BOOLEAN /\ usbWrn \in BOOLEAN
  /\ usbA \in Reg /\ usbDout \in Data /\ usbRdata = Junk
  /\ usbChip \in [Reg -> Data] /\ strobe = 0

Reading == ~usbCsn /\ ~usbRdn
Writing == ~usbCsn /\ ~usbWrn

\* What the chip drives once its strobe has lasted.
Din == IF Reading /\ busDir /\ strobe + 1 >= AccessClocks THEN usbChip[usbA] ELSE Junk

\* An access of the CPU begins; a write is answered in the same clock.
Start(wr, a, d) ==
  /\ usbState = "IDLE" /\ usbCsn' = FALSE
  /\ usbA' = a /\ usbCounter' = 4
  /\ usbWrn' = ~wr /\ usbRdn' = wr
  /\ IF wr THEN usbState' = "WRITE" /\ usbReady' = TRUE /\ busDir' = FALSE /\ usbDout' = d
           ELSE usbState' = "READ" /\ UNCHANGED <<usbReady, busDir, usbDout>>
  /\ UNCHANGED usbRdata

Rest ==
  /\ usbState = "IDLE"
  /\ usbCsn' = TRUE /\ usbRdn' = TRUE /\ usbWrn' = TRUE /\ busDir' = TRUE
  /\ UNCHANGED <<usbState, usbCounter, usbReady, usbA, usbDout, usbRdata>>

\* Mutant of WriteCycle: the strobe ends together with chip select.
WriteCycleNoHold ==
  /\ usbState = "WRITE" /\ usbReady' = FALSE
  /\ usbCounter' = (usbCounter + 7) % 8
  /\ usbWrn' = (usbWrn \/ usbCounter = 0)
  /\ usbCsn' = (usbCsn \/ usbCounter = 0)
  /\ busDir' = (busDir \/ usbCounter = 0)
  /\ usbState' = IF usbCounter = 0 THEN "IDLE" ELSE "WRITE"
  /\ UNCHANGED <<usbRdn, usbA, usbDout, usbRdata>>

\* The write strobe ends one clock before chip select and data are taken away.
WriteCycle ==
  /\ usbState = "WRITE" /\ usbReady' = FALSE
  /\ usbCounter' = (usbCounter + 7) % 8
  /\ usbWrn' = (usbWrn \/ usbCounter = 1)
  /\ usbCsn' = (usbCsn \/ usbCounter = 0)
  /\ busDir' = (busDir \/ usbCounter = 0)
  /\ usbState' = IF usbCounter = 0 THEN "IDLE" ELSE "WRITE"
  /\ UNCHANGED <<usbRdn, usbA, usbDout, usbRdata>>

\* Mutant of ReadCycle: the answer without the extra state behind it.
ReadCycleNoLatch ==
  /\ usbState = "READ"
  /\ usbCounter' = (usbCounter + 7) % 8
  /\ IF usbCounter = 0
     THEN /\ usbRdata' = Din /\ usbReady' = TRUE /\ usbState' = "IDLE"
          /\ usbCsn' = TRUE /\ usbRdn' = TRUE /\ usbWrn' = TRUE
     ELSE usbReady' = FALSE /\ UNCHANGED <<usbRdata, usbState, usbCsn, usbRdn, usbWrn>>
  /\ UNCHANGED <<usbA, usbDout, busDir>>

\* Mutant of ReadCycle: the data are taken two clocks early.
ReadCycleEarly ==
  /\ usbState = "READ"
  /\ usbCounter' = (usbCounter + 7) % 8
  /\ IF usbCounter = 2
     THEN /\ usbRdata' = Din /\ usbReady' = TRUE /\ usbState' = "LATCH"
          /\ usbCsn' = TRUE /\ usbRdn' = TRUE /\ usbWrn' = TRUE
     ELSE usbReady' = FALSE /\ UNCHANGED <<usbRdata, usbState, usbCsn, usbRdn, usbWrn>>
  /\ UNCHANGED <<usbA, usbDout, busDir>>

ReadCycle ==
  /\ usbState = "READ"
  /\ usbCounter' = (usbCounter + 7) % 8
  /\ IF usbCounter = 0
     THEN /\ usbRdata' = Din /\ usbReady' = TRUE /\ usbState' = "LATCH"
          /\ usbCsn' = TRUE /\ usbRdn' = TRUE /\ usbWrn' = TRUE
     ELSE usbReady' = FALSE /\ UNCHANGED <<usbRdata, usbState, usbCsn, usbRdn, usbWrn>>
  /\ UNCHANGED <<usbA, usbDout, busDir>>

\* The CPU takes the answer; its request is still up in this clock.
Latch ==
  /\ usbState = "LATCH" /\ usbReady' = FALSE /\ usbState' = "IDLE"
  /\ UNCHANGED <<usbCounter, usbCsn, usbRdn, usbWrn, usbA, usbDout, busDir, usbRdata>>

\* The chip: a write is taken when its strobe ends, if the strobe was long
\* enough and select and data stay on; else the register is spoilt.
ChipEdge ==
  /\ strobe' = IF ~(Reading \/ Writing) THEN 0
               ELSE IF strobe = AccessClocks THEN strobe ELSE strobe + 1
  /\ usbChip' = IF Writing /\ (usbWrn' \/ usbCsn')
                THEN [usbChip EXCEPT ![usbA] =
                  IF /\ strobe + 1 >= AccessClocks
                     /\ ~usbCsn' /\ ~busDir /\ ~busDir' /\ usbDout' = usbDout
                  THEN usbDout ELSE Junk]
                ELSE usbChip

UsbEdge(valid, wr, a, d) ==
  /\ \/ valid /\ Start(wr, a, d)
     \/ ~valid /\ Rest
     \/ WriteCycle \/ ReadCycle \/ Latch
  /\ ChipEdge
=============================================================================
