----------------------------- MODULE SystemBus ------------------------------
(* The bus of fpga/pano_top.v: one master, the windows of its devices and     *)
(* their answers.  A step is one edge of the 100 MHz clock; the LPDDR         *)
(* subsystem is the word memory that CachedMemory implements.                 *)
EXTENDS SimpleUart, UsbBridge

ASSUME DataAssumption == Data \subseteq Char /\ Data # {}

\* One address in each window; registers of the USB controller; an address that
\* is in no window.
Place  == {"ram", "vram", "gpio", "uart", "opl", "ddr", "hole"} \cup Reg
Window == {"ram", "vram", "gpio", "uart", "opl", "ddr", "usb", "hole"}
Memory == {"ram", "gpio", "ddr"} \cup Reg    \* what can be read back
Written == Memory \cup {"vram", "opl"}

WindowOf(p) == IF p \in Reg THEN "usb" ELSE p

\* The names of the registers are not those of windows.
ASSUME RegAssumption == Reg \cap Window = {}

VARIABLES
  memValid, memAddr, memWstrb, memWdata,   \* the request of the CPU
  addrIn,       \* the decoded window: the registers addr_in_*
  defaultReady,
  memValidLast, cpuIrq,
  ram, ramRdata, vram, gpio, gpioRdata, opl,
  ddr, ddrState, ddrReady, ddrRdata,
  ref,          \* history: the last word stored at each place
  usbOpen       \* history: strobes given to the USB controller for the open access

cpuVars == <<memValid, memAddr, memWstrb, memWdata>>
decodeVars == <<addrIn, defaultReady, memValidLast, cpuIrq>>
ramVars == <<ram, ramRdata, vram, gpio, gpioRdata, opl>>
ddrVars == <<ddr, ddrState, ddrReady, ddrRdata>>
vars == <<cpuVars, decodeVars, ramVars, ddrVars, uartVars, usbVars, ref, usbOpen>>

-----------------------------------------------------------------------------
(* Wires.                                                                     *)

MemReady == uartReady \/ ddrReady \/ usbReady \/ defaultReady

Selected(w) == memValid /\ addrIn = w
Fresh(w) == Selected(w) /\ ~MemReady        \* ram_valid, vram_valid

\* Mutant of GeneralValid: not taken away by the answer.
GeneralValidHeld == memValid /\ addrIn \notin {"ddr", "uart", "usb"}

GeneralValid == memValid /\ ~MemReady /\ addrIn \notin {"ddr", "uart", "usb"}

AnyValid == Fresh("ram") \/ Fresh("vram")
            \/ \E w \in {"gpio", "usb", "uart", "ddr", "opl"} : Selected(w)

MemRdata == CASE addrIn = "ram"  -> ramRdata
              [] addrIn = "ddr"  -> ddrRdata
              [] addrIn = "gpio" -> gpioRdata
              [] addrIn = "usb"  -> usbRdata
              [] OTHER -> Junk

-----------------------------------------------------------------------------
(* The CPU.  It reads everything but the UART and the synthesiser, which      *)
(* would take a read for a write; the firmware never reads them.              *)

Request(a, wr, d) ==
  /\ memValid' = TRUE /\ memAddr' = a /\ memWstrb' = wr /\ memWdata' = d
  /\ a \in {"uart", "opl"} => wr
  /\ ~wr => d = memWdata      \* the write data register moves with a store only

\* A request is held until ready; then valid is low for at least one clock.
CpuEdge ==
  \/ memValid /\ ~MemReady /\ UNCHANGED cpuVars
  \/ memValid /\ MemReady /\ memValid' = FALSE /\ UNCHANGED <<memAddr, memWstrb, memWdata>>
  \/ ~memValid /\ UNCHANGED cpuVars
  \/ ~memValid /\ \E a \in Place, wr \in BOOLEAN, d \in Data : Request(a, wr, d)

\* The look-ahead address is decoded on every edge.  It is the address of the
\* request in the clock before valid rises; while valid is up it stays in the
\* window; at other times it may be anything the CPU computes with.
DecodeEdge ==
  IF memValid' THEN addrIn' = WindowOf(memAddr') ELSE addrIn' \in Window

\* Mutant of IrqEdge: it does not wait for the first clock of a request.
IrqAnyClock ==
  /\ memValidLast' = memValid
  /\ cpuIrq' = (cpuIrq \/ (memValid /\ ~AnyValid))

\* An access in no window is answered and raises the interrupt, for good.
IrqEdge ==
  /\ memValidLast' = memValid
  /\ cpuIrq' = (cpuIrq \/ (memValid /\ ~memValidLast /\ ~AnyValid))

-----------------------------------------------------------------------------
(* The devices that need no bridge.                                           *)

\* The block RAM shows the old word while a new one is written.
RamEdge ==
  /\ ram' = IF Fresh("ram") /\ memWstrb THEN memWdata ELSE ram
  /\ ramRdata' \in IF memAddr = "ram" THEN {ram} ELSE Data

\* Selected for both clocks of an access; the synthesiser ignores the strobes.
RegisterEdge ==
  /\ vram' = IF Fresh("vram") /\ memWstrb THEN memWdata ELSE vram
  /\ opl' = IF Selected("opl") THEN memWdata ELSE opl
  /\ gpio' = IF Selected("gpio") /\ memWstrb THEN memWdata ELSE gpio
  /\ gpioRdata' = IF Selected("gpio") /\ ~memWstrb THEN gpio ELSE gpioRdata

\* The LPDDR subsystem: the access happens after any time, ready is a pulse, and
\* the request must go before the next is seen.
DdrServe ==
  /\ Selected("ddr") /\ ddrState = "IDLE"
  /\ ddrReady' = TRUE /\ ddrState' = "WAIT"
  /\ ddr' = (IF memWstrb THEN memWdata ELSE ddr) /\ ddrRdata' = ddr
DdrWait ==
  /\ ddrReady' = FALSE
  /\ ddrState' = IF ddrState = "WAIT" /\ Selected("ddr") THEN "WAIT" ELSE "IDLE"
  /\ UNCHANGED <<ddr, ddrRdata>>
DdrEdge == DdrServe \/ DdrWait

Init ==
  /\ memValid = FALSE /\ memAddr \in Place /\ memWstrb = FALSE /\ memWdata \in Data
  /\ addrIn \in Window /\ defaultReady = FALSE /\ memValidLast = FALSE /\ cpuIrq = FALSE
  /\ ref \in [Written -> Data]
  /\ ram = ref["ram"] /\ vram = ref["vram"] /\ gpio = ref["gpio"] /\ opl = ref["opl"]
  /\ ddr = ref["ddr"] /\ ddrState = "IDLE" /\ ddrReady = FALSE
  /\ ramRdata \in Data /\ gpioRdata \in Data /\ ddrRdata \in Data
  /\ UartInit /\ UsbInit /\ usbChip = [r \in Reg |-> ref[r]]
  /\ usbOpen = 0

\* History: what has been stored, and what the USB controller saw of an access.
HistoryEdge ==
  /\ ref' = IF memValid /\ MemReady /\ memWstrb /\ memAddr \in Written
            THEN [ref EXCEPT ![memAddr] = memWdata] ELSE ref
  /\ usbOpen' = (IF memValid /\ MemReady THEN 0 ELSE usbOpen)
                + (IF ~(Reading \/ Writing) /\ (Reading \/ Writing)' THEN 1 ELSE 0)

Edge ==
  /\ CpuEdge /\ DecodeEdge /\ IrqEdge
  /\ defaultReady' = GeneralValid
  /\ RamEdge /\ RegisterEdge /\ DdrEdge
  /\ UartEdge(Selected("uart"), memWdata)
  /\ UsbEdge(Selected("usb"), memWstrb, IF memAddr \in Reg THEN memAddr ELSE usbA, memWdata)
  /\ HistoryEdge

Next == Edge

Safety == Init /\ [][Next]_vars

\* The clock runs, and the LPDDR answers (FlatMemory of CachedMemory).
Spec == Safety /\ WF_vars(Next) /\ SF_vars(Next /\ DdrServe)

-----------------------------------------------------------------------------
(* Properties.                                                                *)

TypeOK ==
  /\ memValid \in BOOLEAN /\ memAddr \in Place /\ memWstrb \in BOOLEAN /\ memWdata \in Data
  /\ addrIn \in Window /\ {defaultReady, memValidLast, cpuIrq} \subseteq BOOLEAN
  /\ {ram, ramRdata, vram, gpio, gpioRdata, opl, ddr, ddrRdata} \subseteq Data
  /\ ddrState \in {"IDLE", "WAIT"} /\ ddrReady \in BOOLEAN
  /\ ref \in [Written -> Data] /\ usbOpen \in 0 .. 1
  /\ UartTypeOK /\ UsbTypeOK

\* The four ready lines are or-ed without looking at the address, and two of them
\* are registers that outlive the select by a clock: none may be up but that of
\* the device addressed, and none when no request is open (pano_top.v 398-405).
Answering == {w \in {"uart", "ddr", "usb", "default"} :
               CASE w = "uart" -> uartReady [] w = "ddr" -> ddrReady
                 [] w = "usb" -> usbReady [] OTHER -> defaultReady}
NoStrayAnswer ==
  Answering # {} => /\ memValid
                    /\ Answering = {IF addrIn \in {"uart", "ddr", "usb"} THEN addrIn ELSE "default"}

\* Every read of something that can be read back returns what was stored last,
\* through a window decoded a clock before the request, a read-first RAM, a chip
\* that is read right after a write answered before it was made.
ReadsRight ==
  memValid /\ MemReady /\ ~memWstrb /\ memAddr \in Memory => MemRdata = ref[memAddr]

\* When the bus is idle every device holds what was stored there last, the USB
\* controller as soon as its write cycle is over: nothing is written in passing.
WritesLand ==
  ~memValid => /\ ref["ram"] = ram /\ ref["vram"] = vram /\ ref["gpio"] = gpio
               /\ ref["opl"] = opl /\ ref["ddr"] = ddr
               /\ usbState = "WRITE" \/ \A r \in Reg : ref[r] = usbChip[r]

\* The USB controller sees one strobe for each access: a second one would pop its
\* FIFOs, although the request is still up when the answer is given
\* (usb_picorv_bridge.v 65-71, 94-112).
UsbOnce ==
  /\ memValid /\ usbReady => usbOpen = 1
  /\ ~memValid => usbOpen = 0

\* Every access reaches its device, once, with its data (pano_top.v 379-405, 611-617).
DevicesRight == ReadsRight /\ WritesLand /\ UsbOnce

\* The interrupt is raised by an access in no window, and by no other.
TrapExactly ==
  [][/\ cpuIrq' # cpuIrq => memValid /\ memAddr = "hole"
     /\ memValid /\ MemReady /\ memAddr = "hole" => cpuIrq]_vars

\* Every bit from start to stop is on the line for one full period and the frame
\* is not disturbed; ready comes when the stop bit is over and the byte was the
\* CPU's, however the strobe falls against the divider (simple_uart.v 28-48).
UartFrames ==
  [][/\ shiftReg.shifted \in 1 .. FrameLen - 1 /\ shiftReg' # shiftReg
          => held = UartDiv + 1 /\ shiftReg' = [shiftReg EXCEPT !.shifted = @ + 1]
     /\ uartReady' => shiftReg' = [dat |-> memWdata, shifted |-> FrameLen]]_vars

\* The CPU never hangs: each request is answered, also by the UART, which looks
\* for the edge of its strobe in all clocks but one of each bit.
Answered == memValid ~> (memValid /\ MemReady)
=============================================================================
