-------------------------- MODULE SystemBusProofs ---------------------------
(* Proofs about SystemBus for every divider of the UART, every set of USB     *)
(* registers and of words: the bus answers the request that is open and no    *)
(* other, and every access reaches its device once, with its data.            *)
EXTENDS SystemBus, TLAPS

-----------------------------------------------------------------------------
(* The inductive invariant: who may answer, what each device still owes, and  *)
(* how far the UART frame and the USB cycle have come.                        *)

\* While a request is open its window is decoded.
CpuInv ==
  memValid => /\ addrIn = WindowOf(memAddr)
              /\ memAddr \in {"uart", "opl"} => memWstrb

\* An answer is for the open request, and comes in its second clock or later.
AnswerInv ==
  /\ defaultReady => memValid /\ memValidLast /\ addrIn \notin {"ddr", "uart", "usb"}
  /\ ddrReady => Selected("ddr") /\ ddrState = "WAIT"
  /\ ddrState = "WAIT" => ddrReady \/ ~memValid
  /\ uartReady => Selected("uart") /\ counter = UartDiv /\ txCount = 0
  /\ usbReady <=> usbState = "LATCH" \/ (usbState = "WRITE" /\ usbCounter = 4)
  /\ usbReady \/ usbState = "READ" => Selected("usb")

\* A frame is the open request of the CPU, bit by bit.
UartInv ==
  /\ txCount > 0 \/ uartReady =>
       Selected("uart") /\ lastWstrb /\ shiftReg.dat = memWdata
  /\ shiftReg.shifted = FrameLen - txCount
  /\ shiftReg.shifted \in 1 .. FrameLen - 1 => held + counter = UartDiv + 1

\* The clocks the strobe of a cycle has lasted, as the chip counts them.
StrobeNow == strobe = IF 4 - usbCounter < AccessClocks THEN 4 - usbCounter ELSE AccessClocks

\* The cycle of the USB controller.
UsbInv ==
  /\ usbState \in {"IDLE", "LATCH"} => usbCsn /\ busDir
  /\ usbState \in {"WRITE", "READ"} => ~usbCsn /\ usbCounter \in 0 .. 4 /\ StrobeNow
  /\ usbState = "WRITE" => usbRdn /\ ~busDir /\ (usbWrn <=> usbCounter = 0)
  /\ usbState = "READ"  => ~usbRdn /\ usbWrn /\ busDir
  /\ usbState \in {"READ", "LATCH"} => ~memWstrb /\ usbA = memAddr
  /\ usbState = "WRITE" /\ usbReady => memWstrb /\ usbA = memAddr /\ usbDout = memWdata
  /\ usbState = "LATCH" => usbRdata = usbChip[usbA]
  /\ usbOpen = IF usbReady \/ usbState = "READ" THEN 1 ELSE 0

\* A store that has been made but not yet answered, or answered but not made.
Stored(w) == Selected(w) /\ MemReady /\ memWstrb
Owed(r) == usbState = "WRITE" /\ usbCounter \in 1 .. 3 /\ r = usbA

DataInv ==
  /\ ram = IF Stored("ram") THEN memWdata ELSE ref["ram"]
  /\ vram = IF Stored("vram") THEN memWdata ELSE ref["vram"]
  /\ gpio = IF Stored("gpio") THEN memWdata ELSE ref["gpio"]
  /\ opl = IF Stored("opl") THEN memWdata ELSE ref["opl"]
  /\ ddr = IF Stored("ddr") THEN memWdata ELSE ref["ddr"]
  /\ \A r \in Reg : ref[r] = IF Owed(r) THEN usbDout ELSE usbChip[r]

ReadInv ==
  /\ Selected("ram") /\ MemReady /\ ~memWstrb => ramRdata = ram
  /\ Selected("gpio") /\ MemReady /\ ~memWstrb => gpioRdata = gpio
  /\ Selected("ddr") /\ MemReady /\ ~memWstrb => ddrRdata = ddr

IrqInv == Selected("hole") /\ memValidLast => cpuIrq

IInv ==
  /\ TypeOK /\ CpuInv /\ AnswerInv /\ UartInv /\ UsbInv /\ DataInv /\ ReadInv /\ IrqInv

-----------------------------------------------------------------------------
(* Operators.                                                                 *)

\* The counter of the USB bridge counts down in three bits.
LEMMA CountDown ==
  ASSUME NEW c \in 0 .. 7
  PROVE  /\ (c + 7) % 8 \in 0 .. 7
         /\ c > 0 => (c + 7) % 8 = c - 1
<1>1. c = 0 \/ c = 1 \/ c = 2 \/ c = 3 \/ c = 4 \/ c = 5 \/ c = 6 \/ c = 7
  OBVIOUS
<1>2. /\ 7 % 8 = 7 /\ 8 % 8 = 0 /\ 9 % 8 = 1 /\ 10 % 8 = 2 /\ 11 % 8 = 3
      /\ 12 % 8 = 4 /\ 13 % 8 = 5 /\ 14 % 8 = 6
  OBVIOUS
<1> QED BY <1>1, <1>2

\* A place is in one window, and only a register of the controller is in "usb".
LEMMA PlaceWindow ==
  ASSUME NEW p \in Place
  PROVE  /\ WindowOf(p) \in Window
         /\ WindowOf(p) = "usb" <=> p \in Reg
         /\ \A w \in Window \ {"usb"} : WindowOf(p) = w <=> p = w
BY RegAssumption DEF Place, Window, WindowOf

-----------------------------------------------------------------------------
(* The request.                                                               *)

LEMMA EdgeSplit ==
  ASSUME Edge
  PROVE  /\ CpuEdge /\ DecodeEdge /\ IrqEdge /\ defaultReady' = GeneralValid
         /\ RamEdge /\ RegisterEdge /\ DdrEdge /\ HistoryEdge
         /\ UartEdge(Selected("uart"), memWdata)
         /\ UsbEdge(Selected("usb"), memWstrb,
                    IF memAddr \in Reg THEN memAddr ELSE usbA, memWdata)
BY DEF Edge

\* Only the device that is addressed answers, and only while a request is open.
LEMMA OneAnswers ==
  ASSUME IInv
  PROVE  /\ MemReady => memValid
         /\ uartReady => addrIn = "uart" /\ ~ddrReady /\ ~usbReady /\ ~defaultReady
         /\ ddrReady => addrIn = "ddr" /\ ~uartReady /\ ~usbReady /\ ~defaultReady
         /\ usbReady => addrIn = "usb" /\ ~uartReady /\ ~ddrReady /\ ~defaultReady
         /\ defaultReady => addrIn \notin {"uart", "ddr", "usb"}
                            /\ ~uartReady /\ ~ddrReady /\ ~usbReady
BY DEF IInv, AnswerInv, Selected, MemReady

\* A request that is not answered is held, in its window.
LEMMA Held ==
  ASSUME IInv, Edge, memValid, ~MemReady
  PROVE  /\ memValid' /\ memAddr' = memAddr /\ memWstrb' = memWstrb /\ memWdata' = memWdata
         /\ addrIn' = addrIn
         /\ \A w : Selected(w)' <=> Selected(w)
<1>1. UNCHANGED cpuVars /\ addrIn = WindowOf(memAddr) /\ DecodeEdge
  BY EdgeSplit DEF CpuEdge, IInv, CpuInv
<1>2. memValid' /\ memAddr' = memAddr /\ memWstrb' = memWstrb /\ memWdata' = memWdata
  BY <1>1 DEF cpuVars
<1> QED BY <1>1, <1>2 DEF DecodeEdge, Selected

\* A request that is answered goes.
LEMMA Closed ==
  ASSUME IInv, Edge, MemReady
  PROVE  /\ memValid /\ ~memValid'
         /\ memAddr' = memAddr /\ memWstrb' = memWstrb /\ memWdata' = memWdata
         /\ \A w : ~Selected(w)'
BY OneAnswers, EdgeSplit DEF CpuEdge, Selected

LEMMA CpuStep ==
  ASSUME IInv, Edge
  PROVE  CpuInv'
<1>1. CASE memValid /\ ~MemReady
  BY <1>1, Held DEF IInv, CpuInv
<1>2. CASE MemReady
  BY <1>2, Closed DEF CpuInv
<1>3. CASE ~memValid
  <2>1. ~memValid' \/ (memAddr' \in {"uart", "opl"} => memWstrb')
    <3>1. CASE UNCHANGED cpuVars
      BY <1>3, <3>1 DEF cpuVars
    <3>2. CASE \E a \in Place, wr \in BOOLEAN, d \in Data : Request(a, wr, d)
      <4>1. PICK a \in Place, wr \in BOOLEAN, d \in Data : Request(a, wr, d)
        BY <3>2
      <4> QED BY <4>1, Zenon DEF Request
    <3> QED BY <1>3, <3>1, <3>2, EdgeSplit DEF CpuEdge
  <2> QED BY <2>1, EdgeSplit DEF DecodeEdge, CpuInv
<1> QED BY <1>1, <1>2, <1>3

\* The types of the request.
LEMMA CpuType ==
  ASSUME IInv, Edge
  PROVE  /\ memValid' \in BOOLEAN /\ memAddr' \in Place /\ memWstrb' \in BOOLEAN
         /\ memWdata' \in Data /\ addrIn' \in Window
<1>1. /\ memValid' \in BOOLEAN /\ memAddr' \in Place /\ memWstrb' \in BOOLEAN
      /\ memWdata' \in Data
  BY EdgeSplit DEF CpuEdge, Request, cpuVars, IInv, TypeOK
<1> QED BY <1>1, PlaceWindow, EdgeSplit DEF DecodeEdge

-----------------------------------------------------------------------------
(* Who answers.                                                               *)

\* The UART: a frame is open only for the request that loaded it.
LEMMA UartStep ==
  ASSUME IInv, Edge
  PROVE  /\ UartInv'
         /\ uartReady' => Selected("uart")' /\ counter' = UartDiv /\ txCount' = 0
<1> DEFINE sel == Selected("uart")
<1>0. /\ counter \in 0 .. UartDiv /\ txCount \in 0 .. 11 /\ held \in Nat /\ UartDiv \in Nat
      /\ UartDiv > 0 /\ shiftReg \in [dat : Char, shifted : 0 .. 11]
      /\ lastWstrb \in BOOLEAN /\ uartReady \in BOOLEAN /\ FrameLen = 11
  BY UartDivAssumption DEF IInv, TypeOK, UartTypeOK, FrameLen
<1>1. /\ uartReady => sel /\ counter = UartDiv /\ txCount = 0
      /\ txCount > 0 \/ uartReady => sel /\ lastWstrb /\ shiftReg.dat = memWdata
      /\ shiftReg.shifted = 11 - txCount
      /\ shiftReg.shifted \in 1 .. 10 => held + counter = UartDiv + 1
  BY <1>0 DEF IInv, AnswerInv, UartInv
<1>2. sel /\ ~uartReady => sel' /\ memWdata' = memWdata
  <2>1. sel /\ ~uartReady => memValid /\ ~MemReady
    BY OneAnswers DEF Selected, MemReady
  <2> QED BY <2>1, Held
<1>3. /\ Count(sel, memWdata) \/ Shift
      /\ held' = IF shiftReg'.shifted # shiftReg.shifted THEN 1
                 ELSE IF held = UartDiv + 2 THEN held ELSE held + 1
  BY EdgeSplit DEF UartEdge
<1> HIDE DEF sel
<1>4. CASE Count(sel, memWdata) /\ sel /\ ~lastWstrb
  <2>1. /\ counter' = counter - 1 /\ lastWstrb' = sel /\ uartReady' = FALSE
        /\ shiftReg' = [dat |-> memWdata, shifted |-> 0] /\ txCount' = 11
    BY <1>0, <1>4 DEF Count
  <2>2. sel' /\ memWdata' = memWdata
    BY <1>1, <1>2, <1>4
  <2> QED BY <1>4, <2>1, <2>2 DEF UartInv, FrameLen, sel
<1>5. CASE Count(sel, memWdata) /\ ~(sel /\ ~lastWstrb)
  <2>1. /\ counter # 0 /\ counter' = counter - 1 /\ lastWstrb' = sel /\ uartReady' = FALSE
        /\ shiftReg' = shiftReg /\ txCount' = txCount
    BY <1>5 DEF Count
  <2>2. txCount > 0 => sel' /\ memWdata' = memWdata /\ sel /\ shiftReg.dat = memWdata
    BY <1>0, <1>1, <1>2
  <2>3. shiftReg'.shifted \in 1 .. 10 => held' + counter' = UartDiv + 1
    BY <1>0, <1>1, <1>3, <2>1
  <2> QED BY <1>0, <1>1, <2>1, <2>2, <2>3 DEF UartInv, FrameLen, sel
<1>6. CASE Shift
  <2>1. /\ counter = 0 /\ counter' = UartDiv /\ lastWstrb' = lastWstrb
        /\ shiftReg' = [shiftReg EXCEPT !.shifted = IF @ = 11 THEN @ ELSE @ + 1]
        /\ txCount' = IF txCount = 0 THEN 0 ELSE txCount - 1
        /\ uartReady' = (uartReady \/ txCount = 1)
    BY <1>6 DEF Shift, FrameLen
  <2>2. ~uartReady /\ (uartReady' <=> txCount = 1)
    BY <1>0, <1>1, <2>1
  <2>3. /\ shiftReg'.dat = shiftReg.dat
        /\ shiftReg'.shifted = IF shiftReg.shifted = 11 THEN 11 ELSE shiftReg.shifted + 1
    BY <1>0, <2>1
  <2>4. txCount > 0 => sel' /\ memWdata' = memWdata /\ lastWstrb /\ shiftReg.dat = memWdata
    BY <1>1, <1>2, <2>2
  <2>5. txCount' > 0 \/ uartReady' => txCount > 0
    BY <1>0, <2>1, <2>2
  <2>6. shiftReg'.shifted = 11 - txCount'
    BY <1>0, <1>1, <2>1, <2>3
  <2>7. shiftReg'.shifted \in 1 .. 10 => held' + counter' = UartDiv + 1
    BY <1>0, <1>1, <1>3, <2>1, <2>3
  <2>8. uartReady' => counter' = UartDiv /\ txCount' = 0
    BY <2>1, <2>2
  <2> QED BY <2>1, <2>3, <2>4, <2>5, <2>6, <2>7, <2>8 DEF UartInv, FrameLen, sel
<1> QED BY <1>3, <1>4, <1>5, <1>6

LEMMA UartType ==
  ASSUME IInv, Edge
  PROVE  UartTypeOK'
<1> DEFINE sel == Selected("uart")
<1>0. /\ counter \in 0 .. UartDiv /\ txCount \in 0 .. 11 /\ held \in 0 .. UartDiv + 2
      /\ UartDiv \in Nat /\ UartDiv > 0 /\ shiftReg \in [dat : Char, shifted : 0 .. 11]
      /\ lastWstrb \in BOOLEAN /\ uartReady \in BOOLEAN /\ FrameLen = 11
      /\ memWdata \in Char /\ sel \in BOOLEAN
  BY UartDivAssumption, DataAssumption
     DEF IInv, TypeOK, UartTypeOK, FrameLen, Selected
<1>1. UartEdge(sel, memWdata)
  BY EdgeSplit
<1> HIDE DEF sel
<1>2. held' \in 0 .. UartDiv + 2
  BY <1>0, <1>1 DEF UartEdge
<1>3. CASE Count(sel, memWdata)
  <2>0. lastWstrb' = sel /\ uartReady' = FALSE /\ counter # 0 /\ counter' = counter - 1
        /\ (txCount' = 11 \/ txCount' = txCount)
    BY <1>0, <1>3 DEF Count
  <2>1. counter' \in 0 .. UartDiv /\ txCount' \in 0 .. 11
        /\ lastWstrb' \in BOOLEAN /\ uartReady' \in BOOLEAN
    <3>1. counter' \in 0 .. UartDiv
      BY <1>0, <2>0
    <3>2. txCount' \in 0 .. 11
      BY <1>0, <2>0
    <3>3. lastWstrb' \in BOOLEAN /\ uartReady' \in BOOLEAN
      BY <1>0, <2>0
    <3> QED BY <3>1, <3>2, <3>3
  <2>2. shiftReg' \in [dat : Char, shifted : 0 .. 11]
    BY <1>0, <1>3 DEF Count
  <2> QED BY <1>0, <1>2, <2>1, <2>2 DEF UartTypeOK
<1>4. CASE Shift
  <2>1. counter' \in 0 .. UartDiv /\ txCount' \in 0 .. 11
        /\ lastWstrb' \in BOOLEAN /\ uartReady' \in BOOLEAN
    BY <1>0, <1>4 DEF Shift
  <2>2. shiftReg' \in [dat : Char, shifted : 0 .. 11]
    BY <1>0, <1>4 DEF Shift
  <2> QED BY <1>0, <1>2, <2>1, <2>2 DEF UartTypeOK
<1> QED BY <1>1, <1>3, <1>4 DEF UartEdge

\* The LPDDR subsystem answers its own request with one pulse.
LEMMA DdrStep ==
  ASSUME IInv, Edge
  PROVE  /\ ddrReady' => Selected("ddr")' /\ ddrState' = "WAIT"
         /\ ddrState' = "WAIT" => ddrReady' \/ ~memValid'
         /\ ddrState' \in {"IDLE", "WAIT"} /\ ddrReady' \in BOOLEAN
<1>0. /\ ddrState = "WAIT" => ddrReady \/ ~memValid
      /\ ddrReady => Selected("ddr") /\ ddrState = "WAIT"
  BY DEF IInv, AnswerInv
<1>1. CASE DdrServe
  <2>1. memValid /\ ~MemReady
    BY <1>0, <1>1, OneAnswers DEF DdrServe, Selected, MemReady
  <2> QED BY <1>1, <2>1, Held DEF DdrServe
<1>2. CASE DdrWait
  <2>1. ddrState' = "WAIT" => MemReady
    BY <1>0, <1>2 DEF DdrWait, Selected, MemReady
  <2> QED BY <1>2, <2>1, Closed DEF DdrWait
<1> QED BY <1>1, <1>2, EdgeSplit DEF DdrEdge

\* Everything else is answered in the clock after its request was seen.
LEMMA DefaultStep ==
  ASSUME IInv, Edge
  PROVE  defaultReady' => memValid' /\ memValidLast' /\ addrIn' \notin {"ddr", "uart", "usb"}
<1>1. defaultReady' => memValid /\ ~MemReady /\ addrIn \notin {"ddr", "uart", "usb"}
  BY EdgeSplit DEF GeneralValid
<1>2. memValidLast' = memValid
  BY EdgeSplit DEF IrqEdge
<1> QED BY <1>1, <1>2, Held

\* What the inputs of the USB bridge are while it is selected.
LEMMA UsbSelected ==
  ASSUME IInv, Selected("usb")
  PROVE  /\ memAddr \in Reg
         /\ ~usbReady => ~MemReady
         /\ usbReady => MemReady
BY OneAnswers, PlaceWindow DEF IInv, TypeOK, CpuInv, Selected, MemReady

\* The types of the USB bridge.
LEMMA UsbFacts ==
  ASSUME IInv
  PROVE  /\ usbState \in {"IDLE", "WRITE", "READ", "LATCH"} /\ usbCounter \in 0 .. 7
         /\ usbReady \in BOOLEAN /\ usbCsn \in BOOLEAN /\ usbRdn \in BOOLEAN
         /\ usbWrn \in BOOLEAN /\ busDir \in BOOLEAN
         /\ usbA \in Reg /\ usbDout \in Data
         /\ usbRdata \in Word /\ usbChip \in [Reg -> Word]
         /\ strobe \in 0 .. AccessClocks
BY DEF IInv, TypeOK, UsbTypeOK

\* The actions of the bridge at one edge: a request begins a cycle, the others
\* go on with it.
UsbCases ==
  \/ Selected("usb") /\ Start(memWstrb, memAddr, memWdata)
  \/ ~Selected("usb") /\ Rest
  \/ WriteCycle \/ ReadCycle \/ Latch

LEMMA UsbSplit ==
  ASSUME IInv, Edge
  PROVE  UsbCases /\ ChipEdge
<1>1. Selected("usb") => memAddr \in Reg
  BY UsbSelected
<1>2. CASE Selected("usb")
  BY <1>1, <1>2, EdgeSplit DEF UsbEdge, UsbCases
<1>3. CASE ~Selected("usb")
  BY <1>3, EdgeSplit DEF UsbEdge, UsbCases
<1> QED BY <1>2, <1>3

\* The strobe the chip sees in each state of the bridge.
LEMMA Strobes ==
  ASSUME IInv
  PROVE  /\ usbState \in {"IDLE", "LATCH"} => ~Reading /\ ~Writing
         /\ usbState = "READ" => Reading /\ ~Writing
         /\ usbState = "WRITE" => ~Reading /\ (Writing <=> usbCounter # 0)
BY DEF IInv, UsbInv, Reading, Writing

\* One clock of a write: the strobe ends at one, the cycle at zero.
LEMMA WriteMove ==
  ASSUME IInv, WriteCycle
  PROVE  /\ usbState = "WRITE" /\ ~usbReady' /\ usbCounter \in 0 .. 4
         /\ usbState' = IF usbCounter = 0 THEN "IDLE" ELSE "WRITE"
         /\ usbCounter > 0 => usbCounter' = usbCounter - 1
         /\ usbCounter' \in 0 .. 7
         /\ usbCsn' <=> usbCounter = 0
         /\ busDir' <=> usbCounter = 0
         /\ usbWrn' <=> usbCounter \in {0, 1}
         /\ usbRdn' /\ usbA' = usbA /\ usbDout' = usbDout /\ usbRdata' = usbRdata
         /\ {usbReady', usbCsn', usbRdn', usbWrn', busDir'} \subseteq BOOLEAN
<1>1. /\ usbState = "WRITE" /\ usbReady' = FALSE
      /\ usbCounter' = (usbCounter + 7) % 8
      /\ usbWrn' = (usbWrn \/ usbCounter = 1)
      /\ usbCsn' = (usbCsn \/ usbCounter = 0)
      /\ busDir' = (busDir \/ usbCounter = 0)
      /\ usbState' = IF usbCounter = 0 THEN "IDLE" ELSE "WRITE"
      /\ usbRdn' = usbRdn /\ usbA' = usbA /\ usbDout' = usbDout /\ usbRdata' = usbRdata
  BY DEF WriteCycle
<1>2. /\ usbCounter \in 0 .. 4 /\ usbCounter \in 0 .. 7 /\ usbRdn = TRUE
      /\ busDir = FALSE /\ usbCsn = FALSE /\ usbWrn \in BOOLEAN /\ (usbWrn <=> usbCounter = 0)
  BY <1>1, UsbFacts DEF IInv, UsbInv
<1>3. usbCsn' <=> usbCounter = 0
  BY <1>1, <1>2
<1>4. busDir' <=> usbCounter = 0
  BY <1>1, <1>2
<1>5. usbWrn' <=> usbCounter \in {0, 1}
  BY <1>1, <1>2
<1>6. usbWrn' \in BOOLEAN
  BY <1>1, <1>2
<1>7. usbCsn' \in BOOLEAN /\ busDir' \in BOOLEAN
  BY <1>1, <1>2
<1> QED BY <1>1, <1>2, <1>3, <1>4, <1>5, <1>6, <1>7, CountDown

\* The chip takes a write when its strobe ends, and changes at no other time.
LEMMA ChipStep ==
  ASSUME IInv, Edge
  PROVE  usbChip' = IF usbState = "WRITE" /\ usbCounter = 1
                    THEN [usbChip EXCEPT ![usbA] = usbDout] ELSE usbChip
<1>0. UsbCases /\ ChipEdge /\ AccessClocks \in 1 .. 4
  BY UsbSplit, AccessAssumption
<1>1. CASE usbState = "WRITE" /\ usbCounter # 0
  <2>1. /\ Writing /\ usbCounter \in 1 .. 4 /\ ~busDir /\ ~usbCsn /\ ~usbWrn
        /\ strobe = IF 4 - usbCounter < AccessClocks THEN 4 - usbCounter ELSE AccessClocks
    BY <1>1, Strobes DEF IInv, UsbInv, StrobeNow
  <2>2. WriteCycle
    BY <1>0, <1>1 DEF UsbCases, Start, Rest, ReadCycle, Latch
  <2>3. /\ usbWrn' <=> usbCounter = 1
        /\ ~usbCsn' /\ ~busDir' /\ usbDout' = usbDout
    BY <1>1, <2>1, <2>2, WriteMove
  <2>4. usbCounter = 1 => strobe + 1 >= AccessClocks
    BY <1>0, <2>1
  <2> QED BY <1>0, <1>1, <2>1, <2>3, <2>4 DEF ChipEdge
<1>2. CASE ~(usbState = "WRITE" /\ usbCounter # 0)
  <2>1. ~Writing
    BY <1>2, UsbFacts, Strobes
  <2> QED BY <1>0, <1>2, <2>1 DEF ChipEdge
<1> QED BY <1>1, <1>2

\* The strobe gets one clock longer at each edge of a cycle.
LEMMA StrobeStep ==
  ASSUME IInv, Edge, usbState \in {"WRITE", "READ"}, usbCounter # 0,
         usbCounter' = usbCounter - 1
  PROVE  StrobeNow'
<1>1. /\ usbCounter \in 0 .. 4 /\ AccessClocks \in 1 .. 4 /\ (Reading \/ Writing)
      /\ strobe = IF 4 - usbCounter < AccessClocks THEN 4 - usbCounter ELSE AccessClocks
  BY Strobes, AccessAssumption DEF IInv, UsbInv, StrobeNow
<1>2. strobe' = IF strobe = AccessClocks THEN strobe ELSE strobe + 1
  BY <1>1, UsbSplit DEF ChipEdge
<1> QED BY <1>1, <1>2 DEF StrobeNow

\* The strobes given to the controller for the open access: one begins with
\* each cycle, and the count is taken back with the answer.
LEMMA OpenStep ==
  ASSUME IInv, Edge
  PROVE  usbOpen' = (IF MemReady THEN 0 ELSE usbOpen)
                    + (IF ~(Reading \/ Writing) /\ (Reading \/ Writing)' THEN 1 ELSE 0)
BY OneAnswers, EdgeSplit DEF HistoryEdge

\* What UsbInv and AnswerInv say of the bridge, in one.
UsbPart ==
  /\ UsbInv
  /\ usbReady <=> usbState = "LATCH" \/ (usbState = "WRITE" /\ usbCounter = 4)
  /\ usbReady \/ usbState = "READ" => Selected("usb")

\* A request begins a cycle.
LEMMA UsbStart ==
  ASSUME IInv, Edge, Selected("usb"), Start(memWstrb, memAddr, memWdata)
  PROVE  UsbPart'
<1>1. /\ usbState = "IDLE" /\ ~usbReady /\ usbReady = FALSE /\ usbCsn /\ busDir = TRUE
      /\ usbOpen = 0 /\ memAddr \in Reg /\ memWdata \in Data /\ memWstrb \in BOOLEAN
      /\ ~Reading /\ ~Writing /\ AccessClocks \in 1 .. 4
  BY Strobes, UsbFacts, UsbSelected, AccessAssumption
     DEF Start, IInv, TypeOK, AnswerInv, UsbInv
<1>2. /\ Selected("usb")' /\ memAddr' = memAddr /\ memWstrb' = memWstrb
      /\ memWdata' = memWdata /\ ~MemReady
  BY <1>1, UsbSelected, Held DEF Selected
<1>3. /\ usbCsn' = FALSE /\ usbA' = memAddr /\ usbCounter' = 4 /\ usbRdata' = usbRdata
      /\ usbWrn' = ~memWstrb /\ usbRdn' = memWstrb
  BY DEF Start
<1>4. strobe' = 0 /\ usbChip' = usbChip
  BY <1>1, UsbSplit, ChipStep DEF ChipEdge
<1>5. StrobeNow'
  BY <1>1, <1>3, <1>4 DEF StrobeNow
<1>6. usbOpen' = 1
  <2>1. (Reading \/ Writing)'
    BY <1>1, <1>3 DEF Reading, Writing
  <2> QED BY <1>1, <1>2, <2>1, OpenStep
<1>7. CASE memWstrb
  <2>1. /\ usbState' = "WRITE" /\ usbReady' = TRUE /\ busDir' = FALSE /\ usbDout' = memWdata
        /\ usbWrn' = FALSE /\ usbRdn' = TRUE
    BY <1>1, <1>3, <1>7 DEF Start
  <2> QED BY <1>2, <1>3, <1>5, <1>6, <1>7, <2>1 DEF UsbPart, UsbInv
<1>8. CASE ~memWstrb
  <2>1. /\ usbState' = "READ" /\ usbReady' = FALSE /\ busDir' = TRUE /\ usbDout' = usbDout
        /\ usbWrn' = TRUE /\ usbRdn' = FALSE
    BY <1>1, <1>3, <1>8 DEF Start
  <2> QED BY <1>2, <1>3, <1>5, <1>6, <1>8, <2>1 DEF UsbPart, UsbInv
<1> QED BY <1>7, <1>8

\* Without a request the chip is let alone.
LEMMA UsbRest ==
  ASSUME IInv, Edge, ~Selected("usb"), Rest
  PROVE  UsbPart'
<1>1. /\ usbState = "IDLE" /\ usbReady = FALSE /\ usbOpen = 0
      /\ ~Reading /\ ~Writing /\ AccessClocks \in 1 .. 4
  BY Strobes, UsbFacts, AccessAssumption DEF Rest, IInv, AnswerInv, UsbInv
<1>2. /\ usbCsn' = TRUE /\ usbRdn' = TRUE /\ usbWrn' = TRUE /\ busDir' = TRUE
      /\ UNCHANGED <<usbState, usbCounter, usbReady, usbA, usbDout, usbRdata>>
  BY DEF Rest
<1>3. strobe' = 0 /\ usbChip' = usbChip
  BY <1>1, UsbSplit, ChipStep DEF ChipEdge
<1>4. usbOpen' = 0
  <2>1. ~(Reading \/ Writing)'
    BY <1>2 DEF Reading, Writing
  <2> QED BY <1>1, <2>1, OpenStep
<1> QED BY <1>1, <1>2, <1>4 DEF UsbPart, UsbInv

\* One clock of a write.
LEMMA UsbWrite ==
  ASSUME IInv, Edge, WriteCycle
  PROVE  UsbPart'
<1>1. /\ usbState = "WRITE" /\ usbRdn /\ ~busDir /\ ~Reading /\ usbCounter \in 0 .. 4
      /\ usbReady <=> usbCounter = 4
      /\ usbReady \in BOOLEAN /\ (usbOpen = IF usbReady THEN 1 ELSE 0)
      /\ usbReady => MemReady
      /\ Writing <=> usbCounter # 0
  BY Strobes, WriteMove, UsbFacts DEF IInv, AnswerInv, UsbInv, MemReady
<1>2. usbOpen' = 0
  <2>1. ~(~(Reading \/ Writing) /\ (Reading \/ Writing)')
    BY <1>1, WriteMove DEF Reading, Writing
  <2> QED BY <1>1, <2>1, OpenStep
<1>3. CASE usbCounter = 0
  BY <1>1, <1>2, <1>3, WriteMove DEF UsbPart, UsbInv
<1>4. CASE usbCounter # 0
  <2>1. usbCounter' = usbCounter - 1 /\ usbCounter' \in 0 .. 3 /\ usbState' = "WRITE"
    BY <1>1, <1>4, WriteMove
  <2>2. StrobeNow'
    BY <1>1, <1>4, <2>1, StrobeStep
  <2>3. usbWrn' <=> usbCounter' = 0
    BY <1>1, <1>4, <2>1, WriteMove
  <2> QED BY <1>1, <1>2, <1>4, <2>1, <2>2, <2>3, WriteMove DEF UsbPart, UsbInv
<1> QED BY <1>3, <1>4

\* One clock of a read; the last one takes the data.
LEMMA UsbRead ==
  ASSUME IInv, Edge, ReadCycle
  PROVE  UsbPart'
<1>1. /\ usbState = "READ" /\ Selected("usb") /\ ~usbReady /\ ~MemReady /\ usbOpen = 1
      /\ ~usbCsn /\ ~usbRdn /\ usbWrn /\ busDir /\ StrobeNow
      /\ ~memWstrb /\ usbA = memAddr /\ Reading /\ ~Writing
      /\ usbCounter \in 0 .. 4 /\ usbCounter \in 0 .. 7 /\ AccessClocks \in 1 .. 4
  BY Strobes, UsbSelected, UsbFacts, AccessAssumption
     DEF ReadCycle, IInv, AnswerInv, UsbInv
<1>2. Selected("usb")' /\ memAddr' = memAddr /\ memWstrb' = memWstrb
  BY <1>1, Held DEF Selected
<1>3. usbChip' = usbChip /\ usbA' = usbA /\ busDir' = busDir /\ usbOpen' = 1
  BY <1>1, ChipStep, OpenStep DEF ReadCycle
<1>4. CASE usbCounter = 0
  <2>1. /\ usbRdata' = Din /\ usbReady' = TRUE /\ usbState' = "LATCH" /\ usbCsn' = TRUE
    BY <1>4 DEF ReadCycle
  <2>2. Din = usbChip[usbA]
    BY <1>1, <1>4 DEF Din, StrobeNow
  <2> QED BY <1>1, <1>2, <1>3, <2>1, <2>2 DEF UsbPart, UsbInv
<1>5. CASE usbCounter # 0
  <2>1. /\ usbCounter' = usbCounter - 1 /\ usbCounter' \in 0 .. 3
        /\ usbReady' = FALSE /\ usbState' = "READ"
        /\ UNCHANGED <<usbRdata, usbCsn, usbRdn, usbWrn>>
    BY <1>1, <1>5, CountDown DEF ReadCycle
  <2>2. StrobeNow'
    BY <1>1, <1>5, <2>1, StrobeStep
  <2> QED BY <1>1, <1>2, <1>3, <2>1, <2>2 DEF UsbPart, UsbInv
<1> QED BY <1>4, <1>5

\* The answer to a read has been given; the request goes with it.
LEMMA UsbLatch ==
  ASSUME IInv, Edge, Latch
  PROVE  UsbPart'
<1>1. /\ usbState = "LATCH" /\ usbReady /\ MemReady /\ usbCsn /\ busDir
      /\ usbReady' = FALSE /\ usbState' = "IDLE" /\ usbCsn' = usbCsn /\ busDir' = busDir
  BY DEF Latch, IInv, AnswerInv, UsbInv, MemReady
<1>2. usbOpen' = 0
  <2>1. ~(Reading \/ Writing)'
    BY <1>1 DEF Reading, Writing
  <2> QED BY <1>1, <2>1, OpenStep
<1> QED BY <1>1, <1>2 DEF UsbPart, UsbInv

LEMMA UsbStep ==
  ASSUME IInv, Edge
  PROVE  UsbPart'
BY UsbSplit, UsbStart, UsbRest, UsbWrite, UsbRead, UsbLatch DEF UsbCases

\* The types of the bridge and of the chip.
LEMMA UsbType ==
  ASSUME IInv, Edge
  PROVE  UsbTypeOK'
<1>0. /\ AccessClocks \in 1 .. 4 /\ UsbCases /\ ChipEdge /\ memWdata \in Data
      /\ Data \subseteq Word /\ Junk \in Word
      /\ memWstrb \in BOOLEAN
  BY UsbSplit, AccessAssumption DEF IInv, TypeOK, Word
<1>1. strobe' \in 0 .. AccessClocks
  BY <1>0, UsbFacts DEF ChipEdge
<1>2. usbChip' \in [Reg -> Word]
  BY <1>0, UsbFacts, ChipStep
<1>3. CASE Selected("usb") /\ Start(memWstrb, memAddr, memWdata)
  <2>1. /\ usbState' \in {"WRITE", "READ"} /\ usbCounter' \in 0 .. 7
        /\ usbA' \in Reg /\ usbRdata' \in Word
    BY <1>3, UsbSelected, UsbFacts DEF Start
  <2>2. usbReady' \in BOOLEAN /\ usbCsn' \in BOOLEAN /\ busDir' \in BOOLEAN /\ usbDout' \in Data
    BY <1>0, <1>3, UsbFacts DEF Start
  <2>3. usbRdn' \in BOOLEAN /\ usbWrn' \in BOOLEAN
    BY <1>0, <1>3 DEF Start
  <2> QED BY <1>1, <1>2, <2>1, <2>2, <2>3 DEF UsbTypeOK
<1>4. CASE ~Selected("usb") /\ Rest
  BY <1>1, <1>2, <1>4, UsbFacts DEF UsbTypeOK, Rest
<1>5. CASE WriteCycle
  BY <1>1, <1>2, <1>5, UsbFacts, WriteMove DEF UsbTypeOK
<1>6. CASE ReadCycle
  <2>1. Din \in Word
    BY <1>0, UsbFacts DEF Din
  <2>2. usbCounter' \in 0 .. 7 /\ usbState' \in {"READ", "LATCH"} /\ usbRdata' \in Word
    BY <1>6, <2>1, UsbFacts, CountDown DEF ReadCycle
  <2>3. /\ usbReady' \in BOOLEAN /\ usbCsn' \in BOOLEAN /\ usbRdn' \in BOOLEAN
        /\ usbWrn' \in BOOLEAN /\ busDir' \in BOOLEAN /\ usbA' \in Reg /\ usbDout' \in Data
    BY <1>6, UsbFacts DEF ReadCycle
  <2> QED BY <1>1, <1>2, <2>2, <2>3 DEF UsbTypeOK
<1>7. CASE Latch
  BY <1>1, <1>2, <1>7, UsbFacts DEF UsbTypeOK, Latch
<1> QED BY <1>0, <1>3, <1>4, <1>5, <1>6, <1>7 DEF UsbCases

\* No answer outlives its request.
LEMMA AnswerStep ==
  ASSUME IInv, Edge
  PROVE  AnswerInv'
BY UartStep, DdrStep, DefaultStep, UsbStep DEF AnswerInv, UsbPart

\* An answer comes one clock after a clock in which the request was open, and
\* not answered.
LEMMA AnswerComes ==
  ASSUME IInv, Edge, MemReady'
  PROVE  memValid /\ ~MemReady
<1>1. memValid'
  BY AnswerStep DEF AnswerInv, Selected, MemReady
<1>2. ~MemReady
  BY <1>1, Closed
<1>3. ASSUME ~memValid PROVE FALSE
  <2>1. ~defaultReady'
    BY <1>3, EdgeSplit DEF GeneralValid
  <2>2. ~ddrReady'
    BY <1>3, EdgeSplit DEF DdrEdge, DdrServe, DdrWait, Selected
  <2>3. ~uartReady'
    <3>1. ~uartReady /\ txCount # 1
      BY <1>3 DEF IInv, AnswerInv, UartInv, Selected
    <3> QED BY <3>1, EdgeSplit DEF UartEdge, Count, Shift
  <2>4. ~usbReady'
    <3>1. ~Selected("usb") /\ usbState # "READ" /\ ~usbReady
      BY <1>3 DEF IInv, AnswerInv, Selected
    <3> QED BY <3>1, UsbSplit DEF UsbCases, Rest, WriteCycle, ReadCycle, Latch
  <2> QED BY <2>1, <2>2, <2>3, <2>4 DEF MemReady
<1> QED BY <1>2, <1>3

-----------------------------------------------------------------------------
(* The data.                                                                  *)

\* The devices whose stores are made in the clocks of the request.
Direct == {"ram", "vram", "gpio", "opl", "ddr"}

\* A device that takes the word of the open store by the time it is answered,
\* and nothing else, holds what was stored last.
LEMMA Lands ==
  ASSUME IInv, Edge, NEW w \in Direct, NEW x, NEW y,
         x = IF Stored(w) THEN memWdata ELSE ref[w],
         y = IF Selected(w) /\ memWstrb /\ (MemReady \/ MemReady') THEN memWdata ELSE x
  PROVE  y = IF Stored(w)' THEN memWdata' ELSE ref'[w]
<1>1. /\ memAddr \in Place /\ ref \in [Written -> Data] /\ w \in Written /\ w \in Window
      /\ w # "usb"
  BY DEF IInv, TypeOK, Direct, Written, Memory, Window
<1>2. memValid => (Selected(w) <=> memAddr = w)
  BY <1>1, PlaceWindow DEF IInv, CpuInv, Selected
<1>3. ref' = IF memValid /\ MemReady /\ memWstrb /\ memAddr \in Written
             THEN [ref EXCEPT ![memAddr] = memWdata] ELSE ref
  BY EdgeSplit DEF HistoryEdge
<1>4. CASE MemReady
  <2>1. memValid /\ ~Stored(w)'
    BY <1>4, Closed DEF Stored
  <2>2. ref'[w] = IF Selected(w) /\ memWstrb THEN memWdata ELSE ref[w]
    BY <1>1, <1>2, <1>3, <1>4, <2>1
  <2> QED BY <1>4, <2>1, <2>2 DEF Stored
<1>5. CASE ~MemReady
  <2>1. ref' = ref /\ ~Stored(w)
    BY <1>3, <1>5 DEF Stored
  <2>2. CASE MemReady'
    <3>1. /\ memWdata' = memWdata /\ (memWstrb' <=> memWstrb)
          /\ Selected(w)' <=> Selected(w)
      BY <2>2, AnswerComes, Held
    <3> QED BY <2>1, <2>2, <3>1 DEF Stored
  <2>3. CASE ~MemReady'
    BY <1>5, <2>1, <2>3 DEF Stored
  <2> QED BY <2>2, <2>3
<1> QED BY <1>4, <1>5

\* A store to the chip is owed from its answer to the end of its strobe.
LEMMA ChipLands ==
  ASSUME IInv, Edge
  PROVE  \A r \in Reg : ref'[r] = IF Owed(r)' THEN usbDout' ELSE usbChip'[r]
<1> SUFFICES ASSUME NEW r \in Reg
             PROVE  ref'[r] = IF Owed(r)' THEN usbDout' ELSE usbChip'[r]
  OBVIOUS
<1>1. /\ ref[r] = IF Owed(r) THEN usbDout ELSE usbChip[r]
      /\ r \in Written /\ ref \in [Written -> Data] /\ usbChip \in [Reg -> Word]
      /\ usbA \in Reg
  BY UsbFacts DEF IInv, DataInv, TypeOK, Written, Memory
<1>2. ref' = IF memValid /\ MemReady /\ memWstrb /\ memAddr \in Written
             THEN [ref EXCEPT ![memAddr] = memWdata] ELSE ref
  BY EdgeSplit DEF HistoryEdge
<1>3. CASE MemReady /\ memWstrb /\ memAddr = r
  <2>1. Selected("usb") /\ usbReady
    BY <1>3, OneAnswers, PlaceWindow, UsbSelected DEF IInv, CpuInv, TypeOK, Selected
  <2>2. /\ usbState = "WRITE" /\ usbCounter = 4 /\ usbA = r /\ usbDout = memWdata
    BY <1>3, <2>1 DEF IInv, AnswerInv, UsbInv
  <2>3. WriteCycle
    BY <2>2, UsbSplit DEF UsbCases, Start, Rest, ReadCycle, Latch
  <2>4. Owed(r)' /\ usbDout' = memWdata
    BY <2>2, <2>3, WriteMove DEF Owed
  <2> QED BY <1>1, <1>2, <1>3, <2>1, <2>4 DEF Selected
<1>4. CASE ~(MemReady /\ memWstrb /\ memAddr = r)
  <2>1. ref'[r] = ref[r]
    BY <1>1, <1>2, <1>4
  <2>2. CASE usbState = "WRITE"
    <3>1. WriteCycle
      BY <2>2, UsbSplit DEF UsbCases, Start, Rest, ReadCycle, Latch
    <3>2. usbCounter \in 0 .. 4 /\ usbA' = usbA /\ usbDout' = usbDout
      BY <3>1, WriteMove
    <3>3. CASE usbCounter = 0
      BY <1>1, <2>1, <2>2, <3>1, <3>3, WriteMove, ChipStep DEF Owed
    <3>4. CASE usbCounter = 1
      <4>1. ~Owed(r)'
        BY <3>1, <3>4, WriteMove DEF Owed
      <4>2. usbChip'[r] = IF r = usbA THEN usbDout ELSE usbChip[r]
        BY <1>1, <2>2, <3>4, ChipStep
      <4> QED BY <1>1, <2>1, <2>2, <3>4, <4>1, <4>2 DEF Owed
    <3>5. CASE usbCounter \in 2 .. 3
      <4>1. usbCounter' \in 1 .. 3 /\ usbState' = "WRITE" /\ usbChip' = usbChip
        BY <3>1, <3>5, WriteMove, ChipStep
      <4> QED BY <1>1, <2>1, <2>2, <3>2, <3>5, <4>1 DEF Owed
    <3>6. CASE usbCounter = 4
      <4>1. usbReady /\ usbA # r
        BY <1>4, <2>2, <3>6 DEF IInv, AnswerInv, UsbInv, MemReady
      <4>2. usbChip' = usbChip
        BY <3>6, ChipStep
      <4> QED BY <1>1, <2>1, <3>2, <4>1, <4>2 DEF Owed
    <3> QED BY <3>2, <3>3, <3>4, <3>5, <3>6
  <2>3. CASE usbState # "WRITE"
    <3>1. usbChip' = usbChip
      BY <2>3, ChipStep
    <3>2. usbState' = "WRITE" => usbCounter' = 4
      BY <2>3, UsbSplit DEF UsbCases, Start, Rest, WriteCycle, ReadCycle, Latch
    <3> QED BY <1>1, <2>1, <2>3, <3>1, <3>2 DEF Owed
  <2> QED BY <2>2, <2>3
<1> QED BY <1>3, <1>4

\* Which request the next clock can answer.
LEMMA AnswerWhich ==
  ASSUME IInv, Edge
  PROVE  /\ Selected("ram") \/ Selected("vram") \/ Selected("gpio") \/ Selected("opl")
              => MemReady \/ MemReady'
         /\ Selected("ddr") /\ MemReady' => DdrServe
         /\ DdrServe => MemReady'
<1>1. Selected("ram") \/ Selected("vram") \/ Selected("gpio") \/ Selected("opl")
        => MemReady \/ MemReady'
  BY EdgeSplit DEF GeneralValid, Selected, MemReady
<1>2. Selected("ddr") /\ MemReady' => DdrServe
  <2>1. HAVE Selected("ddr") /\ MemReady'
  <2>2. Selected("ddr")'
    BY <2>1, AnswerComes, Held
  <2>3. ddrReady'
    BY <2>1, <2>2, AnswerStep DEF AnswerInv, Selected, MemReady
  <2> QED BY <2>3, EdgeSplit DEF DdrEdge, DdrWait
<1>3. DdrServe => MemReady'
  BY DEF DdrServe, MemReady
<1> QED BY <1>1, <1>2, <1>3

LEMMA DataStep ==
  ASSUME IInv, Edge
  PROVE  DataInv'
<1>1. ram' = IF Stored("ram")' THEN memWdata' ELSE ref'["ram"]
  <2>1. ram = IF Stored("ram") THEN memWdata ELSE ref["ram"]
    BY DEF IInv, DataInv
  <2>2. ram' = IF Selected("ram") /\ memWstrb /\ (MemReady \/ MemReady') THEN memWdata ELSE ram
    BY <2>1, AnswerWhich, EdgeSplit DEF RamEdge, Fresh, Stored
  <2> QED BY <2>1, <2>2, Lands DEF Direct
<1>2. vram' = IF Stored("vram")' THEN memWdata' ELSE ref'["vram"]
  <2>1. vram = IF Stored("vram") THEN memWdata ELSE ref["vram"]
    BY DEF IInv, DataInv
  <2>2. vram' = IF Selected("vram") /\ memWstrb /\ (MemReady \/ MemReady')
                THEN memWdata ELSE vram
    BY <2>1, AnswerWhich, EdgeSplit DEF RegisterEdge, Fresh, Stored
  <2> QED BY <2>1, <2>2, Lands DEF Direct
<1>3. gpio' = IF Stored("gpio")' THEN memWdata' ELSE ref'["gpio"]
  <2>1. gpio = IF Stored("gpio") THEN memWdata ELSE ref["gpio"]
    BY DEF IInv, DataInv
  <2>2. gpio' = IF Selected("gpio") /\ memWstrb /\ (MemReady \/ MemReady')
                THEN memWdata ELSE gpio
    BY AnswerWhich, EdgeSplit DEF RegisterEdge
  <2> QED BY <2>1, <2>2, Lands DEF Direct
<1>4. opl' = IF Stored("opl")' THEN memWdata' ELSE ref'["opl"]
  <2>1. opl = IF Stored("opl") THEN memWdata ELSE ref["opl"]
    BY DEF IInv, DataInv
  <2>2. Selected("opl") => memWstrb
    BY PlaceWindow DEF IInv, CpuInv, TypeOK, Selected, Window
  <2>3. opl' = IF Selected("opl") /\ memWstrb /\ (MemReady \/ MemReady')
               THEN memWdata ELSE opl
    BY <2>2, AnswerWhich, EdgeSplit DEF RegisterEdge
  <2> QED BY <2>1, <2>3, Lands DEF Direct
<1>5. ddr' = IF Stored("ddr")' THEN memWdata' ELSE ref'["ddr"]
  <2>1. ddr = IF Stored("ddr") THEN memWdata ELSE ref["ddr"]
    BY DEF IInv, DataInv
  <2>2. ddr' = IF Selected("ddr") /\ memWstrb /\ (MemReady \/ MemReady')
               THEN memWdata ELSE ddr
    <3>1. CASE DdrServe
      BY <3>1, AnswerWhich DEF DdrServe
    <3>2. CASE DdrWait /\ ~DdrServe
      BY <3>2, <2>1, AnswerWhich DEF DdrWait, Stored
    <3> QED BY <3>1, <3>2, EdgeSplit DEF DdrEdge
  <2> QED BY <2>1, <2>2, Lands DEF Direct
<1> QED BY <1>1, <1>2, <1>3, <1>4, <1>5, ChipLands DEF DataInv

\* What is read is what the device holds when the answer is given.
LEMMA ReadStep ==
  ASSUME IInv, Edge
  PROVE  ReadInv'
<1> SUFFICES ASSUME MemReady', ~memWstrb'
             PROVE  /\ Selected("ram")' => ramRdata' = ram'
                    /\ Selected("gpio")' => gpioRdata' = gpio'
                    /\ Selected("ddr")' => ddrRdata' = ddr'
  BY DEF ReadInv
<1>1. /\ memValid /\ ~MemReady /\ ~memWstrb /\ memAddr' = memAddr
      /\ \A w : Selected(w)' <=> Selected(w)
  BY AnswerComes, Held
<1>2. Selected("ram") => ramRdata' = ram'
  <2>1. Selected("ram") => memAddr = "ram"
    BY PlaceWindow DEF IInv, CpuInv, TypeOK, Selected, Window
  <2> QED BY <1>1, <2>1, EdgeSplit DEF RamEdge
<1>3. Selected("gpio") => gpioRdata' = gpio'
  BY <1>1, EdgeSplit DEF RegisterEdge
<1>4. Selected("ddr") => ddrRdata' = ddr'
  BY <1>1, AnswerWhich DEF DdrServe
<1> QED BY <1>1, <1>2, <1>3, <1>4

\* The first clock of an access in no window raises the interrupt.
LEMMA IrqStep ==
  ASSUME IInv, Edge
  PROVE  /\ IrqInv'
         /\ memValidLast' \in BOOLEAN /\ cpuIrq' \in BOOLEAN
         /\ cpuIrq => cpuIrq'
         /\ cpuIrq' /\ ~cpuIrq => Selected("hole")
<1>1. /\ memValid \in BOOLEAN /\ memValidLast \in BOOLEAN /\ cpuIrq \in BOOLEAN
      /\ addrIn \in Window
  BY DEF IInv, TypeOK
<1>2. memValidLast' = memValid /\ cpuIrq' = (cpuIrq \/ (memValid /\ ~memValidLast /\ ~AnyValid))
  BY EdgeSplit DEF IrqEdge
<1>3. memValid /\ ~memValidLast /\ addrIn \in {"ram", "vram"} => ~MemReady
  BY DEF IInv, AnswerInv, Selected, MemReady
<1>4. memValid' /\ memValidLast' => memValid /\ ~MemReady
  BY <1>1, <1>2, Closed
<1>5. Selected("hole") => memValid /\ ~AnyValid
  BY DEF Selected, AnyValid, Fresh
<1>6. memValid /\ ~memValidLast /\ ~AnyValid => addrIn = "hole"
  <2>1. addrIn \in {"ram", "vram", "gpio", "usb", "uart", "ddr", "opl", "hole"}
    BY <1>1 DEF Window
  <2> QED BY <1>3, <2>1 DEF AnyValid, Fresh, Selected
<1>7. IrqInv'
  <2>1. Selected("hole")' /\ memValidLast' => Selected("hole")
    <3>1. Selected("hole")' => memValid'
      BY DEF Selected
    <3> QED BY <1>4, <3>1, Held
  <2>2. Selected("hole") => cpuIrq'
    BY <1>1, <1>2, <1>5 DEF IInv, IrqInv
  <2> QED BY <2>1, <2>2 DEF IrqInv
<1>8. cpuIrq' /\ ~cpuIrq => Selected("hole")
  BY <1>1, <1>2, <1>6 DEF Selected
<1> QED BY <1>1, <1>2, <1>7, <1>8

-----------------------------------------------------------------------------
(* The invariant.                                                             *)

\* The types of the devices and of the histories.
LEMMA DeviceType ==
  ASSUME IInv, Edge
  PROVE  /\ {ram', ramRdata', vram', gpio', gpioRdata', opl', ddr', ddrRdata'} \subseteq Data
         /\ ddrState' \in {"IDLE", "WAIT"} /\ ddrReady' \in BOOLEAN
         /\ defaultReady' \in BOOLEAN
         /\ ref' \in [Written -> Data]
<1>1. /\ ram \in Data /\ ramRdata \in Data /\ vram \in Data /\ gpio \in Data
      /\ gpioRdata \in Data /\ opl \in Data /\ ddr \in Data /\ ddrRdata \in Data
      /\ memWdata \in Data /\ ref \in [Written -> Data]
      /\ ddrState \in {"IDLE", "WAIT"}
  BY DEF IInv, TypeOK
<1>2. ram' \in Data /\ ramRdata' \in Data
  BY <1>1, EdgeSplit DEF RamEdge
<1>3. vram' \in Data /\ opl' \in Data
  BY <1>1, EdgeSplit DEF RegisterEdge
<1>4. gpio' \in Data /\ gpioRdata' \in Data
  BY <1>1, EdgeSplit DEF RegisterEdge
<1>5. ddr' \in Data /\ ddrRdata' \in Data /\ ddrState' \in {"IDLE", "WAIT"}
      /\ ddrReady' \in BOOLEAN
  BY <1>1, EdgeSplit DEF DdrEdge, DdrServe, DdrWait
<1>6. defaultReady' \in BOOLEAN
  <2>1. defaultReady' = GeneralValid /\ memValid \in BOOLEAN
    BY EdgeSplit DEF IInv, TypeOK
  <2> QED BY <2>1 DEF GeneralValid
<1>7. ref' \in [Written -> Data]
  BY <1>1, EdgeSplit DEF HistoryEdge
<1> QED BY <1>1, <1>2, <1>3, <1>4, <1>5, <1>6, <1>7

LEMMA TypeStep ==
  ASSUME IInv, Edge
  PROVE  TypeOK'
<1>1. usbOpen' \in 0 .. 1
  BY UsbStep DEF UsbPart, UsbInv
<1>2. memValidLast' \in BOOLEAN /\ cpuIrq' \in BOOLEAN
  BY IrqStep
<1> QED BY <1>1, <1>2, CpuType, DeviceType, UartType, UsbType DEF TypeOK

LEMMA InvStep ==
  ASSUME IInv, [Next]_vars
  PROVE  IInv'
<1>1. CASE Next
  BY <1>1, TypeStep, CpuStep, AnswerStep, UartStep, UsbStep, DataStep, ReadStep, IrqStep
     DEF Next, IInv, UsbPart
<1>2. CASE UNCHANGED vars
  <2>1. /\ UNCHANGED cpuVars /\ UNCHANGED decodeVars /\ UNCHANGED ramVars
        /\ UNCHANGED ddrVars /\ UNCHANGED uartVars /\ UNCHANGED usbVars
        /\ UNCHANGED ref /\ UNCHANGED usbOpen
    BY <1>2 DEF vars
  <2>2. TypeOK'
    BY <2>1 DEF IInv, TypeOK, UartTypeOK, UsbTypeOK, cpuVars, decodeVars, ramVars,
       ddrVars, uartVars, usbVars
  <2>3. MemReady' = MemReady
    BY <2>1 DEF MemReady, decodeVars, ddrVars, uartVars, usbVars
  <2>4. \A w : Selected(w)' <=> Selected(w)
    BY <2>1 DEF Selected, cpuVars, decodeVars
  <2>5. CpuInv' /\ AnswerInv' /\ IrqInv'
    BY <2>1, <2>4 DEF IInv, CpuInv, AnswerInv, IrqInv, cpuVars, decodeVars, ddrVars,
       uartVars, usbVars
  <2>6. UartInv'
    BY <2>1, <2>4 DEF IInv, UartInv, uartVars, cpuVars
  <2>7. UsbInv'
    BY <2>1 DEF IInv, UsbInv, StrobeNow, usbVars, cpuVars
  <2>8. DataInv'
    <3>1. \A w : Stored(w)' <=> Stored(w)
      BY <2>1, <2>3, <2>4 DEF Stored, cpuVars
    <3>2. \A r : Owed(r)' <=> Owed(r)
      BY <2>1 DEF Owed, usbVars
    <3> QED BY <2>1, <3>1, <3>2 DEF IInv, DataInv, ramVars, ddrVars, cpuVars, usbVars
  <2>9. ReadInv'
    BY <2>1, <2>3, <2>4 DEF IInv, ReadInv, ramVars, ddrVars, cpuVars
  <2> QED BY <2>2, <2>5, <2>6, <2>7, <2>8, <2>9 DEF IInv
<1> QED BY <1>1, <1>2

LEMMA InitInv ==
  ASSUME Init
  PROVE  IInv
<1>1. /\ memValid = FALSE /\ memAddr \in Place /\ memWstrb = FALSE /\ memWdata \in Data
      /\ addrIn \in Window /\ defaultReady = FALSE /\ memValidLast = FALSE /\ cpuIrq = FALSE
      /\ ref \in [Written -> Data]
      /\ ram = ref["ram"] /\ vram = ref["vram"] /\ gpio = ref["gpio"] /\ opl = ref["opl"]
      /\ ddr = ref["ddr"] /\ ddrState = "IDLE" /\ ddrReady = FALSE
      /\ ramRdata \in Data /\ gpioRdata \in Data /\ ddrRdata \in Data
      /\ usbOpen = 0
  BY DEF Init
<1>2. /\ usbState = "IDLE" /\ usbReady = FALSE /\ usbCsn = TRUE /\ busDir = TRUE
      /\ usbCounter = 0 /\ usbRdn \in BOOLEAN /\ usbWrn \in BOOLEAN
      /\ usbA \in Reg /\ usbDout \in Data /\ usbRdata = Junk /\ strobe = 0
      /\ usbChip = [r \in Reg |-> ref[r]]
  BY DEF Init, UsbInit
<1>3. Reg \subseteq Written /\ {"ram", "vram", "gpio", "opl", "ddr"} \subseteq Written
  BY DEF Written, Memory
<1>4. UartTypeOK /\ counter = UartDiv /\ txCount = 0 /\ uartReady = FALSE
      /\ shiftReg.shifted = 11
  <2>1. UartInit /\ UartDiv \in Nat
    BY UartDivAssumption DEF Init
  <2>2. /\ counter = UartDiv /\ txCount = 0 /\ uartReady = FALSE /\ lastWstrb \in BOOLEAN
        /\ shiftReg \in [dat : Char, shifted : {11}] /\ held = 0
    BY <2>1 DEF UartInit, FrameLen
  <2>3. shiftReg \in [dat : Char, shifted : 0 .. 11] /\ shiftReg.shifted = 11
    BY <2>2
  <2>4. counter \in 0 .. UartDiv /\ txCount \in 0 .. 11 /\ held \in 0 .. UartDiv + 2
    BY <2>1, <2>2
  <2>5. UartTypeOK
    BY <2>2, <2>3, <2>4 DEF UartTypeOK, FrameLen
  <2> QED BY <2>2, <2>3, <2>5
<1>5. UsbTypeOK
  <2>1. usbChip \in [Reg -> Word]
    BY <1>1, <1>2, <1>3 DEF Word
  <2>2. strobe \in 0 .. AccessClocks /\ usbCounter \in 0 .. 7
    <3>1. AccessClocks \in Nat
      BY AccessAssumption
    <3> QED BY <1>2, <3>1
  <2>3. usbState \in {"IDLE", "WRITE", "READ", "LATCH"} /\ usbRdata \in Word
    BY <1>2 DEF Word
  <2>4. {usbReady, usbCsn, usbRdn, usbWrn, busDir} \subseteq BOOLEAN
    BY <1>2
  <2> QED BY <1>2, <2>1, <2>2, <2>3, <2>4 DEF UsbTypeOK
<1>6. /\ ram \in Data /\ vram \in Data /\ gpio \in Data /\ opl \in Data /\ ddr \in Data
  BY <1>1, <1>3
<1>7. TypeOK
  <2>1. {defaultReady, memValidLast, cpuIrq} \subseteq BOOLEAN
    BY <1>1
  <2>2. {ram, ramRdata, vram, gpio, gpioRdata, opl, ddr, ddrRdata} \subseteq Data
    BY <1>1, <1>6
  <2>3. memValid \in BOOLEAN /\ memWstrb \in BOOLEAN /\ ddrReady \in BOOLEAN
    BY <1>1
  <2>4. ddrState \in {"IDLE", "WAIT"} /\ usbOpen \in 0 .. 1
    BY <1>1
  <2> QED BY <1>1, <1>4, <1>5, <2>1, <2>2, <2>3, <2>4 DEF TypeOK
<1>8. CpuInv /\ AnswerInv /\ UartInv /\ IrqInv
  BY <1>1, <1>2, <1>4 DEF CpuInv, AnswerInv, UartInv, IrqInv, Selected, FrameLen
<1>9. UsbInv
  BY <1>2, <1>1 DEF UsbInv
<1>10. DataInv
  BY <1>1, <1>2, <1>3 DEF DataInv, Stored, Selected, Owed
<1>11. ReadInv
  BY <1>1 DEF ReadInv, Selected
<1> QED BY <1>7, <1>8, <1>9, <1>10, <1>11 DEF IInv

-----------------------------------------------------------------------------
(* The theorems.                                                              *)

LEMMA Invariant == Safety => []IInv
<1>1. Init => IInv
  BY InitInv
<1>2. IInv /\ [Next]_vars => IInv'
  BY InvStep
<1> QED BY <1>1, <1>2, PTL DEF Safety

\* Every register and wire of the bus keeps its type (pano_top.v 379-420).
THEOREM TypeCorrect == Safety => []TypeOK
<1>1. IInv => TypeOK
  BY DEF IInv
<1> QED BY <1>1, Invariant, PTL

\* However the devices take their time, the four ready lines that are or-ed
\* without the address are never up for another request than the open one, and
\* never two of them (pano_top.v 398-405).
THEOREM AnswersAreOwed == Safety => []NoStrayAnswer
<1>1. ASSUME IInv
      PROVE  NoStrayAnswer
  <2>1. CASE ~MemReady
    BY <2>1 DEF NoStrayAnswer, Answering, MemReady
  <2>2. CASE uartReady
    <3>1. Answering = {"uart"} /\ addrIn = "uart" /\ memValid
      BY <1>1, <2>2, OneAnswers DEF Answering, MemReady
    <3> QED BY <3>1 DEF NoStrayAnswer
  <2>3. CASE ddrReady
    <3>1. Answering = {"ddr"} /\ addrIn = "ddr" /\ memValid
      BY <1>1, <2>3, OneAnswers DEF Answering, MemReady
    <3> QED BY <3>1 DEF NoStrayAnswer
  <2>4. CASE usbReady
    <3>1. Answering = {"usb"} /\ addrIn = "usb" /\ memValid
      BY <1>1, <2>4, OneAnswers DEF Answering, MemReady
    <3> QED BY <3>1 DEF NoStrayAnswer
  <2>5. CASE defaultReady
    <3>1. Answering = {"default"} /\ addrIn \notin {"uart", "ddr", "usb"} /\ memValid
      BY <1>1, <2>5, OneAnswers DEF Answering, MemReady
    <3> QED BY <3>1 DEF NoStrayAnswer
  <2> QED BY <2>1, <2>2, <2>3, <2>4, <2>5 DEF MemReady
<1> QED BY <1>1, Invariant, PTL

LEMMA InvReads ==
  ASSUME IInv
  PROVE  ReadsRight
<1> SUFFICES ASSUME memValid, MemReady, ~memWstrb, memAddr \in Memory
             PROVE  MemRdata = ref[memAddr]
  BY DEF ReadsRight
<1>1. addrIn = WindowOf(memAddr) /\ memAddr \in Place
  BY DEF IInv, CpuInv, TypeOK
<1>2. CASE memAddr = "ram"
  <2>1. addrIn = "ram"
    BY <1>1, <1>2, PlaceWindow DEF Window
  <2>2. ramRdata = ram /\ ram = ref["ram"]
    BY <2>1 DEF IInv, ReadInv, DataInv, Selected, Stored
  <2> QED BY <1>2, <2>1, <2>2 DEF MemRdata
<1>3. CASE memAddr = "gpio"
  <2>1. addrIn = "gpio"
    BY <1>1, <1>3, PlaceWindow DEF Window
  <2>2. gpioRdata = gpio /\ gpio = ref["gpio"]
    BY <2>1 DEF IInv, ReadInv, DataInv, Selected, Stored
  <2> QED BY <1>3, <2>1, <2>2 DEF MemRdata
<1>4. CASE memAddr = "ddr"
  <2>1. addrIn = "ddr"
    BY <1>1, <1>4, PlaceWindow DEF Window
  <2>2. ddrRdata = ddr /\ ddr = ref["ddr"]
    BY <2>1 DEF IInv, ReadInv, DataInv, Selected, Stored
  <2> QED BY <1>4, <2>1, <2>2 DEF MemRdata
<1>5. CASE memAddr \in Reg
  <2>1. addrIn = "usb" /\ usbReady
    BY <1>1, <1>5, PlaceWindow, OneAnswers DEF MemReady
  <2>2. usbState = "LATCH" /\ usbA = memAddr /\ usbRdata = usbChip[usbA]
    BY <2>1 DEF IInv, AnswerInv, UsbInv
  <2>3. ref[memAddr] = usbChip[memAddr]
    BY <1>5, <2>2 DEF IInv, DataInv, Owed
  <2> QED BY <2>1, <2>2, <2>3 DEF MemRdata
<1> QED BY <1>2, <1>3, <1>4, <1>5 DEF Memory

LEMMA InvLands ==
  ASSUME IInv
  PROVE  WritesLand /\ UsbOnce
<1>1. WritesLand
  BY DEF IInv, DataInv, WritesLand, Stored, Selected, Owed
<1>2. UsbOnce
  BY DEF IInv, UsbInv, AnswerInv, UsbOnce, Selected
<1> QED BY <1>1, <1>2

\* Every access reaches its device, once, with its data: reads see the last
\* store, nothing is stored in passing, and the USB controller sees one strobe of
\* sufficient length for each access (pano_top.v 379-405, 611-617;
\* usb_picorv_bridge.v 65-112).
THEOREM AccessesArrive == Safety => []DevicesRight
<1>1. IInv => DevicesRight
  BY InvReads, InvLands DEF DevicesRight
<1> QED BY <1>1, Invariant, PTL

\* The interrupt rises for an access in no window, before it is answered, and for
\* no other (pano_top.v 398-420).
THEOREM TrapsExactly == Safety => TrapExactly
<1>1. ASSUME IInv, [Next]_vars
      PROVE  [/\ cpuIrq' # cpuIrq => memValid /\ memAddr = "hole"
              /\ memValid /\ MemReady /\ memAddr = "hole" => cpuIrq]_vars
  <2>1. SUFFICES ASSUME Edge
                 PROVE  /\ cpuIrq' # cpuIrq => memValid /\ memAddr = "hole"
                        /\ memValid /\ MemReady /\ memAddr = "hole" => cpuIrq
    BY <1>1 DEF Next
  <2>2. memValid => (addrIn = "hole" <=> memAddr = "hole")
    BY <1>1, PlaceWindow DEF IInv, CpuInv, TypeOK, Window
  <2>3. cpuIrq' # cpuIrq => memValid /\ memAddr = "hole"
    BY <1>1, <2>1, <2>2, IrqStep DEF IInv, TypeOK, Selected
  <2>4. memValid /\ MemReady /\ memAddr = "hole" => cpuIrq
    BY <1>1, <2>2, OneAnswers DEF IInv, AnswerInv, IrqInv, Selected, MemReady
  <2> QED BY <2>3, <2>4
<1> QED BY <1>1, Invariant, PTL DEF Safety, TrapExactly

\* Whatever the divider, each bit of a frame is on the line for one full period,
\* the frame is not disturbed, and ready comes when the byte of the open request
\* has been shifted out (simple_uart.v 28-48).
THEOREM FramesWhole == Safety => UartFrames
<1>1. ASSUME IInv, [Next]_vars
      PROVE  [/\ shiftReg.shifted \in 1 .. FrameLen - 1 /\ shiftReg' # shiftReg
                   => held = UartDiv + 1 /\ shiftReg' = [shiftReg EXCEPT !.shifted = @ + 1]
              /\ uartReady' => shiftReg' = [dat |-> memWdata, shifted |-> FrameLen]]_vars
  <2>1. SUFFICES ASSUME Edge
                 PROVE  /\ shiftReg.shifted \in 1 .. FrameLen - 1 /\ shiftReg' # shiftReg
                             => held = UartDiv + 1
                                /\ shiftReg' = [shiftReg EXCEPT !.shifted = @ + 1]
                        /\ uartReady' => shiftReg' = [dat |-> memWdata, shifted |-> FrameLen]
    BY <1>1 DEF Next
  <2>2. /\ counter \in 0 .. UartDiv /\ txCount \in 0 .. 11 /\ held \in Nat /\ UartDiv \in Nat
        /\ shiftReg \in [dat : Char, shifted : 0 .. 11] /\ FrameLen = 11
        /\ shiftReg.shifted = 11 - txCount
        /\ uartReady => counter = UartDiv /\ UartDiv > 0
        /\ shiftReg.shifted \in 1 .. 10 => held + counter = UartDiv + 1
        /\ txCount > 0 => lastWstrb /\ shiftReg.dat = memWdata
    BY <1>1, UartDivAssumption DEF IInv, TypeOK, UartTypeOK, AnswerInv, UartInv, FrameLen
  <2>3. CASE Shift
    <3>1. /\ counter = 0
          /\ shiftReg' = [shiftReg EXCEPT !.shifted = IF @ = 11 THEN @ ELSE @ + 1]
          /\ uartReady' = (uartReady \/ txCount = 1)
      BY <2>3 DEF Shift, FrameLen
    <3>2. shiftReg.shifted \in 1 .. 10
            => held = UartDiv + 1 /\ shiftReg' = [shiftReg EXCEPT !.shifted = @ + 1]
      BY <2>2, <3>1
    <3>3. uartReady' => txCount = 1
      <4>1. ~uartReady
        BY <2>2, <3>1
      <4> QED BY <3>1, <4>1
    <3>4. txCount = 1 => shiftReg' = [dat |-> memWdata, shifted |-> 11]
      BY <2>2, <3>1
    <3> QED BY <2>2, <3>2, <3>3, <3>4
  <2>4. CASE Count(Selected("uart"), memWdata)
    <3>1. ~uartReady' /\ (txCount > 0 => shiftReg' = shiftReg)
      BY <2>2, <2>4 DEF Count
    <3> QED BY <2>2, <3>1
  <2> QED BY <2>1, <2>3, <2>4, EdgeSplit DEF UartEdge
<1> QED BY <1>1, Invariant, PTL DEF Safety, UartFrames
=============================================================================
