------------------------- MODULE CachedMemoryProofs -------------------------
(* Proofs about CachedMemory for every number of tags, lines, words, bytes    *)
(* and values: types, the handshakes, that the cache loses nothing, that each *)
(* of its steps is a step of the flat memory of WordMemory or none of the     *)
(* CPU's business, and that replacement is least recently used.               *)
EXTENDS CachedMemoryInv, TLAPS

-----------------------------------------------------------------------------
(* Operators.                                                                 *)

\* Overlaying write strobes on a word gives a word (the sys_byte_strobe muxes).
LEMMA OverwriteType ==
  ASSUME NEW old \in WordVal, NEW d \in WordVal, NEW strobe
  PROVE  Overwrite(old, strobe, d) \in WordVal
BY DEF Overwrite, WordVal

\* With no strobe set the word is unchanged: a read hit rewrites its line as is.
LEMMA OverwriteNone ==
  ASSUME NEW old \in WordVal, NEW d \in WordVal
  PROVE  Overwrite(old, {}, d) = old
BY DEF Overwrite, WordVal

\* A cleared line is a RAM word.
LEMMA BlankType ==
  ASSUME NEW lru \in BOOLEAN
  PROVE  Blank(lru) \in Entry
BY CacheAssumption DEF Blank, Entry, Block, WordVal

\* The LRU bit written is a bit.
LEMMA NewerBitType ==
  ASSUME rd \in [Way -> Entry], NEW w \in Way
  PROVE  NewerBit(w) \in BOOLEAN
BY DEF NewerBit, Way, Entry

\* Whatever wbSrc selects, a way is written with a RAM word.
LEMMA WriteValueType ==
  ASSUME TypeOK, NEW w \in Way
  PROVE  WriteValue(w) \in Entry
<1>1. /\ rd[w] \in Entry /\ sysAddr.word \in Word /\ sysAddr.tag \in Tag
      /\ rd[w].data \in Block /\ rd[w].tag \in Tag /\ rd[w].dirty \in BOOLEAN
      /\ sysWdata \in WordVal /\ memRdata \in Block
      /\ NewerBit(w) \in BOOLEAN
  BY NewerBitType DEF TypeOK, Entry, Addr
<1>2. CASE wbSrc = "OVERLAY"
  <2>1. rd[w].data[sysAddr.word] \in WordVal
    BY <1>1 DEF Block
  <2>2. [rd[w].data EXCEPT ![sysAddr.word] =
           Overwrite(@, sysWstrb, sysWdata)] \in Block
    BY <1>1, <2>1, OverwriteType DEF Block
  <2>3. (sysWstrb # {} \/ rd[w].dirty) \in BOOLEAN
    OBVIOUS
  <2> QED BY <1>1, <1>2, <2>2, <2>3 DEF WriteValue, Overlaid, Filled, Cleared, Entry
<1>3. CASE wbSrc = "MEM"
  BY <1>1, <1>3 DEF WriteValue, Overlaid, Filled, Cleared, Entry
<1>4. CASE wbSrc = "FLUSH"
  <2>1. WriteValue(w) = Blank(~NewerBit(w))
    BY <1>4 DEF WriteValue, Overlaid, Filled, Cleared
  <2> QED BY <1>1, <2>1, BlankType
<1> QED BY <1>2, <1>3, <1>4 DEF TypeOK

\* The sweep counter or the request names a line.
LEMMA RamLineType ==
  ASSUME TypeOK
  PROVE  RamLine \in Line
BY DEF TypeOK, RamLine, Addr

-----------------------------------------------------------------------------
(* Types.                                                                     *)

\* A rising edge leaves RAM words in the RAMs, their output registers and the
\* comparators, and a request of the CPU on the wires.
LEMMA EdgeType ==
  ASSUME TypeOK, Edge
  PROVE  /\ way' \in [Way -> [Line -> Entry]] /\ rd' \in [Way -> Entry]
         /\ cmp' \in [Way -> BOOLEAN]
         /\ sysValid' \in BOOLEAN /\ sysAddr' \in Addr
         /\ sysWstrb' \in SUBSET Byte /\ sysWdata' \in WordVal
<1>1. /\ RamLine \in Line
      /\ \A w \in Way : WriteValue(w) \in Entry
      /\ \A w \in Way : way[w] \in [Line -> Entry]
      /\ \A w \in Way : rd[w] \in Entry
  BY RamLineType, WriteValueType DEF TypeOK
<1>2. \A w \in Way : [way[w] EXCEPT ![RamLine] = WriteValue(w)] \in [Line -> Entry]
  BY <1>1
<1>3. way' \in [Way -> [Line -> Entry]] /\ rd' \in [Way -> Entry]
  BY <1>1, <1>2 DEF Edge, RamEdge
<1>4. cmp' \in [Way -> BOOLEAN]
  BY <1>1 DEF Edge, CompareEdge, Entry
<1>5. /\ sysValid' \in BOOLEAN /\ sysAddr' \in Addr
      /\ sysWstrb' \in SUBSET Byte /\ sysWdata' \in WordVal
  BY DEF TypeOK, Edge, CpuEdge, cpuVars
<1> QED BY <1>3, <1>4, <1>5

\* So does an acknowledgement, in the history it keeps.
LEMMA AcknowledgeType ==
  ASSUME TypeOK, Acknowledge
  PROVE  /\ sysReady' \in BOOLEAN
         /\ ref' \in [Addr -> WordVal] /\ recent' \in [Line -> Seq(Tag)]
<1>1. ref[sysAddr] \in WordVal /\ recent[sysAddr.line] \in Seq(Tag)
      /\ sysAddr.tag \in Tag
  BY DEF TypeOK, Addr
<1>2. Overwrite(ref[sysAddr], sysWstrb, sysWdata) \in WordVal
  BY <1>1, OverwriteType DEF TypeOK
<1>3. Touch(recent[sysAddr.line], sysAddr.tag) \in Seq(Tag)
  <2> DEFINE tags == recent[sysAddr.line]
  <2>1. CASE tags = <<>>
    BY <1>1, <2>1 DEF Touch
  <2>2. CASE tags # <<>>
    <3>1. tags[1] \in Tag
      BY <1>1, <2>2
    <3>2. <<sysAddr.tag, tags[1]>> \in Seq(Tag)
      BY <1>1, <3>1
    <3> QED BY <1>1, <3>2, <2>2 DEF Touch
  <2> QED BY <2>1, <2>2
<1> QED BY <1>2, <1>3 DEF TypeOK, Acknowledge

\* The bridge side of a rising edge keeps its types.
LEMMA PortRiseType ==
  ASSUME TypeOK, L!PortRise
  PROVE  /\ memReady' \in BOOLEAN /\ memRdata' \in Block
         /\ port' \in {"IDLE", "BUSY", "DONE", "ACK"} /\ readyInt' \in BOOLEAN
         /\ cmd' \in [addr : LineAddr, wr : BOOLEAN]
         /\ store' \in [LineAddr -> Block]
<1>1. MemWdata \in Block
  BY DEF TypeOK, MemWdata, Entry
<1>2. CASE L!Transfer
  BY <1>1, <1>2 DEF TypeOK, L!PortRise, L!Transfer
<1>3. CASE L!Pending
  BY <1>3 DEF TypeOK, L!PortRise, L!Pending
<1> QED BY <1>2, <1>3 DEF L!PortRise

\* And the falling edge.
LEMMA PortFallType ==
  ASSUME TypeOK, L!PortFall
  PROVE  /\ memReady' \in BOOLEAN /\ memRdata' \in Block
         /\ port' \in {"IDLE", "BUSY", "DONE", "ACK"} /\ readyInt' \in BOOLEAN
         /\ cmd' \in [addr : LineAddr, wr : BOOLEAN]
         /\ store' \in [LineAddr -> Block]
<1>1. MemWdata \in Block
  BY DEF TypeOK, MemWdata, Entry
<1>2. CASE L!Accept
  BY <1>2 DEF TypeOK, L!PortFall, L!Accept
<1>5. CASE L!Finish
  BY <1>5 DEF TypeOK, L!PortFall, L!Finish
<1>6. CASE L!Release
  BY <1>6 DEF TypeOK, L!PortFall, L!Release
<1>3. CASE L!Transfer /\ UNCHANGED readyInt
  BY <1>1, <1>3 DEF TypeOK, L!PortFall, L!Transfer
<1>4. CASE L!Pending /\ UNCHANGED readyInt
  BY <1>4 DEF TypeOK, L!PortFall, L!Pending
<1> QED BY <1>2, <1>3, <1>4, <1>5, <1>6 DEF L!PortFall

\* The registers only the state machine writes.
FsmTypeOK ==
  /\ sysReady \in BOOLEAN /\ sysRdata \in WordVal
  /\ memValid \in BOOLEAN /\ memAddr \in LineAddr /\ memWstrb \in BOOLEAN
  /\ memWSrc \in Way /\ state \in State /\ we \in [Way -> BOOLEAN]
  /\ wbSrc \in {"OVERLAY", "MEM", "FLUSH"} /\ lineSel \in BOOLEAN
  /\ invCounter \in Line
  /\ ref \in [Addr -> WordVal] /\ recent \in [Line -> Seq(Tag)]

\* Every transition of the state machine keeps them in range.
LEMMA FsmType ==
  ASSUME TypeOK, CacheEdge
  PROVE  FsmTypeOK'
<1> USE DEF FsmTypeOK, TypeOK, State, memReq, hist
<1>1. Victim \in Way /\ Victim \in {0, 1}
  BY DEF Victim, Way
<1>2. \A w \in Way : rd[w].tag \in Tag /\ rd[w].data \in Block
  BY DEF Entry
<1>3. /\ sysAddr.tag \in Tag /\ sysAddr.line \in Line /\ sysAddr.word \in Word
      /\ 0 \in Line /\ NLines - 1 \in Line
  BY CacheAssumption DEF Addr, Line
<1>a. CASE Reset
  <2>1. invCounter' \in Line
    BY <1>a, CacheAssumption DEF Reset, Line
  <2> QED BY <1>a, <2>1 DEF Reset
<1>b. CASE Idle
  BY <1>b DEF Idle
<1>c. CASE Compare
  BY <1>c DEF Compare
<1>d. ASSUME NEW w \in Way, Hit(w) PROVE FsmTypeOK'
  <2>1. rd[w].data[sysAddr.word] \in WordVal
    BY <1>2, <1>3 DEF Block
  <2> QED BY <1>d, <2>1, AcknowledgeType DEF Hit
<1>e. CASE MissDirty
  BY <1>e, <1>1, <1>2, <1>3 DEF MissDirty, LineAddr
<1>f. CASE MissClean
  BY <1>f, <1>3 DEF MissClean, LineAddr
<1>g. CASE AwaitMemory
  BY <1>g DEF AwaitMemory
<1>h. CASE ReadFill
  <2>1. memRdata[sysAddr.word] \in WordVal
    BY <1>3 DEF Block
  <2> QED BY <1>h, <2>1, <1>1, AcknowledgeType DEF ReadFill
<1>i. CASE WriteFill
  BY <1>i, <1>1 DEF WriteFill
<1>j. CASE WriteMissApply
  BY <1>j, AcknowledgeType DEF WriteMissApply
<1>k. CASE Flushed
  BY <1>k, <1>1 DEF Flushed
<1>l. CASE FlushWait
  BY <1>l DEF FlushWait
<1>m. CASE Wait
  BY <1>m DEF Wait
<1> QED BY <1>a, <1>b, <1>c, <1>d, <1>e, <1>f, <1>g, <1>h, <1>i, <1>j, <1>k,
           <1>l, <1>m DEF CacheEdge

\* Every step keeps every register in range.
LEMMA TypeStep ==
  ASSUME TypeOK, [Next]_vars
  PROVE  TypeOK'
<1>1. CASE Rise
  <2>1. CacheEdge /\ Edge /\ L!PortRise /\ clk' = "high"
    BY <1>1 DEF Rise, CacheEdge
  <2> QED BY <2>1, EdgeType, PortRiseType, FsmType DEF FsmTypeOK, TypeOK
<1>2. CASE Fall
  <2>1. L!PortFall /\ UNCHANGED cacheVars /\ clk' = "low"
    BY <1>2 DEF Fall
  <2> QED BY <2>1, PortFallType
          DEF TypeOK, cacheVars, cpuVars, memReq, ramVars, hist
<1>3. CASE UNCHANGED vars
  BY <1>3 DEF TypeOK, vars, cacheVars, cpuVars, memReq, ramVars, hist
<1> QED BY <1>1, <1>2, <1>3 DEF Next

\* The reset values are in range.
LEMMA TypeInit == Init => TypeOK
<1> SUFFICES ASSUME Init PROVE TypeOK
  OBVIOUS
<1>1. NLines - 1 \in Line /\ [tag |-> Tag0, line |-> 0] \in LineAddr
  BY CacheAssumption DEF Line, LineAddr
<1>2. recent \in [Line -> Seq(Tag)]
  BY DEF Init, CacheInit
<1>3. way \in [Way -> [Line -> Entry]] /\ rd \in [Way -> Entry]
  BY CacheAssumption DEF Init, CacheInit
<1> QED BY <1>1, <1>2, <1>3 DEF Init, CacheInit, L!PortInit, TypeOK, State

\* TypeOK holds in every reachable state, whatever the sizes of the cache.
THEOREM TypeCorrect == Safety => []TypeOK
<1>1. TypeOK /\ [Next]_vars => TypeOK'
  BY TypeStep
<1> QED BY TypeInit, <1>1, PTL DEF Safety

-----------------------------------------------------------------------------
(* The handshakes.                                                            *)

\* Each disjunct of a rising edge, with what all of them share.
RiseCases ==
  \/ Reset \/ Idle \/ Compare \/ (\E w \in Way : Hit(w)) \/ MissDirty \/ MissClean
  \/ AwaitMemory \/ ReadFill \/ WriteFill \/ WriteMissApply \/ Flushed
  \/ FlushWait \/ Wait

LEMMA RiseSplit ==
  ASSUME Rise
  PROVE  /\ clk = "low" /\ clk' = "high" /\ Edge /\ RamEdge /\ CompareEdge /\ CpuEdge
         /\ L!PortRise /\ RiseCases
BY DEF Rise, CacheEdge, Edge, RiseCases

\* The request line and the answer line stay in step with the state machine.
LEMMA CpuRise ==
  ASSUME IInv, Rise
  PROVE  CpuInv'
<1> USE DEF CpuInv, CpuEdge, cpuVars, Serving
<1>0. TypeOK /\ CpuInv /\ CpuEdge /\ RiseCases
  BY RiseSplit DEF IInv
<1>1. CASE Reset
  BY <1>0, <1>1 DEF Reset, TypeOK
<1>2. CASE Idle
  BY <1>0, <1>2 DEF Idle, TypeOK
<1>3. CASE Compare
  BY <1>0, <1>3 DEF Compare, TypeOK
<1>4. ASSUME NEW w \in Way, Hit(w) PROVE CpuInv'
  BY <1>0, <1>4 DEF Hit, Acknowledge, TypeOK
<1>5. CASE MissDirty
  BY <1>0, <1>5 DEF MissDirty, TypeOK
<1>6. CASE MissClean
  BY <1>0, <1>6 DEF MissClean, TypeOK
<1>7. CASE AwaitMemory
  BY <1>0, <1>7 DEF AwaitMemory, TypeOK
<1>8. CASE ReadFill
  BY <1>0, <1>8 DEF ReadFill, Acknowledge, TypeOK
<1>9. CASE WriteFill
  BY <1>0, <1>9 DEF WriteFill, TypeOK
<1>10. CASE WriteMissApply
  BY <1>0, <1>10 DEF WriteMissApply, Acknowledge, TypeOK
<1>11. CASE Flushed
  BY <1>0, <1>11 DEF Flushed, TypeOK
<1>12. CASE FlushWait
  BY <1>0, <1>12 DEF FlushWait, TypeOK
<1>13. CASE Wait
  BY <1>0, <1>13 DEF Wait, TypeOK
<1> QED BY <1>0, <1>1, <1>2, <1>3, <1>4, <1>5, <1>6, <1>7, <1>8, <1>9, <1>10,
           <1>11, <1>12, <1>13 DEF RiseCases

\* The port is where the state machine expects it, and its answer is one pulse.
LEMMA PortRise ==
  ASSUME IInv, Rise
  PROVE  PortInv'
<1> USE DEF PortInv, memReq
<1>0. /\ TypeOK /\ PortInv /\ RiseCases /\ clk = "low" /\ clk' = "high"
      /\ memReady' = readyInt /\ readyInt' = readyInt
      /\ cmd' = cmd /\ (port' = port \/ (port = "BUSY" /\ port' = "DONE"))
  BY RiseSplit DEF IInv, L!PortRise, L!Transfer, L!Pending
<1>1. CASE Reset
  BY <1>0, <1>1 DEF Reset
<1>2. CASE Idle
  BY <1>0, <1>2 DEF Idle
<1>3. CASE Compare
  BY <1>0, <1>3 DEF Compare
<1>4. ASSUME NEW w \in Way, Hit(w) PROVE PortInv'
  BY <1>0, <1>4, CpuRise DEF Hit, Acknowledge
<1>5. CASE MissDirty
  BY <1>0, <1>5 DEF MissDirty
<1>6. CASE MissClean
  BY <1>0, <1>6 DEF MissClean
<1>7. CASE AwaitMemory
  BY <1>0, <1>7 DEF AwaitMemory, TypeOK
<1>8. CASE ReadFill
  BY <1>0, <1>8 DEF ReadFill, Acknowledge, TypeOK
<1>9. CASE WriteFill
  BY <1>0, <1>9 DEF WriteFill, TypeOK
<1>10. CASE WriteMissApply
  BY <1>0, <1>10 DEF WriteMissApply, Acknowledge
<1>11. CASE Flushed
  BY <1>0, <1>11 DEF Flushed, TypeOK
<1>12. CASE FlushWait
  BY <1>0, <1>12 DEF FlushWait
<1>13. CASE Wait
  BY <1>0, <1>13 DEF Wait, CpuInv, IInv
<1> QED BY <1>0, <1>1, <1>2, <1>3, <1>4, <1>5, <1>6, <1>7, <1>8, <1>9, <1>10,
           <1>11, <1>12, <1>13 DEF RiseCases

-----------------------------------------------------------------------------
(* The block RAMs over one rising edge.                                       *)

\* The output registers show the line that was addressed, as it is now.
LEMMA RamRead ==
  ASSUME TypeOK, RamEdge, NEW w \in Way
  PROVE  rd'[w] = way'[w][RamLine]
BY RamLineType DEF TypeOK, RamEdge

\* A way whose write enable is low keeps its contents.
LEMMA RamKeep ==
  ASSUME TypeOK, RamEdge, NEW w \in Way, ~we[w]
  PROVE  way'[w] = way[w] /\ rd'[w] = way[w][RamLine]
BY DEF TypeOK, RamEdge

\* A way whose write enable is high changes in the addressed line only.
LEMMA RamWrite ==
  ASSUME TypeOK, RamEdge, NEW w \in Way, we[w]
  PROVE  /\ rd'[w] = WriteValue(w)
         /\ \A l \in Line : way'[w][l] = IF l = RamLine THEN WriteValue(w) ELSE way[w][l]
BY RamLineType DEF TypeOK, RamEdge

\* Without a write nothing in the RAMs moves.
LEMMA RamQuiet ==
  ASSUME TypeOK, RamEdge, NoWrite
  PROVE  way' = way /\ \A w \in Way : rd'[w] = way[w][RamLine]
<1>1. \A w \in Way : way'[w] = way[w] /\ rd'[w] = way[w][RamLine]
  BY RamKeep DEF NoWrite
<1>2. way \in [Way -> [Line -> Entry]] /\ way' = [w \in Way |-> way'[w]]
  BY DEF TypeOK, RamEdge
<1> QED BY <1>1, <1>2

\* While a request is open its address, data and strobes stand still, and an
\* edge that writes nothing leaves the output registers as they were.
LEMMA OpenRequest ==
  ASSUME IInv, Rise, state \in Serving
  PROVE  /\ UNCHANGED cpuVars /\ sysValid /\ ~sysReady /\ ~lineSel
         /\ RamLine = sysAddr.line
BY RiseSplit DEF IInv, CpuInv, CpuEdge, cpuVars, RamLine, Serving

LEMMA OpenQuiet ==
  ASSUME IInv, Rise, state \in {"CHECK", "MISS", "FLUSH"}
  PROVE  /\ way' = way /\ rd' = rd /\ Victim' = Victim /\ VictimDirty' = VictimDirty
         /\ \A w \in Way : Match(rd[w])' = Match(rd[w])
<1>1. /\ TypeOK /\ RamEdge /\ NoWrite /\ UNCHANGED cpuVars /\ RamLine = sysAddr.line
      /\ \A w \in Way : rd[w] = way[w][sysAddr.line]
  BY RiseSplit, OpenRequest DEF IInv, WriteInv, ReadInv, Serving
<1>2. way' = way /\ \A w \in Way : rd'[w] = rd[w]
  BY <1>1, RamQuiet
<1>3. rd' = rd
  <2>1. rd' = [w \in Way |-> rd'[w]] /\ rd = [w \in Way |-> rd[w]]
    BY <1>1 DEF RamEdge, TypeOK
  <2> QED BY <1>2, <2>1
<1> QED BY <1>1, <1>2, <1>3 DEF Victim, Way0Newer, VictimDirty, Match, cpuVars

\* The output registers follow the open request.
LEMMA ReadRegisters ==
  ASSUME IInv, Rise, state' \in Serving \/ sysReady'
  PROVE  \A w \in Way : rd'[w] = way'[w][sysAddr'.line]
<1>0. TypeOK /\ CpuInv /\ CpuEdge /\ RamEdge /\ RiseCases
  BY RiseSplit DEF IInv
<1>1. ~lineSel /\ sysAddr' = sysAddr
  <2>1. CASE state \in Serving
    BY <2>1, OpenRequest DEF cpuVars
  <2>2. CASE state = "IDLE"
    <3>1. Idle
      BY <1>0, <2>2 DEF RiseCases, Reset, Compare, Hit, MissDirty, MissClean,
         AwaitMemory, ReadFill, WriteFill, WriteMissApply, Flushed, FlushWait, Wait
    <3> QED BY <1>0, <2>2, <3>1 DEF Idle, CpuInv, CpuEdge, cpuVars, Serving
  <2>3. CASE state = "RESET"
    <3>1. Reset
      BY <1>0, <2>3 DEF RiseCases, Idle, Compare, Hit, MissDirty, MissClean,
         AwaitMemory, ReadFill, WriteFill, WriteMissApply, Flushed, FlushWait, Wait
    <3> QED BY <1>0, <2>3, <3>1 DEF Reset, CpuInv, Serving
  <2>4. CASE state = "WAIT"
    <3>1. Wait
      BY <1>0, <2>4 DEF RiseCases, Idle, Compare, Hit, MissDirty, MissClean,
         AwaitMemory, ReadFill, WriteFill, WriteMissApply, Flushed, FlushWait, Reset
    <3> QED BY <1>0, <2>4, <3>1 DEF Wait, CpuInv, Serving
  <2> QED BY <1>0, <2>1, <2>2, <2>3, <2>4 DEF TypeOK, State, Serving
<1>2. RamLine = sysAddr.line
  BY <1>1 DEF RamLine
<1> QED BY <1>0, <1>1, <1>2, RamRead

-----------------------------------------------------------------------------
(* What is written, and what is read.                                         *)

\* The ways are two: each is the other of the other.
LEMMA TwoWays ==
  ASSUME NEW w \in Way
  PROVE  /\ Other(w) \in Way /\ Other(w) # w /\ Other(Other(w)) = w
         /\ \A x \in Way : x = w \/ x = Other(w)
BY DEF Way, Other

LEMMA VictimIsWay == Victim \in Way
BY DEF Victim, Way

\* A cleared line answers nothing; a filled one answers the request.
LEMMA FlushValue ==
  ASSUME wbSrc = "FLUSH", NEW w \in Way
  PROVE  WriteValue(w) = Blank(~NewerBit(w)) /\ ~WriteValue(w).valid
BY DEF WriteValue, Overlaid, Filled, Cleared, Blank

LEMMA FillValue ==
  ASSUME wbSrc = "MEM", NEW w \in Way
  PROVE  /\ WriteValue(w).valid /\ ~WriteValue(w).dirty
         /\ WriteValue(w).tag = sysAddr.tag /\ WriteValue(w).data = memRdata
BY DEF WriteValue, Overlaid, Filled, Cleared

\* The line that a fill has just brought in is the requested one.
LEMMA FillMatches ==
  ASSUME IInv, Rise, state = "WRITE_MISS_APPLY", NEW v \in Way, v = Victim
  PROVE  /\ we[v] /\ ~we[Other(v)]
         /\ rd'[v] = WriteValue(v) /\ rd'[Other(v)] = rd[Other(v)]
         /\ Match(rd[v])' /\ ~Match(rd[Other(v)])'
<1>1. /\ TypeOK /\ RamEdge /\ OnlyVictimWritten /\ wbSrc = "MEM" /\ UNCHANGED cpuVars
      /\ RamLine = sysAddr.line
      /\ \A w \in Way : rd[w] = way[w][sysAddr.line] /\ ~Match(rd[w])
  BY RiseSplit, OpenRequest DEF IInv, WriteInv, ReadInv, Serving
<1>2. we[v] /\ ~we[Other(v)] /\ Other(v) \in Way
  BY <1>1, TwoWays DEF OnlyVictimWritten
<1>3. rd'[v] = WriteValue(v) /\ rd'[Other(v)] = rd[Other(v)]
  BY <1>1, <1>2, RamWrite, RamKeep
<1>4. WriteValue(v).valid /\ WriteValue(v).tag = sysAddr.tag
  BY <1>1, FillValue
<1> QED BY <1>1, <1>2, <1>3, <1>4 DEF Match, cpuVars

\* The write enables are set only for the edges that mean to write.
LEMMA WriteRise ==
  ASSUME IInv, Rise
  PROVE  WriteInv'
<1> USE DEF WriteInv, NoWrite
<1>0. TypeOK /\ CpuInv /\ WriteInv /\ RiseCases /\ CpuInv' /\ Way = {0, 1}
  BY RiseSplit, CpuRise DEF IInv, Way
<1>v. Victim \in Way /\ Other(Victim) \in Way /\ Victim # Other(Victim)
  BY DEF Victim, Way, Other
<1>1. CASE Reset
  BY <1>0, <1>1 DEF Reset, CpuInv
<1>2. CASE Idle
  BY <1>0, <1>2 DEF Idle, CpuInv
<1>3. CASE Compare
  BY <1>0, <1>3 DEF Compare, CpuInv, Serving
<1>4. ASSUME NEW w \in Way, Hit(w) PROVE WriteInv'
  <2>1. cmp[w] /\ state = "CHECK" /\ rd' = rd /\ (Match(rd[w])' = Match(rd[w]))
    BY <1>4, OpenQuiet DEF Hit
  <2>2. Match(rd[w])'
    BY <2>1 DEF IInv, ReadInv
  <2>3. we'[w] /\ ~we'[Other(w)]
    BY <1>4, TwoWays DEF Hit
  <2> QED BY <1>0, <1>4, <2>2, <2>3 DEF Hit, Acknowledge, CpuInv
<1>5. CASE MissDirty
  BY <1>0, <1>5 DEF MissDirty, CpuInv
<1>6. CASE MissClean
  BY <1>0, <1>6 DEF MissClean, CpuInv
<1>7. CASE AwaitMemory
  BY <1>0, <1>7 DEF AwaitMemory, CpuInv
<1>8. CASE ReadFill
  <2>1. Victim' = Victim /\ NoWrite /\ sysWstrb' = sysWstrb
    BY <1>8, OpenQuiet, OpenRequest DEF ReadFill, IInv, Serving, cpuVars
  <2>2. OnlyVictimWritten'
    BY <1>0, <1>8, <1>v, <2>1 DEF ReadFill, OnlyVictimWritten, Other, TypeOK
  <2> QED BY <1>0, <1>8, <2>1, <2>2 DEF ReadFill, Acknowledge, CpuInv
<1>9. CASE WriteFill
  <2>1. Victim' = Victim /\ NoWrite
    BY <1>9, OpenQuiet DEF WriteFill, IInv
  <2>2. OnlyVictimWritten'
    BY <1>0, <1>9, <1>v, <2>1 DEF WriteFill, OnlyVictimWritten, Other, TypeOK
  <2> QED BY <1>0, <1>9, <2>2 DEF WriteFill, CpuInv
<1>10. CASE WriteMissApply
  <2>1. we' = we /\ state' = "WAIT" /\ wbSrc' = "OVERLAY" /\ state = "WRITE_MISS_APPLY"
      /\ sysReady'
    BY <1>10 DEF WriteMissApply, Acknowledge
  <2>2. PICK v \in Way : v = Victim
    BY VictimIsWay
  <2>3. we'[v] /\ ~we'[Other(v)] /\ Match(rd[v])'
    BY <2>1, <2>2, FillMatches
  <2>4. \E w \in Way : we'[w] /\ ~we'[Other(w)] /\ Match(rd[w])'
    BY <2>3
  <2> QED BY <1>0, <2>1, <2>4 DEF CpuInv, Match
<1>11. CASE Flushed
  <2>1. Victim' = Victim /\ NoWrite
    BY <1>11, OpenQuiet DEF Flushed, IInv
  <2>2. OnlyVictimWritten'
    BY <1>0, <1>11, <1>v, <2>1 DEF Flushed, OnlyVictimWritten, Other, TypeOK
  <2> QED BY <1>0, <1>11, <2>2 DEF Flushed, CpuInv
<1>12. CASE FlushWait
  <2>1. ~memReady
    BY <1>12 DEF FlushWait, IInv, PortInv
  <2> QED BY <1>0, <1>12, <2>1 DEF FlushWait, CpuInv
<1>13. CASE Wait
  BY <1>0, <1>13 DEF Wait, CpuInv
<1> QED BY <1>0, <1>1, <1>2, <1>3, <1>4, <1>5, <1>6, <1>7, <1>8, <1>9, <1>10,
           <1>11, <1>12, <1>13 DEF RiseCases

\* Comparators and output registers judge the open request.
LEMMA ReadRise ==
  ASSUME IInv, Rise
  PROVE  ReadInv'
<1>0. /\ TypeOK /\ CpuInv /\ ReadInv /\ PortInv /\ WriteInv /\ RiseCases /\ CpuInv'
      /\ Way = {0, 1}
      /\ CompareEdge /\ RamEdge
  BY RiseSplit, CpuRise DEF IInv, Way
<1>r. state' \in Serving \/ sysReady' => \A w \in Way : rd'[w] = way'[w][sysAddr'.line]
  BY ReadRegisters
<1>c. \A w \in Way : cmp'[w] = Match(rd[w])
  BY <1>0 DEF CompareEdge, Match
<1>1. CASE Reset
  BY <1>0, <1>1, <1>r DEF Reset, ReadInv, CpuInv
<1>2. CASE Idle
  BY <1>0, <1>2, <1>r DEF Idle, ReadInv, CpuInv
<1>3. CASE Compare
  <2>1. state = "COMPARE" /\ state' = "CHECK" /\ ~sysReady'
    BY <1>0, <1>3 DEF Compare, CpuInv, Serving
  <2>2. NoWrite /\ UNCHANGED cpuVars /\ RamLine = sysAddr.line
    BY <1>0, <2>1, OpenRequest DEF WriteInv, Serving
  <2>3. \A w \in Way : rd'[w] = rd[w]
    BY <1>0, <2>1, <2>2, RamQuiet DEF ReadInv, Serving
  <2> QED BY <1>r, <1>c, <2>1, <2>2, <2>3 DEF ReadInv, Match, cpuVars
<1>4. ASSUME NEW x \in Way, Hit(x) PROVE ReadInv'
  BY <1>r, <1>4 DEF Hit, ReadInv
<1>5. CASE MissDirty
  BY <1>0, <1>5, <1>r, OpenQuiet DEF MissDirty, ReadInv, CpuInv, Serving
<1>6. CASE MissClean
  BY <1>0, <1>6, <1>r, OpenQuiet DEF MissClean, ReadInv, CpuInv, Serving
<1>7. CASE AwaitMemory
  BY <1>0, <1>7, <1>r, OpenQuiet DEF AwaitMemory, ReadInv, CpuInv, Serving
<1>8. CASE ReadFill
  BY <1>0, <1>8, <1>r, OpenQuiet DEF ReadFill, ReadInv
<1>9. CASE WriteFill
  BY <1>0, <1>9, <1>r, OpenQuiet DEF WriteFill, ReadInv, CpuInv, Serving
<1>10. CASE WriteMissApply
  BY <1>r, <1>10 DEF WriteMissApply, ReadInv
<1>11. CASE Flushed
  BY <1>0, <1>11, <1>r, OpenQuiet DEF Flushed, ReadInv, CpuInv, Serving
<1>12. CASE FlushWait
  <2>1. /\ ~memReady /\ state = "FLUSH_WAIT" /\ state' = "CHECK" /\ ~sysReady'
        /\ UNCHANGED cpuVars /\ RamLine = sysAddr.line
    BY <1>0, <1>12, OpenRequest DEF FlushWait, PortInv, CpuInv, Serving
  <2>2. PICK v \in Way : v = Victim
    BY VictimIsWay
  <2>3. we[v] /\ ~we[Other(v)] /\ wbSrc = "FLUSH" /\ Other(v) \in Way
    BY <1>0, <2>1, <2>2, TwoWays DEF WriteInv, OnlyVictimWritten
  <2>5. rd'[v] = WriteValue(v) /\ ~WriteValue(v).valid
        /\ rd'[Other(v)] = rd[Other(v)]
    BY <1>0, <2>1, <2>3, RamWrite, RamKeep, FlushValue DEF ReadInv, Serving
  <2>4. \A w \in Way : ~Match(rd[w]) /\ ~Match(rd[w])'
    <3>1. \A w \in Way : ~Match(rd[w])
      BY <1>0, <2>1 DEF ReadInv
    <3>2. ~Match(rd[v])' /\ ~Match(rd[Other(v)])'
      BY <2>1, <2>3, <2>5, <3>1 DEF Match, cpuVars
    <3> QED BY <3>1, <3>2, TwoWays
  <2>6. \A w \in Way : cmp'[w] = Match(rd[w])'
    BY <1>c, <2>4 DEF Match
  <2> QED BY <1>r, <2>1, <2>6 DEF ReadInv, Match
<1>13. CASE Wait
  BY <1>0, <1>13, <1>r DEF Wait, ReadInv, Serving
<1> QED BY <1>0, <1>1, <1>2, <1>3, <1>4, <1>5, <1>6, <1>7, <1>8, <1>9, <1>10,
           <1>11, <1>12, <1>13 DEF RiseCases

-----------------------------------------------------------------------------
(* The sweep.                                                                 *)

\* No state but RESET and the first of IDLE selects the sweep counter.
LEMMA SweepRise ==
  ASSUME IInv, Rise
  PROVE  SweepInv'
<1>0. /\ TypeOK /\ CpuInv /\ SweepInv /\ PortInv /\ WriteInv /\ RiseCases /\ CpuInv'
      /\ RamEdge /\ L!PortRise /\ TypeOK'
  BY RiseSplit, CpuRise, TypeStep DEF IInv, Next
<1>1. CASE Reset
  <2>1. /\ state = "RESET" /\ lineSel /\ port = "IDLE" /\ wbSrc = "FLUSH"
        /\ ref' = ref /\ lineSel' = lineSel
    BY <1>0, <1>1 DEF Reset, CpuInv, PortInv, WriteInv, hist
  <2>2. store' = store
    BY <1>0, <2>1 DEF L!PortRise, L!Transfer, L!Pending
  <2>3. invCounter \in Line /\ NLines \in Nat /\ NLines > 0 /\ RamLine = invCounter
    BY <1>0, <2>1, CacheAssumption DEF TypeOK, RamLine
  <2>4. ASSUME NEW w \in Way, NEW l \in Line, l < NLines - 1, l > invCounter \/ l = invCounter
        PROVE  ~way'[w][l].valid
    <3>1. CASE l = invCounter
      <4>1. we[w]
        BY <1>0, <2>1, <2>4, <3>1 DEF SweepInv
      <4>2. way'[w][l] = WriteValue(w)
        BY <1>0, <2>3, <3>1, <4>1, RamWrite
      <4> QED BY <2>1, <4>2, FlushValue
    <3>2. CASE l > invCounter
      <4>1. ~way[w][l].valid
        BY <1>0, <2>1, <2>4, <3>2 DEF SweepInv
      <4>2. way'[w][l] = way[w][l]
        <5>1. CASE we[w]
          BY <1>0, <2>3, <3>2, <5>1, RamWrite DEF Line
        <5>2. CASE ~we[w]
          BY <1>0, <5>2, RamKeep
        <5> QED BY <5>1, <5>2
      <4> QED BY <4>1, <4>2
    <3> QED BY <2>4, <3>1, <3>2
  <2>5. \A w \in Way : we'[w]
    BY <1>1 DEF Reset
  <2>6. CASE invCounter = 0
    <3>1. state' = "IDLE" /\ invCounter' = NLines - 1
      BY <1>1, <2>6 DEF Reset
    <3>2. \A w \in Way, l \in Line : l < NLines - 1 => ~way'[w][l].valid
      BY <2>3, <2>4, <2>6 DEF Line
    <3> QED BY <1>0, <2>1, <2>2, <2>5, <3>1, <3>2 DEF SweepInv, LineOf
  <2>7. CASE invCounter # 0
    <3>1. state' = "RESET" /\ invCounter' = invCounter - 1
      BY <1>1, <2>7 DEF Reset
    <3>2. \A w \in Way, l \in Line :
             l > invCounter' /\ l < NLines - 1 => ~way'[w][l].valid
      BY <2>3, <2>4, <3>1 DEF Line
    <3> QED BY <1>0, <2>1, <2>2, <2>5, <3>1, <3>2 DEF SweepInv, LineOf
  <2> QED BY <2>6, <2>7
<1>2. CASE Idle
  BY <1>0, <1>2 DEF Idle, SweepInv
<1>3. CASE state # "RESET" /\ state # "IDLE"
  <2>1. state' # "RESET" /\ lineSel' = lineSel
    BY <1>0, <1>3 DEF RiseCases, Reset, Idle, Compare, Hit, MissDirty, MissClean, AwaitMemory,
       ReadFill, WriteFill, WriteMissApply, Flushed, FlushWait, Wait
  <2>2. ~lineSel
    BY <1>0, <1>3 DEF CpuInv
  <2> QED BY <2>1, <2>2 DEF SweepInv
<1> QED BY <1>0, <1>1, <1>2, <1>3 DEF RiseCases, Compare, Hit, MissDirty, MissClean,
           AwaitMemory, ReadFill, WriteFill, WriteMissApply, Flushed, FlushWait, Wait

-----------------------------------------------------------------------------
(* What moves between the cache and the LPDDR.                                *)

\* At either edge, the LPDDR changes only at the line being flushed, and then
\* takes the block the output register of the victim holds.
LEMMA StoreMove ==
  ASSUME IInv, L!Transfer \/ L!Pending
  PROVE  /\ store' \in [LineAddr -> Block]
         /\ \A la \in LineAddr : store'[la] = store[la]
                                   \/ (state = "FLUSH" /\ la = memAddr)
         /\ state = "FLUSH" /\ port' \in {"DONE", "ACK"} =>
              store'[memAddr] = rd[Victim].data
         /\ state # "FLUSH" => store' = store
<1>0. /\ TypeOK /\ PortInv /\ MoveInv /\ WriteInv
  BY DEF IInv
<1>1. CASE L!Pending
  BY <1>0, <1>1 DEF L!Pending, TypeOK, MoveInv
<1>2. CASE L!Transfer
  <2>1. /\ port = "BUSY" /\ state \in {"MISS", "FLUSH"}
        /\ cmd = [addr |-> memAddr, wr |-> memWstrb]
    BY <1>0, <1>2 DEF L!Transfer, PortInv
  <2>2. CASE state = "MISS"
    BY <1>0, <1>2, <2>1, <2>2 DEF L!Transfer, MoveInv, TypeOK
  <2>3. CASE state = "FLUSH"
    <3>1. memWstrb /\ memWSrc = Victim
      BY <1>0, <2>3 DEF MoveInv
    <3>2. store' = [store EXCEPT ![memAddr] = rd[Victim].data]
      BY <1>2, <2>1, <3>1 DEF L!Transfer, MemWdata
    <3>3. rd[Victim].data \in Block
      BY <1>0, VictimIsWay DEF TypeOK, Entry
    <3> QED BY <1>0, <2>3, <3>2, <3>3 DEF TypeOK
  <2> QED BY <2>1, <2>2, <2>3
<1> QED BY <1>1, <1>2

\* A read leaves the requested line in the read buffer.
LEMMA ReadMove ==
  ASSUME IInv, L!Transfer \/ L!Pending
  PROVE  /\ state = "MISS" /\ port' \in {"DONE", "ACK"} => memRdata' = store'[memAddr]
         /\ state \notin {"MISS", "FLUSH"} => memRdata' = memRdata /\ port' = port
<1>0. /\ TypeOK /\ PortInv /\ MoveInv
  BY DEF IInv
<1>1. CASE L!Pending
  BY <1>0, <1>1 DEF L!Pending, TypeOK, MoveInv, PortInv
<1>2. CASE L!Transfer
  BY <1>0, <1>2 DEF L!Transfer, PortInv, MoveInv
<1> QED BY <1>1, <1>2

\* The victim a miss chose is the one that is flushed, filled and cleared.
LEMMA MoveRise ==
  ASSUME IInv, Rise
  PROVE  MoveInv'
<1>0. /\ TypeOK /\ CpuInv /\ ReadInv /\ PortInv /\ WriteInv /\ MoveInv /\ RiseCases
      /\ CpuInv' /\ RamEdge /\ L!PortRise /\ (L!Transfer \/ L!Pending)
  BY RiseSplit, CpuRise DEF IInv, L!PortRise
<1>q. state \in {"CHECK", "MISS", "FLUSH"} =>
        rd' = rd /\ Victim' = Victim /\ VictimDirty' = VictimDirty
  BY OpenQuiet
<1>s. state \in Serving => UNCHANGED cpuVars /\ sysAddr \in Addr
  BY <1>0, OpenRequest DEF TypeOK
<1>p. port' = port \/ (port = "BUSY" /\ port' = "DONE")
  BY <1>0 DEF L!Transfer, L!Pending
<1>1. CASE Reset
  BY <1>0, <1>1 DEF Reset, MoveInv, CpuInv
<1>2. CASE Idle
  BY <1>0, <1>2 DEF Idle, MoveInv, CpuInv
<1>3. CASE Compare
  BY <1>0, <1>3 DEF Compare, MoveInv, CpuInv, Serving
<1>4. ASSUME NEW x \in Way, Hit(x) PROVE MoveInv'
  BY <1>4 DEF Hit, MoveInv
<1>5. CASE MissDirty
  BY <1>0, <1>5, <1>p, <1>q, <1>s DEF MissDirty, MoveInv, PortInv, CpuInv, Serving, cpuVars
<1>6. CASE MissClean
  BY <1>0, <1>6, <1>p, <1>q, <1>s
     DEF MissClean, MoveInv, PortInv, CpuInv, Serving, cpuVars, LineOf
<1>7. CASE AwaitMemory
  <2>1. /\ state' = state /\ memAddr' = memAddr /\ memWstrb' = memWstrb
        /\ memWSrc' = memWSrc /\ sysReady' = sysReady /\ ~sysReady
        /\ state \in {"MISS", "FLUSH"} /\ sysAddr' = sysAddr
    BY <1>0, <1>7, <1>s DEF AwaitMemory, memReq, CpuInv, Serving, cpuVars
  <2>2. CASE state = "MISS"
    BY <1>0, <1>q, <2>1, <2>2, ReadMove DEF MoveInv, LineOf
  <2>3. CASE state = "FLUSH"
    BY <1>0, <1>q, <2>1, <2>3, StoreMove DEF MoveInv
  <2> QED BY <2>1, <2>2, <2>3
<1>8. CASE ReadFill
  <2>1. /\ state = "MISS" /\ memReady /\ state' = "WAIT" /\ sysReady'
    BY <1>8 DEF ReadFill, Acknowledge
  <2>2. port = "ACK" /\ port' = "ACK" /\ memRdata' = memRdata
    BY <1>0, <2>1 DEF PortInv, L!Transfer, L!Pending
  <2>3. /\ ~VictimDirty /\ ~VictimDirty' /\ memAddr = LineOf(sysAddr)
        /\ sysAddr' = sysAddr /\ memRdata' = store'[memAddr]
    BY <1>0, <1>q, <1>s, <2>1, <2>2, ReadMove DEF MoveInv, Serving, cpuVars
  <2> QED BY <2>1, <2>3 DEF MoveInv, LineOf
<1>9. CASE WriteFill
  <2>1. /\ state = "MISS" /\ memReady /\ state' = "WRITE_MISS_APPLY"
    BY <1>9 DEF WriteFill
  <2>2. port = "ACK" /\ port' = "ACK" /\ memRdata' = memRdata
    BY <1>0, <2>1 DEF PortInv, L!Transfer, L!Pending
  <2>3. /\ ~VictimDirty /\ ~VictimDirty' /\ memAddr = LineOf(sysAddr)
        /\ sysAddr' = sysAddr /\ memRdata' = store'[memAddr]
    BY <1>0, <1>q, <1>s, <2>1, <2>2, ReadMove DEF MoveInv, Serving, cpuVars
  <2> QED BY <2>1, <2>3 DEF MoveInv, LineOf
<1>10. CASE WriteMissApply
  BY <1>10 DEF WriteMissApply, MoveInv
<1>11. CASE Flushed
  <2>1. state = "FLUSH" /\ memReady /\ state' = "FLUSH_WAIT" /\ ~sysReady'
    BY <1>0, <1>11 DEF Flushed, CpuInv, Serving
  <2>2. port = "ACK" /\ port' = "ACK" /\ store' = store
    BY <1>0, <2>1 DEF PortInv, L!Transfer, L!Pending
  <2> QED BY <1>0, <1>q, <1>s, <2>1, <2>2 DEF MoveInv, Serving, cpuVars
<1>12. CASE FlushWait
  BY <1>0, <1>12 DEF FlushWait, MoveInv, PortInv, CpuInv, Serving
<1>13. CASE Wait
  BY <1>0, <1>13 DEF Wait, MoveInv, CpuInv
<1> QED BY <1>0, <1>1, <1>2, <1>3, <1>4, <1>5, <1>6, <1>7, <1>8, <1>9, <1>10,
           <1>11, <1>12, <1>13 DEF RiseCases

-----------------------------------------------------------------------------
(* The data.                                                                  *)

\* The parts of DataInv that no acknowledgement touches.
Exclusive == \A a \in Addr : ~(Holds(0, a) /\ Holds(1, a))
CleanStored ==
  \A w \in Way, a \in Addr :
    Holds(w, a) /\ ~way[w][a.line].dirty => way[w][a.line].data = store[LineOf(a)]

LEMMA AddrLine ==
  ASSUME NEW a \in Addr
  PROVE  LineOf(a) \in LineAddr /\ a.line \in Line /\ a.tag \in Tag /\ a.word \in Word
BY DEF Addr, LineOf, LineAddr

\* While no way is written, nothing the CPU could read changes, although the
\* LPDDR may be taking a flushed line.
LEMMA DataKeep ==
  ASSUME IInv, Exclusive, CleanStored, way' = way, L!Transfer \/ L!Pending
  PROVE  Exclusive' /\ CleanStored' /\ \A a \in Addr : View(a)' = View(a)
<1>1. \A w, a : Holds(w, a)' = Holds(w, a)
  BY DEF Holds
<1>2. ASSUME NEW a \in Addr, store'[LineOf(a)] # store[LineOf(a)]
      PROVE  \E v \in Way : Holds(v, a) /\ way[v][a.line].dirty
  <2>1. state = "FLUSH" /\ LineOf(a) = memAddr
    BY <1>2, StoreMove, AddrLine
  <2>2. PICK v \in Way : v = Victim
    BY VictimIsWay
  <2>3. /\ memAddr = [tag |-> rd[v].tag, line |-> sysAddr.line]
        /\ rd[v].valid /\ rd[v].dirty /\ rd[v] = way[v][sysAddr.line]
    BY <2>1, <2>2 DEF IInv, MoveInv, VictimDirty, ReadInv, Serving
  <2>4. a.line = sysAddr.line /\ a.tag = rd[v].tag
    BY <2>1, <2>3 DEF LineOf
  <2> QED BY <2>3, <2>4 DEF Holds
<1>3. Exclusive'
  BY <1>1 DEF Exclusive
<1>4. CleanStored'
  <2> SUFFICES ASSUME NEW w \in Way, NEW a \in Addr, Holds(w, a), ~way[w][a.line].dirty
               PROVE  way[w][a.line].data = store'[LineOf(a)]
    BY <1>1 DEF CleanStored
  <2>1. \A v \in Way : Holds(v, a) => v = w
    BY DEF Exclusive, Way
  <2>2. store'[LineOf(a)] = store[LineOf(a)]
    BY <1>2, <2>1
  <2> QED BY <2>2 DEF CleanStored
<1>5. ASSUME NEW a \in Addr PROVE View(a)' = View(a)
  <2>1. CASE Holds(0, a) \/ Holds(1, a)
    BY <1>1, <2>1 DEF View
  <2>2. CASE ~Holds(0, a) /\ ~Holds(1, a)
    <3>1. store'[LineOf(a)] = store[LineOf(a)]
      BY <1>2, <2>2 DEF Way
    <3> QED BY <1>1, <2>2, <3>1 DEF View
  <2> QED BY <2>1, <2>2
<1> QED BY <1>3, <1>4, <1>5

\* A block read into the place of a clean line leaves every word as it was.
LEMMA DataFill ==
  ASSUME IInv, Exclusive, CleanStored, RamEdge, store' = store, wbSrc = "MEM",
         RamLine = sysAddr.line, NEW v \in Way, we[v], ~we[Other(v)],
         ~(rd[v].valid /\ rd[v].dirty), memRdata = store[LineOf(sysAddr)],
         \A w \in Way : rd[w] = way[w][sysAddr.line] /\ ~Match(rd[w])
  PROVE  Exclusive' /\ CleanStored' /\ \A a \in Addr : View(a)' = View(a)
<1> DEFINE o == Other(v)
<1>0. TypeOK /\ o \in Way /\ o # v /\ (\A w \in Way : w = v \/ w = o)
      /\ sysAddr \in Addr
  BY TwoWays DEF IInv, TypeOK
<1>1. /\ way'[o] = way[o]
      /\ \A l \in Line : l # sysAddr.line => way'[v][l] = way[v][l]
      /\ way'[v][sysAddr.line] = WriteValue(v)
  BY <1>0, RamKeep, RamWrite, AddrLine
<1>2. ASSUME NEW a \in Addr, a.line # sysAddr.line
      PROVE  \A w \in Way : Holds(w, a)' = Holds(w, a) /\ way'[w][a.line] = way[w][a.line]
  BY <1>0, <1>1, <1>2, AddrLine DEF Holds
<1>3. ASSUME NEW a \in Addr, a.line = sysAddr.line
      PROVE  /\ Holds(o, a)' = Holds(o, a) /\ way'[o][a.line] = way[o][a.line]
             /\ Holds(v, a)' = (a.tag = sysAddr.tag)
             /\ way'[v][a.line].data = store[LineOf(sysAddr)]
             /\ ~Holds(v, a) \/ ~way[v][a.line].dirty
             /\ a.tag = sysAddr.tag => ~Holds(v, a) /\ ~Holds(o, a)
                                       /\ LineOf(a) = LineOf(sysAddr)
  BY <1>0, <1>1, <1>3, FillValue DEF Holds, Match, LineOf
<1>4. ASSUME NEW a \in Addr PROVE ~(Holds(v, a)' /\ Holds(o, a)')
  <2>1. ~(Holds(v, a) /\ Holds(o, a))
    BY <1>0 DEF Exclusive, Way
  <2> QED BY <1>0, <1>2, <1>3, <2>1
<1>5. Exclusive'
  BY <1>0, <1>4 DEF Exclusive, Way
<1>6. CleanStored'
  <2> SUFFICES ASSUME NEW w \in Way, NEW a \in Addr, Holds(w, a)', ~way'[w][a.line].dirty
               PROVE  way'[w][a.line].data = store[LineOf(a)]
    BY DEF CleanStored
  <2>1. CASE a.line # sysAddr.line \/ w = o
    BY <1>0, <1>2, <1>3, <2>1 DEF CleanStored
  <2>2. CASE a.line = sysAddr.line /\ w = v
    BY <1>3, <2>2
  <2> QED BY <1>0, <2>1, <2>2
<1>7. ASSUME NEW a \in Addr PROVE View(a)' = View(a)
  <2>1. CASE a.line # sysAddr.line
    BY <1>2, <2>1 DEF View, Way
  <2>2. CASE a.line = sysAddr.line /\ a.tag = sysAddr.tag
    <3>1. View(a) = store[LineOf(a)][a.word]
      BY <1>0, <1>3, <2>2 DEF View, Way
    <3>2. View(a)' = store[LineOf(a)][a.word]
      BY <1>0, <1>3, <2>2 DEF View, Way
    <3> QED BY <3>1, <3>2
  <2>3. CASE a.line = sysAddr.line /\ a.tag # sysAddr.tag /\ Holds(v, a)
    <3>1. ~Holds(o, a) /\ way[v][a.line].data = store[LineOf(a)]
      BY <1>0, <1>3, <2>3 DEF Exclusive, CleanStored, Way
    <3>2. View(a) = store[LineOf(a)][a.word]
      BY <1>0, <2>3, <3>1 DEF View, Way
    <3>3. View(a)' = store[LineOf(a)][a.word]
      BY <1>0, <1>3, <2>3, <3>1 DEF View, Way
    <3> QED BY <3>2, <3>3
  <2>4. CASE a.line = sysAddr.line /\ a.tag # sysAddr.tag /\ ~Holds(v, a)
    BY <1>0, <1>3, <2>4 DEF View, Way
  <2> QED BY <2>1, <2>2, <2>3, <2>4
<1> QED BY <1>5, <1>6, <1>7

\* Clearing a line whose block the LPDDR already has leaves every word too.
LEMMA DataClear ==
  ASSUME IInv, Exclusive, CleanStored, RamEdge, store' = store, wbSrc = "FLUSH",
         RamLine = sysAddr.line, NEW v \in Way, we[v], ~we[Other(v)],
         rd[v] = way[v][sysAddr.line],
         store[[tag |-> rd[v].tag, line |-> sysAddr.line]] = rd[v].data
  PROVE  Exclusive' /\ CleanStored' /\ \A a \in Addr : View(a)' = View(a)
<1> DEFINE o == Other(v)
<1>0. TypeOK /\ o \in Way /\ o # v /\ (\A w \in Way : w = v \/ w = o)
      /\ sysAddr \in Addr
  BY TwoWays DEF IInv, TypeOK
<1>1. /\ way'[o] = way[o]
      /\ \A l \in Line : l # sysAddr.line => way'[v][l] = way[v][l]
      /\ ~way'[v][sysAddr.line].valid
  BY <1>0, RamKeep, RamWrite, AddrLine, FlushValue
<1>2. ASSUME NEW a \in Addr
      PROVE  /\ Holds(o, a)' = Holds(o, a) /\ way'[o][a.line] = way[o][a.line]
             /\ Holds(v, a)' = (Holds(v, a) /\ a.line # sysAddr.line)
             /\ a.line # sysAddr.line => way'[v][a.line] = way[v][a.line]
             /\ ~(Holds(v, a) /\ Holds(o, a))
             /\ Holds(v, a) /\ a.line = sysAddr.line =>
                  way[v][a.line].data = store[LineOf(a)]
  <2>1. ~(Holds(v, a) /\ Holds(o, a))
    BY <1>0 DEF Exclusive, Way
  <2> QED BY <1>0, <1>1, <2>1, AddrLine DEF Holds, LineOf
<1>3. Exclusive'
  BY <1>0, <1>2 DEF Exclusive, Way
<1>4. CleanStored'
  <2> SUFFICES ASSUME NEW w \in Way, NEW a \in Addr, Holds(w, a)', ~way'[w][a.line].dirty
               PROVE  way'[w][a.line].data = store[LineOf(a)]
    BY DEF CleanStored
  <2>1. CASE w = o
    BY <1>0, <1>2, <2>1 DEF CleanStored
  <2>2. CASE w = v
    <3>1. a.line # sysAddr.line /\ Holds(v, a) /\ ~way[v][a.line].dirty
      BY <1>2, <2>2
    <3> QED BY <1>2, <2>2, <3>1 DEF CleanStored
  <2> QED BY <1>0, <2>1, <2>2
<1>5. ASSUME NEW a \in Addr PROVE View(a)' = View(a)
  <2>1. CASE Holds(v, a) /\ a.line = sysAddr.line
    <3>1. View(a) = store[LineOf(a)][a.word]
      BY <1>0, <1>2, <2>1 DEF View, Way
    <3>2. View(a)' = store[LineOf(a)][a.word]
      BY <1>0, <1>2, <2>1 DEF View, Way
    <3> QED BY <3>1, <3>2
  <2>2. CASE ~Holds(v, a) \/ a.line # sysAddr.line
    BY <1>0, <1>2, <2>2 DEF View, Way
  <2> QED BY <2>1, <2>2
<1> QED BY <1>3, <1>4, <1>5

\* Laying the CPU's bytes over the line that answered changes the requested
\* word as the strobes say, and no other word.
LEMMA DataOverlay ==
  ASSUME IInv, Exclusive, CleanStored, RamEdge, store' = store, wbSrc = "OVERLAY",
         RamLine = sysAddr.line, NEW v \in Way, we[v], ~we[Other(v)],
         rd[v] = way[v][sysAddr.line], Match(rd[v])
  PROVE  /\ Exclusive' /\ CleanStored'
         /\ \A a \in Addr :
              View(a)' = IF a = sysAddr THEN Overwrite(View(a), sysWstrb, sysWdata)
                         ELSE View(a)
<1> DEFINE o == Other(v)
           x == rd[v].data[sysAddr.word]
<1>0. TypeOK /\ o \in Way /\ o # v /\ (\A w \in Way : w = v \/ w = o)
      /\ sysAddr \in Addr /\ rd[v] \in Entry /\ rd[v].data \in Block
      /\ sysAddr.word \in Word /\ x \in WordVal /\ sysWdata \in WordVal
  BY TwoWays, AddrLine DEF IInv, TypeOK, Entry, Block
<1>1. /\ way'[o] = way[o]
      /\ \A l \in Line : l # sysAddr.line => way'[v][l] = way[v][l]
      /\ way'[v][sysAddr.line] = WriteValue(v)
  BY <1>0, RamKeep, RamWrite, AddrLine
<1>2. /\ WriteValue(v).valid /\ WriteValue(v).tag = rd[v].tag
      /\ WriteValue(v).dirty = (sysWstrb # {} \/ rd[v].dirty)
      /\ WriteValue(v).data = [rd[v].data EXCEPT ![sysAddr.word] =
                                 Overwrite(@, sysWstrb, sysWdata)]
  BY DEF WriteValue, Overlaid, Filled, Cleared
<1>3. ASSUME NEW a \in Addr
      PROVE  /\ Holds(o, a)' = Holds(o, a) /\ way'[o][a.line] = way[o][a.line]
             /\ Holds(v, a)' = Holds(v, a)
             /\ a.line # sysAddr.line => way'[v][a.line] = way[v][a.line]
             /\ ~(Holds(v, a) /\ Holds(o, a))
  <2>1. ~(Holds(v, a) /\ Holds(o, a))
    BY <1>0 DEF Exclusive, Way
  <2>2. Holds(v, a)' = Holds(v, a)
    BY <1>0, <1>1, <1>2, AddrLine DEF Holds, Match
  <2> QED BY <1>0, <1>1, <2>1, <2>2, AddrLine DEF Holds
<1>4. Exclusive'
  BY <1>0, <1>3 DEF Exclusive, Way
<1>5. sysWstrb = {} => WriteValue(v).data = rd[v].data
  BY <1>0, <1>2, OverwriteNone DEF Block
<1>6. CleanStored'
  <2> SUFFICES ASSUME NEW w \in Way, NEW a \in Addr, Holds(w, a)', ~way'[w][a.line].dirty
               PROVE  way'[w][a.line].data = store[LineOf(a)]
    BY DEF CleanStored
  <2>1. CASE w = o \/ a.line # sysAddr.line
    BY <1>0, <1>3, <2>1 DEF CleanStored
  <2>2. CASE w = v /\ a.line = sysAddr.line
    <3>1. ~rd[v].dirty /\ way'[v][a.line].data = way[v][a.line].data
      BY <1>1, <1>2, <1>5, <2>2
    <3> QED BY <1>3, <2>2, <3>1 DEF CleanStored
  <2> QED BY <1>0, <2>1, <2>2
<1>7. ASSUME NEW a \in Addr, a # sysAddr PROVE View(a)' = View(a)
  <2>1. CASE a.line # sysAddr.line \/ ~Holds(v, a)
    BY <1>0, <1>3, <2>1 DEF View, Way
  <2>2. CASE a.line = sysAddr.line /\ Holds(v, a)
    <3>1. a.tag = sysAddr.tag
      BY <2>2 DEF Holds, Match
    <3>2. a.word # sysAddr.word /\ a.word \in Word
      BY <1>0, <1>7, <2>2, <3>1, AddrLine DEF Addr
    <3>3. way'[v][a.line].data[a.word] = way[v][a.line].data[a.word]
      BY <1>0, <1>1, <1>2, <2>2, <3>2 DEF Block
    <3> QED BY <1>0, <1>3, <2>2, <3>3 DEF View, Way
  <2> QED BY <2>1, <2>2
<1>8. ASSUME NEW a \in Addr, a = sysAddr
      PROVE  View(a)' = Overwrite(View(a), sysWstrb, sysWdata)
  <2>1. Holds(v, a) /\ a.line \in Line
    BY <1>0, <1>8, AddrLine DEF Holds, Match
  <2>2. View(a) = x
    BY <1>0, <1>3, <1>8, <2>1 DEF View, Way
  <2>3. way'[v][a.line].data[a.word] = Overwrite(x, sysWstrb, sysWdata)
    BY <1>0, <1>1, <1>2, <1>8 DEF Block
  <2> QED BY <1>0, <1>3, <2>1, <2>2, <2>3 DEF View, Way
<1> QED BY <1>4, <1>6, <1>7, <1>8

\* Between requests, every word readable is the one the CPU believes in.
LEMMA DataDone ==
  ASSUME Exclusive', CleanStored', ~sysReady', \A a \in Addr : View(a)' = ref'[a]
  PROVE  DataInv'
BY DEF DataInv, Exclusive, CleanStored

\* At the acknowledgement the word requested is the one believed in, with the
\* bytes of the CPU still to be laid over it.
LEMMA DataAck ==
  ASSUME IInv, Live, UNCHANGED cpuVars, ~sysReady, Acknowledge,
         Exclusive', CleanStored', \A a \in Addr : View(a)' = View(a),
         \A a \in Addr : a = sysAddr /\ sysWstrb = {} => sysRdata' = View(a)
  PROVE  DataInv'
<1>0. TypeOK /\ DataInv /\ sysAddr \in Addr
  BY DEF IInv, TypeOK
<1>1. \A a \in Addr : View(a) = ref[a]
  BY <1>0 DEF DataInv
<1>2. PICK b \in Addr : b = sysAddr
  BY <1>0
<1>3. /\ \A a \in Addr : a # b => ref'[a] = ref[a]
      /\ ref'[b] = Overwrite(View(b), sysWstrb, sysWdata)
  BY <1>0, <1>1, <1>2 DEF Acknowledge, TypeOK
<1>4. View(b) \in WordVal
  BY <1>0, <1>1 DEF TypeOK
<1>5. sysWstrb = {} => sysRdata' = ref'[b]
  <2> SUFFICES ASSUME sysWstrb = {} PROVE sysRdata' = ref'[b]
    OBVIOUS
  <2>1. Overwrite(View(b), sysWstrb, sysWdata) = View(b)
    BY <1>0, <1>4, OverwriteNone DEF TypeOK
  <2> QED BY <1>2, <1>3, <2>1
<1>6. \A a \in Addr : a # sysAddr' => View(a)' = ref'[a]
  BY <1>1, <1>2, <1>3 DEF cpuVars
<1>7. \A a : a = sysAddr' => View(a)' = View(sysAddr)'
  BY DEF View, Holds, LineOf
<1>8. ref'[sysAddr'] = Overwrite(View(sysAddr)', sysWstrb', sysWdata')
  BY <1>2, <1>3, <1>7 DEF cpuVars
<1>9. sysWstrb' = {} => sysRdata' = ref'[sysAddr']
  BY <1>2, <1>5 DEF cpuVars
<1> QED BY <1>6, <1>8, <1>9 DEF DataInv, Exclusive, CleanStored, Acknowledge

\* The first edge of IDLE clears the last line of the sweep.
LEMMA SweepLast ==
  ASSUME IInv, Idle, RamEdge, lineSel
  PROVE  \A w \in Way, l \in Line : ~way'[w][l].valid
<1>1. /\ TypeOK /\ invCounter = NLines - 1 /\ RamLine = NLines - 1
      /\ \A w \in Way : we[w] /\ ~WriteValue(w).valid
      /\ \A w \in Way, l \in Line : l < NLines - 1 => ~way[w][l].valid
  BY FlushValue DEF IInv, Idle, SweepInv, WriteInv, RamLine
<1> SUFFICES ASSUME NEW w \in Way, NEW l \in Line PROVE ~way'[w][l].valid
  OBVIOUS
<1>2. way'[w][l] = IF l = NLines - 1 THEN WriteValue(w) ELSE way[w][l]
  BY <1>1, RamWrite
<1>3. l = NLines - 1 \/ l < NLines - 1
  BY CacheAssumption DEF Line
<1> QED BY <1>1, <1>2, <1>3

\* No rising edge loses a byte.
LEMMA DataRise ==
  ASSUME IInv, Rise
  PROVE  DataInv'
<1>0. /\ TypeOK /\ CpuInv /\ PortInv /\ WriteInv /\ SweepInv /\ ReadInv /\ MoveInv /\ DataInv
      /\ RiseCases /\ CpuInv' /\ RamEdge /\ L!PortRise /\ (L!Transfer \/ L!Pending)
      /\ sysAddr \in Addr /\ LineOf(sysAddr) \in LineAddr
  BY RiseSplit, CpuRise, AddrLine DEF IInv, L!PortRise, TypeOK
<1>k. ASSUME NoWrite, Live
      PROVE  Exclusive' /\ CleanStored' /\ \A a \in Addr : View(a)' = View(a)
  <2>1. way' = way /\ Exclusive /\ CleanStored
    BY <1>0, <1>k, RamQuiet DEF DataInv, Exclusive, CleanStored
  <2> QED BY <1>0, <2>1, DataKeep
\* An edge that acknowledges nothing, between requests or inside one.
<1>q. ASSUME NoWrite, Live, ~sysReady, ~sysReady', ref' = ref
      PROVE  DataInv'
  BY <1>0, <1>k, <1>q, DataDone DEF DataInv
<1>o. state \in Serving => Live /\ ~sysReady /\ UNCHANGED cpuVars /\ RamLine = sysAddr.line
  BY <1>0, OpenRequest DEF Live, CpuInv, Serving
<1>1. CASE Reset
  BY <1>0, <1>1 DEF Reset, CpuInv, DataInv, Live
<1>2. CASE Idle
  <2>0. state = "IDLE" /\ ~sysReady /\ ~sysReady' /\ ref' = ref
    BY <1>0, <1>2 DEF Idle, CpuInv, hist
  <2>1. CASE ~lineSel
    BY <1>0, <1>q, <2>0, <2>1 DEF WriteInv, Live
  <2>2. CASE lineSel
    <3>1. \A a \in Addr : ref[a] = store[LineOf(a)][a.word]
      BY <1>0, <2>2 DEF SweepInv
    <3>2. \A w \in Way, l \in Line : ~way'[w][l].valid
      BY <1>0, <1>2, <2>2, SweepLast
    <3>3. \A w \in Way, a \in Addr : ~Holds(w, a)'
      BY <3>2, AddrLine DEF Holds
    <3>4. store' = store
      BY <1>0, <2>0, StoreMove
    <3>5. \A a \in Addr : View(a)' = ref'[a]
      BY <2>0, <3>1, <3>3, <3>4 DEF View, Way
    <3> QED BY <2>0, <3>3, <3>5, DataDone DEF Exclusive, CleanStored, Way
  <2> QED BY <2>1, <2>2
<1>3. CASE Compare
  BY <1>0, <1>3, <1>q, <1>o DEF Compare, WriteInv, Serving, hist
<1>4. ASSUME NEW x \in Way, Hit(x) PROVE DataInv'
  <2>1. state = "CHECK" /\ NoWrite /\ Live /\ ~sysReady /\ UNCHANGED cpuVars /\ Acknowledge
    BY <1>0, <1>4, <1>o DEF Hit, WriteInv, Serving
  <2>2. rd[x] = way[x][sysAddr.line] /\ Match(rd[x]) /\ sysRdata' = rd[x].data[sysAddr.word]
    BY <1>0, <1>4, <2>1 DEF Hit, ReadInv, Serving
  <2>3. ASSUME NEW a \in Addr, a = sysAddr PROVE sysRdata' = View(a)
    <3>1. Holds(x, a) /\ ~Holds(Other(x), a)
      BY <1>0, <2>1, <2>2, <2>3 DEF DataInv, Holds, Match, Way, Other
    <3> QED BY <2>2, <2>3, <3>1 DEF View, Way, Other
  <2> QED BY <1>k, <2>1, <2>3, DataAck
<1>5. CASE MissDirty
  BY <1>0, <1>5, <1>q, <1>o DEF MissDirty, WriteInv, Serving, hist
<1>6. CASE MissClean
  BY <1>0, <1>6, <1>q, <1>o DEF MissClean, WriteInv, Serving, hist
<1>7. CASE AwaitMemory
  BY <1>0, <1>7, <1>q, <1>o DEF AwaitMemory, WriteInv, Serving, hist
<1>8. CASE ReadFill
  <2>1. /\ state = "MISS" /\ memReady /\ NoWrite /\ Live /\ ~sysReady
        /\ UNCHANGED cpuVars /\ Acknowledge
    BY <1>0, <1>8, <1>o DEF ReadFill, WriteInv, Serving
  <2>2. port = "ACK" /\ memRdata = store[LineOf(sysAddr)]
    BY <1>0, <2>1 DEF PortInv, MoveInv
  <2>3. \A w \in Way : ~(way[w][sysAddr.line].valid /\ way[w][sysAddr.line].tag = sysAddr.tag)
    BY <1>0, <2>1 DEF ReadInv, Match, Serving
  <2>4. ASSUME NEW a \in Addr, a = sysAddr PROVE sysRdata' = View(a)
    BY <1>8, <2>2, <2>3, <2>4 DEF ReadFill, View, Holds, Way
  <2> QED BY <1>k, <2>1, <2>4, DataAck
<1>9. CASE WriteFill
  BY <1>0, <1>9, <1>q, <1>o DEF WriteFill, WriteInv, Serving, hist
<1>10. CASE WriteMissApply
  <2>1. /\ state = "WRITE_MISS_APPLY" /\ Live /\ ~sysReady /\ UNCHANGED cpuVars /\ Acknowledge
        /\ RamLine = sysAddr.line /\ store' = store
    BY <1>0, <1>10, <1>o, StoreMove DEF WriteMissApply, Serving
  <2>2. PICK v \in Way : v = Victim
    BY VictimIsWay
  <2>3. /\ we[v] /\ ~we[Other(v)] /\ wbSrc = "MEM" /\ ~(rd[v].valid /\ rd[v].dirty)
        /\ memRdata = store[LineOf(sysAddr)]
        /\ \A w \in Way : rd[w] = way[w][sysAddr.line] /\ ~Match(rd[w])
    BY <1>0, <2>1, <2>2
       DEF WriteInv, OnlyVictimWritten, MoveInv, VictimDirty, ReadInv, Serving
  <2>4. Exclusive' /\ CleanStored' /\ \A a \in Addr : View(a)' = View(a)
    BY <1>0, <2>1, <2>3, DataFill DEF DataInv, Exclusive, CleanStored
  <2>5. sysWstrb # {}
    BY <1>0, <2>1 DEF CpuInv
  <2> QED BY <2>1, <2>4, <2>5, DataAck
<1>11. CASE Flushed
  BY <1>0, <1>11, <1>q, <1>o DEF Flushed, WriteInv, Serving, hist
<1>12. CASE FlushWait
  <2>1. /\ state = "FLUSH_WAIT" /\ Live /\ ~sysReady /\ ~sysReady' /\ ref' = ref
        /\ RamLine = sysAddr.line /\ store' = store
    BY <1>0, <1>12, <1>o, StoreMove DEF FlushWait, Serving, hist
  <2>2. PICK v \in Way : v = Victim
    BY VictimIsWay
  <2>3. /\ we[v] /\ ~we[Other(v)] /\ wbSrc = "FLUSH" /\ rd[v] = way[v][sysAddr.line]
        /\ store[[tag |-> rd[v].tag, line |-> sysAddr.line]] = rd[v].data
    BY <1>0, <2>1, <2>2 DEF WriteInv, OnlyVictimWritten, MoveInv, ReadInv, Serving
  <2>4. Exclusive' /\ CleanStored' /\ \A a \in Addr : View(a)' = View(a)
    BY <1>0, <2>1, <2>3, DataClear DEF DataInv, Exclusive, CleanStored
  <2> QED BY <1>0, <2>1, <2>4, DataDone DEF DataInv
<1>13. CASE Wait
  <2>0. state = "WAIT" /\ Live /\ ~lineSel /\ ~sysReady' /\ ref' = ref
    BY <1>0, <1>13 DEF Wait, CpuInv, Live, hist
  <2>1. CASE ~sysReady
    BY <1>0, <1>q, <2>0, <2>1 DEF WriteInv
  <2>2. CASE sysReady
    <3>1. /\ RamLine = sysAddr.line /\ store' = store
          /\ Exclusive /\ CleanStored
          /\ \A a \in Addr : a # sysAddr => View(a) = ref[a]
          /\ \A a \in Addr : a = sysAddr => ref[a] = Overwrite(View(a), sysWstrb, sysWdata)
          /\ \A w \in Way : rd[w] = way[w][sysAddr.line]
      BY <1>0, <2>0, <2>2, StoreMove
         DEF DataInv, Exclusive, CleanStored, RamLine, ReadInv, Serving
    <3>2. CASE wbSrc = "OVERLAY"
      <4>1. PICK v \in Way : we[v] /\ ~we[Other(v)] /\ Match(rd[v])
        BY <1>0, <2>0, <2>2, <3>2 DEF WriteInv
      <4>2. /\ Exclusive' /\ CleanStored'
            /\ \A a \in Addr :
                 View(a)' = IF a = sysAddr THEN Overwrite(View(a), sysWstrb, sysWdata)
                            ELSE View(a)
        BY <1>0, <3>1, <3>2, <4>1, DataOverlay
      <4> QED BY <2>0, <3>1, <4>2, DataDone
    <3>3. CASE wbSrc = "MEM"
      <4>1. PICK v \in Way : v = Victim
        BY VictimIsWay
      <4>2. /\ we[v] /\ ~we[Other(v)] /\ sysWstrb = {} /\ ~(rd[v].valid /\ rd[v].dirty)
            /\ memRdata = store[LineOf(sysAddr)]
            /\ \A w \in Way : ~Match(rd[w])
        BY <1>0, <2>0, <2>2, <3>3, <4>1
           DEF WriteInv, OnlyVictimWritten, MoveInv, VictimDirty, ReadInv
      <4>3. Exclusive' /\ CleanStored' /\ \A a \in Addr : View(a)' = View(a)
        BY <1>0, <3>1, <3>3, <4>2, DataFill
      <4>4. \A a \in Addr : View(a) \in WordVal
        BY <1>0, AddrLine DEF TypeOK, View, Way, Entry, Block
      <4>5. ASSUME NEW a \in Addr PROVE View(a) = ref[a]
        <5>1. View(a) \in WordVal
          BY <4>4
        <5>2. Overwrite(View(a), sysWstrb, sysWdata) = View(a)
          BY <1>0, <4>2, <5>1, OverwriteNone DEF TypeOK
        <5> QED BY <3>1, <5>2
      <4> QED BY <2>0, <4>3, <4>5, DataDone
    <3> QED BY <1>0, <2>0, <2>2, <3>2, <3>3 DEF WriteInv
  <2> QED BY <2>1, <2>2
<1> QED BY <1>0, <1>1, <1>2, <1>3, <1>4, <1>5, <1>6, <1>7, <1>8, <1>9, <1>10,
           <1>11, <1>12, <1>13 DEF RiseCases

-----------------------------------------------------------------------------
(* The falling edge, where only the port moves.                               *)

LEMMA FallSplit ==
  ASSUME Fall
  PROVE  /\ clk = "high" /\ clk' = "low" /\ memReady' = memReady
         /\ UNCHANGED <<cpuVars, sysReady, sysRdata, memValid, memAddr, memWstrb, memWSrc>>
         /\ UNCHANGED <<state, we, wbSrc, lineSel, invCounter, way, rd, cmp, ref, recent>>
         /\ \/ L!Accept \/ L!Finish \/ L!Release
            \/ (L!Transfer \/ L!Pending) /\ port # "ACK" /\ readyInt' = readyInt
BY DEF Fall, L!PortFall, cacheVars, memReq, ramVars, hist

\* The registers of the cache mean after the falling edge what they meant before.
LEMMA CacheFall ==
  ASSUME IInv, Fall
  PROVE  CpuInv' /\ WriteInv' /\ ReadInv'
<1>1. CpuInv'
  BY FallSplit DEF IInv, CpuInv, cpuVars
<1>2. ReadInv'
  BY FallSplit DEF IInv, ReadInv, Match, cpuVars
<1>3. WriteInv'
  <2>1. \A w : Match(rd[w])' = Match(rd[w])
    BY FallSplit DEF Match, cpuVars
  <2>2. OnlyVictimWritten' = OnlyVictimWritten /\ NoWrite' = NoWrite
    BY FallSplit DEF OnlyVictimWritten, NoWrite, Victim, Way0Newer
  <2> QED BY FallSplit, <2>1, <2>2 DEF IInv, WriteInv, cpuVars
<1> QED BY <1>1, <1>2, <1>3

\* The port takes requests, moves data and answers only in its turn.
LEMMA PortFallInv ==
  ASSUME IInv, Fall
  PROVE  PortInv'
<1>0. TypeOK /\ PortInv
  BY DEF IInv
<1>1. CASE L!Accept
  BY <1>0, <1>1, FallSplit DEF L!Accept, PortInv, TypeOK, State
<1>2. CASE L!Finish
  BY <1>0, <1>2, FallSplit DEF L!Finish, PortInv, TypeOK
<1>3. CASE L!Release
  <2>1. state \in {"MISS", "FLUSH", "FLUSH_WAIT", "WRITE_MISS_APPLY", "WAIT"}
    BY <1>0, <1>3 DEF L!Release, PortInv, TypeOK, State
  <2>2. CASE state \in {"MISS", "FLUSH"}
    <3>1. /\ state' = state /\ memValid' /\ memValid /\ port = "ACK" /\ memReady
          /\ memReady' /\ cmd' = cmd /\ memAddr' = memAddr /\ memWstrb' = memWstrb
          /\ clk' = "low"
      BY <1>0, <1>3, <2>2, FallSplit DEF L!Release, PortInv
    <3>2. port' = "ACK" /\ readyInt' = FALSE /\ memReady' = TRUE
      BY <1>0, <1>3, <3>1, FallSplit DEF L!Release, TypeOK
    <3> QED BY <1>0, <2>2, <3>1, <3>2 DEF PortInv
  <2>3. CASE state \notin {"MISS", "FLUSH"}
    BY <1>0, <1>3, <2>1, <2>3, FallSplit DEF L!Release, PortInv
  <2> QED BY <2>2, <2>3
<1>4. CASE (L!Transfer \/ L!Pending) /\ port # "ACK" /\ readyInt' = readyInt
  BY <1>0, <1>4, FallSplit DEF L!Transfer, L!Pending, PortInv, TypeOK
<1> QED BY <1>1, <1>2, <1>3, <1>4, FallSplit

\* The steps of the falling edge that leave the data alone.
LEMMA QuietFall ==
  ASSUME IInv, Fall
  PROVE  \/ L!Transfer \/ L!Pending
         \/ /\ store' = store /\ memRdata' = memRdata
            /\ port' \in {"DONE", "ACK"} => port \in {"DONE", "ACK"}
<1>1. CASE L!Accept
  BY <1>1 DEF L!Accept
<1>2. CASE L!Finish
  BY <1>2 DEF L!Finish
<1>3. CASE L!Release
  BY <1>3 DEF L!Release
<1> QED BY <1>1, <1>2, <1>3, FallSplit

LEMMA MoveFall ==
  ASSUME IInv, Fall
  PROVE  MoveInv' /\ SweepInv'
<1>0. /\ TypeOK /\ PortInv /\ CpuInv /\ MoveInv /\ SweepInv /\ sysAddr' = sysAddr
      /\ sysWstrb' = sysWstrb
      /\ Victim' = Victim /\ VictimDirty' = VictimDirty /\ rd' = rd
  BY FallSplit DEF IInv, Victim, Way0Newer, VictimDirty, cpuVars
<1>1. CASE L!Transfer \/ L!Pending
  <2>1. CASE state = "MISS"
    BY <1>0, <1>1, <2>1, FallSplit, StoreMove, ReadMove
       DEF MoveInv, SweepInv, CpuInv, Serving, LineOf
  <2>3. CASE state = "FLUSH"
    BY <1>0, <1>1, <2>3, FallSplit, StoreMove DEF MoveInv, SweepInv, CpuInv, Serving
  <2>2. CASE state \notin {"MISS", "FLUSH"}
    <3>1. store' = store /\ memRdata' = memRdata
      BY <1>1, <2>2, StoreMove, ReadMove
    <3> QED BY <1>0, <2>2, <3>1, FallSplit DEF MoveInv, SweepInv, LineOf
  <2> QED BY <2>1, <2>2, <2>3
<1>2. CASE /\ store' = store /\ memRdata' = memRdata
           /\ port' \in {"DONE", "ACK"} => port \in {"DONE", "ACK"}
  BY <1>0, <1>2, FallSplit DEF MoveInv, SweepInv, LineOf
<1> QED BY <1>1, <1>2, QuietFall

LEMMA DataFall ==
  ASSUME IInv, Fall
  PROVE  DataInv'
<1>0. DataInv /\ way' = way /\ ref' = ref /\ UNCHANGED cpuVars
      /\ sysReady' = sysReady /\ sysRdata' = sysRdata /\ Live' = Live
      /\ (\A w, a : Holds(w, a)' = Holds(w, a))
  BY FallSplit DEF IInv, Live, Holds
<1>1. ASSUME Live PROVE Exclusive' /\ CleanStored' /\ \A a \in Addr : View(a)' = View(a)
  <2>1. Exclusive /\ CleanStored
    BY <1>0, <1>1 DEF DataInv, Exclusive, CleanStored
  <2>2. CASE L!Transfer \/ L!Pending
    BY <1>0, <2>1, <2>2, DataKeep
  <2>3. CASE store' = store
    BY <1>0, <2>1, <2>3 DEF Exclusive, CleanStored, View
  <2> QED BY <2>2, <2>3, QuietFall
<1>2. \A a : a = sysAddr' => View(a)' = View(sysAddr)'
  BY DEF View, Holds, LineOf
<1>3. PICK b \in Addr : b = sysAddr
  BY DEF IInv, TypeOK
<1>4. Live => View(sysAddr)' = View(b)
  BY <1>0, <1>1, <1>2, <1>3 DEF cpuVars
<1> QED BY <1>0, <1>1, <1>3, <1>4 DEF DataInv, Exclusive, CleanStored, cpuVars

-----------------------------------------------------------------------------
(* The invariant, and what follows from it.                                   *)

LEMMA InvInit == Init => IInv
<1> SUFFICES ASSUME Init PROVE IInv
  OBVIOUS
<1>1. TypeOK
  BY TypeInit
<1>2. CpuInv /\ PortInv /\ ReadInv /\ MoveInv /\ DataInv
  BY DEF Init, CacheInit, L!PortInit, CpuInv, PortInv, ReadInv, MoveInv, DataInv,
         Serving, Live
<1>3. WriteInv
  BY DEF Init, CacheInit, WriteInv
<1>4. SweepInv
  BY CacheAssumption DEF Init, CacheInit, SweepInv, Line, LineOf
<1> QED BY <1>1, <1>2, <1>3, <1>4 DEF IInv

LEMMA InvStep == IInv /\ [Next]_vars => IInv'
<1> SUFFICES ASSUME IInv, [Next]_vars PROVE IInv'
  OBVIOUS
<1>1. TypeOK'
  BY TypeStep DEF IInv
<1>2. CASE Rise
  BY <1>1, <1>2, CpuRise, PortRise, WriteRise, SweepRise, ReadRise, MoveRise, DataRise
     DEF IInv
<1>3. CASE Fall
  BY <1>1, <1>3, CacheFall, PortFallInv, MoveFall, DataFall DEF IInv
<1>4. CASE UNCHANGED vars
  <2> USE <1>4 DEF vars, cacheVars, cpuVars, memReq, ramVars, hist, IInv
  <2>1. CpuInv' /\ PortInv' /\ SweepInv'
    BY DEF CpuInv, PortInv, SweepInv, LineOf
  <2>2. WriteInv' /\ ReadInv'
    BY DEF WriteInv, NoWrite, OnlyVictimWritten, ReadInv, Match, Victim, Way0Newer
  <2>3. MoveInv'
    BY DEF MoveInv, VictimDirty, Victim, Way0Newer, LineOf
  <2>4. DataInv'
    BY DEF DataInv, Live, Holds, View, LineOf
  <2> QED BY <1>1, <2>1, <2>2, <2>3, <2>4
<1> QED BY <1>2, <1>3, <1>4 DEF Next

\* The registers of the cache mean what CachedMemoryInv says they mean.
THEOREM Inductive == Safety => []IInv
BY InvInit, InvStep, PTL DEF Safety

\* Every read is answered with the bytes last written to that word, for every
\* number of lines, tags, words and bytes and every delay of the memory.
THEOREM ReadsAreRight == Safety => []ReadReturnsLastWrite
<1>1. IInv => ReadReturnsLastWrite
  <2> SUFFICES ASSUME IInv, sysReady, sysWstrb = {} PROVE sysRdata = ref[sysAddr]
    BY DEF ReadReturnsLastWrite
  <2>1. Live
    BY DEF IInv, CpuInv, Live, TypeOK
  <2> QED BY <2>1 DEF IInv, DataInv
<1> QED BY <1>1, Inductive, PTL

\* Cache and LPDDR together hold every acknowledged byte, in every state of a
\* hit, a miss or a flush.
THEOREM NoByteIsLost == Safety => []NothingLost
<1>1. IInv => NothingLost
  BY DEF IInv, DataInv, Live, NothingLost, Settled
<1> QED BY <1>1, Inductive, PTL

\* No tag is in both ways of a line.
THEOREM HitsAreUnambiguous == Safety => []OneCopy
<1>1. IInv => OneCopy
  BY DEF IInv, DataInv, Live, OneCopy, Settled
<1> QED BY <1>1, Inductive, PTL

\* A clean line may be dropped: the LPDDR has it.
THEOREM CleanLinesAreStored == Safety => []CleanIsStored
<1>1. IInv => CleanIsStored
  BY DEF IInv, DataInv, Live, CleanIsStored, Settled
<1> QED BY <1>1, Inductive, PTL

-----------------------------------------------------------------------------
(* The cache implements the flat memory.                                      *)

\* The one access: the acknowledgement of an open request.
LEMMA AccessServes ==
  ASSUME IInv, IInv', sysValid, ~sysReady, Acknowledge, UNCHANGED cpuVars
  PROVE  Flat!Serve
<1>1. TypeOK /\ TypeOK' /\ DataInv /\ DataInv' /\ Live /\ Live' /\ sysReady'
  BY DEF IInv, CpuInv, Live, Acknowledge, TypeOK, cpuVars
<1>2. /\ sysAddr \in Addr /\ sysWdata \in WordVal /\ ref[sysAddr] \in WordVal
      /\ ref \in [Addr -> WordVal] /\ sysRdata' \in WordVal
  BY <1>1 DEF TypeOK
<1>3. ref' = [ref EXCEPT ![sysAddr] = Flat!Overwrite(@, sysWstrb, sysWdata)]
  BY DEF Acknowledge, Overwrite, Flat!Overwrite
<1>4. sysWstrb = {} => sysRdata' = ref[sysAddr]
  <2> SUFFICES ASSUME sysWstrb = {} PROVE sysRdata' = ref[sysAddr]
    OBVIOUS
  <2>1. sysRdata' = ref'[sysAddr]
    BY <1>1 DEF DataInv, cpuVars
  <2>2. ref'[sysAddr] = Overwrite(ref[sysAddr], {}, sysWdata)
    BY <1>2 DEF Acknowledge
  <2> QED BY <1>2, <2>1, <2>2, OverwriteNone
<1> QED BY <1>1, <1>2, <1>3, <1>4 DEF Flat!Serve, Flat!WordVal, WordVal, cpuVars

\* An edge that neither answers nor takes an answer: the CPU drives its wires
\* or holds them.
LEMMA QuietDrives ==
  ASSUME TypeOK, TypeOK', CpuEdge, ~sysReady,
         UNCHANGED <<sysReady, sysRdata, ref>>
  PROVE  [Flat!Next]_(Flat!vars)
BY DEF CpuEdge, cpuVars, TypeOK, Flat!Next, Flat!Drive, Flat!vars, Flat!WordVal, WordVal

\* Every rising edge is a step of the flat memory or leaves its interface alone.
LEMMA FlatRise ==
  ASSUME IInv, IInv', Rise
  PROVE  [Flat!Next]_(Flat!vars)
<1>0. TypeOK /\ TypeOK' /\ CpuInv /\ CpuEdge /\ RiseCases
  BY RiseSplit DEF IInv
<1>o. state \in Serving => sysValid /\ ~sysReady /\ UNCHANGED cpuVars
  BY OpenRequest
<1>s. state \in Serving /\ Acknowledge => [Flat!Next]_(Flat!vars)
  BY <1>o, AccessServes DEF Flat!Next
<1>q. state # "WAIT" /\ UNCHANGED <<sysReady, sysRdata, ref>> => [Flat!Next]_(Flat!vars)
  <2>1. state # "WAIT" => ~sysReady
    BY <1>0 DEF CpuInv, TypeOK, State, Serving
  <2> QED BY <1>0, <2>1, QuietDrives
<1>1. CASE Reset
  BY <1>1, <1>q DEF Reset, hist
<1>2. CASE Idle
  BY <1>2, <1>q DEF Idle, hist
<1>3. CASE Compare
  BY <1>3, <1>q DEF Compare, hist
<1>4. ASSUME NEW w \in Way, Hit(w) PROVE [Flat!Next]_(Flat!vars)
  BY <1>4, <1>s DEF Hit, Serving
<1>5. CASE MissDirty
  BY <1>5, <1>q DEF MissDirty, hist
<1>6. CASE MissClean
  BY <1>6, <1>q DEF MissClean, hist
<1>7. CASE AwaitMemory
  BY <1>7, <1>q DEF AwaitMemory, hist
<1>8. CASE ReadFill
  BY <1>8, <1>s DEF ReadFill, Serving
<1>9. CASE WriteFill
  BY <1>9, <1>q DEF WriteFill, hist
<1>10. CASE WriteMissApply
  BY <1>10, <1>s DEF WriteMissApply, Serving
<1>11. CASE Flushed
  BY <1>11, <1>q DEF Flushed, hist
<1>12. CASE FlushWait
  BY <1>12, <1>q DEF FlushWait, hist
<1>13. CASE Wait
  <2>1. sysReady = sysValid /\ ~sysReady' /\ sysRdata' = sysRdata /\ ref' = ref
    BY <1>0, <1>13 DEF Wait, CpuInv, hist
  <2>2. CASE sysReady
    BY <1>0, <2>1, <2>2 DEF CpuEdge, Flat!Next, Flat!Retire
  <2>3. CASE ~sysReady
    BY <1>0, <2>1, <2>3, QuietDrives DEF TypeOK
  <2> QED BY <2>2, <2>3
<1> QED BY <1>0, <1>1, <1>2, <1>3, <1>4, <1>5, <1>6, <1>7, <1>8, <1>9, <1>10,
           <1>11, <1>12, <1>13 DEF RiseCases

\* The cache over the line memory implements the flat memory: every request is
\* one access at one instant, whatever hits, refills, write-backs and refreshes
\* lie behind it.
THEOREM ImplementsFlatMemory == Safety => Flat!Safety
<1>1. Init => Flat!Init
  <2> SUFFICES ASSUME Init PROVE Flat!Init
    OBVIOUS
  <2>1. TypeOK
    BY TypeInit
  <2> QED BY <2>1 DEF Init, CacheInit, TypeOK, Flat!Init, Flat!WordVal, WordVal
<1>2. IInv /\ IInv' /\ [Next]_vars => [Flat!Next]_(Flat!vars)
  <2> SUFFICES ASSUME IInv, IInv', [Next]_vars PROVE [Flat!Next]_(Flat!vars)
    OBVIOUS
  <2>1. CASE Rise
    BY <2>1, FlatRise
  <2>2. CASE Fall
    BY <2>2, FallSplit DEF cpuVars, Flat!vars
  <2>3. CASE UNCHANGED vars
    BY <2>3 DEF vars, cacheVars, cpuVars, hist, Flat!vars
  <2> QED BY <2>1, <2>2, <2>3 DEF Next
<1> QED BY <1>1, <1>2, Inductive, PTL DEF Safety, Flat!Safety

-----------------------------------------------------------------------------
(* Replacement.                                                               *)

\* One way of a line was used last.
LEMMA OneIsLatest ==
  ASSUME NEW l, NEW w \in Way
  PROVE  Latest(w, l) <=> ~Latest(Other(w), l)
BY DEF Latest, Other, Way

\* An order depends on the valid bits and the tags only.
LEMMA OrderAgree ==
  ASSUME NEW n, NEW m, NEW o, NEW r,
         m.valid = n.valid, n.valid => m.tag = n.tag
  PROVE  /\ HalfOrder(n, o, r) => HalfOrder(m, o, r)
         /\ FullOrder(n, o, r) => FullOrder(m, o, r)
BY DEF HalfOrder, FullOrder

\* An access to a tag that the newer way does not hold puts it first: the older
\* way is what is given up.
LEMMA TouchNew ==
  ASSUME NEW r \in Seq(Tag), NEW t \in Tag,
         NEW n \in Entry, NEW o \in Entry, NEW m \in Entry, HalfOrder(n, o, r), m.valid, m.tag = t,
         ~(n.valid /\ n.tag = t)
  PROVE  FullOrder(m, n, Touch(r, t))
<1>1. CASE r = <<>>
  <2>1. Touch(r, t) = <<t>> /\ Len(<<t>>) = 1 /\ <<t>>[1] = t /\ Len(r) = 0
    BY <1>1 DEF Touch
  <2> QED BY <2>1 DEF HalfOrder, FullOrder
<1>2. CASE r # <<>>
  <2>1. Len(r) > 0 /\ r[1] \in Tag /\ n.valid /\ n.tag = r[1] /\ r[1] # t
    BY <1>2 DEF HalfOrder
  <2>2. Touch(r, t) = <<t, r[1]>>
    BY <1>2, <2>1 DEF Touch
  <2>3. /\ Len(<<t, r[1]>>) = 2 /\ <<t, r[1]>>[1] = t /\ <<t, r[1]>>[2] = r[1]
    OBVIOUS
  <2> QED BY <2>1, <2>2, <2>3 DEF HalfOrder, FullOrder
<1> QED BY <1>1, <1>2

\* An access to the tag of the newer way changes nothing.
LEMMA TouchAgain ==
  ASSUME NEW r \in Seq(Tag), NEW t \in Tag,
         NEW n \in Entry, NEW o \in Entry, FullOrder(n, o, r), n.valid, n.tag = t
  PROVE  Touch(r, t) = r
BY DEF FullOrder, HalfOrder, Touch

\* The LRU bit a way writes with a hit or a fill makes it the newer one; the
\* bit it writes when it is cleared makes it the older one.
LEMMA WrittenIsLatest ==
  ASSUME TypeOK, RamEdge, NEW l \in Line, l = sysAddr.line, l = RamLine,
         NEW v \in Way, we[v], ~we[Other(v)], \A w \in Way : rd[w] = way[w][l]
  PROVE  /\ way'[v][l] = WriteValue(v) /\ way'[Other(v)][l] = way[Other(v)][l]
         /\ wbSrc \in {"OVERLAY", "MEM"} => Latest(v, l)'
         /\ wbSrc = "FLUSH" => ~Latest(v, l)'
<1>1. Other(v) \in Way /\ (v = 0 => Other(v) = 1) /\ (v = 1 => Other(v) = 0)
  BY DEF Way, Other
<1>2. way'[v][l] = WriteValue(v) /\ way'[Other(v)][l] = rd[Other(v)]
  BY <1>1, RamWrite, RamKeep
<1>3. /\ rd[0].lru \in BOOLEAN /\ rd[1].lru \in BOOLEAN /\ NewerBit(v) \in BOOLEAN
      /\ v = 0 => (NewerBit(v) <=> rd[1].lru)
      /\ v = 1 => (NewerBit(v) <=> ~rd[0].lru)
  <2>1. rd \in [Way -> Entry] /\ rd[0] \in Entry /\ rd[1] \in Entry
    BY DEF TypeOK, Way
  <2>2. NewerBit(v) \in BOOLEAN
    BY <2>1, NewerBitType
  <2> QED BY <2>1, <2>2 DEF Entry, NewerBit
<1>4. CASE wbSrc \in {"OVERLAY", "MEM"}
  <2>1. WriteValue(v).lru = NewerBit(v) /\ wbSrc # "FLUSH"
    BY <1>4 DEF WriteValue, Overlaid, Filled
  <2> QED BY <1>1, <1>2, <1>3, <2>1 DEF Latest, Way
<1>5. CASE wbSrc = "FLUSH"
  <2>1. WriteValue(v).lru = ~NewerBit(v)
    BY <1>5, FlushValue DEF Blank
  <2> QED BY <1>1, <1>2, <1>3, <1>5, <2>1 DEF Latest, Way
<1> QED BY <1>1, <1>2, <1>4, <1>5 DEF TypeOK

\* The victim is the way used longest ago.
LEMMA VictimIsOldest ==
  ASSUME TypeOK, NEW l, \A w \in Way : rd[w] = way[w][l], NEW v \in Way, v = Victim
  PROVE  ~Latest(v, l) /\ Latest(Other(v), l)
BY DEF Victim, Way0Newer, Latest, Other, Way

\* A line that is not written and not served keeps its order.
LEMMA OrderKept ==
  ASSUME NEW l, \A w \in Way : way'[w][l] = way[w][l], recent'[l] = recent[l]
  PROVE  (LruFull(l)' <=> LruFull(l)) /\ (LruHalf(l)' <=> LruHalf(l))
BY TwoWays DEF LruFull, LruHalf, Latest, Way

LEMMA FullIsHalf ==
  ASSUME NEW l, LruFull(l)
  PROVE  LruHalf(l)
BY DEF LruFull, LruHalf, FullOrder

\* What an acknowledgement is about to write is first in the order of its line:
\* it matches what was hit, or takes the older way when nothing was.
LEMMA ServedIsFirst ==
  ASSUME TypeOK, NEW l \in Line, LruHalf(l), NEW v \in Way,
         NEW t \in Tag, NEW m \in Entry, m.valid, m.tag = t,
         \/ LruFull(l) /\ way[v][l].valid /\ way[v][l].tag = t
         \/ /\ ~Latest(v, l)
            /\ \A w \in Way : ~(way[w][l].valid /\ way[w][l].tag = t)
  PROVE  FullOrder(m, way[Other(v)][l], Touch(recent[l], t))
<1> DEFINE n == way[v][l]
           o == way[Other(v)][l]
           r == recent[l]
<1>1. /\ n \in Entry /\ o \in Entry /\ r \in Seq(Tag) /\ Other(v) \in Way
      /\ Other(Other(v)) = v
  BY TwoWays DEF TypeOK
<1>2. CASE Latest(v, l) /\ LruFull(l) /\ n.valid /\ n.tag = t
  <2>1. FullOrder(n, o, r)
    BY <1>2 DEF LruFull
  <2>2. Touch(r, t) = r
    BY <1>1, <1>2, <2>1, TouchAgain
  <2> QED BY <1>1, <1>2, <2>1, <2>2, OrderAgree
<1>3. CASE ~Latest(v, l) /\ LruFull(l) /\ n.valid /\ n.tag = t
  <2>1. FullOrder(o, n, r)
    BY <1>1, <1>3, OneIsLatest DEF LruFull
  <2>2. ~(o.valid /\ o.tag = t) /\ HalfOrder(o, n, r)
    BY <1>1, <1>3, <2>1 DEF FullOrder, HalfOrder, Entry
  <2> HIDE DEF n, o, r
  <2>3. FullOrder(m, o, Touch(r, t))
    BY <1>1, <2>2, TouchNew
  <2> QED BY <2>3 DEF n, o, r
<1>4. CASE ~Latest(v, l) /\ \A w \in Way : ~(way[w][l].valid /\ way[w][l].tag = t)
  <2>1. HalfOrder(o, n, r) /\ ~(o.valid /\ o.tag = t)
    BY <1>1, <1>4, OneIsLatest DEF LruHalf
  <2> HIDE DEF n, o, r
  <2>3. FullOrder(m, o, Touch(r, t))
    BY <1>1, <2>1, TouchNew
  <2> QED BY <2>3 DEF n, o, r
<1> QED BY <1>2, <1>3, <1>4

\* What the next edge would write is a RAM word too.
LEMMA NextWriteType == (TypeOK => \A w \in Way : WriteValue(w) \in Entry)'
<1>1. TypeOK => \A w \in Way : WriteValue(w) \in Entry
  BY WriteValueType
<1> QED BY <1>1, PTL

\* An acknowledgement sets up its line.
LEMMA ServedOrder ==
  ASSUME IInv, IInv', LruInv, state \in Serving, Acknowledge, UNCHANGED cpuVars,
         Live, NEW v \in Way, we'[v], ~we'[Other(v)],
         (WriteValue(v).valid /\ WriteValue(v).tag = sysAddr.tag)',
         way'[Other(v)] = way[Other(v)], NEW l \in Line, l = sysAddr.line,
         \/ Match(rd[v])
         \/ v = Victim /\ \A w \in Way : ~Match(rd[w])
  PROVE  ServedLast(v, l)'
<1> DEFINE m == WriteValue(v)'
<1>1. /\ TypeOK /\ TypeOK' /\ sysAddr.tag \in Tag /\ sysAddr' = sysAddr
      /\ LruHalf(l) /\ (LruFull(l) \/ \A w \in Way : ~Match(rd[w]))
      /\ \A w \in Way : rd[w] = way[w][l]
  BY AddrLine DEF IInv, TypeOK, LruInv, ReadInv, cpuVars
<1>2. m \in Entry
  BY <1>1, NextWriteType
<1>3. m.valid /\ m.tag = sysAddr.tag
  BY <1>1
<1>4. \/ LruFull(l) /\ way[v][l].valid /\ way[v][l].tag = sysAddr.tag
      \/ /\ ~Latest(v, l)
         /\ \A w \in Way : ~(way[w][l].valid /\ way[w][l].tag = sysAddr.tag)
  BY <1>1, VictimIsOldest DEF Match
<1>5. recent'[l] = Touch(recent[l], sysAddr.tag)
  BY <1>1 DEF Acknowledge, TypeOK
<1>6. FullOrder(m, way[Other(v)][l], recent'[l])
  <2> HIDE DEF m
  <2> QED BY <1>1, <1>2, <1>3, <1>4, <1>5, ServedIsFirst
<1> QED BY <1>6 DEF ServedLast, FullOrder, HalfOrder

\* With no acknowledgement open, lines in order are all there is to say.
LEMMA OrderDone ==
  (TypeOK /\ ~lineSel /\ ~sysReady /\ (\A l \in Line : LruFull(l)) => LruInv)'
<1>1. ASSUME TypeOK, ~lineSel, ~sysReady, \A l \in Line : LruFull(l) PROVE LruInv
  BY <1>1, FullIsHalf DEF LruInv
<1>2. TypeOK /\ ~lineSel /\ ~sysReady /\ (\A l \in Line : LruFull(l)) => LruInv
  BY <1>1
<1> QED BY <1>2, PTL

\* No rising edge upsets the order of a line.
LEMMA LruRise ==
  ASSUME IInv, IInv', LruInv, Rise
  PROVE  LruInv'
<1>0. /\ TypeOK /\ TypeOK' /\ CpuInv /\ CpuInv' /\ WriteInv /\ ReadInv /\ PortInv
      /\ RiseCases /\ RamEdge /\ CpuEdge
      /\ sysAddr.line \in Line
  BY RiseSplit, AddrLine DEF IInv, TypeOK
<1>o. state \in Serving =>
        Live /\ ~sysReady /\ ~lineSel /\ UNCHANGED cpuVars /\ RamLine = sysAddr.line
  BY <1>0, OpenRequest DEF Live, CpuInv, Serving
\* An edge that writes nothing and acknowledges nothing keeps every order.
<1>q. ASSUME NoWrite, recent' = recent, NEW l
      PROVE  (LruFull(l)' <=> LruFull(l)) /\ (LruHalf(l)' <=> LruHalf(l))
  BY <1>0, <1>q, RamQuiet, OrderKept
\* Inside a miss only the request matters, and it stands still.
<1>m. ASSUME state \in {"CHECK", "MISS", "FLUSH"}, state' \in Serving \ {"COMPARE"},
             recent' = recent
      PROVE  LruInv'
  <2>1. /\ NoWrite /\ sysAddr' = sysAddr /\ Live /\ ~lineSel' /\ ~sysReady'
        /\ \A w \in Way : Match(rd[w])' = Match(rd[w])
    BY <1>0, <1>m, <1>o, OpenQuiet DEF WriteInv, Serving, cpuVars, CpuInv
  <2>2. ASSUME NEW l \in Line
        PROVE  /\ l # sysAddr.line => LruFull(l)
               /\ l = sysAddr.line =>
                    LruHalf(l) /\ (LruFull(l) \/ \A w \in Way : ~Match(rd[w]))
    BY <1>m, <2>1 DEF LruInv, Serving
  <2>3. ASSUME NEW l \in Line
        PROVE  /\ l # sysAddr.line => LruFull(l)'
               /\ l = sysAddr.line =>
                    LruHalf(l)' /\ (LruFull(l)' \/ \A w \in Way : ~Match(rd[w])')
    BY <1>m, <1>q, <2>1, <2>2
  <2> QED BY <1>m, <2>1, <2>3 DEF LruInv, Serving
\* An acknowledgement puts its line first and leaves the others.
<1>a. ASSUME state \in Serving, Acknowledge, ~lineSel', state' = "WAIT",
             NEW v \in Way, we'[v], ~we'[Other(v)],
             (WriteValue(v).valid /\ WriteValue(v).tag = sysAddr.tag)',
             way'[Other(v)] = way[Other(v)],
             \A l \in Line : l # sysAddr.line => way'[v][l] = way[v][l],
             \/ Match(rd[v])
             \/ v = Victim /\ \A w \in Way : ~Match(rd[w])
      PROVE  LruInv'
  <2>1. Live /\ UNCHANGED cpuVars /\ sysAddr' = sysAddr /\ sysReady'
    BY <1>a, <1>o DEF cpuVars, Acknowledge
  <2>2. ASSUME NEW l \in Line, l = sysAddr.line PROVE ServedLast(v, l)'
    BY <1>a, <2>1, <2>2, ServedOrder
  <2>3. ASSUME NEW l \in Line, l # sysAddr.line PROVE LruFull(l)'
    <3>1. recent'[l] = recent[l] /\ \A w \in Way : way'[w][l] = way[w][l]
      BY <1>0, <1>a, <2>3, TwoWays DEF Acknowledge, TypeOK
    <3>2. LruFull(l)
      BY <2>1, <2>3 DEF LruInv
    <3> QED BY <3>1, <3>2, OrderKept
  <2> QED BY <1>a, <2>1, <2>2, <2>3 DEF LruInv, Serving
<1>1. CASE Reset
  BY <1>0, <1>1 DEF Reset, LruInv, CpuInv, Live, hist
<1>2. CASE Idle
  <2>0. state = "IDLE" /\ ~lineSel' /\ ~sysReady' /\ recent' = recent
    BY <1>0, <1>2 DEF Idle, CpuInv, hist
  <2>1. CASE ~lineSel
    <3>1. NoWrite /\ \A l \in Line : LruFull(l)
      BY <1>0, <2>0, <2>1 DEF WriteInv, LruInv, Live
    <3> QED BY <1>0, <1>q, <2>0, <3>1, OrderDone
  <2>2. CASE lineSel
    <3>1. ASSUME NEW l \in Line PROVE LruFull(l)'
      <4>1. recent'[l] = <<>> /\ \A w \in Way : ~way'[w][l].valid
        BY <1>0, <1>2, <2>0, <2>2, <3>1, SweepLast DEF LruInv
      <4> QED BY <4>1, TwoWays DEF LruFull, FullOrder, HalfOrder
    <3> QED BY <1>0, <2>0, <3>1, OrderDone
  <2> QED BY <2>1, <2>2
<1>3. CASE Compare
  <2>1. /\ state = "COMPARE" /\ ~lineSel' /\ ~sysReady' /\ recent' = recent /\ NoWrite
        /\ \A l \in Line : LruFull(l)
    BY <1>0, <1>3, <1>o DEF Compare, WriteInv, LruInv, Serving, hist
  <2> QED BY <1>0, <1>q, <2>1, OrderDone
<1>4. ASSUME NEW x \in Way, Hit(x) PROVE LruInv'
  <2>1. /\ state = "CHECK" /\ NoWrite /\ Live /\ UNCHANGED cpuVars /\ Acknowledge
        /\ we'[x] /\ ~we'[Other(x)] /\ wbSrc' = "OVERLAY" /\ state' = "WAIT" /\ ~lineSel'
    BY <1>0, <1>4, <1>o, TwoWays DEF Hit, WriteInv, Serving
  <2>2. Match(rd[x]) /\ way' = way /\ rd' = rd
    BY <1>0, <1>4, <2>1, OpenQuiet DEF Hit, ReadInv
  <2>3. (WriteValue(x).valid /\ WriteValue(x).tag = sysAddr.tag)'
    BY <2>1, <2>2 DEF WriteValue, Overlaid, Match, cpuVars
  <2> QED BY <1>a, <2>1, <2>2, <2>3 DEF Serving
<1>5. CASE MissDirty
  BY <1>5, <1>m DEF MissDirty, Serving, hist
<1>6. CASE MissClean
  BY <1>6, <1>m DEF MissClean, Serving, hist
<1>7. CASE AwaitMemory
  BY <1>7, <1>m DEF AwaitMemory, Serving, hist
<1>9. CASE WriteFill
  BY <1>9, <1>m DEF WriteFill, Serving, hist
<1>11. CASE Flushed
  BY <1>11, <1>m DEF Flushed, Serving, hist
<1>8. CASE ReadFill
  <2>1. /\ state = "MISS" /\ NoWrite /\ Live /\ UNCHANGED cpuVars /\ Acknowledge
        /\ wbSrc' = "MEM" /\ state' = "WAIT" /\ ~lineSel'
        /\ \A w \in Way : ~Match(rd[w])
    BY <1>0, <1>8, <1>o DEF ReadFill, WriteInv, ReadInv, Serving
  <2>2. PICK v \in Way : v = Victim
    BY VictimIsWay
  <2>3. we'[v] /\ ~we'[Other(v)] /\ way' = way
    BY <1>0, <1>8, <2>1, <2>2, TwoWays, OpenQuiet DEF ReadFill, NoWrite, TypeOK
  <2>4. (WriteValue(v).valid /\ WriteValue(v).tag = sysAddr.tag)'
    BY <2>1 DEF WriteValue, Filled
  <2> QED BY <1>a, <2>1, <2>2, <2>3, <2>4 DEF Serving
<1>10. CASE WriteMissApply
  <2>1. /\ state = "WRITE_MISS_APPLY" /\ Live /\ UNCHANGED cpuVars /\ Acknowledge
        /\ wbSrc' = "OVERLAY" /\ state' = "WAIT" /\ ~lineSel' /\ we' = we
        /\ RamLine = sysAddr.line /\ \A w \in Way : ~Match(rd[w])
    BY <1>0, <1>10, <1>o DEF WriteMissApply, ReadInv, Serving
  <2>2. PICK v \in Way : v = Victim
    BY VictimIsWay
  <2>3. we[v] /\ ~we[Other(v)] /\ Match(rd[v])' /\ Other(v) \in Way
    BY <2>1, <2>2, FillMatches, TwoWays
  <2>4. /\ way'[Other(v)] = way[Other(v)]
        /\ \A l \in Line : l # sysAddr.line => way'[v][l] = way[v][l]
    BY <1>0, <2>1, <2>3, RamKeep, RamWrite
  <2>5. (WriteValue(v).valid /\ WriteValue(v).tag = sysAddr.tag)'
    BY <2>1, <2>3 DEF WriteValue, Overlaid, Match
  <2> QED BY <1>a, <2>1, <2>2, <2>3, <2>4, <2>5 DEF Serving
<1>12. CASE FlushWait
  <2>1. /\ state = "FLUSH_WAIT" /\ Live /\ state' = "CHECK" /\ sysAddr' = sysAddr
        /\ ~lineSel' /\ ~sysReady' /\ recent' = recent /\ RamLine = sysAddr.line
        /\ sysAddr'.tag = sysAddr.tag
        /\ \A w \in Way : rd[w] = way[w][sysAddr.line] /\ ~Match(rd[w])
    BY <1>0, <1>12, <1>o DEF FlushWait, PortInv, ReadInv, Serving, cpuVars, hist
  <2>2. PICK v \in Way : v = Victim
    BY VictimIsWay
  <2>3. we[v] /\ ~we[Other(v)] /\ wbSrc = "FLUSH" /\ Other(v) \in Way
        /\ ~WriteValue(v).valid
    BY <1>0, <2>1, <2>2, TwoWays, FlushValue DEF WriteInv, OnlyVictimWritten
  <2>4. ASSUME NEW l \in Line, l # sysAddr.line PROVE LruFull(l)'
    <3>1. \A w \in Way : way'[w][l] = way[w][l]
      BY <1>0, <2>1, <2>3, <2>4, RamKeep, RamWrite, TwoWays
    <3>2. LruFull(l)
      BY <2>1, <2>4 DEF LruInv
    <3> QED BY <2>1, <3>1, <3>2, OrderKept
  <2>5. ASSUME NEW l \in Line, l = sysAddr.line PROVE LruHalf(l)'
    <3>1. /\ way'[v][l] = WriteValue(v) /\ way'[Other(v)][l] = way[Other(v)][l]
          /\ ~Latest(v, l)' /\ Latest(Other(v), l)
      BY <1>0, <2>1, <2>2, <2>3, <2>5, WrittenIsLatest, VictimIsOldest
    <3>2. HalfOrder(way[Other(v)][l], way[v][l], recent[l])
      BY <2>1, <2>3, <2>5, <3>1, TwoWays DEF LruInv, LruHalf, Serving
    <3>3. HalfOrder(way[Other(v)][l], WriteValue(v), recent[l])
      BY <2>3, <3>2 DEF HalfOrder
    <3> QED BY <2>1, <2>3, <3>1, <3>3, TwoWays DEF LruHalf
  <2>6. ASSUME NEW w \in Way PROVE ~Match(rd[w])'
    <3>1. rd'[v] = WriteValue(v) /\ rd'[Other(v)] = rd[Other(v)]
      BY <1>0, <2>1, <2>3, RamWrite, RamKeep
    <3> QED BY <2>1, <2>3, <3>1, TwoWays DEF Match
  <2> QED BY <2>1, <2>4, <2>5, <2>6 DEF LruInv, Serving
<1>13. CASE Wait
  <2>0. /\ state = "WAIT" /\ Live /\ ~lineSel /\ ~lineSel' /\ ~sysReady' /\ recent' = recent
        /\ sysReady = sysValid
    BY <1>0, <1>13 DEF Wait, CpuInv, Live, hist
  <2>1. CASE ~sysReady
    <3>1. NoWrite /\ \A l \in Line : LruFull(l)
      BY <1>0, <2>0, <2>1 DEF WriteInv, LruInv
    <3> QED BY <1>0, <1>q, <2>0, <3>1, OrderDone
  <2>2. CASE sysReady
    <3>1. PICK v \in Way : ServedLast(v, sysAddr.line)
      BY <1>0, <2>0, <2>2 DEF LruInv
    <3>2. /\ RamLine = sysAddr.line /\ we[v] /\ ~we[Other(v)] /\ Other(v) \in Way
          /\ wbSrc \in {"OVERLAY", "MEM"} /\ \A w \in Way : rd[w] = way[w][sysAddr.line]
      BY <1>0, <2>0, <2>2, <3>1, TwoWays DEF RamLine, ServedLast, WriteInv, ReadInv
    <3>3. ASSUME NEW l \in Line, l # sysAddr.line PROVE LruFull(l)'
      <4>1. \A w \in Way : way'[w][l] = way[w][l]
        BY <1>0, <3>2, <3>3, RamKeep, RamWrite, TwoWays
      <4>2. LruFull(l)
        BY <2>0, <3>3 DEF LruInv
      <4> QED BY <2>0, <4>1, <4>2, OrderKept
    <3>4. ASSUME NEW l \in Line, l = sysAddr.line PROVE LruFull(l)'
      <4>1. /\ way'[v][l] = WriteValue(v) /\ way'[Other(v)][l] = way[Other(v)][l]
            /\ Latest(v, l)'
        BY <1>0, <3>2, <3>4, WrittenIsLatest
      <4>2. ~Latest(Other(v), l)'
        BY <3>2, <4>1 DEF Latest, Other, Way
      <4>3. FullOrder(WriteValue(v), way[Other(v)][l], recent[l])
        BY <3>1, <3>4 DEF ServedLast
      <4> QED BY <2>0, <3>2, <4>1, <4>2, <4>3, TwoWays DEF LruFull
    <3> QED BY <1>0, <2>0, <3>3, <3>4, OrderDone
  <2> QED BY <2>1, <2>2
<1> QED BY <1>0, <1>1, <1>2, <1>3, <1>4, <1>5, <1>6, <1>7, <1>8, <1>9, <1>10,
           <1>11, <1>12, <1>13 DEF RiseCases

\* Nor does a falling edge, where only the port moves.
LEMMA LruFall ==
  ASSUME IInv, LruInv, Fall
  PROVE  LruInv'
<1>1. /\ Live' = Live /\ lineSel' = lineSel /\ state' = state /\ sysReady' = sysReady
      /\ sysAddr' = sysAddr /\ way' = way /\ recent' = recent
      /\ \A w \in Way : Match(rd[w])' = Match(rd[w])
  BY FallSplit DEF Live, Match, cpuVars
<1>2. ASSUME NEW l
      PROVE  (LruFull(l)' <=> LruFull(l)) /\ (LruHalf(l)' <=> LruHalf(l))
  BY <1>1, OrderKept
<1>3. ASSUME NEW l, NEW w \in Way, ServedLast(w, l), state = "WAIT" PROVE ServedLast(w, l)'
  <2>1. memRdata' = memRdata
    BY <1>3, QuietFall, ReadMove
  <2>2. WriteValue(w)' = WriteValue(w) /\ we' = we
    BY <2>1, FallSplit DEF WriteValue, Overlaid, Filled, Cleared, NewerBit, cpuVars
  <2> QED BY <1>1, <1>3, <2>2 DEF ServedLast
<1>4. sysReady => state = "WAIT"
  BY DEF IInv, CpuInv, TypeOK, State, Serving
<1>5. ASSUME NEW l \in Line, Live
      PROVE  /\ l # sysAddr.line \/ state \in {"IDLE", "COMPARE"}
                  \/ (state = "WAIT" /\ ~sysReady) => LruFull(l)'
             /\ l = sysAddr.line /\ state \in Serving =>
                  LruHalf(l)' /\ (LruFull(l)' \/ \A w \in Way : ~Match(rd[w])')
             /\ l = sysAddr.line /\ sysReady => \E w \in Way : ServedLast(w, l)'
  BY <1>1, <1>2, <1>3, <1>4, <1>5 DEF LruInv
<1> QED BY <1>1, <1>5 DEF LruInv

LEMMA LruStep == IInv /\ IInv' /\ LruInv /\ [Next]_vars => LruInv'
<1> SUFFICES ASSUME IInv, IInv', LruInv, [Next]_vars PROVE LruInv'
  OBVIOUS
<1>1. CASE UNCHANGED vars
  BY <1>1 DEF vars, cacheVars, cpuVars, ramVars, hist, LruInv, Live, LruFull, LruHalf,
     Latest, FullOrder, HalfOrder, ServedLast, WriteValue, Overlaid, Filled, Cleared,
     NewerBit, Match
<1> QED BY <1>1, LruRise, LruFall DEF Next

\* The order of the two ways of every line is right in every state.
LEMMA OrderInductive == Safety => []LruInv
<1>1. Init => LruInv
  BY DEF Init, CacheInit, LruInv, Live
<1> QED BY <1>1, LruStep, Inductive, PTL DEF Safety

\* Between accesses a line holds exactly the last two tags served in it, for
\* every number of lines and tags.
THEOREM ReplacementIsLru == Safety => []LruExact
<1>1. IInv /\ LruInv => LruExact
  <2> SUFFICES ASSUME IInv, LruInv, Settled, state \in {"IDLE", "COMPARE", "WAIT"},
                      NEW l \in Line
               PROVE  {way[w][l].tag : w \in {x \in Way : way[x][l].valid}}
                        = {recent[l][i] : i \in DOMAIN recent[l]}
    BY DEF LruExact
  <2>1. TypeOK /\ LruFull(l) /\ recent[l] \in Seq(Tag)
    BY DEF IInv, TypeOK, LruInv, Live, Settled
  <2>2. PICK n \in Way : Latest(n, l)
    BY DEF Latest, Way
  <2> DEFINE r == recent[l]
             o == Other(n)
  <2>3. /\ Len(r) \in {0, 1, 2} /\ o \in Way /\ Way = {n, o} /\ DOMAIN r = 1..Len(r)
        /\ way[n][l].valid <=> Len(r) > 0
        /\ way[n][l].valid => way[n][l].tag = r[1]
        /\ way[o][l].valid <=> Len(r) = 2
        /\ way[o][l].valid => way[o][l].tag = r[2]
    <3>1. FullOrder(way[n][l], way[o][l], r)
      BY <2>1, <2>2 DEF LruFull
    <3>2. o \in Way /\ Way = {n, o}
      BY TwoWays
    <3>3. r \in Seq(Tag) /\ way[n][l] \in Entry /\ way[o][l] \in Entry
      BY <2>1, <3>2 DEF TypeOK
    <3> HIDE DEF r, o
    <3>4. Len(r) \in Nat /\ DOMAIN r = 1..Len(r)
      BY <3>3
    <3> QED BY <3>1, <3>2, <3>3, <3>4 DEF FullOrder, HalfOrder, Entry
  <2> HIDE DEF r, o
  <2>4. {way[w][l].tag : w \in {x \in Way : way[x][l].valid}} = {r[i] : i \in DOMAIN r}
    <3>1. CASE Len(r) = 0
      BY <2>3, <3>1
    <3>2. CASE Len(r) = 1
      BY <2>3, <3>2
    <3>3. CASE Len(r) = 2
      BY <2>3, <3>3
    <3> QED BY <2>3, <3>1, <3>2, <3>3
  <2> QED BY <2>4 DEF r
<1> QED BY <1>1, Inductive, OrderInductive, PTL
=============================================================================
