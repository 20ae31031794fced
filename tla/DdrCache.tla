------------------------------ MODULE DdrCache ------------------------------
(* fpga/mig/ddr_cache.v: the two-way set-associative write-back cache between *)
(* the CPU and the LPDDR bridge, one TLA+ step per rising clock edge.  Every  *)
(* edge moves four things at once: the state machine (one action per state), *)
(* the two block RAMs with their output registers, the registered tag         *)
(* comparators, and the CPU on the other side of the valid/ready handshake.   *)
(* The memory side of the cache is left to the module that composes it.       *)
EXTENDS Naturals, Sequences

CONSTANTS
  Tag,        \* address tags (13 bits in the code)
  Tag0,       \* the tag of a cleared line (all bits zero)
  NLines,     \* lines per way (CACHE_LINE, 256)
  Word,       \* words of a line (CACHE_LEN, 4)
  Byte,       \* byte lanes of a word (4)
  Val,        \* values of a byte
  Val0,       \* the byte of a cleared line
  Leftover    \* RAM words the reset may find: a push-button reset keeps them

WordVal == [Byte -> Val]
Block   == [Word -> WordVal]
Line    == 0..(NLines - 1)
Way     == {0, 1}
LineAddr == [tag : Tag, line : Line]
Addr    == [tag : Tag, line : Line, word : Word]
\* A RAM word: LRU bit, valid, dirty, tag and four data words.
Entry   == [lru : BOOLEAN, valid : BOOLEAN, dirty : BOOLEAN,
            tag : Tag, data : Block]
State   == {"RESET", "IDLE", "COMPARE", "CHECK", "MISS", "FLUSH",
            "FLUSH_WAIT", "WRITE_MISS_APPLY", "WAIT"}

ASSUME CacheAssumption ==
  /\ NLines \in Nat \ {0}
  /\ Tag0 \in Tag /\ Val0 \in Val
  /\ Word # {} /\ Byte # {}
  /\ Leftover \subseteq Entry /\ Leftover # {}

VARIABLES
  \* the CPU's side of the handshake
  sysValid, sysAddr, sysWstrb, sysWdata, sysReady, sysRdata,
  \* the request to the memory
  memValid, memAddr, memWstrb, memWSrc,
  \* the answer of the memory, driven by the composing module
  memReady, memRdata,
  \* the registers of the cache
  state, we, wbSrc, lineSel, invCounter, cmp,
  way,        \* the block RAMs: way[w][l]
  rd,         \* their output registers: rd[w]
  \* history, read by no action
  ref,        \* the memory the CPU believes in
  recent      \* recent[l]: the last two tags served in line l, latest first

cpuVars   == <<sysValid, sysAddr, sysWstrb, sysWdata>>
memReq    == <<memValid, memAddr, memWstrb, memWSrc>>
ramVars   == <<way, rd, cmp>>
hist      == <<ref, recent>>
cacheVars == <<cpuVars, sysReady, sysRdata, memReq, state, we, wbSrc,
               lineSel, invCounter, ramVars, hist>>

-----------------------------------------------------------------------------
(* Combinational wires.                                                       *)

Other(w) == 1 - w

Overwrite(old, strobe, d) ==
  [b \in Byte |-> IF b \in strobe THEN d[b] ELSE old[b]]

Blank(lru) ==
  [lru |-> lru, valid |-> FALSE, dirty |-> FALSE, tag |-> Tag0,
   data |-> [x \in Word |-> [b \in Byte |-> Val0]]]

\* The LRU bits of a line read equal when way 0 was used last.
Way0Newer == rd[0].lru = rd[1].lru
Victim == IF Way0Newer THEN 1 ELSE 0

\* The LRU bit way w writes to become the newer one, from the other's bit.
NewerBit(w) == IF w = 0 THEN rd[1].lru ELSE ~rd[0].lru

\* The line read with the CPU's bytes laid over the word it asked for.
OverlaidForgetsDirty(w) ==      \* mutant: a read makes the line clean
  [lru |-> NewerBit(w), valid |-> TRUE, dirty |-> sysWstrb # {}, tag |-> rd[w].tag,
   data |-> [rd[w].data EXCEPT ![sysAddr.word] = Overwrite(@, sysWstrb, sysWdata)]]
Overlaid(w) ==
  [lru |-> NewerBit(w), valid |-> TRUE, dirty |-> sysWstrb # {} \/ rd[w].dirty,
   tag |-> rd[w].tag,
   data |-> [rd[w].data EXCEPT ![sysAddr.word] = Overwrite(@, sysWstrb, sysWdata)]]

\* The block from memory.
Filled(w) ==
  [lru |-> NewerBit(w), valid |-> TRUE, dirty |-> FALSE,
   tag |-> sysAddr.tag, data |-> memRdata]

\* A cleared line leaves the other way the newer.
ClearedNewer(w) == Blank(NewerBit(w))      \* mutant: it counts as used
Cleared(w) == Blank(~NewerBit(w))

WriteValue(w) ==
  CASE wbSrc = "OVERLAY" -> Overlaid(w)
    [] wbSrc = "MEM"     -> Filled(w)
    [] OTHER             -> Cleared(w)

RamLine  == IF lineSel THEN invCounter ELSE sysAddr.line
MemWdata == rd[memWSrc].data

-----------------------------------------------------------------------------
(* What every edge does besides the state machine.                            *)

\* Mutant of RamEdge: the RAMs are read-first.
RamReadFirst ==
  /\ way' = [w \in Way |-> IF we[w] THEN [way[w] EXCEPT ![RamLine] = WriteValue(w)]
                           ELSE way[w]]
  /\ rd'  = [w \in Way |-> way[w][RamLine]]

\* The RAMs are write-first: the output register takes the word just written.
RamEdge ==
  /\ way' = [w \in Way |-> IF we[w] THEN [way[w] EXCEPT ![RamLine] = WriteValue(w)]
                           ELSE way[w]]
  /\ rd'  = [w \in Way |-> IF we[w] THEN WriteValue(w) ELSE way[w][RamLine]]

CompareEdge ==
  cmp' = [w \in Way |-> rd[w].valid /\ rd[w].tag = sysAddr.tag]

\* PicoRV32: the request is held until ready is sampled, then valid is low for
\* at least one edge.  With valid low the wires carry whatever the CPU says to
\* the other devices.  The CPU itself is in reset until the LPDDR controller
\* has initialised, long after the sweep of RESET.
CpuEdge ==
  \/ sysValid /\ ~sysReady /\ UNCHANGED cpuVars
  \/ /\ sysValid /\ sysReady
     /\ sysValid' = FALSE
     /\ UNCHANGED <<sysAddr, sysWstrb, sysWdata>>
  \/ /\ ~sysValid
     /\ sysValid' \in (IF state = "RESET" THEN {FALSE} ELSE BOOLEAN)
     /\ sysAddr' \in Addr
     /\ \/ sysWstrb' = {} /\ sysWdata' = sysWdata
        \/ sysWstrb' \in (SUBSET Byte) \ {{}} /\ sysWdata' \in WordVal

Edge == RamEdge /\ CompareEdge /\ CpuEdge

-----------------------------------------------------------------------------
(* The state machine.                                                         *)

\* The last two tags of a line after an access to tag t.
Touch(tags, t) ==
  IF tags = <<>> THEN <<t>> ELSE IF tags[1] = t THEN tags ELSE <<t, tags[1]>>

\* sys_ready rises for the open request; for the history this is the access.
Acknowledge ==
  /\ sysReady' = TRUE
  /\ ref' = [ref EXCEPT ![sysAddr] = Overwrite(@, sysWstrb, sysWdata)]
  /\ recent' = [recent EXCEPT ![sysAddr.line] = Touch(@, sysAddr.tag)]

\* The registers after reset; the RAM and its output registers are as found.
CacheInit ==
  /\ state = "RESET" /\ sysReady = FALSE /\ memValid = FALSE
  /\ we = [w \in Way |-> FALSE] /\ wbSrc = "FLUSH"
  /\ invCounter = NLines - 1 /\ lineSel = TRUE
  /\ way \in [Way -> [Line -> Leftover]] /\ rd \in [Way -> Leftover]
  /\ cmp \in [Way -> BOOLEAN]
  /\ sysValid = FALSE /\ sysAddr \in Addr
  /\ sysWstrb = {} /\ sysWdata \in WordVal /\ sysRdata \in WordVal
  /\ memAddr \in LineAddr /\ memWstrb \in BOOLEAN /\ memWSrc \in Way
  /\ ref \in [Addr -> WordVal]
  /\ recent = [l \in Line |-> <<>>]

\* Mutant of Reset: the counter reloads one too high.
ResetReloadsHigh ==
  /\ state = "RESET"
  /\ we' = [w \in Way |-> TRUE]
  /\ invCounter' = IF invCounter = 0 THEN NLines ELSE invCounter - 1
  /\ state' = IF invCounter = 0 THEN "IDLE" ELSE "RESET"
  /\ UNCHANGED <<sysReady, sysRdata, memReq, wbSrc, lineSel, hist>>

Reset ==
  /\ state = "RESET"
  /\ we' = [w \in Way |-> TRUE]
  /\ invCounter' = IF invCounter = 0 THEN NLines - 1 ELSE invCounter - 1
  /\ state' = IF invCounter = 0 THEN "IDLE" ELSE "RESET"
  /\ UNCHANGED <<sysReady, sysRdata, memReq, wbSrc, lineSel, hist>>

Idle ==
  /\ state = "IDLE"
  /\ lineSel' = FALSE
  /\ we' = [w \in Way |-> FALSE]
  /\ state' = IF sysValid THEN "COMPARE" ELSE "IDLE"
  /\ UNCHANGED <<sysReady, sysRdata, memReq, wbSrc, invCounter, hist>>

\* The comparators see the line only now: USE_3_CYCLE_CACHE.
Compare ==
  /\ state = "COMPARE"
  /\ state' = "CHECK"
  /\ UNCHANGED <<sysReady, sysRdata, memReq, we, wbSrc, lineSel, invCounter, hist>>

Hit(w) ==
  /\ state = "CHECK" /\ cmp[w] /\ (w = 1 => ~cmp[0])
  /\ sysRdata' = rd[w].data[sysAddr.word]
  /\ Acknowledge
  /\ we' = [x \in Way |-> x = w]
  /\ wbSrc' = "OVERLAY"
  /\ state' = "WAIT"
  /\ UNCHANGED <<memReq, lineSel, invCounter>>

\* Mutant of VictimDirty: way 0 decides for both.
VictimDirtyOfWay0 == rd[0].valid /\ rd[0].dirty

VictimDirty == rd[Victim].valid /\ rd[Victim].dirty


\* The victim goes to memory first.
MissDirty ==
  /\ state = "CHECK" /\ ~cmp[0] /\ ~cmp[1] /\ VictimDirty
  /\ memAddr' = [tag |-> rd[Victim].tag, line |-> sysAddr.line]
  /\ memWSrc' = Victim
  /\ memWstrb' = TRUE /\ memValid' = TRUE
  /\ state' = "FLUSH"
  /\ UNCHANGED <<sysReady, sysRdata, we, wbSrc, lineSel, invCounter, hist>>

\* Mutant of MissClean: the line is read with the tag of the victim.
MissVictimTag ==
  /\ state = "CHECK" /\ ~cmp[0] /\ ~cmp[1] /\ ~VictimDirty
  /\ memAddr' = [tag |-> rd[Victim].tag, line |-> sysAddr.line]
  /\ memWstrb' = FALSE /\ memValid' = TRUE
  /\ state' = "MISS"
  /\ UNCHANGED <<sysReady, sysRdata, memWSrc, we, wbSrc, lineSel, invCounter, hist>>

MissClean ==
  /\ state = "CHECK" /\ ~cmp[0] /\ ~cmp[1] /\ ~VictimDirty
  /\ memAddr' = [tag |-> sysAddr.tag, line |-> sysAddr.line]
  /\ memWstrb' = FALSE /\ memValid' = TRUE
  /\ state' = "MISS"
  /\ UNCHANGED <<sysReady, sysRdata, memWSrc, we, wbSrc, lineSel, invCounter, hist>>

\* RW_MISS and RW_FLUSH hold until the memory answers.
AwaitMemory ==
  /\ state \in {"MISS", "FLUSH"} /\ ~memReady
  /\ UNCHANGED <<sysReady, sysRdata, memReq, state, we, wbSrc, lineSel,
                 invCounter, hist>>


\* A read is answered from the incoming block; a write waits for the block to
\* be in the line.
ReadFill ==
  /\ state = "MISS" /\ memReady /\ sysWstrb = {}
  /\ wbSrc' = "MEM"
  /\ we' = [we EXCEPT ![Victim] = TRUE]
  /\ sysRdata' = memRdata[sysAddr.word]
  /\ Acknowledge
  /\ state' = "WAIT"
  /\ UNCHANGED <<memReq, lineSel, invCounter>>

WriteFill ==
  /\ state = "MISS" /\ memReady /\ sysWstrb # {}
  /\ wbSrc' = "MEM"
  /\ we' = [we EXCEPT ![Victim] = TRUE]
  /\ state' = "WRITE_MISS_APPLY"
  /\ UNCHANGED <<sysReady, sysRdata, memReq, lineSel, invCounter, hist>>

WriteMissApply ==
  /\ state = "WRITE_MISS_APPLY"
  /\ wbSrc' = "OVERLAY"
  /\ Acknowledge
  /\ state' = "WAIT"
  /\ UNCHANGED <<sysRdata, memReq, we, lineSel, invCounter>>

\* Mutant of Flushed: the request to the memory stays up.
FlushedKeepsValid ==
  /\ state = "FLUSH" /\ memReady
  /\ wbSrc' = "FLUSH"
  /\ we' = [we EXCEPT ![Victim] = TRUE]
  /\ state' = "FLUSH_WAIT"
  /\ UNCHANGED <<sysReady, sysRdata, memReq, lineSel, invCounter, hist>>

\* The flushed line is cleared, and becomes the victim again.
Flushed ==
  /\ state = "FLUSH" /\ memReady
  /\ memValid' = FALSE
  /\ wbSrc' = "FLUSH"
  /\ we' = [we EXCEPT ![Victim] = TRUE]
  /\ state' = "FLUSH_WAIT"
  /\ UNCHANGED <<sysReady, sysRdata, memAddr, memWstrb, memWSrc, lineSel,
                 invCounter, hist>>

FlushWait ==
  /\ state = "FLUSH_WAIT"
  /\ we' = [w \in Way |-> FALSE]
  /\ state' = IF memReady THEN "FLUSH_WAIT" ELSE "CHECK"
  /\ UNCHANGED <<sysReady, sysRdata, memReq, wbSrc, lineSel, invCounter, hist>>

\* Mutant of Wait: ready stays up until valid has fallen.
WaitHoldsReady ==
  /\ state = "WAIT"
  /\ we' = [w \in Way |-> FALSE]
  /\ memValid' = FALSE
  /\ sysReady' = sysValid
  /\ state' = IF sysValid THEN "WAIT" ELSE "IDLE"
  /\ UNCHANGED <<sysRdata, memAddr, memWstrb, memWSrc, wbSrc, lineSel,
                 invCounter, hist>>


Wait ==
  /\ state = "WAIT"
  /\ we' = [w \in Way |-> FALSE]
  /\ memValid' = FALSE
  /\ sysReady' = FALSE
  /\ state' = IF sysValid THEN "WAIT" ELSE "IDLE"
  /\ UNCHANGED <<sysRdata, memAddr, memWstrb, memWSrc, wbSrc, lineSel,
                 invCounter, hist>>

\* One rising edge of the cache, the memory's answer lines not included.
CacheEdge ==
  /\ Edge
  /\ \/ Reset \/ Idle \/ Compare
     \/ \E w \in Way : Hit(w)
     \/ MissDirty \/ MissClean \/ AwaitMemory
     \/ ReadFill \/ WriteFill \/ WriteMissApply
     \/ Flushed \/ FlushWait \/ Wait
=============================================================================
