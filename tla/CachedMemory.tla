---------------------------- MODULE CachedMemory ----------------------------
(* The cache of DdrCache over the line memory of LinePort: rising and falling *)
(* edges of the 100 MHz clock alternate, the cache and the CPU move on the    *)
(* rising one.                                                                *)
EXTENDS DdrCache

VARIABLES clk, port, readyInt, cmd, store

L == INSTANCE LinePort WITH memWdata <- MemWdata, Addr0 <- [tag |-> Tag0, line |-> 0]

vars == <<cacheVars, memReady, memRdata, clk, port, readyInt, cmd, store>>

\* The LPDDR holds what the CPU has been told it holds when the reset ends.
Init ==
  /\ CacheInit
  /\ clk = "low"
  /\ L!PortInit
  /\ ref = [a \in Addr |-> store[[tag |-> a.tag, line |-> a.line]][a.word]]

Rise == clk = "low"  /\ clk' = "high" /\ CacheEdge /\ L!PortRise
Fall == clk = "high" /\ clk' = "low"  /\ L!PortFall /\ UNCHANGED cacheVars

Next == Rise \/ Fall

\* The clock runs; a line that can be taken, moved or answered again and again
\* is so at last: refreshes come seldom, and the controller answers a command.
Fairness ==
  /\ WF_vars(Rise) /\ WF_vars(Fall)
  /\ SF_vars(Fall /\ L!Accept)
  /\ SF_vars((Rise \/ Fall) /\ L!Transfer)
  /\ SF_vars(Fall /\ L!Finish)

Safety == Init /\ [][Next]_vars
Spec == Safety /\ Fairness

-----------------------------------------------------------------------------
(* Properties.                                                                *)

\* Every register stays in its range (the widths declared in ddr_cache.v).
TypeOK ==
  /\ sysValid \in BOOLEAN /\ sysAddr \in Addr /\ sysWstrb \in SUBSET Byte
  /\ sysWdata \in WordVal /\ sysReady \in BOOLEAN /\ sysRdata \in WordVal
  /\ memValid \in BOOLEAN /\ memAddr \in LineAddr /\ memWstrb \in BOOLEAN
  /\ memWSrc \in Way /\ memReady \in BOOLEAN /\ memRdata \in Block
  /\ state \in State /\ we \in [Way -> BOOLEAN]
  /\ wbSrc \in {"OVERLAY", "MEM", "FLUSH"} /\ lineSel \in BOOLEAN
  /\ invCounter \in Line /\ cmp \in [Way -> BOOLEAN]
  /\ way \in [Way -> [Line -> Entry]] /\ rd \in [Way -> Entry]
  /\ ref \in [Addr -> WordVal] /\ recent \in [Line -> Seq(Tag)]
  /\ clk \in {"low", "high"} /\ port \in {"IDLE", "BUSY", "DONE", "ACK"}
  /\ readyInt \in BOOLEAN /\ cmd \in [addr : LineAddr, wr : BOOLEAN]
  /\ store \in [LineAddr -> Block]

LineOf(a) == [tag |-> a.tag, line |-> a.line]

\* Way w of the RAM holds the line of address a.
Holds(w, a) == way[w][a.line].valid /\ way[w][a.line].tag = a.tag

\* The word at address a, wherever it is: in a way, or else in the LPDDR.
View(a) ==
  IF Holds(0, a) THEN way[0][a.line].data[a.word]
  ELSE IF Holds(1, a) THEN way[1][a.line].data[a.word]
  ELSE store[LineOf(a)][a.word]

\* The sweep is over and every acknowledged access has reached the RAM.
Settled == state # "RESET" /\ ~lineSel /\ ~sysReady

\* A read is answered with the bytes last written to that word, whatever hits,
\* refills and write-backs lie between (the read data of RW_CHECK and RW_MISS).
ReadReturnsLastWrite ==
  sysReady /\ sysWstrb = {} => sysRdata = ref[sysAddr]

\* No acknowledged byte is ever lost: cache and LPDDR together always hold the
\* memory the CPU believes in, also in the middle of a flush or a refill.
NothingLost == Settled => \A a \in Addr : View(a) = ref[a]

\* The two ways of a line never hold the same tag: a hit is unambiguous.
OneCopy == Settled => \A a \in Addr : ~(Holds(0, a) /\ Holds(1, a))

\* A line marked clean is the LPDDR's own: dropping it without a flush is safe.
CleanIsStored ==
  Settled => \A w \in Way, a \in Addr :
    Holds(w, a) /\ ~way[w][a.line].dirty => way[w][a.line].data = store[LineOf(a)]

\* Replacement is least recently used: between accesses a line holds exactly
\* the last two tags served in it, although the LRU order is spread over one
\* bit in each way and a flush rewrites it before the refill reads it again.
LruExact ==
  Settled /\ state \in {"IDLE", "COMPARE", "WAIT"} =>
    \A l \in Line :
      {way[w][l].tag : w \in {x \in Way : way[x][l].valid}}
        = {recent[l][i] : i \in DOMAIN recent[l]}

\* The cache and the line memory together are the CPU's flat memory: every
\* request is one access, at one instant, and is answered.
Flat == INSTANCE WordMemory WITH
          mem <- ref, valid <- sysValid, addr <- sysAddr, wstrb <- sysWstrb,
          wdata <- sysWdata, ready <- sysReady, rdata <- sysRdata
FlatMemory == Flat!Spec
=============================================================================
