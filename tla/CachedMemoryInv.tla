-------------------------- MODULE CachedMemoryInv ---------------------------
(* The inductive invariant of CachedMemory: what every register means in      *)
(* every state of the cache.  Checked by TLC, proved inductive in             *)
(* CachedMemoryProofs.                                                        *)
EXTENDS CachedMemory

\* A RAM word that answers the open request.
Match(e) == e.valid /\ e.tag = sysAddr.tag

\* The states that hold an open, unanswered request.
Serving == {"COMPARE", "CHECK", "MISS", "FLUSH", "FLUSH_WAIT", "WRITE_MISS_APPLY"}

NoWrite == \A w \in Way : ~we[w]
OnlyVictimWritten == we[Victim] /\ ~we[Other(Victim)]

\* The handshakes: who waits for whom.
CpuInv ==
  /\ state \in Serving => sysValid /\ ~sysReady
  /\ state \in {"RESET", "IDLE"} => ~sysReady
  /\ state = "WAIT" => sysReady = sysValid
  /\ lineSel => ~sysValid /\ state \in {"RESET", "IDLE"}
  /\ state = "RESET" => lineSel
  /\ state = "WRITE_MISS_APPLY" => sysWstrb # {}

PortInv ==
  /\ state \in {"RESET", "IDLE", "COMPARE", "CHECK"} => ~memValid /\ port = "IDLE"
  /\ state \in {"MISS", "FLUSH", "WRITE_MISS_APPLY"} => memValid
  /\ state = "FLUSH_WAIT" => ~memValid
  /\ state = "WAIT" /\ ~sysReady => ~memValid
  /\ state \in {"FLUSH_WAIT", "WRITE_MISS_APPLY", "WAIT"} =>
       port = (IF memValid THEN "ACK" ELSE IF clk = "low" THEN "IDLE" ELSE port)
  /\ state \notin {"MISS", "FLUSH"} => ~readyInt /\ ~memReady /\ port \in {"IDLE", "ACK"}
  /\ port # "ACK" => ~readyInt /\ ~memReady
  /\ port = "ACK" /\ state \in {"MISS", "FLUSH"} =>
       IF clk = "high" THEN readyInt /\ memReady ELSE readyInt = ~memReady
  /\ port # "IDLE" /\ state \in {"MISS", "FLUSH"} =>
       cmd = [addr |-> memAddr, wr |-> memWstrb]

\* When a block RAM is written, and with what.
WriteInv ==
  /\ state \in {"COMPARE", "CHECK", "MISS", "FLUSH"} => NoWrite
  /\ state = "WAIT" /\ ~sysReady => NoWrite
  /\ state = "IDLE" /\ ~lineSel => NoWrite
  /\ lineSel => wbSrc = "FLUSH"
  /\ state = "FLUSH_WAIT" => OnlyVictimWritten /\ wbSrc = "FLUSH"
  /\ state = "WRITE_MISS_APPLY" => OnlyVictimWritten /\ wbSrc = "MEM"
  /\ state = "WAIT" /\ sysReady =>
       \/ /\ wbSrc = "OVERLAY"
          /\ \E w \in Way : we[w] /\ ~we[Other(w)] /\ Match(rd[w])
       \/ wbSrc = "MEM" /\ OnlyVictimWritten /\ sysWstrb = {}

\* The sweep: lines above the counter are cleared; the last line is cleared by
\* the first edge of IDLE, where the counter has wrapped.
SweepInv ==
  /\ state = "RESET" =>
       \A w \in Way, l \in Line : l > invCounter /\ l < NLines - 1 => ~way[w][l].valid
  /\ state = "RESET" /\ invCounter < NLines - 1 => \A w \in Way : we[w]
  /\ state = "IDLE" /\ lineSel =>
       /\ invCounter = NLines - 1
       /\ \A w \in Way : we[w]
       /\ \A w \in Way, l \in Line : l < NLines - 1 => ~way[w][l].valid
  /\ lineSel => \A a \in Addr : ref[a] = store[LineOf(a)][a.word]

\* The output registers show the requested line, the comparators judge it.
ReadInv ==
  /\ state \in Serving \/ sysReady => \A w \in Way : rd[w] = way[w][sysAddr.line]
  /\ state = "CHECK" => \A w \in Way : cmp[w] = Match(rd[w])
  /\ state \in {"MISS", "FLUSH", "FLUSH_WAIT", "WRITE_MISS_APPLY"} =>
       \A w \in Way : ~Match(rd[w])
  /\ sysReady /\ wbSrc = "MEM" => \A w \in Way : ~Match(rd[w])

\* What moves between the cache and the LPDDR.
MoveInv ==
  /\ state = "MISS" =>
       /\ ~memWstrb /\ memAddr = LineOf(sysAddr) /\ ~VictimDirty
       /\ port \in {"DONE", "ACK"} => memRdata = store[memAddr]
  /\ state = "WRITE_MISS_APPLY" \/ (sysReady /\ wbSrc = "MEM") =>
       ~VictimDirty /\ memRdata = store[LineOf(sysAddr)]
  /\ state = "FLUSH" =>
       /\ memWstrb /\ memWSrc = Victim /\ VictimDirty
       /\ memAddr = [tag |-> rd[Victim].tag, line |-> sysAddr.line]
       /\ port \in {"DONE", "ACK"} => store[memAddr] = rd[Victim].data
  /\ state = "FLUSH_WAIT" =>
       /\ VictimDirty
       /\ store[[tag |-> rd[Victim].tag, line |-> sysAddr.line]] = rd[Victim].data

\* Cache and LPDDR together against the memory the CPU believes in.
Live == state # "RESET" /\ ~lineSel
DataInv ==
  Live =>
    /\ \A a \in Addr : ~(Holds(0, a) /\ Holds(1, a))
    /\ \A w \in Way, a \in Addr : Holds(w, a) /\ ~way[w][a.line].dirty =>
         way[w][a.line].data = store[LineOf(a)]
    /\ \A a \in Addr : a # sysAddr \/ ~sysReady => View(a) = ref[a]
    /\ sysReady =>
         /\ ref[sysAddr] = Overwrite(View(sysAddr), sysWstrb, sysWdata)
         /\ sysWstrb = {} => sysRdata = ref[sysAddr]

\* Replacement.  Way w of line l was used last: the LRU bits read equal for 0.
Latest(w, l) == w = 0 <=> way[0][l].lru = way[1][l].lru

\* The RAM words n and o hold the tags served in a line, r, latest first; in
\* the half way state of a miss the older one may be gone already.
HalfOrder(n, o, r) ==
  /\ Len(r) <= 2 /\ (n.valid <=> Len(r) > 0)
  /\ n.valid => n.tag = r[1]
  /\ o.valid => Len(r) = 2 /\ o.tag = r[2] /\ r[2] # r[1]
FullOrder(n, o, r) == HalfOrder(n, o, r) /\ (Len(r) = 2 => o.valid)

LruHalf(l) ==
  \A w \in Way : Latest(w, l) => HalfOrder(way[w][l], way[Other(w)][l], recent[l])
LruFull(l) ==
  \A w \in Way : Latest(w, l) => FullOrder(way[w][l], way[Other(w)][l], recent[l])

\* Way w is about to be written with the line that was served last.
ServedLast(w, l) ==
  /\ we[w] /\ ~we[Other(w)]
  /\ FullOrder(WriteValue(w), way[Other(w)][l], recent[l])

\* Every line is in order, but for the one being served; what is about to be
\* written at an acknowledgement puts that one in order too.
LruInv ==
  /\ lineSel => \A l \in Line : recent[l] = <<>>
  /\ Live =>
       \A l \in Line :
         /\ l # sysAddr.line \/ state \in {"IDLE", "COMPARE"}
              \/ (state = "WAIT" /\ ~sysReady) => LruFull(l)
         /\ l = sysAddr.line /\ state \in Serving =>
              LruHalf(l) /\ (LruFull(l) \/ \A w \in Way : ~Match(rd[w]))
         /\ l = sysAddr.line /\ sysReady => \E w \in Way : ServedLast(w, l)

IInv ==
  /\ TypeOK /\ CpuInv /\ PortInv /\ WriteInv /\ SweepInv
  /\ ReadInv /\ MoveInv /\ DataInv
=============================================================================
