--------------------------- MODULE MCCachedMemory ---------------------------
(* Instances of CachedMemory for TLC.                                         *)
EXTENDS CachedMemoryInv

CONSTANTS t0, t1, t2, v0, v1, w0, b0

OneWord == {w0}
OneByte == {b0}
ThreeTags == {t0, t1, t2}
Vals == {v0, v1}

\* A dirty line a push-button reset may leave behind; that, or a cleared word.
Dirty ==
  {[lru |-> TRUE, valid |-> TRUE, dirty |-> TRUE, tag |-> t0,
    data |-> [x \in Word |-> [b \in Byte |-> v1]]]}
Found == Dirty \cup {Blank(FALSE)}

\* The reset leaves these registers alone; none is read before it is written,
\* so one value of each is enough for the runs (the theorems take them all).
Quiet ==
  /\ memAddr = [tag |-> Tag0, line |-> 0] /\ memWstrb = FALSE /\ memWSrc = 0
  /\ sysAddr = [tag |-> Tag0, line |-> 0, word |-> w0]
  /\ sysWdata = [b \in Byte |-> v0]
  /\ sysRdata = sysWdata
MCInit == Quiet /\ Init
MCSafety == MCInit /\ [][Next]_vars
MCSpec == MCSafety /\ Fairness

\* States that differ only in registers nobody will read before they are
\* rewritten are explored once.
Writing == \E w \in Way : we[w]
MCView ==
  <<sysValid, sysReady, memValid, state, we, wbSrc, lineSel, invCounter, way,
    ref, recent, clk, port, readyInt, store, memReady,
    IF sysValid \/ Writing THEN <<sysAddr, sysWstrb>> ELSE <<>>,
    IF state # "IDLE" \/ Writing THEN rd ELSE <<>>,
    IF state \notin {"IDLE", "COMPARE"} THEN cmp ELSE <<>>,
    IF (sysValid \/ Writing) /\ sysWstrb # {} THEN sysWdata ELSE <<>>,
    IF sysReady THEN sysRdata ELSE <<>>,
    IF memValid THEN <<memAddr, memWstrb, memWSrc>> ELSE <<>>,
    IF port \in {"BUSY", "DONE"} THEN cmd ELSE <<>>,
    IF \/ port = "DONE" /\ ~cmd.wr
       \/ (readyInt \/ memReady) /\ state = "MISS"
       \/ Writing /\ wbSrc = "MEM"
    THEN memRdata ELSE <<>>>>
=============================================================================
