----------------------------- MODULE WordMemory -----------------------------
(* What the CPU is promised by the LPDDR subsystem: a flat memory of words   *)
(* behind a valid/ready handshake.  The cache, the line port and the MIG      *)
(* bridge are all invisible here; a request is served exactly once, at one    *)
(* instant, by one access to one memory.                                      *)

CONSTANTS Addr,      \* word addresses
          Byte,      \* byte lanes of a word
          Val        \* values of a byte

VARIABLES mem,       \* the memory: a word for every address
          valid,     \* the CPU's request line
          addr,      \* requested address
          wstrb,     \* byte lanes to write; {} is a read
          wdata,     \* the word to write
          ready,     \* the memory's answer line
          rdata      \* the word read

vars == <<mem, valid, addr, wstrb, wdata, ready, rdata>>

WordVal == [Byte -> Val]

\* The word w after the lanes in strobe were overwritten from d.
Overwrite(w, strobe, d) == [b \in Byte |-> IF b \in strobe THEN d[b] ELSE w[b]]

Init ==
  /\ mem \in [Addr -> WordVal]
  /\ valid = FALSE /\ ready = FALSE
  /\ addr \in Addr /\ wstrb \in SUBSET Byte /\ wdata \in WordVal
  /\ rdata \in WordVal

\* While no request is open the CPU may drive the request wires as it likes.
Drive ==
  /\ ~valid
  /\ valid' \in BOOLEAN
  /\ addr' \in Addr /\ wstrb' \in SUBSET Byte /\ wdata' \in WordVal
  /\ UNCHANGED <<mem, ready, rdata>>

\* The one access.  A read returns the word as it stands, a write changes
\* exactly the strobed lanes of exactly the addressed word.
Serve ==
  /\ valid /\ ~ready
  /\ ready' = TRUE
  /\ mem' = [mem EXCEPT ![addr] = Overwrite(@, wstrb, wdata)]
  /\ rdata' \in WordVal
  /\ wstrb = {} => rdata' = mem[addr]
  /\ UNCHANGED <<valid, addr, wstrb, wdata>>

\* The CPU takes the answer: both lines fall together.
Retire ==
  /\ valid /\ ready
  /\ valid' = FALSE /\ ready' = FALSE
  /\ UNCHANGED <<mem, addr, wstrb, wdata, rdata>>

Next == Drive \/ Serve \/ Retire

Safety == Init /\ [][Next]_vars

Spec == Safety /\ WF_vars(Serve) /\ WF_vars(Retire)
=============================================================================
