--------------------------- MODULE MCLineService ---------------------------
(* Instances of LineService for TLC.                                          *)
EXTENDS LineService

\* Two lines that differ in bank, row and column.
MCLineAddr == {[bank |-> 0, row |-> 0, col |-> 0], [bank |-> 1, row |-> 1, col |-> 1]}
MCAddr0 == [bank |-> 0, row |-> 0, col |-> 0]

\* Two contents that differ in both halves, and in their order.
MCLines == {[hi |-> "a", lo |-> "b"], [hi |-> "b", lo |-> "a"]}

\* For liveness one line and one content are enough.
MCOneLine == {MCAddr0}
MCOneContent == {[hi |-> "a", lo |-> "b"]}

\* All lines start alike.
MCInit == Init /\ \A l \in LineAddr : store[l] = memWdata
MCSpec == MCInit /\ [][Next]_vars
MCLive == MCSpec /\ WF_vars(Next)
=============================================================================
