---------------------------- MODULE MCCustomQueue ----------------------------
(* Small instances of CustomQueue for TLC. *)
EXTENDS CustomQueue, TLC

CONSTANTS e1, e2, d1, d2

\* Every variant of one side with every variant of the other; two threads on a
\* side that is atomic.
AllModes ==
  {[enq_blocking |-> eb, enq_atomic |-> ea, deq_blocking |-> db, deq_atomic |-> da,
    enqueuers |-> IF ea THEN {e1, e2} ELSE {e1},
    dequeuers |-> IF da THEN {d1, d2} ELSE {d1}] : eb, ea, db, da \in BOOLEAN}
=============================================================================
