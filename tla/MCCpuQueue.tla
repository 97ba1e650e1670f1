----------------------------- MODULE MCCpuQueue -----------------------------
(* Small instances of CpuQueue for TLC. *)
EXTENDS CpuQueue, TLC

CONSTANTS t1, t2, v1, v2

Mode(enq_blocking, deq_blocking, clean, gap, looping) ==
  [enq_atomic |-> TRUE, deq_atomic |-> TRUE, enq_blocking |-> enq_blocking,
   deq_blocking |-> deq_blocking, clean |-> clean, gap |-> gap, looping |-> looping]

\* Two enqueuing and two dequeuing threads, and once three threads, of which t1
\* loops.
AllModes == {Mode(FALSE, FALSE, TRUE, 0, {}), Mode(TRUE, TRUE, FALSE, 0, {}),
             Mode(TRUE, TRUE, FALSE, 1, {t1})}

\* t1 loops and alone dequeues; t2 enqueues.
LoopMode == {[Mode(TRUE, TRUE, FALSE, 1, {t1}) EXCEPT !.deq_atomic = FALSE]}
=============================================================================
