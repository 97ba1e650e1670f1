----------------------------- MODULE MCSmartDma -----------------------------
(* Small instances of SmartDma for TLC. *)
EXTENDS SmartDma, TLC

\* One core, steps that are not interrupted, segments written whole.
Plain == [n |-> 4, k |-> 1, to_nic |-> TRUE, cores |-> 1, torn_reads |-> FALSE, late_counts |-> FALSE,
          slow_writes |-> FALSE, host_claims |-> 1, outstanding |-> 4]
PlainModes == {Plain}

\* A Dequeue and an Enqueue on the NIC over the smallest ring, by two cores
\* whose steps interleave.
TornDequeue == [Plain EXCEPT !.cores = 2, !.torn_reads = TRUE, !.late_counts = TRUE]
TornEnqueue == [TornDequeue EXCEPT !.to_nic = FALSE]

\* Segments of two entries and a last one of one, counted over late or written
\* in parts.
Segments == [Plain EXCEPT !.n = 9, !.k = 2, !.cores = 2, !.outstanding = 2]
TwoCores == [Segments EXCEPT !.late_counts = TRUE]
InParts  == [Segments EXCEPT !.slow_writes = TRUE]

AllModes == {TornDequeue, TornEnqueue, TwoCores, InParts}

\* An Enqueue on the NIC, which begins with all of the ring out, and segments
\* written in parts.
LapModes == {[Plain EXCEPT !.n = 8, !.k = 2, !.slow_writes = TRUE, !.to_nic = FALSE,
                           !.outstanding = 8]}

\* Entries are counted late while segments are written in parts.
LateModes == {[Plain EXCEPT !.late_counts = TRUE, !.slow_writes = TRUE]}
=============================================================================
