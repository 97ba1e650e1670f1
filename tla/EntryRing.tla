----------------------------- MODULE EntryRing -----------------------------
(***************************************************************************)
(* What the queue synchronisation layer promises to the queues on top of   *)
(* it (smart_dma_read is "access_entry", smart_dma_write "access_done" of  *)
(* doc/runtime.md): an entry of the ring goes from the host to the NIC and *)
(* back, each time once.  There is no local copy, no segment and no DMA.   *)
(***************************************************************************)
EXTENDS Naturals, FiniteSets

CONSTANT Sizes      \* the numbers of entries a ring may have

VARIABLES phase,    \* where each entry is
          cursor    \* the entry the NIC takes next

vars == <<phase, cursor>>

Entries == DOMAIN phase

Init == /\ phase \in {[e \in 1 .. n |-> p] : n \in Sizes, p \in {"host", "offered"}}
        /\ cursor = 1

Move(e, from, to) == phase[e] = from /\ phase' = [phase EXCEPT ![e] = to]

\* The CPU is done with an entry.
Offer(e) == Move(e, "host", "offered") /\ UNCHANGED cursor

\* A core of the NIC gets the next entry.
Access == /\ Move(cursor, "offered", "nic")
          /\ cursor' = (cursor % Cardinality(Entries)) + 1

\* The core is done with it; the CPU finds out later.
Done(e)   == Move(e, "nic", "done") /\ UNCHANGED cursor
Return(e) == Move(e, "done", "host") /\ UNCHANGED cursor

Next == \/ Access
        \/ \E e \in Entries : Offer(e) \/ Done(e) \/ Return(e)

Spec == Init /\ [][Next]_vars
=============================================================================
