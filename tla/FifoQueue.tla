----------------------------- MODULE FifoQueue -----------------------------
(***************************************************************************)
(* What a Floem queue promises to the segments at its two ends, without    *)
(* rings, flags, locks or offsets: entries are reserved in an order, each  *)
(* is filled by whoever reserved it, and filled entries leave from the     *)
(* front only, one reader each, in the order of the reservations.  Entries *)
(* that are reserved, filled or held by a reader take up room for at most  *)
(* Capacity of them.                                                       *)
(***************************************************************************)
EXTENDS Naturals, Sequences, FiniteSets

CONSTANTS Capacity,    \* number of entries of the queue
          Writers,     \* the threads that enqueue
          Readers,     \* the threads that dequeue
          Vals,        \* payloads
          None         \* not a payload and not a writer

VARIABLES cells,       \* entries not yet taken, oldest first
          held         \* what each reader has taken and not yet released

vars == <<cells, held>>

Reserved(w) == [by |-> w, val |-> None]
Filled(v)   == [by |-> None, val |-> v]

InHand == {r \in Readers : held[r] # None}

Init == /\ cells = << >>
        /\ held = [r \in Readers |-> None]

Reserve(w) ==
  /\ Len(cells) + Cardinality(InHand) < Capacity
  /\ cells' = Append(cells, Reserved(w))
  /\ UNCHANGED held

Fill(w, v) ==
  /\ \E i \in DOMAIN cells :
        /\ cells[i] = Reserved(w)
        /\ cells' = [cells EXCEPT ![i] = Filled(v)]
  /\ UNCHANGED held

Take(r) ==
  /\ held[r] = None
  /\ cells # << >>
  /\ Head(cells).val # None
  /\ held' = [held EXCEPT ![r] = Head(cells).val]
  /\ cells' = Tail(cells)

Release(r) ==
  /\ held[r] # None
  /\ held' = [held EXCEPT ![r] = None]
  /\ UNCHANGED cells

Next == \/ \E w \in Writers : Reserve(w) \/ \E v \in Vals : Fill(w, v)
        \/ \E r \in Readers : Take(r) \/ Release(r)

Spec == Init /\ [][Next]_vars
=============================================================================
