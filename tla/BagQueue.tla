------------------------------ MODULE BagQueue ------------------------------
(***************************************************************************)
(* The least a queue owes its users, whatever it does to the order: an     *)
(* entry that was put in can be taken once, by one reader, and at most      *)
(* Capacity entries are in the queue or in the hands of its readers.       *)
(***************************************************************************)
EXTENDS Naturals, FiniteSets

CONSTANTS Capacity, Readers, Items, None

VARIABLES inside,      \* the entries that wait to be taken (all different)
          held         \* what each reader has taken and not yet released

vars == <<inside, held>>

InHand == {r \in Readers : held[r] # None}

Init == inside = {} /\ held = [r \in Readers |-> None]

Put(i) ==
  /\ i \notin inside
  /\ Cardinality(inside) + Cardinality(InHand) < Capacity
  /\ inside' = inside \cup {i}
  /\ UNCHANGED held

Take(r) ==
  /\ held[r] = None
  /\ \E i \in inside : /\ inside' = inside \ {i}
                       /\ held' = [held EXCEPT ![r] = i]

Release(r) ==
  /\ held[r] # None
  /\ held' = [held EXCEPT ![r] = None]
  /\ UNCHANGED inside

Next == \/ \E i \in Items : Put(i)
        \/ \E r \in Readers : Take(r) \/ Release(r)

Spec == Init /\ [][Next]_vars
=============================================================================
