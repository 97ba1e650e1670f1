------------------------------- MODULE MCCache -------------------------------
(* Small instances of Cache for TLC. *)
EXTENDS Cache, TLC

CONSTANTS p1, p2, k1, k2, k3, v1, v2, b1

\* All keys meet in one bucket.
OneBucket == [k \in Keys |-> b1]

\* Requests steered by their key, and requests that are not.
Steered == [p \in Procs |-> IF p = p1 THEN {k1} ELSE {k2, k3}]
Anyone  == [p \in Procs |-> Keys]
TwoKeys == [p \in Procs |-> {k1, k2}]

Back    == [write_back |-> TRUE, write_alloc |-> TRUE, try_lock |-> FALSE, keys |-> Anyone]
Through == [write_back |-> FALSE, write_alloc |-> FALSE, try_lock |-> TRUE, keys |-> Steered]

\* Evictions among steered requests, on the CPU and on the NIC, and requests
\* that race for keys which all have room.
MapPolicies == {[Back EXCEPT !.keys = Steered],
                [Back EXCEPT !.keys = Steered, !.try_lock = TRUE],
                Through, [Through EXCEPT !.write_alloc = TRUE, !.try_lock = FALSE],
                [Back EXCEPT !.keys = TwoKeys]}

StalePolicies == {Back}

Symmetry == Permutations(Vals) \cup Permutations({k2, k3})
=============================================================================
