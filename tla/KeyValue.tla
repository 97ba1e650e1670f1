------------------------------ MODULE KeyValue ------------------------------
(***************************************************************************)
(* What a cache in front of a store owes the requests: it is one map.  A    *)
(* set takes effect at one moment between its arrival and its answer; a get *)
(* answers with a value its key had at some moment of the get; a key keeps  *)
(* its value until the next set.                                            *)
(***************************************************************************)
CONSTANTS Procs, Keys, Vals, Absent

VARIABLES mayDrop,                \* requests may be dropped, unanswered
          kv,                     \* the map
          request,                \* what each process is asked
          seen                    \* values a get's key has had since it came

vars == <<mayDrop, kv, request, seen>>

Idle == [op |-> "none"]
Gets == [op : {"get"}, key : Keys]
Sets == [op : {"set"}, key : Keys, val : Vals]
Answers == [op : {"done"}, key : Keys, val : Vals \cup {Absent}]

Init == /\ mayDrop \in BOOLEAN
        /\ kv \in [Keys -> Vals \cup {Absent}]
        /\ request = [p \in Procs |-> Idle]
        /\ seen = [p \in Procs |-> {}]

Begin(p) == /\ request[p] = Idle
            /\ \E r \in Gets \cup Sets : request' = [request EXCEPT ![p] = r]
            /\ UNCHANGED kv

SetKey(p) == /\ request[p] \in Sets
             /\ kv' = [kv EXCEPT ![request[p].key] = request[p].val]
             /\ request' = [request EXCEPT ![p].op = "done"]

Answer(p) == /\ request[p] \in Gets
             /\ \E v \in seen[p] : request' = [request EXCEPT ![p] =
                          [op |-> "done", key |-> request[p].key, val |-> v]]
             /\ UNCHANGED kv

End(p) == /\ \/ request[p] \in Answers
             \/ mayDrop /\ request[p] # Idle
          /\ request' = [request EXCEPT ![p] = Idle]
          /\ UNCHANGED kv

\* Every step adds the value a key now has to what its gets have seen.
Remember == seen' = [p \in Procs |->
  IF request'[p].op # "get" THEN {}
  ELSE (IF request[p].op = "get" THEN seen[p] ELSE {}) \cup {kv'[request'[p].key]}]

Next == /\ \E p \in Procs : Begin(p) \/ SetKey(p) \/ Answer(p) \/ End(p)
        /\ Remember
        /\ UNCHANGED mayDrop

Spec == Init /\ [][Next]_vars
=============================================================================
