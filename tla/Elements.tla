------------------------------ MODULE Elements ------------------------------
(***************************************************************************)
(* How the programs of src/apps are written down: an element of a Floem    *)
(* program by what its C code does to the per-packet state and to the      *)
(* buffers it is handed, and a program by its elements, the state they     *)
(* share, its queues and the chains its impl() connects.                   *)
(*                                                                         *)
(* An element is a record:                                                 *)
(*   uses   state fields its code reads before the output block            *)
(*   late   state fields read out of the compiler's sight: in the output   *)
(*          block, or by the version of the code for the NIC               *)
(*   tests  those of these pointers it only compares with NULL             *)
(*   sets   state fields it assigns on every path                          *)
(*   frees  what it gives back: the buffer it was handed ("hand"), a       *)
(*          resource by name or what a state field points to, unless that  *)
(*          field is NULL                                                  *)
(*   takes  whether it is handed the buffer                                *)
(*   wipes  whether it overwrites the buffer it was handed                 *)
(*   sends  whether it is an answer to the request                         *)
(*   saves  state fields it reads and passes on as arguments               *)
(*   restores  whether it assigns the arguments it is passed               *)
(*   ports  the ways out, one of which is taken: a port its output switch  *)
(*          fires, or skip where the switch may fire none                  *)
(* A port is a record:                                                     *)
(*   sets   fields assigned on the way out through this port               *)
(*   nulls  fields assigned NULL or zero                                   *)
(*   leads  what the assigned pointers lead to, where it is not what they  *)
(*          lead to elsewhere; "hand" for the buffer it was handed         *)
(*   when   field |-> what it must hold for this way out to be taken       *)
(*   fires  the output ports called, in order, where there are several or  *)
(*          one has another name                                           *)
(*   opens  resources acquired                                             *)
(*   hand   the buffer passed on as an argument: "same", "none", one, or   *)
(*          what a state field points to                                   *)
(*   kinds  the requests that can leave here                               *)
(*   lost   the request ends here for want of a buffer                     *)
(***************************************************************************)
EXTENDS FiniteSets, Sequences, Naturals, TLC

\* What a run of a program may be about: a get, a set, an ARP request, another
\* packet for the host, a packet to drop; the start of an allocator; nothing has
\* come in.  Of Storm: a tuple or an acknowledgement from another worker, a
\* tuple for another or for this worker, a put by an executor, a tuple for the
\* counter on the NIC, no tuple to send.  Of the parameter server: parameters from a
\* worker that is not, or is, the last.  Something a benchmark is asked for.
Kinds == {"get", "set", "arp", "slow", "junk", "init", "idle",
          "data", "ack", "remote", "local", "put", "count", "still", "part", "full", "call"}

\* What a request may hold: buffers, references, an entry of a queue it has
\* dequeued by hand ("slot", and "cslot" of the counter's queue).
Resources == {"rx", "tx", "item", "resp", "citem", "victim", "entry", "slot", "cslot"}

\* What a field may hold, besides what its pointer leads to: NULL or zero, a
\* value, or a pointer into the entry of the queue it came through.
Null  == {"null"}
Some  == {"value", "own"} \cup Resources

Port == [sets |-> {}, nulls |-> {}, leads |-> <<>>, when |-> <<>>, fires |-> <<>>,
         opens |-> {}, hand |-> "same", kinds |-> Kinds, lost |-> FALSE]

For(kinds)         == [Port EXCEPT !.kinds = kinds]
Opens(r, buffer)   == [Port EXCEPT !.opens = {r}, !.hand = buffer]
Setting(fields)    == [Port EXCEPT !.sets = fields]
Clearing(fields)   == [Port EXCEPT !.nulls = fields]
When(port, f, x)   == [port EXCEPT !.when = (f :> x) @@ @]
Fires(port, ports) == [port EXCEPT !.fires = ports]
Leading(leads)     == [Port EXCEPT !.sets = DOMAIN leads, !.leads = leads]

\* An element with one port, out, that it always fires.
Through(uses, sets) ==
  [uses |-> uses, late |-> {}, tests |-> {}, sets |-> sets, frees |-> {}, takes |-> TRUE,
   wipes |-> FALSE, sends |-> FALSE, saves |-> {}, restores |-> FALSE, ports |-> [out |-> Port]]

\* An element that leaves through one of its ports.
OneOf(uses, sets, ports) == [Through(uses, sets) EXCEPT !.ports = ports]

\* An element that passes on, or gives back, a given buffer.
Hands(e, buffer) == [e EXCEPT !.ports.out.hand = buffer]
Frees(e, what)   == [e EXCEPT !.frees = @ \cup {what}]
Sends(e)         == [e EXCEPT !.sends = TRUE]

\* An element that calls several of its ports, one after the other.
InTurn(e, ports) == [e EXCEPT !.ports.out.fires = ports]

\* An element without an argument.
Alone(e)         == [e EXCEPT !.takes = FALSE]

\* An element that fills the buffer it is handed, and one that reads fields the
\* compiler does not see.
Wipes(e)         == [e EXCEPT !.wipes = TRUE]
Reads(e, fields) == [e EXCEPT !.late = @ \cup fields]

\* A queue of a program: its Enqueue, Dequeue and Scan nodes by channel, the
\* node of its done port, and by channel whether an enqueue waits for room.
Queue(enq, deq, scan, done, blocking) ==
  [enq |-> enq, deq |-> deq, scan |-> scan, done |-> done,
   blocking |-> [c \in DOMAIN enq |-> blocking]]
-----------------------------------------------------------------------------
(* The elements of net.py.  A packet is in a buffer of its own, "rx"; an    *)
(* answer is put into it or into one NetAlloc gives, "tx".                 *)
NetElements ==
  [FromNet     |-> OneOf({}, {}, [out     |-> [Opens("rx", "rx") EXCEPT !.kinds = Kinds \ {"idle"}],
                                  nothing |-> For({"idle"})]),
   FromNetFree |-> Frees(Through({}, {}), "hand"),
   NetAlloc    |-> OneOf({}, {}, [out |-> Opens("tx", "tx"), oom |-> [Port EXCEPT !.lost = TRUE]]),
   ToNet       |-> Sends(Frees(Through({}, {}), "hand")),
   HTON        |-> Through({}, {})]
=============================================================================
