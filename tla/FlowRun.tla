------------------------------- MODULE FlowRun -------------------------------
(***************************************************************************)
(* One request on its way through a compiled program.  A flow is a thread  *)
(* of a segment at work on one per-packet state: it calls the elements     *)
(* depth first, as the generated C functions do.  An enqueue leaves an     *)
(* entry with the live fields; the segment that polls the queue makes a    *)
(* flow of it, releases the entry when that flow has returned, and the     *)
(* enqueuer scans it later if the queue has a scan.  Flows interleave.     *)
(***************************************************************************)
EXTENDS FlowCompiler

VARIABLES
  prog,    \* the program that runs
  code,    \* what the compiler has made of it (module FlowCompiler)
  kind,    \* what the run is about
  started, \* whether the request has come in
  flows,   \* the flows at work
  slots,   \* entries enqueued and not yet dequeued, oldest first
  used,    \* entries dequeued and released that wait for the scan
  held,    \* resource |-> references the request holds
  answers, \* answers sent
  lost,    \* the request ended for want of a buffer
  wiped    \* resources whose contents have been overwritten

vars == <<prog, code, kind, started, flows, slots, used, held, answers, lost, wiped>>

P == code.source

-----------------------------------------------------------------------------
(* The per-packet state of a flow: who wrote each field that has a value    *)
(* (by), and what the pointers lead to or that a field is NULL or zero (to).*)

Fresh == [by |-> <<>>, to |-> <<>>]

\* The value a read of f finds: that of f where it was restored on its own,
\* and that of the field it is reached through otherwise.
Through1(pkt, f) == IF f \in DOMAIN pkt.by THEN f ELSE Outer(P, f)

Holds(pkt, f) ==
  LET o == Through1(pkt, f) IN IF o \in DOMAIN pkt.to THEN pkt.to[o] ELSE "value"

\* The resource a read of f follows a pointer into.
Follows(pkt, f) == {Holds(pkt, f)} \cap Resources

\* Fields are assigned at instance i: a pointer leads where this way out makes
\* it lead, or where it leads in this program.
Assign(pkt, sets, nulls, leads, i) ==
  LET new  == sets \cup nulls
      kept == {f \in DOMAIN pkt.by : f \notin new /\ Outer(P, f) \notin new}
      target == leads @@ P.state.points
  IN  [by |-> [f \in kept \cup new |-> IF f \in new THEN i ELSE pkt.by[f]],
       to |-> [f \in nulls \cup (sets \cap DOMAIN target) \cup (kept \cap DOMAIN pkt.to) |->
                 IF f \in nulls THEN "null" ELSE IF f \in sets THEN target[f] ELSE pkt.to[f]]]

\* The part of a state that is in the given fields, and a state into which it
\* is put back.
Part(pkt, fields) ==
  [by |-> [f \in fields \cap DOMAIN pkt.by |-> pkt.by[f]],
   to |-> [f \in fields \cap DOMAIN pkt.to |-> pkt.to[f]]]

PutBack(pkt, part) ==
  LET kept == DOMAIN pkt.by \ DOMAIN part.by
  IN  [by |-> [f \in kept \cup DOMAIN part.by |->
                 IF f \in kept THEN pkt.by[f] ELSE part.by[f]],
       to |-> [f \in (kept \cap DOMAIN pkt.to) \cup DOMAIN part.to |->
                 IF f \in DOMAIN part.to THEN part.to[f] ELSE pkt.to[f]]]

\* What an entry carries to the dequeue and what it restores there.  What a
\* pointer with a size leads to is copied behind the entry, be it nothing.
Carried(pkt, q, c) ==
  LET copied   == P.state.copied
      WrittenAs(f) == IF f \in DOMAIN copied /\ Holds(pkt, copied[f]) = "null"
                    THEN Through1(pkt, copied[f]) ELSE Through1(pkt, f)
      known    == {f \in code.entry[q][c] : WrittenAs(f) \in DOMAIN pkt.by}
      restored == {f \in known : f \in DOMAIN pkt.to \cup DOMAIN copied}
  IN  [by |-> [f \in known |-> pkt.by[WrittenAs(f)]],
       to |-> [f \in restored |->
                 CASE f \in DOMAIN pkt.to /\ pkt.to[f] = "null" -> "null"
                   [] f \in DOMAIN copied -> "own"
                   [] pkt.to[f] = "own" -> "entry"
                   [] OTHER -> pkt.to[f]]]

-----------------------------------------------------------------------------
Init ==
  /\ \E n \in Names : LET compiled == Compile(Programs[n]) IN
       Accepted(compiled) /\ prog = n /\ code = compiled
  /\ kind \in DOMAIN P.starts
  /\ started = FALSE
  /\ flows = <<>> /\ slots = <<>> /\ used = <<>>
  /\ held = [r \in Resources |-> 0]
  /\ answers = 0
  /\ lost = FALSE
  /\ wiped = {}

Call(i, buffer, args) == [at |-> i, hand |-> buffer, args |-> args]
Flow(pkt, i, entry) == [pkt |-> pkt, todo |-> <<Call(i, "none", Fresh)>>, entry |-> entry]

\* A segment's thread comes to the element where the packet's state is made.
Start ==
  /\ ~started
  /\ started' = TRUE
  /\ flows' = <<Flow(Fresh, P.starts[kind], <<>>)>>
  /\ UNCHANGED <<prog, code, kind, slots, used, held, answers, lost, wiped>>

Top(k)  == Head(flows[k].todo)
Busy    == {k \in DOMAIN flows : flows[k].todo # <<>>}

\* The calls a way out makes: those of its ports, and after them those run_order
\* asks for.
Calls(i, ports, buffer, args) ==
  LET called == Called(code, i, ports)
      after  == After(code, i)
  IN  [n \in DOMAIN called |->
         Call(called[n], IF code.ele[called[n]].takes THEN buffer ELSE "none", args)]
      \o [n \in DOMAIN after |-> Call(after[n], "none", Fresh)]

\* The ways out that the request and its state leave open.
Open(k) ==
  LET ports == code.ele[Top(k).at].ports
  IN  {port \in DOMAIN ports :
         /\ kind \in ports[port].kinds
         /\ \A f \in DOMAIN ports[port].when : Holds(flows[k].pkt, f) \in ports[port].when[f]}

\* What an element gives back: the buffer in hand, one by name, or what a field
\* points to.
Given(k, e) ==
  {Top(k).hand : x \in e.frees \cap {"hand"}}
  \cup (e.frees \cap Resources)
  \cup UNION {Follows(flows[k].pkt, f) : f \in e.frees \ (Resources \cup {"hand"})}

\* Mutant: an argument that is passed through is not.
MutPassed(k, r) == r.hand

\* The buffer a way out passes on.
Passed(k, r) ==
  CASE r.hand = "same" -> Top(k).hand
    [] r.hand \in DOMAIN flows[k].pkt.to -> flows[k].pkt.to[r.hand]
    [] OTHER -> r.hand

\* Where the pointers assigned on a way out lead.
Aims(k, r) ==
  [f \in DOMAIN r.leads |-> IF r.leads[f] = "hand" THEN Top(k).hand ELSE r.leads[f]]

\* An element runs: it reads and assigns fields, gives back and acquires what
\* it does, and calls the elements wired to the ports it fires.
Run(k) ==
  LET i   == Top(k).at
      e   == code.ele[i]
      pkt == flows[k].pkt
  IN  /\ code.enq[i] = {}
      /\ \E port \in Open(k) :
           LET r      == e.ports[port]
               buffer == Passed(k, r)
               next   == Assign(pkt, e.sets \cup r.sets, r.nulls, Aims(k, r), i)
           IN  /\ flows' = [flows EXCEPT
                     ![k].todo = Calls(i, Fired(r, port), buffer, Part(pkt, e.saves)) \o Tail(@),
                     ![k].pkt  = IF e.restores THEN PutBack(next, Top(k).args) ELSE next]
               /\ held' = [x \in Resources |->
                             held[x] + (IF x \in r.opens THEN 1 ELSE 0)
                             - (IF x \in Given(k, e) /\ held[x] > 0 THEN 1 ELSE 0)]
               /\ answers' = IF e.sends THEN answers + 1 ELSE answers
               /\ lost' = (lost \/ r.lost)
               /\ wiped' = IF e.wipes THEN wiped \cup {Top(k).hand} ELSE wiped
      /\ UNCHANGED <<prog, code, kind, started, slots, used>>

\* An enqueue: the entry gets the live fields, then the done port is called.
\* One that does not wait may find the queue full and drop the entry.
Enqueue(k) ==
  \E ch \in code.enq[Top(k).at] :
    LET q == P.queues[ch[1]]
        entry == [q |-> ch[1], c |-> ch[2], pkt |-> Carried(flows[k].pkt, ch[1], ch[2])]
    IN  /\ \/ slots' = Append(slots, entry) /\ UNCHANGED lost
           \/ ~q.blocking[ch[2]] /\ UNCHANGED slots /\ lost' = TRUE
        /\ flows' = [flows EXCEPT ![k].todo = <<Call(q.done, "none", Fresh)>> \o Tail(@)]
        /\ UNCHANGED <<prog, code, kind, started, used, held, answers, wiped>>

\* The polling segment takes the oldest entry of a queue.
Dequeue(s) ==
  LET entry == slots[s]
      q     == P.queues[entry.q]
  IN  /\ \A t \in 1 .. s - 1 : slots[t].q # entry.q
      /\ slots' = RemoveAt(slots, s)
      /\ flows' = Append(flows,
                    Flow(IF code.qid[entry.q][entry.c]
                         THEN Assign(entry.pkt, {"qid"}, {}, <<>>, q.enq[entry.c])
                         ELSE entry.pkt,
                         q.deq[entry.c], <<entry>>))
      /\ UNCHANGED <<prog, code, kind, started, used, held, answers, lost, wiped>>

\* Mutant: nothing is kept for the scan.
MutNotScanned(k) ==
  /\ flows[k].todo = <<>>
  /\ flows' = RemoveAt(flows, k)
  /\ UNCHANGED <<prog, code, kind, started, slots, used, held, answers, lost, wiped>>

\* All calls have returned: the entry is released.
Return(k) ==
  LET entry == flows[k].entry
  IN  /\ flows[k].todo = <<>>
      /\ flows' = RemoveAt(flows, k)
      /\ used' = IF entry # <<>> /\ P.queues[entry[1].q].scan # <<>>
                 THEN used \o entry ELSE used
      /\ UNCHANGED <<prog, code, kind, started, slots, held, answers, lost, wiped>>

\* The enqueuer comes round to the entry and cleans up after it.
Scan ==
  /\ used # <<>>
  /\ used' = Tail(used)
  /\ flows' = Append(flows, Flow(Head(used).pkt, P.queues[Head(used).q].scan[Head(used).c], <<>>))
  /\ UNCHANGED <<prog, code, kind, started, slots, held, answers, lost, wiped>>

Idle == started /\ flows = <<>> /\ slots = <<>> /\ used = <<>>

Next ==
  \/ Start
  \/ \E k \in Busy : Run(k) \/ Enqueue(k)
  \/ \E s \in DOMAIN slots : Dequeue(s)
  \/ \E k \in DOMAIN flows : Return(k)
  \/ Scan

Spec == Init /\ [][Next]_vars

TypeOK ==
  /\ prog \in Names
  /\ kind \in DOMAIN P.starts
  /\ held \in [Resources -> 0 .. 3]
  /\ \A k \in DOMAIN flows : \A t \in ToSet(flows[k].todo) :
       t.at \in DOMAIN code.ele /\ t.hand \in Resources \cup {"none"}
  /\ \A k \in Busy : code.enq[Top(k).at] = {} => Open(k) # {}

-----------------------------------------------------------------------------
\* The fields the element about to run reads: all its code mentions, and for
\* an enqueue those it copies, with the sizes of what they point to: of a
\* pointer whose size is zero nothing is copied.
Copies(k) ==
  LET fields == UNION {code.entry[ch[1]][ch[2]] \cup {"qid"} : ch \in code.enq[Top(k).at]}
      sized  == fields \cap DOMAIN P.state.copied
      sizes  == {P.state.copied[f] : f \in sized} \ {"sizeof"}
      empty  == {f \in sized : Holds(flows[k].pkt, P.state.copied[f]) = "null"}
  IN  (fields \ empty) \cup sizes

Accesses(k) ==
  LET e == code.ele[Top(k).at]
  IN  e.uses \cup e.late \cup Copies(k)

\* The resources its accesses lead into.
Visits(k) == UNION {Follows(flows[k].pkt, f) : f \in Accesses(k) \ code.ele[Top(k).at].tests}

\* No element reads a field of the per-packet state that nothing has written
\* for this packet: what the compiler leaves out of an entry, and what an
\* element assigns on some paths only, nobody behind it needs.
FieldsAreWritten ==
  \A k \in Busy : \A f \in Accesses(k) : Through1(flows[k].pkt, f) \in DOMAIN flows[k].pkt.by

\* An element that follows a pointer or is handed a buffer finds it still
\* held: not freed by another branch, by the done port of a queue or by the
\* thread on the other side of it.
NothingIsDangling ==
  \A k \in Busy :
    /\ Top(k).hand # "none" => held[Top(k).hand] > 0
    /\ \A r \in Visits(k) : held[r] > 0

\* What is read of the request is the request: the buffer it came in has not
\* been filled with the answer before.
RequestIsIntact ==
  \A k \in Busy : \A f \in Accesses(k) :
    f \in DOMAIN P.state.within => Follows(flows[k].pkt, f) \cap wiped = {}

\* When everything has returned the packet buffers have been sent or freed
\* and every reference to an item has been dropped.
AllIsGivenBack == Idle => \A r \in Resources : held[r] = 0

\* A request gets the answers the program has for it, one as a rule, unless a buffer
\* or room in a queue was missing, and nothing else is answered.
IsAnswered ==
  LET due == IF kind \in DOMAIN P.answered THEN P.answered[kind] ELSE 0
  IN  answers <= due /\ (Idle /\ ~lost => answers = due)

\* A field an element reads was last written above it: a branch that runs
\* earlier in the same flow does not leave its value behind for this one.
NoBranchInterferes ==
  \A k \in Busy : \A f \in Accesses(k) :
    LET o == Through1(flows[k].pkt, f)
    IN  o \in DOMAIN flows[k].pkt.by => Top(k).at \in code.below[flows[k].pkt.by[o]]
=============================================================================
