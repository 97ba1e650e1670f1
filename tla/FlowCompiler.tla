---------------------------- MODULE FlowCompiler ----------------------------
(***************************************************************************)
(* What the compiler makes of a program: the order in which a port calls   *)
(* the elements wired to it, the per-packet fields that are live at each   *)
(* element, and from these the fields a smart queue copies into its        *)
(* entries and the fields the element behind it finds restored             *)
(* (desugaring.py, pipeline_state.py, smart_queue_compile.py).             *)
(***************************************************************************)
EXTENDS Elements, SequencesExt

CONSTANT Programs \* the name of a program |-> the program (module Elements)

Names == DOMAIN Programs

-----------------------------------------------------------------------------
(* The graph.  A chain <<a, port, b, c, ...>> wires a's port to b and, from *)
(* there on, the port out of each element to the next.                     *)

Hops(chain) ==
  [k \in 1 .. Len(chain) - 2 |->
     [from |-> IF k = 1 THEN chain[1] ELSE chain[k + 1],
      port |-> IF k = 1 THEN chain[2] ELSE "out",
      to   |-> chain[k + 2]]]

Wires(p) == FlattenSeq([k \in 1 .. Len(p.chains) |-> Hops(p.chains[k])])

Instances(p) == UNION {{w.from, w.to} : w \in ToSet(Wires(p))}

\* Mutant: a connection replaces the one before it.
MutLastOnly(wires, i, port) ==
  LET mine == SelectSeq(wires, LAMBDA w : w.from = i /\ w.port = port)
  IN  [k \in 1 .. 1 |-> Last(mine).to]

\* Mutant: the last one connected is called first.
MutLastFirst(wires, i, port) ==
  LET mine == SelectSeq(wires, LAMBDA w : w.from = i /\ w.port = port)
  IN  [k \in 1 .. Len(mine) |-> mine[Len(mine) + 1 - k].to]

\* Several connections of one port are made into a fork that calls them in
\* the order in which they were connected.
Targets(wires, i, port) ==
  LET mine == SelectSeq(wires, LAMBDA w : w.from = i /\ w.port = port)
  IN  [k \in 1 .. Len(mine) |-> mine[k].to]

\* The element an instance is of: its own name unless the program says
\* otherwise.  Nodes of queues are no elements.
QueueNodes(p) ==
  UNION {UNION {ToSet(q.enq), ToSet(q.deq), ToSet(q.scan), {q.done}} : q \in Range(p.queues)}

ElementOf(p, i) ==
  CASE i \in QueueNodes(p) -> Through({}, {})
    [] i \in DOMAIN p.of   -> p.elements[p.of[i]]
    [] OTHER               -> p.elements[i]

-----------------------------------------------------------------------------
(* Fields.  A field within another (pkt->mcr.request.keylen within pkt) is *)
(* reached through it.                                                     *)

Outer(p, f) == IF f \in DOMAIN p.state.within THEN p.state.within[f] ELSE f

\* collect_defs_uses: a field assigned anywhere in the code counts as a
\* definition, one read in the output block does not count as a use.
Defs(e) == e.sets \cup UNION {r.sets \cup r.nulls : r \in Range(e.ports)}
Uses(e) == e.uses

\* kill_live: a definition kills the field and the fields within it.
KillLive(p, live, defs) == {f \in live : f \notin defs /\ Outer(p, f) \notin defs}

\* Mutant: a field within another is never copied.
MutFilterLive(p, live) == {f \in live : f \notin DOMAIN p.state.within}

\* filter_live: a field within a field that is copied anyway is dropped.
FilterLive(p, live) == {f \in live : f \in DOMAIN p.state.within => Outer(p, f) \notin live}

-----------------------------------------------------------------------------
(* The analysis.                                                           *)

\* Where an instance leads: through its ports, and through a queue to the
\* dequeue side.  What follows the done port only counts as used.
EnqueueOf(p, i) == {ch \in (DOMAIN p.queues) \X (1 .. 4) :
                      LET enq == p.queues[ch[1]].enq
                      IN  ch[2] \in DOMAIN enq /\ enq[ch[2]] = i}

\* analyze_fields_liveness
LiveAt(p, wires) ==
  LET live[i \in Instances(p)] ==
        IF EnqueueOf(p, i) # {}
        THEN {"qid"} \cup UNION {live[p.queues[e[1]].deq[e[2]]] : e \in EnqueueOf(p, i)}
        ELSE KillLive(p, UNION {live[w.to] : w \in {v \in ToSet(wires) : v.from = i}},
                      Defs(ElementOf(p, i)))
             \cup Uses(ElementOf(p, i))
  IN  live

\* Everything an instance or what it leads to mentions.
MentionedFrom(p, wires) ==
  LET all[i \in Instances(p)] ==
        UNION {all[w.to] : w \in {v \in ToSet(wires) : v.from = i}}
        \cup Defs(ElementOf(p, i)) \cup Uses(ElementOf(p, i))
        \cup (IF EnqueueOf(p, i) # {}
              THEN {"qid"} \cup UNION {all[p.queues[e[1]].deq[e[2]]] : e \in EnqueueOf(p, i)}
              ELSE {})
  IN  all

\* The instances that may legitimately read what is written at an instance:
\* those below it, across the queues too.
Below(p, wires) ==
  LET below[i \in Instances(p)] ==
        LET next == {w.to : w \in {v \in ToSet(wires) : v.from = i}}
                    \cup UNION {LET q == p.queues[e[1]]
                                IN  {q.deq[e[2]], q.done}
                                    \cup {q.scan[c] : c \in DOMAIN q.scan \cap {e[2]}} :
                                  e \in EnqueueOf(p, i)}
        IN  next \cup UNION {below[j] : j \in next \cap Instances(p)}
  IN  below

\* compile_smart_queue: what the entries of a channel hold, and what the
\* dequeue restores: the entry's fields, and the queue instance as qid if an
\* element behind it mentions it.  A scan gets the entry's fields only.
EntryFields(p, live, q, c) == FilterLive(p, live[p.queues[q].deq[c]]) \ {"qid"}

\* A function as a table that TLC computes once.
Table(f) == f @@ <<>>

Compile(p) ==
  LET wires == Wires(p)
      live  == LiveAt(p, wires)
      all   == MentionedFrom(p, wires)
      nodes == Instances(p) \cup QueueNodes(p)
  IN  [source |-> p,
       next  |-> Table([i \in Instances(p) |->
                   Table([port \in {w.port : w \in {v \in ToSet(wires) : v.from = i}} |->
                            Targets(wires, i, port)])]),
       ele   |-> Table([i \in nodes |-> ElementOf(p, i)]),
       enq   |-> Table([i \in nodes |-> EnqueueOf(p, i)]),
       live  |-> Table(live),
       below |-> Table(Below(p, wires)),
       entry |-> Table([q \in DOMAIN p.queues |->
                   [c \in DOMAIN p.queues[q].deq |-> EntryFields(p, live, q, c)]]),
       qid   |-> Table([q \in DOMAIN p.queues |->
                   [c \in DOMAIN p.queues[q].deq |-> "qid" \in all[p.queues[q].deq[c]]]])]

\* The instances called through a port, those called when an element fires the
\* ports of a way out in turn, and those run_order asks for after them.
Wired(compiled, i, port) ==
  IF i \in DOMAIN compiled.next /\ port \in DOMAIN compiled.next[i]
  THEN compiled.next[i][port] ELSE <<>>

Fired(r, port) == IF r.fires = <<>> THEN <<port>> ELSE r.fires

Called(compiled, i, ports) == FlattenSeq([n \in DOMAIN ports |-> Wired(compiled, i, ports[n])])

After(compiled, i) == Wired(compiled, i, "_out")

\* analyze_pipeline_states: a program is refused when a field is live where
\* a packet's state is made.
Accepted(compiled) ==
  LET p == compiled.source
  IN  \A i \in Instances(p) :
        i \notin QueueNodes(p) /\ (\A w \in ToSet(Wires(p)) : w.to # i)
          => compiled.live[i] = {}
=============================================================================
