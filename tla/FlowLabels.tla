----------------------------- MODULE FlowLabels -----------------------------
(***************************************************************************)
(* What the graph of a compiled program says about its runs.  A labelling  *)
(* of its instances stands for every path at once: the fields that must    *)
(* have been written when an instance is called (the compiler's liveness,  *)
(* with the reads it does not see and what an entry takes), the instances  *)
(* that may have written them, and the answers sent by an instance and all *)
(* it leads to, across the queues.                                         *)
(* Each condition relates an instance to those it calls and to no path, so *)
(* it can be checked on the graph; FlowProofs shows what follows for runs. *)
(* c is a compiled program, kd what a run of it is about.                  *)
(***************************************************************************)
EXTENDS FlowCompiler

\* The sum of a sequence of numbers.
Total(w) ==
  LET upto[n \in 0 .. Len(w)] == IF n = 0 THEN 0 ELSE upto[n - 1] + w[n]
  IN  upto[Len(w)]

\* The ways out of an instance for what the run is about, and what it calls on
\* one of them.
Ways(c, kd, i) == {port \in DOMAIN c.ele[i].ports : kd \in c.ele[i].ports[port].kinds}

CalledOn(c, i, port) == Called(c, i, Fired(c.ele[i].ports[port], port))

\* The fields an instance assigns on a way out.
Written(c, i, port) ==
  c.ele[i].sets \cup c.ele[i].ports[port].sets \cup c.ele[i].ports[port].nulls

Scanned(c, q) == c.source.queues[q].scan # <<>>

\* Every call leads to an instance, and a field that others are within is in none.
IsClosed(c, kd) ==
  /\ c.source.starts[kd] \in DOMAIN c.ele
  /\ \A f \in DOMAIN c.source.state.within :
       Outer(c.source, Outer(c.source, f)) = Outer(c.source, f)
  /\ \A i \in DOMAIN c.ele :
       /\ After(c, i) \in Seq(DOMAIN c.ele)
       /\ \A port \in Ways(c, kd, i) : CalledOn(c, i, port) \in Seq(DOMAIN c.ele)
       /\ \A ch \in c.enq[i] :
            LET q == c.source.queues[ch[1]]
            IN  /\ {q.done, q.deq[ch[2]]} \subseteq DOMAIN c.ele
                /\ Scanned(c, ch[1]) => q.scan[ch[2]] \in DOMAIN c.ele

-----------------------------------------------------------------------------
(* Fields.  Where a field of f's label is missing, one it is within will do. *)

Covers(c, fields, f) == f \in fields \/ Outer(c.source, f) \in fields

SizesOf(c, fields) ==
  {c.source.state.copied[f] : f \in fields \cap DOMAIN c.source.state.copied} \ {"sizeof"}

\* need labels every instance with the fields that have to be written before it
\* is called: its own, and those of what it calls that it does not write.  An
\* enqueue needs what it copies and what the done port needs, and what it copies
\* covers the needs behind the queue.
CarriesNeeds(c, need, i, ch) ==
  LET q     == c.source.queues[ch[1]]
      entry == c.entry[ch[1]][ch[2]]
      back  == IF c.qid[ch[1]][ch[2]] THEN entry \cup {"qid"} ELSE entry
  IN  /\ entry \cup {"qid"} \cup SizesOf(c, entry \cup {"qid"}) \cup need[q.done] \subseteq need[i]
      /\ \A f \in need[q.deq[ch[2]]] : Covers(c, back, f)
      /\ Scanned(c, ch[1]) => \A f \in need[q.scan[ch[2]]] : Covers(c, entry, f)

MeetsNeeds(c, need, i, port) ==
  \A j \in Range(CalledOn(c, i, port)) \cup Range(After(c, i)) :
    \A f \in need[j] : f \in need[i] \/ Covers(c, Written(c, i, port), f)

SuppliesNeeds(c, kd, need) ==
  /\ need[c.source.starts[kd]] = {}
  /\ \A i \in DOMAIN c.ele :
       /\ c.ele[i].uses \cup c.ele[i].late \subseteq need[i]
       /\ c.enq[i] = {} => \A port \in Ways(c, kd, i) : MeetsNeeds(c, need, i, port)
       /\ \A ch \in c.enq[i] : CarriesNeeds(c, need, i, ch)

-----------------------------------------------------------------------------
(* Writers.  A write is a field with the instance that has written it.       *)

ReadAt(c, i) ==
  LET copies == UNION {c.entry[ch[1]][ch[2]] \cup {"qid"} : ch \in c.enq[i]}
  IN  c.ele[i].uses \cup c.ele[i].late \cup copies \cup SizesOf(c, copies)

\* The writes there are when i has written the fields new, and those it adds.
Rewritten(c, writes, new, i) ==
  {w \in writes : w[1] \notin new /\ Outer(c.source, w[1]) \notin new} \cup (new \X {i})

Restored(c, kept, i) == IF c.ele[i].restores THEN kept ELSE {}

\* The fields an entry may have the value of f from, and the writes of an entry and
\* of the state that is made of it.
Sources(c, f) ==
  LET copied == c.source.state.copied
      from   == {f} \cup {copied[g] : g \in {f} \cap DOMAIN copied}
  IN  from \cup {Outer(c.source, g) : g \in from}

EntryWrites(c, writes, ch) ==
  UNION {{<<f, w[2]>> : w \in {v \in writes : v[1] \in Sources(c, f)}} :
           f \in c.entry[ch[1]][ch[2]]}

TakenWrites(c, writes, ch) ==
  IF c.qid[ch[1]][ch[2]]
  THEN Rewritten(c, writes, {"qid"}, c.source.queues[ch[1]].enq[ch[2]]) ELSE writes

\* seen labels every instance with the writes it may find when it is called, left
\* with those that it and what it calls may add, and kept are those that may be
\* passed on as arguments.  A call finds what its caller leaves behind and what
\* the calls before it have added.
OrdersRun(c, seen, left, kept, i, port) ==
  LET new   == Written(c, i, port)
      calls == CalledOn(c, i, port) \o After(c, i)
  IN  /\ (new \X {i}) \cup Restored(c, kept, i) \subseteq left[i]
      /\ \A n \in 1 .. Len(calls) :
           /\ Rewritten(c, seen[i], new, i) \cup Restored(c, kept, i) \subseteq seen[calls[n]]
           /\ \A m \in 1 .. n - 1 : left[calls[m]] \subseteq seen[calls[n]]
           /\ left[calls[n]] \subseteq left[i]

OrdersEntry(c, seen, left, i, ch) ==
  LET q     == c.source.queues[ch[1]]
      entry == EntryWrites(c, seen[i], ch)
  IN  /\ seen[i] \subseteq seen[q.done] /\ left[q.done] \subseteq left[i]
      /\ TakenWrites(c, entry, ch) \subseteq seen[q.deq[ch[2]]]
      /\ Scanned(c, ch[1]) => entry \subseteq seen[q.scan[ch[2]]]

OrdersWrites(c, kd, seen, left, kept) ==
  \A i \in DOMAIN c.ele :
    /\ \A f \in ReadAt(c, i) : \A w \in seen[i] :
         w[1] \in {f, Outer(c.source, f)} => i \in c.below[w[2]]
    /\ {w \in seen[i] : w[1] \in c.ele[i].saves} \subseteq kept
    /\ c.enq[i] = {} => \A port \in Ways(c, kd, i) : OrdersRun(c, seen, left, kept, i, port)
    /\ \A ch \in c.enq[i] : OrdersEntry(c, seen, left, i, ch)

-----------------------------------------------------------------------------
(* Answers.                                                                 *)

Due(c, kd) == IF kd \in DOMAIN c.source.answered THEN c.source.answered[kd] ELSE 0

SentAt(c, i) == IF c.ele[i].sends THEN 1 ELSE 0

SumOf(owes, s) == Total([n \in DOMAIN s |-> owes[s[n]]])

ScanOwes(c, owes, ch) ==
  IF Scanned(c, ch[1]) THEN owes[c.source.queues[ch[1]].scan[ch[2]]] ELSE 0

\* owes labels every instance with the answers that it and what it leads to
\* send: the same number on every way out, but for those that give up for want
\* of a buffer.
OwesOn(c, owes, i, port) ==
  SentAt(c, i) + SumOf(owes, CalledOn(c, i, port)) + SumOf(owes, After(c, i))

CountsAnswers(c, kd, owes) ==
  /\ owes \in [DOMAIN c.ele -> Nat]
  /\ owes[c.source.starts[kd]] = Due(c, kd)
  /\ \A i \in DOMAIN c.ele :
       /\ c.enq[i] = {} => \A port \in Ways(c, kd, i) :
            /\ OwesOn(c, owes, i, port) <= owes[i]
            /\ c.ele[i].ports[port].lost \/ OwesOn(c, owes, i, port) = owes[i]
       /\ \A ch \in c.enq[i] :
            LET q == c.source.queues[ch[1]]
            IN  owes[i] = owes[q.done] + owes[q.deq[ch[2]]] + ScanOwes(c, owes, ch)

-----------------------------------------------------------------------------
(* The least labels, for programs whose calls go round in no circle.       *)

Needs(c, kd) ==
  LET need[i \in DOMAIN c.ele] ==
        LET missing(port) ==
              LET callees == Range(CalledOn(c, i, port)) \cup Range(After(c, i))
              IN  {f \in UNION {need[j] : j \in callees} : ~Covers(c, Written(c, i, port), f)}
            kept(ch) ==
              LET entry == c.entry[ch[1]][ch[2]] \cup {"qid"}
              IN  entry \cup SizesOf(c, entry) \cup need[c.source.queues[ch[1]].done]
        IN  c.ele[i].uses \cup c.ele[i].late
            \cup (IF c.enq[i] = {} THEN UNION {missing(port) : port \in Ways(c, kd, i)}
                  ELSE UNION {kept(ch) : ch \in c.enq[i]})
  IN  need

\* left and seen, of programs that pass no fields on as arguments.
Additions(c, kd) ==
  LET left[i \in DOMAIN c.ele] ==
        LET added(port) ==
              (Written(c, i, port) \X {i})
              \cup UNION {left[j] : j \in Range(CalledOn(c, i, port)) \cup Range(After(c, i))}
        IN  IF c.enq[i] = {} THEN UNION {added(port) : port \in Ways(c, kd, i)}
            ELSE UNION {left[c.source.queues[ch[1]].done] : ch \in c.enq[i]}
  IN  left

Findings(c, kd, left) ==
  LET ways   == UNION {{i} \X Ways(c, kd, i) : i \in {j \in DOMAIN c.ele : c.enq[j] = {}}}
      calls  == Table([w \in ways |-> CalledOn(c, w[1], w[2]) \o After(c, w[1])])
      queued == UNION {{i} \X c.enq[i] : i \in DOMAIN c.ele}
      seen[i \in DOMAIN c.ele] ==
        LET called(w) ==
              LET places == {n \in DOMAIN calls[w] : calls[w][n] = i}
              IN  Rewritten(c, seen[w[1]], Written(c, w[1], w[2]), w[1])
                  \cup UNION {left[calls[w][m]] : m \in UNION {1 .. n - 1 : n \in places}}
            through(j, ch) ==
              LET q     == c.source.queues[ch[1]]
                  entry == EntryWrites(c, seen[j], ch)
              IN  (IF q.done = i THEN seen[j] ELSE {})
                  \cup (IF q.deq[ch[2]] = i THEN TakenWrites(c, entry, ch) ELSE {})
                  \cup (IF Scanned(c, ch[1]) THEN IF q.scan[ch[2]] = i THEN entry ELSE {} ELSE {})
        IN  UNION {called(w) : w \in {w \in ways : i \in Range(calls[w])}}
            \cup UNION {through(x[1], x[2]) : x \in queued}
  IN  seen

Answers(c, kd) ==
  LET owes[i \in DOMAIN c.ele] ==
        IF c.enq[i] = {}
        THEN LET callees == UNION {Range(CalledOn(c, i, port)) : port \in Ways(c, kd, i)}
                 owing == Table([j \in callees \cup Range(After(c, i)) |-> owes[j]])
                 sums  == {OwesOn(c, owing, i, port) : port \in Ways(c, kd, i)}
             IN  IF sums = {} THEN 0 ELSE Max(sums)
        ELSE LET ch == CHOOSE ch \in c.enq[i] : TRUE
                 q  == c.source.queues[ch[1]]
             IN  owes[q.done] + owes[q.deq[ch[2]]] + ScanOwes(c, owes, ch)
  IN  owes
=============================================================================
