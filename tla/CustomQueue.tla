----------------------------- MODULE CustomQueue -----------------------------
(***************************************************************************)
(* The queue of fixed-size entries that queue_custom generates (queue.py), *)
(* as it runs on the CPU.  There is no lock: the atomic variants work with *)
(* compare-and-swap on the offset of their side and on the status byte of  *)
(* an entry.  Each side is generated in one of four variants:              *)
(*                                                                         *)
(*   try, one thread     look at the status, then move the offset          *)
(*   try, atomic         CAS the status, then CAS the offset or undo       *)
(*   wait, one thread    spin on a CAS of the status, then move the offset *)
(*   wait, atomic        CAS the offset forward, then spin on the status   *)
(***************************************************************************)
EXTENDS Integers, FiniteSets

CONSTANTS N,                        \* entries
          Enqueuers, Dequeuers,     \* threads
          Modes,                    \* variants, and the threads that run
          MaxItems,                 \* names for entries (bound)
          NULL

Slots == 0 .. N - 1
Items == 1 .. MaxItems

\* FLAG_OWN, FLAG_INUSE
OWN   == 1
INUSE == 4
TAKEN == 5

ASSUME CustomSize == N \in Nat \ {0} /\ MaxItems \in Nat \ (0 .. N)
\* The variants without CAS are for one thread.
ASSUME CustomModes ==
  /\ Modes \subseteq [enq_blocking : BOOLEAN, enq_atomic : BOOLEAN,
                      deq_blocking : BOOLEAN, deq_atomic : BOOLEAN,
                      enqueuers : SUBSET Enqueuers, dequeuers : SUBSET Dequeuers]
  /\ \A m \in Modes : /\ m.enq_atomic \/ \A e, f \in m.enqueuers : e = f
                      /\ m.deq_atomic \/ \A d, c \in m.dequeuers : d = c
ASSUME CustomNull == NULL \notin Slots /\ NULL \notin Items

VARIABLES mode,              \* fixed when the queue is created
          status, data,      \* q->data
          enqOff, deqOff,    \* p->offset of the two sides
          epc, eold,         \* enqueuers: place and local `old'
          dpc, dold          \* dequeuers: place and local `old' (or x)

vars == <<mode, status, data, enqOff, deqOff, epc, eold, dpc, dold>>

EnqBlocking == mode.enq_blocking
EnqAtomic   == mode.enq_atomic
DeqBlocking == mode.deq_blocking
DeqAtomic   == mode.deq_atomic

Init ==
  /\ mode \in Modes
  /\ status = [s \in Slots |-> 0]
  /\ data = [s \in Slots |-> NULL]
  /\ enqOff = 0 /\ deqOff = 0
  /\ epc = [e \in Enqueuers |-> "idle"] /\ eold = [e \in Enqueuers |-> NULL]
  /\ dpc = [d \in Dequeuers |-> "idle"] /\ dold = [d \in Dequeuers |-> NULL]

Succ(o) == (o + 1) % N

GoE(e, from, to) == epc[e] = from /\ epc' = [epc EXCEPT ![e] = to]
GoD(d, from, to) == dpc[d] = from /\ dpc' = [dpc EXCEPT ![d] = to]

-----------------------------------------------------------------------------
(* Enqueue.                                                                *)

\* The entry x comes in; old = p->offset.  Waiting atomically, the loop that
\* moves the offset on ends in one successful CAS.
EnqRead(e) ==
  /\ GoE(e, "idle", IF EnqBlocking THEN "wait" ELSE "try")
  /\ eold' = [eold EXCEPT ![e] = enqOff]
  /\ enqOff' = IF EnqBlocking /\ EnqAtomic THEN Succ(enqOff) ELSE enqOff
  /\ UNCHANGED <<status, data, deqOff, dpc, dold>>

\* wait_then_copy: status is 0 and CAS(status, 0, INUSE) succeeds.
EnqWait(e) ==
  /\ GoE(e, "wait", "copy")
  /\ status[eold[e]] = 0
  /\ status' = [status EXCEPT ![eold[e]] = INUSE]
  /\ UNCHANGED <<data, enqOff, deqOff, eold, dpc, dold>>

\* One thread: if(status == 0), and nobody is told.
EnqTest(e) ==
  /\ GoE(e, "try", "copy")
  /\ ~EnqAtomic
  /\ status[eold[e]] = 0
  /\ UNCHANGED <<status, data, enqOff, deqOff, eold, dpc, dold>>

\* Mutant: the CAS takes any entry that no enqueuer has marked.
MutMarkOwned(e) ==
  /\ GoE(e, "try", "move")
  /\ EnqAtomic
  /\ status[eold[e]] # INUSE
  /\ status' = [status EXCEPT ![eold[e]] = INUSE]
  /\ UNCHANGED <<data, enqOff, deqOff, eold, dpc, dold>>

\* Atomic: CAS(status, 0, INUSE) ...
EnqMark(e) ==
  /\ GoE(e, "try", "move")
  /\ EnqAtomic
  /\ status[eold[e]] = 0
  /\ status' = [status EXCEPT ![eold[e]] = INUSE]
  /\ UNCHANGED <<data, enqOff, deqOff, eold, dpc, dold>>

\* The slot is not free: the entry is dropped.
EnqDrop(e) ==
  /\ GoE(e, "try", "idle")
  /\ status[eold[e]] # 0
  /\ eold' = [eold EXCEPT ![e] = NULL]
  /\ UNCHANGED <<status, data, enqOff, deqOff, dpc, dold>>

\* ... then CAS(offset, old, old + 1) ...
EnqMove(e) ==
  /\ GoE(e, "move", "copy")
  /\ enqOff = eold[e]
  /\ enqOff' = Succ(enqOff)
  /\ UNCHANGED <<status, data, deqOff, eold, dpc, dold>>

\* ... or, when another thread has moved the offset, status = 0 and drop.
EnqUndo(e) ==
  /\ GoE(e, "move", "idle")
  /\ enqOff # eold[e]
  /\ status' = [status EXCEPT ![eold[e]] = 0]
  /\ eold' = [eold EXCEPT ![e] = NULL]
  /\ UNCHANGED <<data, enqOff, deqOff, dpc, dold>>

\* memcpy of the entry, named here with a name that no slot holds
Copy(e) ==
  /\ GoE(e, "copy", "own")
  /\ \E i \in Items : /\ \A s \in Slots : data[s] # i
                      /\ data' = [data EXCEPT ![eold[e]] = i]
  /\ UNCHANGED <<status, enqOff, deqOff, eold, dpc, dold>>

\* content->status = FLAG_OWN
Own(e) ==
  /\ GoE(e, "own", "end")
  /\ status' = [status EXCEPT ![eold[e]] = OWN]
  /\ UNCHANGED <<data, enqOff, deqOff, eold, dpc, dold>>

\* The checksum, which no CPU reads; without CAS the offset moves only here.
EnqEnd(e) ==
  /\ GoE(e, "end", "idle")
  /\ enqOff' = IF EnqAtomic THEN enqOff ELSE Succ(enqOff)
  /\ eold' = [eold EXCEPT ![e] = NULL]
  /\ UNCHANGED <<status, data, deqOff, dpc, dold>>

-----------------------------------------------------------------------------
(* Dequeue.                                                                *)

\* old = p->offset; waiting atomically, moved on by the CAS loop.
DeqRead(d) ==
  /\ GoD(d, "idle", IF DeqBlocking THEN "wait" ELSE "try")
  /\ dold' = [dold EXCEPT ![d] = deqOff]
  /\ deqOff' = IF DeqBlocking /\ DeqAtomic THEN Succ(deqOff) ELSE deqOff
  /\ UNCHANGED <<status, data, enqOff, epc, eold>>

\* Mutant: the test of the status without the CAS.
MutGetNoCAS(d) ==
  /\ GoD(d, "wait", IF DeqAtomic THEN "use" ELSE "inc")
  /\ status[dold[d]] = OWN
  /\ UNCHANGED <<status, data, enqOff, deqOff, epc, eold, dold>>

\* wait_then_get: CAS(status, OWN, OWN | INUSE) succeeds.
DeqWait(d) ==
  /\ GoD(d, "wait", IF DeqAtomic THEN "use" ELSE "inc")
  /\ status[dold[d]] = OWN
  /\ status' = [status EXCEPT ![dold[d]] = TAKEN]
  /\ UNCHANGED <<data, enqOff, deqOff, epc, eold, dold>>

\* Waiting alone, the offset moves after the CAS.
DeqInc(d) ==
  /\ GoD(d, "inc", "use")
  /\ deqOff' = Succ(deqOff)
  /\ UNCHANGED <<status, data, enqOff, epc, eold, dold>>

\* One thread: the status is looked at and left as it is.
DeqTest(d) ==
  /\ GoD(d, "try", "use")
  /\ ~DeqAtomic
  /\ status[dold[d]] = OWN
  /\ deqOff' = Succ(deqOff)
  /\ UNCHANGED <<status, data, enqOff, epc, eold, dold>>

\* Atomic: CAS(status, OWN, OWN | INUSE) ...
DeqMark(d) ==
  /\ GoD(d, "try", "move")
  /\ DeqAtomic
  /\ status[dold[d]] = OWN
  /\ status' = [status EXCEPT ![dold[d]] = TAKEN]
  /\ UNCHANGED <<data, enqOff, deqOff, epc, eold, dold>>

\* Nothing ready: NULL is output.
DeqNone(d) ==
  /\ GoD(d, "try", "idle")
  /\ status[dold[d]] # OWN
  /\ dold' = [dold EXCEPT ![d] = NULL]
  /\ UNCHANGED <<status, data, enqOff, deqOff, epc, eold>>

\* ... then CAS(offset, old, old + 1) ...
DeqMove(d) ==
  /\ GoD(d, "move", "use")
  /\ deqOff = dold[d]
  /\ deqOff' = Succ(deqOff)
  /\ UNCHANGED <<status, data, enqOff, epc, eold, dold>>

\* Mutants: the undo forgets the mark; it frees the entry.
MutUndoForgets(d) ==
  /\ GoD(d, "move", "idle")
  /\ deqOff # dold[d]
  /\ dold' = [dold EXCEPT ![d] = NULL]
  /\ UNCHANGED <<status, data, enqOff, deqOff, epc, eold>>
MutUndoFrees(d) ==
  /\ GoD(d, "move", "idle")
  /\ deqOff # dold[d]
  /\ status' = [status EXCEPT ![dold[d]] = 0]
  /\ dold' = [dold EXCEPT ![d] = NULL]
  /\ UNCHANGED <<data, enqOff, deqOff, epc, eold>>

\* ... or status = OWN again and NULL.
DeqUndo(d) ==
  /\ GoD(d, "move", "idle")
  /\ deqOff # dold[d]
  /\ status' = [status EXCEPT ![dold[d]] = OWN]
  /\ dold' = [dold EXCEPT ![d] = NULL]
  /\ UNCHANGED <<data, enqOff, deqOff, epc, eold>>

\* Release: status = 0, when the elements in between are done.
Release(d) ==
  /\ GoD(d, "use", "idle")
  /\ status' = [status EXCEPT ![dold[d]] = 0]
  /\ dold' = [dold EXCEPT ![d] = NULL]
  /\ UNCHANGED <<data, enqOff, deqOff, epc, eold>>

-----------------------------------------------------------------------------
EnqStep(e) == \/ EnqWait(e) \/ EnqTest(e) \/ EnqMark(e) \/ EnqDrop(e)
              \/ EnqMove(e) \/ EnqUndo(e) \/ Copy(e) \/ Own(e) \/ EnqEnd(e)

DeqStep(d) == \/ DeqRead(d) \/ DeqWait(d) \/ DeqInc(d) \/ DeqTest(d)
              \/ DeqMark(d) \/ DeqNone(d) \/ DeqMove(d) \/ DeqUndo(d)
              \/ Release(d)

Next == /\ \/ \E e \in mode.enqueuers : EnqRead(e) \/ EnqStep(e)
           \/ \E d \in mode.dequeuers : DeqStep(d)
        /\ UNCHANGED mode

Spec == Init /\ [][Next]_vars

\* Threads are scheduled; the waiting loops have no lock to be starved by.
FairSpec == /\ Spec
            /\ \A e \in Enqueuers : WF_vars(e \in mode.enqueuers /\ EnqStep(e) /\ UNCHANGED mode)
            /\ \A d \in Dequeuers : WF_vars(d \in mode.dequeuers /\ DeqStep(d) /\ UNCHANGED mode)

-----------------------------------------------------------------------------
(* Properties.                                                             *)

TypeOK ==
  /\ mode \in Modes
  /\ status \in [Slots -> {0, OWN, INUSE, TAKEN}]
  /\ data \in [Slots -> Items \cup {NULL}]
  /\ enqOff \in Slots /\ deqOff \in Slots
  /\ epc \in [Enqueuers -> {"idle", "wait", "try", "move", "copy", "own", "end"}]
  /\ eold \in [Enqueuers -> Slots \cup {NULL}]
  /\ dpc \in [Dequeuers -> {"idle", "wait", "try", "move", "inc", "use"}]
  /\ dold \in [Dequeuers -> Slots \cup {NULL}]

Writing(e) == epc[e] \in {"copy", "own"}
Holding(d) == dpc[d] \in {"inc", "use"}

\* Whichever way the CASes fall, an entry being copied or read is one
\* thread's alone, although `old' may be a lap out of date when it is used.
ExclusiveEntries ==
  /\ \A e, f \in Enqueuers : Writing(e) /\ Writing(f) /\ eold[e] = eold[f] => e = f
  /\ \A d, c \in Dequeuers : Holding(d) /\ Holding(c) /\ dold[d] = dold[c] => d = c
  /\ \A e \in Enqueuers, d \in Dequeuers : Writing(e) /\ Holding(d) => eold[e] # dold[d]

\* The inductive invariant behind it: the places each variant can be at, and
\* the status of the entry that a thread has marked, copies into or reads.
EnqHas(e) == epc[e] \in {"move", "copy", "own"}
DeqHas(d) == dpc[d] \in {"move", "inc", "use"}

Places ==
  /\ \A e \in Enqueuers :
       /\ epc[e] # "idle" => e \in mode.enqueuers /\ eold[e] # NULL
       /\ epc[e] \in {"try", "move"} => ~EnqBlocking
       /\ epc[e] = "wait" => EnqBlocking
       /\ epc[e] = "move" => EnqAtomic
  /\ \A d \in Dequeuers :
       /\ dpc[d] # "idle" => d \in mode.dequeuers /\ dold[d] # NULL
       /\ dpc[d] \in {"try", "move"} => ~DeqBlocking
       /\ dpc[d] \in {"wait", "inc"} => DeqBlocking
       /\ dpc[d] = "move" => DeqAtomic

Marks ==
  /\ \A e \in Enqueuers : EnqHas(e) =>
       status[eold[e]] = IF EnqAtomic \/ EnqBlocking THEN INUSE ELSE 0
  /\ \A d \in Dequeuers : DeqHas(d) =>
       status[dold[d]] = IF DeqAtomic \/ DeqBlocking THEN TAKEN ELSE OWN
  /\ \A e, f \in Enqueuers : EnqHas(e) /\ EnqHas(f) /\ eold[e] = eold[f] => e = f
  /\ \A d, c \in Dequeuers : DeqHas(d) /\ DeqHas(c) /\ dold[d] = dold[c] => d = c

\* A published entry holds an item of some enqueuer.
PublishedData == \A s \in Slots :
  /\ status[s] \in {OWN, TAKEN} => data[s] \in Items
  /\ \A e \in Enqueuers : epc[e] = "own" /\ eold[e] = s => data[s] \in Items

\* No two slots hold the same entry.
DataDiffer == \A s, t \in Slots : data[s] = data[t] /\ data[s] # NULL => s = t

IInv == TypeOK /\ Places /\ Marks /\ PublishedData /\ DataDiffer

HeldSlots == {dold[d] : d \in {c \in Dequeuers : Holding(c)}}
InHands   == [d \in Dequeuers |-> IF Holding(d) THEN data[dold[d]] ELSE NULL]

\* Published and nobody's; a dequeuer that may still undo its mark has nothing.
Waiting(s)   == status[s] \in {OWN, TAKEN} /\ s \notin HeldSlots
WaitingSlots == {s \in Slots : Waiting(s)}
Inside       == {data[s] : s \in WaitingSlots}

Bag == INSTANCE BagQueue WITH
         Capacity <- N, Readers <- Dequeuers, None <- NULL,
         inside <- Inside, held <- InHands

\* No entry is lost, doubled, or handed to two threads.
ImplementsBag == Bag!Spec

\* A side without CAS has the slot from its test on, before its offset shows it.
EnqFront == IF ~EnqAtomic /\ \E e \in Enqueuers : epc[e] \in {"copy", "own", "end"}
            THEN Succ(enqOff) ELSE enqOff
DeqFront == IF \E d \in Dequeuers : dpc[d] = "inc" THEN Succ(deqOff) ELSE deqOff

Claimed(s) == \E e \in Enqueuers : Writing(e) /\ eold[e] = s
Claimer(s) == IF Claimed(s) THEN CHOOSE e \in Enqueuers : Writing(e) /\ eold[e] = s
              ELSE NULL

PendingCount == IF EnqFront # DeqFront THEN (EnqFront - DeqFront) % N
                ELSE IF Waiting(DeqFront) \/ Claimed(DeqFront) THEN N ELSE 0

CellAt(s) == IF Waiting(s) THEN [by |-> NULL, val |-> data[s]]
             ELSE [by |-> Claimer(s), val |-> NULL]

Pending == [i \in 1 .. PendingCount |-> CellAt((DeqFront + i - 1) % N)]

Fifo == INSTANCE FifoQueue WITH
          Capacity <- N, Writers <- Enqueuers, Readers <- Dequeuers,
          Vals <- Items, None <- NULL,
          cells <- Pending, held <- InHands

\* A queue neither side of which moves its offset before it waits is first-in
\* first-out, whichever variants the two sides are.
InOrder == ~(EnqBlocking /\ EnqAtomic) /\ ~(DeqBlocking /\ DeqAtomic)
ImplementsFifo == /\ InOrder => Fifo!Init
                  /\ [][InOrder => Fifo!Next]_(Fifo!vars)

\* Whoever of several threads wins the slot they spin on, one of them does: the
\* threads on the two sides are never all waiting for each other's slots.
WaitingEnqueueProgresses ==
  (\E e \in Enqueuers : epc[e] = "wait") ~> (\E e \in Enqueuers : epc[e] = "copy")

\* An entry that was copied in completely is taken out.
EntriesAreTaken ==
  \A s \in Slots : Waiting(s) ~> s \in HeldSlots
=============================================================================
