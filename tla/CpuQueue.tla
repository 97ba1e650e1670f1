------------------------------ MODULE CpuQueue ------------------------------
(***************************************************************************)
(* The queue of variable-length entries between two CPU segments: the      *)
(* runtime functions of include/queue.h, called by the elements that       *)
(* queue.py generates for queue_default.                                   *)
(*                                                                         *)
(* The ring is an array of N slots; an offset in bytes is here a slot      *)
(* number.  The enqueuing side owns `offset' and `clean', the dequeuing    *)
(* side owns its own `offset'; the two sides meet only in the flag and pad *)
(* bytes of the slots.  Every store that the other side can see, and every *)
(* load of what the other side stores, is a step of its own; the stores a  *)
(* side makes under its lock to its own offset belong to the step that     *)
(* changes the flag.                                                       *)
(***************************************************************************)
EXTENDS Integers, FiniteSets

CONSTANTS N,            \* slots of the ring (q->len / q->entry_size)
          Enqueuers,    \* threads that run EnqueueReserve and EnqueueSubmit
          Dequeuers,    \* threads that run DequeueGet and DequeueRelease
          Vals,         \* payloads
          NULL,         \* no slot, no thread, no payload
          Modes         \* ways to set the queue up

Slots == 0 .. N - 1

\* FLAG_OWN, FLAG_CLEAN, FLAG_INUSE; a dequeued entry is OWN | INUSE.
OWN   == 1
CLEAN == 2
INUSE == 4
TAKEN == 5

ASSUME SizeAssumption == N \in Nat \ {0}
ASSUME NullAssumption ==
  /\ NULL \notin Slots /\ NULL \notin Vals
  /\ NULL \notin Enqueuers /\ NULL \notin Dequeuers
\* Without its lock a side is for a single thread.
ASSUME ModesAssumption ==
  /\ Modes \subseteq [enq_atomic : BOOLEAN, deq_atomic : BOOLEAN,
                      enq_blocking : BOOLEAN, deq_blocking : BOOLEAN,
                      clean : BOOLEAN, gap : Nat,
                      looping : SUBSET (Enqueuers \cap Dequeuers)]
  /\ \A m \in Modes : /\ m.enq_atomic \/ \A e, f \in Enqueuers : e = f
                      /\ m.deq_atomic \/ \A d, e \in Dequeuers : d = e

VARIABLES mode,                     \* fixed when the queue is created
          flag, pad, data,          \* the slots
          enqOff, cleanOff, enqLock, \* the enqueuing side's circular_queue
          deqOff, deqLock,          \* the dequeuing side's circular_queue
          epc, ebuf,                \* each enqueuer's place and q_buffer
          dpc, dbuf                 \* each dequeuer's place and q_buffer

slotVars == <<flag, pad, data>>
enqSide  == <<enqOff, cleanOff, enqLock, epc, ebuf>>
deqSide  == <<deqOff, deqLock, dpc, dbuf>>
vars     == <<mode, slotVars, enqSide, deqSide>>

\* What queue_default was given: a side takes its lock (atomic), retries until
\* it obtains an entry (blocking), and passes released entries through Clean.
EnqAtomic   == mode.enq_atomic
DeqAtomic   == mode.deq_atomic
EnqBlocking == mode.enq_blocking
DeqBlocking == mode.deq_blocking
Clean       == mode.clean

\* A looping thread dequeues an entry and enqueues what it made of it into the
\* same queue before it releases it.  The enqueuers outside the loop leave it
\* free slots (enq_gap).
Looping == mode.looping
Gap(e)  == IF e \in Looping THEN 0 ELSE mode.gap

Init ==
  /\ mode \in Modes
  /\ flag = [s \in Slots |-> 0]
  /\ pad = [s \in Slots |-> FALSE]
  /\ data \in [Slots -> Vals]
  /\ enqOff = 0 /\ cleanOff = 0 /\ deqOff = 0
  /\ enqLock = NULL /\ deqLock = NULL
  /\ epc = [e \in Enqueuers |-> "idle"]
  /\ ebuf = [e \in Enqueuers |-> NULL]
  /\ dpc = [d \in Dequeuers |-> "lock"]
  /\ dbuf = [d \in Dequeuers |-> NULL]

\* q->offset += entry_size; if(q->offset + entry_size > q->len) q->offset = 0
Advance(o) == IF o + 2 > N THEN 0 ELSE o + 1

\* The slot that must be free too: offset + gap, minus len while it is GREATER
\* than len.  For offset + gap = N that is N, one slot past the end.
CheckSlot(o, g) == IF g = 0 THEN o ELSE ((o + g - 1) % N) + 1

\* The byte past the storage is whatever the linker put there.
MayBeFree(s)     == s \in Slots => flag[s] \in {0, CLEAN}
MayBeOccupied(s) == s \in Slots => flag[s] \notin {0, CLEAN}

-----------------------------------------------------------------------------
(* EnqueueReserve: enqueue_alloc under the lock, retried when blocking.    *)

GoE(e, from, to) == epc[e] = from /\ epc' = [epc EXCEPT ![e] = to]

\* An element hands enqueuer e something to enqueue.
Arrive(e) ==
  /\ e \notin Looping
  /\ GoE(e, "idle", "lock")
  /\ UNCHANGED <<slotVars, enqOff, cleanOff, enqLock, ebuf, deqSide>>

\* The same for a loop: the thread enqueues what it makes of its entry.
Recirculate(e) ==
  /\ e \in Looping
  /\ dpc[e] = "use"
  /\ dpc' = [dpc EXCEPT ![e] = "unpad"]
  /\ GoE(e, "idle", "lock")
  /\ UNCHANGED <<slotVars, enqOff, cleanOff, enqLock, ebuf, deqOff, deqLock, dbuf>>

EnqLock(e) ==
  /\ GoE(e, "lock", "enter")
  /\ EnqAtomic => enqLock = NULL
  /\ enqLock' = IF EnqAtomic THEN e ELSE enqLock
  /\ UNCHANGED <<slotVars, enqOff, cleanOff, ebuf, deqSide>>

\* if(eqe->flag == FLAG_CLEAN) enqueue_clean(q, clean)
AllocEnter(e) ==
  /\ GoE(e, "enter", IF flag[enqOff] = CLEAN THEN "clean" ELSE "check")
  /\ UNCHANGED <<slotVars, enqOff, cleanOff, enqLock, ebuf, deqSide>>

\* One turn of the loop in enqueue_clean, clean_func included.
CleanEntry(e) ==
  /\ GoE(e, "clean", "clean")
  /\ flag[cleanOff] = CLEAN
  /\ flag' = [flag EXCEPT ![cleanOff] = 0]
  /\ cleanOff' = Advance(cleanOff)
  /\ UNCHANGED <<pad, data, enqOff, enqLock, ebuf, deqSide>>

CleanStop(e) ==
  /\ flag[cleanOff] # CLEAN
  /\ GoE(e, "clean", "check")
  /\ UNCHANGED <<slotVars, enqOff, cleanOff, enqLock, ebuf, deqSide>>

\* Stores of enqueue_alloc once it has found slot enqOff free.
TakeSlot(e) ==
  /\ GoE(e, "check", "unlock")
  /\ flag' = [flag EXCEPT ![enqOff] = INUSE]
  /\ ebuf' = [ebuf EXCEPT ![e] = enqOff]
  /\ enqOff' = Advance(enqOff)
  /\ UNCHANGED <<pad, data, cleanOff, enqLock, deqSide>>

\* Mutants: the OPTIMISTIC test of enqueue_alloc, and the NIC's test that takes
\* a slot that is still to be cleaned.
MutReserveOptimistic(e) == flag[enqOff] # INUSE /\ TakeSlot(e)
MutReserveUnclean(e) == flag[enqOff] \in {0, CLEAN} /\ TakeSlot(e)

Reserve(e) ==
  /\ flag[enqOff] = 0
  /\ MayBeFree(CheckSlot(enqOff, Gap(e)))
  /\ TakeSlot(e)

Full(e) ==
  /\ flag[enqOff] # 0 \/ MayBeOccupied(CheckSlot(enqOff, Gap(e)))
  /\ GoE(e, "check", "unlock")
  /\ UNCHANGED <<slotVars, enqOff, cleanOff, enqLock, ebuf, deqSide>>

\* Mutant: the lock is kept on the path that found no room.
MutFullKeepsLock(e) ==
  /\ GoE(e, "unlock", IF ebuf[e] # NULL THEN "fill"
                      ELSE IF EnqBlocking THEN "lock" ELSE "idle")
  /\ enqLock' = IF EnqAtomic /\ ebuf[e] # NULL THEN NULL ELSE enqLock
  /\ UNCHANGED <<slotVars, enqOff, cleanOff, ebuf, deqSide>>

EnqUnlock(e) ==
  /\ GoE(e, "unlock", IF ebuf[e] # NULL THEN "fill"
                      ELSE IF EnqBlocking THEN "lock" ELSE "idle")
  /\ enqLock' = IF EnqAtomic THEN NULL ELSE enqLock
  /\ UNCHANGED <<slotVars, enqOff, cleanOff, ebuf, deqSide>>

-----------------------------------------------------------------------------
(* The elements between reserve and submit, then EnqueueSubmit.            *)

Fill(e, v) ==
  /\ GoE(e, "fill", "flag")
  /\ data' = [data EXCEPT ![ebuf[e]] = v]
  /\ UNCHANGED <<flag, pad, enqOff, cleanOff, enqLock, ebuf, deqSide>>

\* The first store of enqueue_submit: e->flag = FLAG_OWN
SubmitFlag(e) ==
  /\ GoE(e, "flag", "pad")
  /\ flag' = [flag EXCEPT ![ebuf[e]] = OWN]
  /\ UNCHANGED <<pad, data, enqOff, cleanOff, enqLock, ebuf, deqSide>>

\* Mutant: the pad byte is stored together with the flag once more.
MutPadWithFlag(e) ==
  /\ GoE(e, "pad", "sum")
  /\ pad' = [pad EXCEPT ![ebuf[e]] = TRUE]
  /\ flag' = [flag EXCEPT ![ebuf[e]] = OWN]
  /\ UNCHANGED <<data, enqOff, cleanOff, enqLock, ebuf, deqSide>>

\* The second: e->pad = 0xff.  A dequeuer that saw the pad byte of the slot's last
\* use may have taken the entry at the first store, so this one may come late.
SubmitPad(e) ==
  /\ GoE(e, "pad", "sum")
  /\ pad' = [pad EXCEPT ![ebuf[e]] = TRUE]
  /\ UNCHANGED <<flag, data, enqOff, cleanOff, enqLock, ebuf, deqSide>>

\* The stores to e->checksum come last, maybe as late, and no CPU dequeuer reads them.
SubmitSum(e) ==
  /\ GoE(e, "sum", "idle")
  /\ ebuf' = [ebuf EXCEPT ![e] = NULL]
  /\ UNCHANGED <<slotVars, enqOff, cleanOff, enqLock, deqSide>>

-----------------------------------------------------------------------------
(* DequeueGet: dequeue_get under the lock, retried when blocking.          *)

GoD(d, from, to) == dpc[d] = from /\ dpc' = [dpc EXCEPT ![d] = to]

\* Mutant: a dequeuer that goes in without the lock.
MutDeqNoLock(d) ==
  /\ GoD(d, "lock", "test")
  /\ UNCHANGED <<slotVars, enqSide, deqOff, deqLock, dbuf>>

DeqLock(d) ==
  /\ GoD(d, "lock", "test")
  /\ DeqAtomic => deqLock = NULL
  /\ deqLock' = IF DeqAtomic THEN d ELSE deqLock
  /\ UNCHANGED <<slotVars, enqSide, deqOff, dbuf>>

\* dequeue_ready_var loads e->pad and then e->flag.  When it loads the pad byte, the
\* slot may still be in the hands of the dequeuer that took it one lap before.
LoadPad(d) ==
  /\ pad[deqOff]
  /\ GoD(d, "test", "own")
  /\ UNCHANGED <<slotVars, enqSide, deqOff, deqLock, dbuf>>

DeqReady(d) ==
  /\ flag[deqOff] = OWN
  /\ GoD(d, "own", "mark")
  /\ UNCHANGED <<slotVars, enqSide, deqOff, deqLock, dbuf>>

\* Either load fails.  A blocking dequeuer spins on the test with the lock in its hand.
DeqEmpty(d) ==
  /\ \/ ~pad[deqOff] /\ dpc[d] = "test"
     \/ flag[deqOff] # OWN /\ dpc[d] = "own"
  /\ dpc' = [dpc EXCEPT ![d] = IF DeqBlocking THEN "test" ELSE "unlock"]
  /\ UNCHANGED <<slotVars, enqSide, deqOff, deqLock, dbuf>>

\* eqe->flag |= FLAG_INUSE, and the offset moves on.
DeqMark(d) ==
  /\ GoD(d, "mark", "unlock")
  /\ flag' = [flag EXCEPT ![deqOff] = TAKEN]
  /\ dbuf' = [dbuf EXCEPT ![d] = deqOff]
  /\ deqOff' = Advance(deqOff)
  /\ UNCHANGED <<pad, data, enqSide, deqLock>>

\* Mutant: the lock is kept on the path that found an entry.
MutDeqKeepsLock(d) ==
  /\ GoD(d, "unlock", IF dbuf[d] # NULL THEN "use" ELSE "lock")
  /\ deqLock' = IF DeqAtomic /\ dbuf[d] = NULL THEN NULL ELSE deqLock
  /\ UNCHANGED <<slotVars, enqSide, deqOff, dbuf>>

DeqUnlock(d) ==
  /\ GoD(d, "unlock", IF dbuf[d] # NULL THEN "use" ELSE "lock")
  /\ deqLock' = IF DeqAtomic THEN NULL ELSE deqLock
  /\ UNCHANGED <<slotVars, enqSide, deqOff, dbuf>>

\* The elements that read the entry are done with it.
Use(d) ==
  /\ GoD(d, "use", "unpad")
  /\ UNCHANGED <<slotVars, enqSide, deqOff, deqLock, dbuf>>

-----------------------------------------------------------------------------
(* DequeueRelease: dequeue_release with FLAG_CLEAN or 0.                   *)

\* Mutant: the flag goes with the pad byte.
MutFlagFirst(d) ==
  /\ d \in Looping => epc[d] = "idle"
  /\ GoD(d, "unpad", "free")
  /\ pad' = [pad EXCEPT ![dbuf[d]] = FALSE]
  /\ flag' = [flag EXCEPT ![dbuf[d]] = IF Clean THEN CLEAN ELSE 0]
  /\ UNCHANGED <<data, enqSide, deqOff, deqLock, dbuf>>

Unpad(d) ==
  /\ d \in Looping => epc[d] = "idle"
  /\ GoD(d, "unpad", "free")
  /\ pad' = [pad EXCEPT ![dbuf[d]] = FALSE]
  /\ UNCHANGED <<flag, data, enqSide, deqOff, deqLock, dbuf>>

Free(d) ==
  /\ GoD(d, "free", "lock")
  /\ flag' = [flag EXCEPT ![dbuf[d]] = IF Clean THEN CLEAN ELSE 0]
  /\ dbuf' = [dbuf EXCEPT ![d] = NULL]
  /\ UNCHANGED <<pad, data, enqSide, deqOff, deqLock>>

-----------------------------------------------------------------------------
\* What enqueuer e does once it has something to enqueue.
EnqStep(e) ==
  \/ EnqLock(e) \/ AllocEnter(e) \/ CleanEntry(e) \/ CleanStop(e)
  \/ Reserve(e) \/ Full(e) \/ EnqUnlock(e)
  \/ \E v \in Vals : Fill(e, v)
  \/ SubmitFlag(e) \/ SubmitPad(e) \/ SubmitSum(e)

DeqStep(d) ==
  \/ DeqLock(d) \/ LoadPad(d) \/ DeqReady(d) \/ DeqEmpty(d) \/ DeqMark(d) \/ DeqUnlock(d)
  \/ Use(d) \/ Unpad(d) \/ Free(d)

Next == /\ \/ \E e \in Enqueuers : Arrive(e) \/ Recirculate(e) \/ EnqStep(e)
           \/ \E d \in Dequeuers : DeqStep(d)
        /\ UNCHANGED mode

Spec == Init /\ [][Next]_vars

\* Threads are scheduled; nothing makes an element produce entries.
FairSpec == /\ Spec
            /\ \A e \in Enqueuers : WF_vars(EnqStep(e) /\ UNCHANGED mode)
            /\ \A d \in Dequeuers : WF_vars(DeqStep(d) /\ UNCHANGED mode)

\* The same with mutexes that let every waiting thread in some day.
FairLockSpec == FairSpec /\ \A e \in Enqueuers : SF_vars(EnqLock(e) /\ UNCHANGED mode)

-----------------------------------------------------------------------------
(* Properties.                                                             *)

Filling(e) == epc[e] \in {"fill", "flag"}
Reading(d) == dpc[d] \in {"use", "unpad", "free"}

\* Type invariant of the queue.
TypeOK ==
  /\ mode \in Modes
  /\ flag \in [Slots -> {0, OWN, CLEAN, INUSE, TAKEN}]
  /\ pad \in [Slots -> BOOLEAN]
  /\ data \in [Slots -> Vals]
  /\ enqOff \in Slots /\ cleanOff \in Slots /\ deqOff \in Slots
  /\ enqLock \in Enqueuers \cup {NULL}
  /\ deqLock \in Dequeuers \cup {NULL}
  /\ epc \in [Enqueuers -> {"idle", "lock", "enter", "clean", "check", "unlock",
                            "fill", "flag", "pad", "sum"}]
  /\ ebuf \in [Enqueuers -> Slots \cup {NULL}]
  /\ dpc \in [Dequeuers -> {"lock", "test", "own", "mark", "unlock", "use",
                            "unpad", "free"}]
  /\ dbuf \in [Dequeuers -> Slots \cup {NULL}]

\* A q_buffer handed out by enqueue_alloc or dequeue_get gives its thread the
\* entry alone: nobody else has it while an enqueuer fills and submits it, or while
\* a dequeuer reads it.  The pad and checksum bytes are not part of this promise:
\* their stores come after the flag's, and may reach a slot that others then have.
ExclusiveEntries ==
  /\ \A e, f \in Enqueuers : Filling(e) /\ Filling(f) /\ ebuf[e] = ebuf[f] => e = f
  /\ \A d, c \in Dequeuers : Reading(d) /\ Reading(c) /\ dbuf[d] = dbuf[c] => d = c
  /\ \A e \in Enqueuers, d \in Dequeuers : Filling(e) /\ Reading(d) => ebuf[e] # dbuf[d]

\* The assertions of queue.h (check_flag_val in dequeue_get and in
\* dequeue_release) hold although the flag is read, changed and read again
\* with no atomic instruction: nobody else stores to it in between.
FlagAssertions ==
  /\ \A d \in Dequeuers : dpc[d] = "mark" => flag[deqOff] = OWN
  /\ \A d \in Dequeuers : Reading(d) => flag[dbuf[d]] = TAKEN

\* Entries are released in any order, and `clean' passes a slot only when it is
\* CLEAN.  When the enqueuer meets a slot to clean, `clean' must be there too,
\* or enqueue_clean returns at once and the slot is never usable again.
CleanFindsSlot == flag[enqOff] = CLEAN => cleanOff = enqOff

-----------------------------------------------------------------------------
(* The inductive invariant behind the properties above: which place of      *)
(* which thread goes with which flag of the slot it holds.                  *)

InAlloc(e) == epc[e] \in {"enter", "clean", "check", "unlock"}
InGet(d)   == dpc[d] \in {"test", "own", "mark", "unlock"}

\* Submitted and not yet taken: the flag alone decides.
Submitted(s) == flag[s] = OWN

\* A buffer that enqueue_alloc returned and whose FLAG_OWN is not yet stored.
Unsubmitted(e) == ebuf[e] # NULL /\ epc[e] \in {"unlock", "fill", "flag"}

Locked ==
  /\ \A e \in Enqueuers : InAlloc(e) /\ EnqAtomic => enqLock = e
  /\ \A d \in Dequeuers : InGet(d) /\ DeqAtomic => deqLock = d

Buffers ==
  /\ \A e \in Enqueuers :
       /\ epc[e] \in {"idle", "lock", "enter", "clean", "check"} => ebuf[e] = NULL
       /\ epc[e] \in {"fill", "flag", "pad", "sum"} => ebuf[e] # NULL
  /\ \A d \in Dequeuers :
       /\ dpc[d] \in {"lock", "test", "own", "mark"} => dbuf[d] = NULL
       /\ Reading(d) => dbuf[d] # NULL

EnqueuersHold ==
  /\ \A e \in Enqueuers : Unsubmitted(e) => flag[ebuf[e]] = INUSE
  /\ \A e, f \in Enqueuers :
       Unsubmitted(e) /\ Unsubmitted(f) /\ ebuf[e] = ebuf[f] => e = f

DequeuersHold ==
  /\ \A d \in Dequeuers : dpc[d] = "mark" => Submitted(deqOff)
  /\ \A d \in Dequeuers : dbuf[d] # NULL => flag[dbuf[d]] = TAKEN
  /\ \A d, c \in Dequeuers : dbuf[d] # NULL /\ dbuf[d] = dbuf[c] => d = c

\* The pad byte of a submitted entry is there or on its way, so that the entry can
\* be dequeued: the release before it may not take the byte away.
PadsFollow ==
  \A s \in Slots : Submitted(s) /\ ~pad[s]
                    => \E e \in Enqueuers : epc[e] = "pad" /\ ebuf[e] = s

IInv == /\ TypeOK /\ Locked /\ Buffers
        /\ EnqueuersHold /\ DequeuersHold /\ PadsFollow

-----------------------------------------------------------------------------
(* Refinement of FifoQueue.  Not taken yet: the slots from the dequeuer's   *)
(* offset up to the enqueuer's.  Filled: submitted, with or without pad.    *)

PendingCount ==
  IF enqOff # deqOff THEN (enqOff - deqOff) % N
  ELSE IF flag[deqOff] \in {INUSE, OWN} THEN N ELSE 0

CellAt(s) ==
  IF Submitted(s) THEN [by |-> NULL, val |-> data[s]]
  ELSE [by |-> CHOOSE e \in Enqueuers : Unsubmitted(e) /\ ebuf[e] = s, val |-> NULL]

Pending == [i \in 1 .. PendingCount |-> CellAt((deqOff + i - 1) % N)]

InHands == [d \in Dequeuers |-> IF dbuf[d] = NULL THEN NULL ELSE data[dbuf[d]]]

Fifo == INSTANCE FifoQueue WITH
          Capacity <- N, Writers <- Enqueuers, Readers <- Dequeuers, None <- NULL,
          cells <- Pending, held <- InHands

\* Whatever the interleaving of allocs, out-of-order submits, gets, out-of-order
\* releases and cleaning, the queue is a bounded FIFO: nothing is lost, repeated
\* or overtaken, and what a dequeuer reads is what was submitted.
ImplementsFifo == Fifo!Spec

-----------------------------------------------------------------------------
(* Liveness.                                                               *)

\* Every entry whose FLAG_OWN is stored is dequeued, though its pad byte comes later.
EntriesAreDequeued == \A s \in Slots : Submitted(s) ~> flag[s] = TAKEN

\* A blocking enqueue finds room where no thread waits for its own entry: while
\* threads wait, one of them gets an entry.  (Which one is up to the lock.)
BlockedEnqueueProgresses ==
  (EnqBlocking /\ Looping = {} /\ \E e \in Enqueuers : epc[e] = "lock") ~> (\E e \in Enqueuers : epc[e] = "fill")

\* library-of-elements.md, enq_blocking: "the enqueue routine gaurantees to
\* succesfully enqueue every entry".  For a thread that feeds the queue it
\* dequeues from this rests on the gap the other enqueuers leave.
LoopedEntriesAreEnqueued ==
  \A e \in Enqueuers : e \in Looping /\ epc[e] = "lock" ~> epc[e] = "fill"
=============================================================================
