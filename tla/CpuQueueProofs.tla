--------------------------- MODULE CpuQueueProofs ---------------------------
(***************************************************************************)
(* What CpuQueue promises for every number of slots and threads: IInv is   *)
(* inductive, and it implies that entries are held exclusively and that    *)
(* the assertions of queue.h never fire.  Nothing here rests on the pad    *)
(* byte: a dequeuer may see the one of the slot's last use.                *)
(***************************************************************************)
EXTENDS CpuQueue, RingFacts, FiniteSetTheorems, TLAPS

USE SizeAssumption, NullAssumption, ModesAssumption

\* Advancing an offset stays within the ring.
LEMMA AdvanceInSlots == \A o \in Slots : Advance(o) \in Slots
  BY DEF Slots, Advance

\* A looping thread is on both sides.
LEMMA LoopingBothSides == mode \in Modes => Looping \subseteq Enqueuers \cap Dequeuers
  BY DEF Looping

\* Every ring starts empty with nobody in it.
LEMMA InitIInv == Init => IInv
  BY DEF Init, IInv, TypeOK, Locked, Buffers, EnqueuersHold, DequeuersHold,
         PadsFollow, Submitted, Slots, InAlloc, InGet, Reading, Unsubmitted, OWN

\* The two sides of the invariant that a step of an enqueuer can disturb.
LEMMA EnqStepIInv ==
  ASSUME IInv, NEW e \in Enqueuers, Arrive(e) \/ Recirculate(e) \/ EnqStep(e),
         UNCHANGED mode
  PROVE  IInv'
<1> USE DEF IInv, TypeOK, Locked, Buffers, EnqueuersHold, DequeuersHold,
            PadsFollow, InAlloc, InGet, Reading, Unsubmitted, Submitted,
            GoE, enqSide, deqSide, slotVars, OWN, CLEAN, INUSE, TAKEN,
            EnqAtomic, DeqAtomic
<1>1. CASE Arrive(e)       BY <1>1 DEF Arrive
<1>2. CASE Recirculate(e)  BY <1>2, LoopingBothSides DEF Recirculate
<1>3. CASE EnqLock(e)      BY <1>3 DEF EnqLock
<1>4. CASE AllocEnter(e)   BY <1>4 DEF AllocEnter
<1>5. CASE CleanEntry(e)   BY <1>5, AdvanceInSlots DEF CleanEntry
<1>6. CASE CleanStop(e)    BY <1>6 DEF CleanStop
<1>7. CASE Reserve(e)      BY <1>7, AdvanceInSlots DEF Reserve, TakeSlot
<1>8. CASE Full(e)         BY <1>8 DEF Full
<1>9. CASE EnqUnlock(e)    BY <1>9 DEF EnqUnlock
<1>10. CASE \E v \in Vals : Fill(e, v)  BY <1>10 DEF Fill
<1>11. CASE SubmitFlag(e)  BY <1>11 DEF SubmitFlag
<1>12. CASE SubmitPad(e)   BY <1>12 DEF SubmitPad
<1>13. CASE SubmitSum(e)   BY <1>13 DEF SubmitSum
<1> QED BY <1>1, <1>2, <1>3, <1>4, <1>5, <1>6, <1>7, <1>8, <1>9, <1>10, <1>11,
           <1>12, <1>13 DEF EnqStep

\* A step of a dequeuer preserves the invariant.
LEMMA DeqStepIInv ==
  ASSUME IInv, NEW d \in Dequeuers, DeqStep(d), UNCHANGED mode
  PROVE  IInv'
<1> USE DEF IInv, TypeOK, Locked, Buffers, EnqueuersHold, DequeuersHold,
            PadsFollow, InAlloc, InGet, Reading, Unsubmitted, Submitted,
            GoD, enqSide, deqSide, slotVars, OWN, CLEAN, INUSE, TAKEN,
            EnqAtomic, DeqAtomic
<1>1. CASE DeqLock(d)      BY <1>1 DEF DeqLock
<1>2. CASE LoadPad(d) \/ DeqReady(d)
  BY <1>2 DEF LoadPad, DeqReady
<1>3. CASE DeqEmpty(d)     BY <1>3 DEF DeqEmpty
<1>4. CASE DeqMark(d)      BY <1>4, AdvanceInSlots DEF DeqMark
<1>5. CASE DeqUnlock(d)    BY <1>5 DEF DeqUnlock
<1>6. CASE Use(d)          BY <1>6 DEF Use
<1>7. CASE Unpad(d)        BY <1>7 DEF Unpad
<1>8. CASE Free(d)         BY <1>8 DEF Free
<1> QED BY <1>1, <1>2, <1>3, <1>4, <1>5, <1>6, <1>7, <1>8 DEF DeqStep

\* The invariant of the queue, for rings of every size and any set of threads
\* on either side, looping threads included.
THEOREM QueueInvariant == Spec => []IInv
<1>1. IInv /\ [Next]_vars => IInv'
  <2> SUFFICES ASSUME IInv, [Next]_vars PROVE IInv'
    OBVIOUS
  <2>1. CASE Next
    BY <2>1, EnqStepIInv, DeqStepIInv DEF Next
  <2>2. CASE UNCHANGED vars
    BY <2>2 DEF vars, slotVars, enqSide, deqSide, IInv, TypeOK, Locked, Buffers,
       EnqueuersHold, DequeuersHold, PadsFollow, InAlloc, InGet, Reading,
       Unsubmitted, Submitted, EnqAtomic, DeqAtomic
  <2> QED BY <2>1, <2>2
<1> QED BY InitIInv, <1>1, PTL DEF Spec

\* Type correctness of the queue.
THEOREM QueueTypes == Spec => []TypeOK
<1>1. IInv => TypeOK
  BY DEF IInv
<1> QED BY <1>1, QueueInvariant, PTL

\* enqueue_alloc and dequeue_get never hand one slot to two threads at a time.
THEOREM EntriesAreExclusive == Spec => []ExclusiveEntries
<1>1. IInv => ExclusiveEntries
  BY DEF IInv, ExclusiveEntries, Buffers, EnqueuersHold, DequeuersHold, Reading,
         Filling, Unsubmitted, OWN, INUSE, TAKEN
<1> QED BY <1>1, QueueInvariant, PTL

\* The flag assertions in dequeue_get and dequeue_release never fire.
THEOREM AssertionsHold == Spec => []FlagAssertions
<1>1. IInv => FlagAssertions
  BY DEF IInv, FlagAssertions, Buffers, DequeuersHold, Reading, Submitted
<1> QED BY <1>1, QueueInvariant, PTL

\* A submitted entry never waits for a pad byte that nobody will store, whatever
\* late stores and releases have done to its slot.
THEOREM PadBytesFollow == Spec => []PadsFollow
<1>1. IInv => PadsFollow
  BY DEF IInv
<1> QED BY <1>1, QueueInvariant, PTL
-----------------------------------------------------------------------------
(* Cleaning keeps up.                                                       *)

\* The slots from the enqueuer's offset on up to `clean', round the ring.
InFreeRun(s) == IF enqOff < cleanOff THEN enqOff <= s /\ s < cleanOff
                                     ELSE enqOff <= s \/ s < cleanOff

\* With cleaning, these and no others are free; when the two offsets are equal,
\* all slots are or none is.  Without, no slot is ever left to be cleaned.
FreeRun ==
  /\ ~Clean => \A s \in Slots : flag[s] # CLEAN
  /\ Clean /\ enqOff # cleanOff => \A s \in Slots : flag[s] = 0 <=> InFreeRun(s)
  /\ Clean /\ enqOff = cleanOff => \/ \A s \in Slots : flag[s] = 0
                                   \/ \A s \in Slots : flag[s] # 0

\* A step that leaves the offsets alone and frees no slot nor takes a free one.
LEMMA FreeRunStays ==
  ASSUME TypeOK, FreeRun, UNCHANGED <<mode, enqOff, cleanOff>>,
         \A s \in Slots : \/ flag'[s] = flag[s]
                          \/ flag[s] # 0 /\ flag'[s] # 0 /\ (flag'[s] = CLEAN => Clean)
  PROVE  FreeRun'
<1>1. Clean' = Clean /\ \A s : InFreeRun(s)' = InFreeRun(s)
  BY DEF Clean, InFreeRun
<1> QED BY <1>1 DEF FreeRun

\* enqueue_alloc takes the first of the free slots.
LEMMA FreeRunReserve ==
  ASSUME IInv, FreeRun, NEW e \in Enqueuers, Reserve(e), UNCHANGED mode
  PROVE  FreeRun'
<1>1. /\ N \in Nat \ {0} /\ enqOff \in 0 .. N - 1 /\ cleanOff \in 0 .. N - 1
      /\ flag[enqOff] = 0 /\ cleanOff' = cleanOff /\ enqOff' = Advance(enqOff)
      /\ Clean' = Clean
      /\ \A s \in Slots : flag'[s] = IF s = enqOff THEN INUSE ELSE flag[s]
  BY DEF IInv, TypeOK, Reserve, TakeSlot, Slots, Clean
<1>2. CASE ~Clean
  BY <1>1, <1>2 DEF FreeRun, INUSE, CLEAN
<1>3. CASE Clean
  <2>1. \A s \in Slots : flag[s] = 0 <=> InFreeRun(s)
    BY <1>1, <1>3 DEF FreeRun, InFreeRun, Slots
  <2>2. CASE enqOff' # cleanOff
    <3>1. \A s \in Slots : InFreeRun(s)' <=> InFreeRun(s) /\ s # enqOff
      BY <1>1, <2>2 DEF InFreeRun, Slots, Advance
    <3> QED BY <1>1, <1>3, <2>1, <2>2, <3>1 DEF FreeRun, INUSE
  <2>3. CASE enqOff' = cleanOff
    <3>1. \A s \in Slots : s # enqOff => ~InFreeRun(s)
      BY <1>1, <2>3 DEF InFreeRun, Slots, Advance
    <3> QED BY <1>1, <1>3, <2>1, <2>3, <3>1 DEF FreeRun, INUSE
  <2> QED BY <2>2, <2>3
<1> QED BY <1>2, <1>3

\* enqueue_clean adds one behind the last.
LEMMA FreeRunClean ==
  ASSUME IInv, FreeRun, NEW e \in Enqueuers, CleanEntry(e), UNCHANGED mode
  PROVE  FreeRun'
<1>1. /\ N \in Nat \ {0} /\ enqOff \in 0 .. N - 1 /\ cleanOff \in 0 .. N - 1
      /\ flag[cleanOff] = CLEAN /\ enqOff' = enqOff /\ cleanOff' = Advance(cleanOff)
      /\ Clean' = Clean
      /\ \A s \in Slots : flag'[s] = IF s = cleanOff THEN 0 ELSE flag[s]
  BY DEF IInv, TypeOK, CleanEntry, Slots, Clean
<1>2. Clean /\ cleanOff \in Slots
  BY <1>1 DEF FreeRun, Slots
<1>3. \A s \in Slots : flag[s] = 0 <=> InFreeRun(s) /\ enqOff # cleanOff
  BY <1>1, <1>2 DEF FreeRun, CLEAN
<1>4. CASE enqOff # cleanOff'
  <2>1. \A s \in Slots : InFreeRun(s)' <=> s = cleanOff \/ (InFreeRun(s) /\ enqOff # cleanOff)
    BY <1>1, <1>4 DEF InFreeRun, Slots, Advance
  <2> QED BY <1>1, <1>2, <1>3, <1>4, <2>1 DEF FreeRun
<1>5. CASE enqOff = cleanOff'
  <2>1. \A s \in Slots : s = cleanOff \/ (InFreeRun(s) /\ enqOff # cleanOff)
    BY <1>1, <1>5 DEF InFreeRun, Slots, Advance
  <2> QED BY <1>1, <1>2, <1>3, <1>5, <2>1 DEF FreeRun
<1> QED BY <1>4, <1>5

\* The other steps change the flags of slots in hand, or none.
LEMMA StepFreeRun ==
  ASSUME IInv, FreeRun, [Next]_vars
  PROVE  FreeRun'
<1> USE DEF slotVars, enqSide, deqSide, OWN, CLEAN, INUSE, TAKEN
<1>0. UNCHANGED mode /\ TypeOK
  BY DEF IInv, Next, vars
<1>1. ASSUME NEW e \in Enqueuers, Arrive(e) \/ Recirculate(e) \/ EnqStep(e)
      PROVE  FreeRun'
  <2>1. CASE Reserve(e)
    BY <1>0, <2>1, FreeRunReserve
  <2>2. CASE CleanEntry(e)
    BY <1>0, <2>2, FreeRunClean
  <2>3. CASE SubmitFlag(e)
    <3>1. /\ ebuf[e] \in Slots /\ flag[ebuf[e]] = INUSE
          /\ UNCHANGED <<enqOff, cleanOff>>
      BY <1>0, <2>3 DEF SubmitFlag, GoE, IInv, EnqueuersHold, Buffers, Unsubmitted, TypeOK
    <3>2. \A s \in Slots : flag'[s] = IF s = ebuf[e] THEN OWN ELSE flag[s]
      BY <1>0, <2>3 DEF SubmitFlag, TypeOK
    <3> QED BY <1>0, <3>1, <3>2, FreeRunStays
  <2>4. CASE UNCHANGED <<flag, enqOff, cleanOff>>
    BY <1>0, <2>4, FreeRunStays
  <2> QED BY <1>1, <2>1, <2>2, <2>3, <2>4 DEF EnqStep, Arrive, Recirculate, EnqLock,
             AllocEnter, CleanStop, Full, EnqUnlock, Fill, SubmitPad, SubmitSum
<1>2. ASSUME NEW d \in Dequeuers, DeqStep(d)
      PROVE  FreeRun'
  <2>1. CASE DeqMark(d)
    <3>1. deqOff \in Slots /\ flag[deqOff] = OWN /\ UNCHANGED <<enqOff, cleanOff>>
      BY <1>0, <2>1 DEF DeqMark, GoD, IInv, DequeuersHold, Submitted, TypeOK
    <3>2. \A s \in Slots : flag'[s] = IF s = deqOff THEN TAKEN ELSE flag[s]
      BY <1>0, <2>1 DEF DeqMark, TypeOK
    <3> QED BY <1>0, <3>1, <3>2, FreeRunStays
  <2>2. CASE Free(d)
    <3>1. dbuf[d] \in Slots /\ flag[dbuf[d]] = TAKEN /\ UNCHANGED <<enqOff, cleanOff>>
      BY <1>0, <2>2 DEF Free, GoD, IInv, DequeuersHold, Buffers, Reading, TypeOK
    <3>2. \A s \in Slots : flag'[s] = IF s = dbuf[d] THEN IF Clean THEN CLEAN ELSE 0
                                      ELSE flag[s]
      BY <1>0, <2>2 DEF Free, TypeOK
    <3>3. CASE Clean
      BY <1>0, <3>1, <3>2, <3>3, FreeRunStays
    <3>4. CASE ~Clean
      <4>1. Clean' = Clean
        BY <1>0 DEF Clean
      <4> QED BY <3>2, <3>4, <4>1 DEF FreeRun
    <3> QED BY <3>3, <3>4
  <2>3. CASE UNCHANGED <<flag, enqOff, cleanOff>>
    BY <1>0, <2>3, FreeRunStays
  <2> QED BY <1>2, <2>1, <2>2, <2>3 DEF DeqStep, DeqLock, LoadPad, DeqReady, DeqEmpty, DeqUnlock,
             Use, Unpad
<1>3. CASE UNCHANGED vars
  BY <1>0, <1>3, FreeRunStays DEF vars
<1> QED BY <1>1, <1>2, <1>3 DEF Next

\* enqueue_clean never returns with the slot of the next entry still dirty, however
\* entries are released: when the enqueuer comes to a slot to clean, `clean' is
\* there too.
THEOREM CleaningKeepsUp == Spec => []CleanFindsSlot
<1>1. Init => FreeRun
  BY DEF Init, FreeRun, Slots, CLEAN
<1>2. FreeRun /\ IInv /\ [Next]_vars => FreeRun'
  BY StepFreeRun
<1>3. FreeRun /\ IInv => CleanFindsSlot
  <2> SUFFICES ASSUME FreeRun, IInv, flag[enqOff] = CLEAN PROVE cleanOff = enqOff
    BY DEF CleanFindsSlot
  <2>1. enqOff \in 0 .. N - 1 /\ cleanOff \in 0 .. N - 1 /\ enqOff \in Slots
    BY DEF IInv, TypeOK, Slots
  <2>2. Clean
    BY <2>1 DEF FreeRun
  <2>3. CASE enqOff # cleanOff
    BY <2>1, <2>2, <2>3 DEF FreeRun, InFreeRun, CLEAN
  <2> QED BY <2>3
<1> QED BY <1>1, <1>2, <1>3, QueueInvariant, PTL DEF Spec
-----------------------------------------------------------------------------
(* The queue implements FifoQueue.                                          *)

\* The slots reserved or submitted and not yet taken are the k slots from the
\* dequeuer's offset up to the enqueuer's, round the ring.
PendingSlots == {s \in Slots : flag[s] \in {INUSE, OWN}}
PendingIs(k) == /\ enqOff = At(N, deqOff, k + 1)
                /\ PendingSlots = Run(N, deqOff, k)
PendingRun   == \E k \in 0 .. N : PendingIs(k)

\* Each that is not ready is some enqueuer's.
PendingHaveWriters ==
  \A s \in PendingSlots : Submitted(s) \/ \E e \in Enqueuers : Unsubmitted(e) /\ ebuf[e] = s

\* Advance moves an offset to the next slot of the ring.
LEMMA AdvanceIsNext == \A o \in Slots : Advance(o) = At(N, o, 2)
<1>1. \A o \in Slots : At(N, o, 2) = IF o + 2 <= N THEN o + 1 ELSE o + 1 - N
  BY AtWraps DEF Slots
<1> QED BY <1>1 DEF Advance, Slots

\* The run that PendingRun speaks of is as long as PendingCount says.
RunIsCounted == TypeOK => \A k \in 0 .. N : PendingIs(k) => PendingCount = k

\* Offsets that differ are k apart; where they meet, the slot there tells none from all.
LEMMA PendingIsCounted == RunIsCounted
<1> SUFFICES ASSUME TypeOK, NEW k \in 0 .. N, PendingIs(k)
             PROVE  PendingCount = k
  BY DEF RunIsCounted
<1>1. N \in Nat \ {0} /\ deqOff \in 0 .. N - 1 /\ deqOff \in Slots
  BY DEF TypeOK, Slots
<1>2. IF enqOff = deqOff THEN k = 0 \/ k = N ELSE (enqOff - deqOff) % N = k
  BY <1>1, AtDistance DEF PendingIs
<1>3. CASE enqOff # deqOff
  BY <1>2, <1>3 DEF PendingCount
<1>4. CASE enqOff = deqOff
  <2>1. k = 0 => deqOff \notin PendingSlots
    BY <1>1, RunFacts DEF PendingIs
  <2>2. k = N => deqOff \in PendingSlots
    BY <1>1, RunFacts DEF PendingIs
  <2> QED BY <1>1, <1>2, <1>4, <2>1, <2>2 DEF PendingCount, PendingSlots
<1> QED BY <1>3, <1>4

\* enqueue_alloc makes the run longer by the slot it takes, and had room for it.
LEMMA ReservePending ==
  ASSUME IInv, NEW k \in 0 .. N, PendingIs(k), NEW e \in Enqueuers, Reserve(e)
  PROVE  k < N /\ PendingIs(k + 1)' /\ PendingSlots' = PendingSlots \cup {enqOff}
<1>1. /\ N \in Nat \ {0} /\ deqOff \in 0 .. N - 1 /\ enqOff \in Slots
      /\ flag \in [Slots -> {0, OWN, CLEAN, INUSE, TAKEN}]
  BY DEF IInv, TypeOK, Slots
<1>2. /\ flag[enqOff] = 0 /\ flag' = [flag EXCEPT ![enqOff] = INUSE]
      /\ enqOff' = Advance(enqOff) /\ deqOff' = deqOff
  BY DEF Reserve, TakeSlot, deqSide
<1>3. PendingSlots' = PendingSlots \cup {enqOff}
  BY <1>1, <1>2 DEF PendingSlots, INUSE, OWN
<1>4. k < N
  <2>1. enqOff \notin PendingSlots
    BY <1>2 DEF PendingSlots, INUSE, OWN
  <2>2. k = N => deqOff \in Run(N, deqOff, k) /\ At(N, deqOff, k + 1) = deqOff
    BY <1>1, RunFacts, AtFacts
  <2> QED BY <1>1, <2>1, <2>2 DEF PendingIs
<1>5. enqOff' = At(N, deqOff, k + 2)
  BY <1>1, <1>2, <1>4, RunFacts, AdvanceIsNext DEF PendingIs
<1>6. Run(N, deqOff, k + 1) = Run(N, deqOff, k) \cup {enqOff}
  <2>1. Run(N, deqOff, k + 1) = Run(N, deqOff, k) \cup {At(N, deqOff, k + 1)}
    BY <1>1, <1>4, RunGrows, Zenon
  <2> QED BY <2>1 DEF PendingIs
<1>7. k + 1 + 1 = k + 2
  OBVIOUS
<1> QED BY <1>2, <1>3, <1>4, <1>5, <1>6, <1>7 DEF PendingIs

\* dequeue_get takes the slot it begins with.
LEMMA MarkPending ==
  ASSUME IInv, NEW k \in 0 .. N, PendingIs(k), NEW d \in Dequeuers, DeqMark(d)
  PROVE  k > 0 /\ PendingIs(k - 1)' /\ PendingSlots' = PendingSlots \ {deqOff}
<1>1. /\ N \in Nat \ {0} /\ deqOff \in 0 .. N - 1 /\ deqOff \in Slots
      /\ flag \in [Slots -> {0, OWN, CLEAN, INUSE, TAKEN}]
  BY DEF IInv, TypeOK, Slots
<1>2. /\ flag[deqOff] = OWN /\ flag' = [flag EXCEPT ![deqOff] = TAKEN]
      /\ deqOff' = Advance(deqOff) /\ enqOff' = enqOff
  BY DEF DeqMark, GoD, enqSide, IInv, DequeuersHold, Submitted
<1>3. PendingSlots' = PendingSlots \ {deqOff}
  BY <1>1, <1>2 DEF PendingSlots, INUSE, OWN, TAKEN
<1>4. k > 0
  <2>1. deqOff \in PendingSlots
    BY <1>1, <1>2 DEF PendingSlots
  <2>2. k = 0 => Run(N, deqOff, k) = {}
    BY <1>1, RunFacts
  <2> QED BY <2>1, <2>2 DEF PendingIs
<1>5. deqOff' = At(N, deqOff, 2)
  BY <1>1, <1>2, AdvanceIsNext
<1>6. Run(N, At(N, deqOff, 2), k - 1) = PendingSlots'
  <2>1. Run(N, At(N, deqOff, 2), k - 1) = Run(N, deqOff, k) \ {deqOff}
    BY <1>1, <1>4, RunShrinks, Zenon
  <2> QED BY <1>3, <2>1 DEF PendingIs
<1>7. enqOff' = At(N, At(N, deqOff, 2), k)
  BY <1>1, <1>2, <1>4, RunFacts DEF PendingIs
<1>8. k - 1 + 1 = k
  OBVIOUS
<1> QED BY <1>3, <1>4, <1>5, <1>6, <1>7, <1>8 DEF PendingIs

\* No other step changes the run.
LEMMA PendingStays ==
  ASSUME IInv, NEW k \in 0 .. N, PendingIs(k), [Next]_vars,
         ~ \E e \in Enqueuers : Reserve(e), ~ \E d \in Dequeuers : DeqMark(d)
  PROVE  PendingIs(k)' /\ PendingSlots' = PendingSlots /\ UNCHANGED <<enqOff, deqOff>>
<1> USE DEF slotVars, enqSide, deqSide, OWN, CLEAN, INUSE, TAKEN
<1>1. UNCHANGED <<enqOff, deqOff>>
  BY DEF Next, vars, EnqStep, DeqStep, Arrive, Recirculate, EnqLock, AllocEnter,
         CleanEntry, CleanStop, Full, EnqUnlock, Fill, SubmitFlag, SubmitPad, SubmitSum,
         DeqLock, LoadPad, DeqReady, DeqEmpty, DeqUnlock, Use, Unpad, Free
<1>2. \A s \in Slots : flag'[s] \in {INUSE, OWN} <=> flag[s] \in {INUSE, OWN}
  <2>1. flag \in [Slots -> {0, OWN, CLEAN, INUSE, TAKEN}]
    BY DEF IInv, TypeOK
  <2>2. ASSUME NEW e \in Enqueuers, CleanEntry(e)
        PROVE  \A s \in Slots : flag'[s] \in {INUSE, OWN} <=> flag[s] \in {INUSE, OWN}
    BY <2>1, <2>2 DEF CleanEntry
  <2>3. ASSUME NEW e \in Enqueuers, SubmitFlag(e)
        PROVE  \A s \in Slots : flag'[s] \in {INUSE, OWN} <=> flag[s] \in {INUSE, OWN}
    <3>1. flag[ebuf[e]] = INUSE
      BY <2>3 DEF SubmitFlag, GoE, IInv, EnqueuersHold, Buffers, Unsubmitted
    <3> QED BY <2>1, <2>3, <3>1 DEF SubmitFlag
  <2>4. ASSUME NEW d \in Dequeuers, Free(d)
        PROVE  \A s \in Slots : flag'[s] \in {INUSE, OWN} <=> flag[s] \in {INUSE, OWN}
    <3>1. flag[dbuf[d]] = TAKEN
      BY <2>4 DEF Free, GoD, IInv, DequeuersHold, Buffers, Reading
    <3> QED BY <2>1, <2>4, <3>1 DEF Free
  <2>5. CASE UNCHANGED flag
    BY <2>5
  <2> QED BY <2>2, <2>3, <2>4, <2>5
          DEF Next, vars, EnqStep, DeqStep, Arrive, Recirculate, EnqLock, AllocEnter,
              CleanStop, Full, EnqUnlock, Fill, SubmitPad, SubmitSum, DeqLock, LoadPad, DeqReady,
              DeqEmpty, DeqUnlock, Use, Unpad
<1>3. PendingSlots' = PendingSlots
  BY <1>2 DEF PendingSlots
<1> QED BY <1>1, <1>3 DEF PendingIs

\* A slot is submitted before its enqueuer lets go of it.
LEMMA StepHaveWriters ==
  ASSUME IInv, PendingRun, PendingHaveWriters, [Next]_vars
  PROVE  PendingHaveWriters'
<1> USE DEF slotVars, enqSide, deqSide, OWN, CLEAN, INUSE, TAKEN
<1> SUFFICES ASSUME NEW s \in Slots, flag'[s] \in {INUSE, OWN}, flag'[s] # OWN
             PROVE  \E e \in Enqueuers : Unsubmitted(e)' /\ ebuf'[e] = s
  BY DEF PendingHaveWriters, PendingSlots, Submitted
<1>0. TypeOK
  BY DEF IInv
<1>1. s \in PendingSlots =>
        Submitted(s) \/ \E e \in Enqueuers : Unsubmitted(e) /\ ebuf[e] = s
  BY DEF PendingHaveWriters
<1>2. ASSUME NEW e \in Enqueuers, Unsubmitted(e), ebuf[e] = s
      PROVE  Unsubmitted(e)' /\ ebuf'[e] = s
  <2>1. CASE SubmitFlag(e)
    BY <1>0, <1>2, <2>1 DEF SubmitFlag, GoE, IInv, TypeOK, EnqueuersHold
  <2>2. CASE ~SubmitFlag(e)
    BY <1>0, <1>2, <2>2 DEF Next, vars, EnqStep, DeqStep, Arrive, Recirculate, EnqLock,
          AllocEnter, CleanEntry, CleanStop, Reserve, TakeSlot, Full, EnqUnlock, Fill,
          SubmitFlag, SubmitPad, SubmitSum, GoE, TypeOK, Unsubmitted, IInv, Buffers,
          DeqLock, LoadPad, DeqReady, DeqEmpty, DeqMark, DeqUnlock, Use, Unpad, Free
  <2> QED BY <2>1, <2>2
<1>3. CASE \E e \in Enqueuers : Reserve(e) /\ enqOff = s
  <2>1. PICK e \in Enqueuers : Reserve(e) /\ enqOff = s
    BY <1>3
  <2> QED BY <1>0, <2>1, NullAssumption
          DEF Reserve, TakeSlot, GoE, TypeOK, Unsubmitted
<1>4. CASE ~ \E e \in Enqueuers : Reserve(e) /\ enqOff = s
  <2>1. s \in PendingSlots /\ ~Submitted(s)
    <3>1. CASE \E e \in Enqueuers : Arrive(e) \/ Recirculate(e) \/ EnqStep(e)
      BY <1>0, <1>4, <3>1 DEF PendingSlots, Submitted, EnqStep, Arrive, Recirculate, EnqLock,
          AllocEnter, CleanEntry, CleanStop, Reserve, TakeSlot, Full, EnqUnlock, Fill,
          SubmitFlag, SubmitPad, SubmitSum, GoE, TypeOK, IInv, Buffers, EnqueuersHold,
          Unsubmitted
    <3>2. CASE \E d \in Dequeuers : DeqStep(d)
      BY <1>0, <3>2 DEF PendingSlots, Submitted, DeqStep, DeqLock, LoadPad, DeqReady,
          DeqEmpty, DeqMark, DeqUnlock, Use, Unpad, Free, GoD, TypeOK, IInv, Buffers, DequeuersHold, Reading
    <3>3. CASE UNCHANGED vars
      BY <3>3 DEF vars, PendingSlots, Submitted
    <3> QED BY <3>1, <3>2, <3>3 DEF Next
  <2> QED BY <1>1, <1>2, <2>1
<1> QED BY <1>3, <1>4

\* What the refinement mapping reads in each slot, and the sequence of it.
Cells == [s \in Slots |-> CellAt(s)]

CellFacts ==
  IInv => /\ \A s \in Slots : Submitted(s) => Cells[s] = Fifo!Filled(data[s])
          /\ \A e \in Enqueuers : Unsubmitted(e) =>
                ebuf[e] \in Slots /\ Cells[ebuf[e]] = Fifo!Reserved(e)
          /\ \A k \in 0 .. N : PendingIs(k) => Pending = Reads(N, Cells, deqOff, k)

\* A slot waiting shows its data, one being filled its enqueuer, and Pending reads them.
LEMMA CellsRead == CellFacts
<1> SUFFICES ASSUME IInv
             PROVE  /\ \A s \in Slots : Submitted(s) => Cells[s] = Fifo!Filled(data[s])
                    /\ \A e \in Enqueuers : Unsubmitted(e) =>
                          ebuf[e] \in Slots /\ Cells[ebuf[e]] = Fifo!Reserved(e)
                    /\ \A k \in 0 .. N : PendingIs(k) => Pending = Reads(N, Cells, deqOff, k)
  BY DEF CellFacts
<1>1. ASSUME NEW s \in Slots, Submitted(s) PROVE Cells[s] = Fifo!Filled(data[s])
  BY <1>1 DEF Cells, CellAt, Fifo!Filled
<1>2. ASSUME NEW e \in Enqueuers, Unsubmitted(e)
      PROVE  ebuf[e] \in Slots /\ Cells[ebuf[e]] = Fifo!Reserved(e)
  <2>1. ebuf[e] \in Slots /\ ~Submitted(ebuf[e])
    BY <1>2 DEF IInv, TypeOK, Unsubmitted, EnqueuersHold, Submitted, OWN, INUSE
  <2> DEFINE Its(f) == Unsubmitted(f) /\ ebuf[f] = ebuf[e]
  <2>2. Its(e) /\ \A f \in Enqueuers : Its(f) => f = e
    BY <1>2, <2>1, NullAssumption DEF IInv, EnqueuersHold, Unsubmitted
  <2>3. (CHOOSE f \in Enqueuers : Its(f)) = e
    BY <2>2
  <2> QED BY <2>1, <2>3 DEF Cells, CellAt, Fifo!Reserved
<1>3. ASSUME NEW k \in 0 .. N, PendingIs(k)
      PROVE  Pending = Reads(N, Cells, deqOff, k)
  <2>1. PendingCount = k
    BY <1>3, PendingIsCounted DEF IInv, RunIsCounted
  <2>2. \A i \in 1 .. k : At(N, deqOff, i) \in Slots
    BY AtFacts DEF IInv, TypeOK, Slots
  <2>3. \A i \in 1 .. k : (deqOff + i - 1) % N = At(N, deqOff, i)
    BY DEF At
  <2> QED BY <2>1, <2>2, <2>3 DEF Pending, Reads, Cells
<1> QED BY <1>1, <1>2, <1>3

\* The cell of a slot that stays ready with its data, or stays its enqueuer's.
LEMMA CellStays ==
  ASSUME IInv, IInv', NEW s \in Slots,
         \/ Submitted(s) /\ Submitted(s)' /\ data'[s] = data[s]
         \/ \E e \in Enqueuers : /\ Unsubmitted(e) /\ Unsubmitted(e)'
                                 /\ ebuf[e] = s /\ ebuf'[e] = s
  PROVE  Cells'[s] = Cells[s]
<1>1. CellFacts /\ CellFacts'
  BY CellsRead, PTL
<1>2. CASE Submitted(s) /\ Submitted(s)' /\ data'[s] = data[s]
  <2>1. Cells[s] = Fifo!Filled(data[s])
    BY <1>1, <1>2 DEF CellFacts
  <2>2. Cells'[s] = Fifo!Filled(data[s])'
    BY <1>1, <1>2 DEF CellFacts
  <2> QED BY <1>2, <2>1, <2>2 DEF Fifo!Filled
<1>3. CASE \E e \in Enqueuers : /\ Unsubmitted(e) /\ Unsubmitted(e)'
                                /\ ebuf[e] = s /\ ebuf'[e] = s
  BY <1>1, <1>3 DEF CellFacts, Fifo!Reserved
<1> QED BY <1>2, <1>3

\* Of a pending slot that a step does not take from the ring, only SubmitFlag
\* changes the cell.
LEMMA StepCells ==
  ASSUME IInv, IInv', PendingHaveWriters, [Next]_vars, NEW s \in PendingSlots,
         ~ \E d \in Dequeuers : DeqMark(d) /\ deqOff = s,
         ~ \E e \in Enqueuers : SubmitFlag(e) /\ ebuf[e] = s
  PROVE  Cells'[s] = Cells[s]
<1> USE DEF slotVars, enqSide, deqSide, OWN, CLEAN, INUSE, TAKEN
<1>0. TypeOK /\ s \in Slots /\ flag[s] \in {INUSE, OWN}
  BY DEF IInv, PendingSlots
<1>1. CASE Submitted(s)
  <2>1. \A e \in Enqueuers : Unsubmitted(e) => ebuf[e] # s
    BY <1>1 DEF IInv, EnqueuersHold, Submitted
  <2>2. \A e \in Enqueuers : epc[e] \in {"fill", "flag"} => Unsubmitted(e)
    BY DEF IInv, Buffers, Unsubmitted
  <2>3. flag'[s] = flag[s] /\ data'[s] = data[s]
    <3>1. ASSUME NEW e \in Enqueuers, Arrive(e) \/ Recirculate(e) \/ EnqStep(e)
          PROVE  flag'[s] = flag[s] /\ data'[s] = data[s]
      <4>1. CASE UNCHANGED <<flag, data>>
        BY <4>1
      <4>2. CASE CleanEntry(e) \/ Reserve(e)
        BY <1>0, <4>2 DEF CleanEntry, Reserve, TakeSlot, TypeOK
      <4>3. CASE (\E v \in Vals : Fill(e, v)) \/ SubmitFlag(e)
        <5>1. ebuf[e] # s
          BY <2>1, <2>2, <4>3 DEF Fill, SubmitFlag, GoE
        <5> QED BY <1>0, <4>3, <5>1 DEF Fill, SubmitFlag, TypeOK
      <4> QED BY <3>1, <4>1, <4>2, <4>3 DEF EnqStep, Arrive, Recirculate, EnqLock,
              AllocEnter, CleanStop, Full, EnqUnlock, SubmitPad, SubmitSum
    <3>2. ASSUME NEW d \in Dequeuers, DeqStep(d)
          PROVE  flag'[s] = flag[s] /\ data'[s] = data[s]
      <4>1. CASE UNCHANGED <<flag, data>>
        BY <4>1
      <4>2. CASE DeqMark(d)
        BY <1>0, <4>2 DEF DeqMark, TypeOK
      <4>3. CASE Free(d)
        <5>1. flag[dbuf[d]] = TAKEN
          BY <4>3 DEF Free, GoD, IInv, Buffers, DequeuersHold, Reading
        <5> QED BY <1>0, <4>3, <5>1 DEF Free, TypeOK
      <4> QED BY <3>2, <4>1, <4>2, <4>3 DEF DeqStep, DeqLock, LoadPad, DeqReady, DeqEmpty,
              DeqUnlock, Use, Unpad
    <3>3. CASE UNCHANGED vars
      BY <3>3 DEF vars
    <3> QED BY <3>1, <3>2, <3>3 DEF Next
  <2> QED BY <1>0, <1>1, <2>3, CellStays DEF Submitted
<1>2. CASE ~Submitted(s)
  <2>1. PICK e \in Enqueuers : Unsubmitted(e) /\ ebuf[e] = s
    BY <1>2 DEF PendingHaveWriters
  <2>2. ~SubmitFlag(e)
    BY <2>1
  <2>3. Unsubmitted(e)' /\ ebuf'[e] = s
    BY <1>0, <2>1, <2>2 DEF Next, vars, EnqStep, DeqStep, Arrive, Recirculate, EnqLock,
          AllocEnter, CleanEntry, CleanStop, Reserve, TakeSlot, Full, EnqUnlock, Fill,
          SubmitFlag, SubmitPad, SubmitSum, GoE, TypeOK, Unsubmitted, IInv, Buffers,
          DeqLock, LoadPad, DeqReady, DeqEmpty, DeqMark, DeqUnlock, Use, Unpad, Free
  <2> QED BY <1>0, <2>1, <2>3, CellStays
<1> QED BY <1>1, <1>2

\* What dequeuers hold changes in DeqMark and Free only: nobody else stores to
\* the slot they hold.
LEMMA StepHands ==
  ASSUME IInv, [Next]_vars,
         ~ \E d \in Dequeuers : DeqMark(d) \/ Free(d)
  PROVE  InHands' = InHands
<1> USE DEF slotVars, enqSide, deqSide, OWN, CLEAN, INUSE, TAKEN
<1>1. dbuf' = dbuf
  BY DEF Next, vars, EnqStep, DeqStep, Arrive, Recirculate, EnqLock,
          AllocEnter, CleanEntry, CleanStop, Reserve, TakeSlot, Full, EnqUnlock, Fill,
          SubmitFlag, SubmitPad, SubmitSum, DeqLock, LoadPad, DeqReady, DeqEmpty, DeqUnlock, Use,
          Unpad
<1>2. \A d \in Dequeuers : dbuf[d] # NULL => data'[dbuf[d]] = data[dbuf[d]]
  <2>1. ASSUME NEW e \in Enqueuers, NEW v \in Vals, Fill(e, v), NEW d \in Dequeuers,
               dbuf[d] # NULL
        PROVE  data'[dbuf[d]] = data[dbuf[d]]
    <3>1. dbuf[d] # ebuf[e]
      BY <2>1 DEF Fill, GoE, IInv, Buffers, EnqueuersHold, DequeuersHold, Unsubmitted
    <3> QED BY <2>1, <3>1 DEF Fill, IInv, TypeOK
  <2>2. CASE UNCHANGED data
    BY <2>2
  <2> QED BY <2>1, <2>2 DEF Next, vars, EnqStep, DeqStep, Arrive, Recirculate, EnqLock,
          AllocEnter, CleanEntry, CleanStop, Reserve, TakeSlot, Full, EnqUnlock,
          SubmitFlag, SubmitPad, SubmitSum, DeqLock, LoadPad, DeqReady, DeqEmpty, DeqUnlock, Use,
          DeqMark, Unpad, Free
<1> QED BY <1>1, <1>2 DEF InHands

\* The cardinality that FifoQueue counts with is that of the facts about sets.
LEMMA FifoCardinality == \A S : Fifo!Cardinality(S) = Cardinality(S)
  BY DEF Fifo!Cardinality, Cardinality

\* When enqueue_alloc finds a slot free, that slot is neither pending nor held,
\* so fewer than N entries are.
LEMMA RoomToReserve ==
  ASSUME IInv, NEW k \in 0 .. N, PendingIs(k), NEW e \in Enqueuers, Reserve(e)
  PROVE  k + Cardinality(Fifo!InHand) < N
<1> DEFINE Rest == Slots \ Run(N, deqOff, k + 1)
           g == [d \in Fifo!InHand |-> dbuf[d]]
<1>1. N \in Nat \ {0} /\ deqOff \in 0 .. N - 1 /\ deqOff \in Slots
  BY DEF IInv, TypeOK, Slots
<1>2. k < N /\ k + 1 \in 0 .. N
  BY ReservePending
<1>3. Run(N, deqOff, k + 1) = PendingSlots \cup {enqOff}
  <2>1. Run(N, deqOff, k + 1) = Run(N, deqOff, k) \cup {At(N, deqOff, k + 1)}
    BY <1>1, <1>2, RunGrows, Zenon
  <2> QED BY <2>1 DEF PendingIs
<1>4. Fifo!InHand = {d \in Dequeuers : dbuf[d] # NULL}
  BY NullAssumption DEF Fifo!InHand, InHands, IInv, TypeOK
<1>5. g \in Injection(Fifo!InHand, Rest)
  <2>1. \A d \in Fifo!InHand : dbuf[d] \in Rest
    <3> SUFFICES ASSUME NEW d \in Fifo!InHand PROVE dbuf[d] \in Rest
      OBVIOUS
    <3>1. dbuf[d] \in Slots /\ flag[dbuf[d]] = TAKEN
      BY <1>4 DEF IInv, TypeOK, DequeuersHold
    <3>2. flag[enqOff] = 0
      BY DEF Reserve
    <3> QED BY <1>3, <3>1, <3>2 DEF PendingSlots, TAKEN, INUSE, OWN
  <2>2. \A d, c \in Fifo!InHand : dbuf[d] = dbuf[c] => d = c
    BY <1>4 DEF IInv, DequeuersHold
  <2> HIDE DEF Rest
  <2> QED BY <2>1, <2>2 DEF Injection, IsInjective
<1>6. IsFiniteSet(Rest) /\ Cardinality(Rest) = N - (k + 1)
  <2>1. IsFiniteSet(Slots) /\ Cardinality(Slots) = N
    BY FS_Interval DEF Slots
  <2>2. /\ Run(N, deqOff, k + 1) \in SUBSET Slots
        /\ Cardinality(Run(N, deqOff, k + 1)) = k + 1
    BY <1>1, <1>2, RunFacts DEF Slots
  <2>3. Slots \cap Run(N, deqOff, k + 1) = Run(N, deqOff, k + 1)
    BY <2>2
  <2>4. /\ IsFiniteSet(Slots \ Run(N, deqOff, k + 1))
        /\ Cardinality(Slots \ Run(N, deqOff, k + 1))
             = Cardinality(Slots) - Cardinality(Slots \cap Run(N, deqOff, k + 1))
    BY <2>1, FS_Difference, Zenon
  <2> QED BY <2>1, <2>2, <2>3, <2>4, Zenon
<1> HIDE DEF Rest, g
<1>7. IsFiniteSet(Fifo!InHand) /\ Cardinality(Fifo!InHand) <= Cardinality(Rest)
  BY <1>5, <1>6, FS_Injection
<1>8. Cardinality(Fifo!InHand) \in Nat
  BY <1>7, FS_CardinalityType
<1> QED BY <1>2, <1>6, <1>7, <1>8

\* enqueue_alloc reserves an entry at the end.
LEMMA ReserveIsReserve ==
  ASSUME IInv, IInv', PendingRun, PendingHaveWriters, [Next]_vars,
         NEW e \in Enqueuers, Reserve(e)
  PROVE  Fifo!Reserve(e)
<1>1. PICK k \in 0 .. N : PendingIs(k)
  BY DEF PendingRun
<1>2. /\ N \in Nat \ {0} /\ deqOff \in 0 .. N - 1 /\ deqOff' = deqOff
      /\ enqOff \in Slots /\ UNCHANGED <<dpc, dbuf, data>> /\ flag[enqOff] = 0
  BY DEF IInv, TypeOK, Slots, Reserve, TakeSlot, deqSide
<1>3. k < N /\ PendingIs(k + 1)' /\ k + 1 \in 0 .. N
  BY <1>1, ReservePending
<1>4. CellFacts /\ CellFacts'
  BY CellsRead, PTL
<1>5. Pending = Reads(N, Cells, deqOff, k)
  BY <1>1, <1>4 DEF CellFacts
<1>6. Pending' = Reads(N, Cells', deqOff, k + 1)
  <2>1. Pending' = Reads(N, Cells', deqOff', k + 1)
    BY <1>3, <1>4 DEF CellFacts
  <2> QED BY <1>2, <2>1
<1>7. \A s \in Run(N, deqOff, k) : Cells'[s] = Cells[s]
  <2>1. ~ \E d \in Dequeuers : DeqMark(d)
    BY <1>2 DEF DeqMark, GoD, IInv, TypeOK
  <2>2. ~ \E f \in Enqueuers : SubmitFlag(f)
    <3> SUFFICES ASSUME NEW f \in Enqueuers, SubmitFlag(f) PROVE FALSE
      OBVIOUS
    <3>1. epc[e] = "check" /\ epc'[e] = "unlock"
      BY DEF Reserve, TakeSlot, GoE, IInv, TypeOK
    <3>2. epc'[e] = IF f = e THEN "pad" ELSE epc[e]
      BY DEF SubmitFlag, GoE, IInv, TypeOK
    <3> QED BY <3>1, <3>2
  <2>3. Run(N, deqOff, k) = PendingSlots
    BY <1>1 DEF PendingIs
  <2> QED BY <2>1, <2>2, <2>3, StepCells
<1>8. Cells'[enqOff] = Fifo!Reserved(e)
  <2>1. Unsubmitted(e)' /\ ebuf'[e] = enqOff
    BY <1>2, NullAssumption DEF Reserve, TakeSlot, GoE, IInv, TypeOK, Unsubmitted
  <2> QED BY <1>4, <2>1 DEF CellFacts, Fifo!Reserved
<1>9. At(N, deqOff, k + 1) = enqOff
  BY <1>1 DEF PendingIs
<1>10. Pending' = Append(Pending, Fifo!Reserved(e))
  <2>1. Reads(N, Cells', deqOff, k + 1)
          = Append(Reads(N, Cells, deqOff, k), Cells'[At(N, deqOff, k + 1)])
    BY <1>2, <1>3, <1>7, ReadsAppend
  <2> QED BY <1>5, <1>6, <1>8, <1>9, <2>1
<1>11. Len(Pending) = k
  BY <1>2, <1>5, ReadsLength
<1>12. InHands' = InHands
  BY <1>2 DEF InHands
<1>13. k + Fifo!Cardinality(Fifo!InHand) < N
  BY <1>1, RoomToReserve, FifoCardinality
<1> QED BY <1>10, <1>11, <1>12, <1>13 DEF Fifo!Reserve

\* The store of FLAG_OWN fills the entry with what its slot holds.
LEMMA SubmitIsFill ==
  ASSUME IInv, IInv', PendingRun, PendingHaveWriters, [Next]_vars,
         NEW e \in Enqueuers, SubmitFlag(e)
  PROVE  \E v \in Vals : Fifo!Fill(e, v)
<1>1. PICK k \in 0 .. N : PendingIs(k)
  BY DEF PendingRun
<1>2. /\ N \in Nat \ {0} /\ deqOff \in 0 .. N - 1 /\ deqOff' = deqOff
      /\ UNCHANGED <<dpc, dbuf, data>> /\ flag' = [flag EXCEPT ![ebuf[e]] = OWN]
      /\ Unsubmitted(e) /\ ebuf[e] \in Slots /\ epc[e] = "flag" /\ epc'[e] = "pad"
  BY DEF IInv, TypeOK, Slots, SubmitFlag, GoE, deqSide, Buffers, EnqueuersHold, Unsubmitted
<1>3. ~ (\E f \in Enqueuers : Reserve(f)) /\ ~ (\E d \in Dequeuers : DeqMark(d))
  <2>1. ASSUME NEW f \in Enqueuers, Reserve(f) PROVE FALSE
    <3>1. epc[f] = "check" /\ epc'[e] = IF f = e THEN "unlock" ELSE epc[e]
      BY <2>1 DEF Reserve, TakeSlot, GoE, IInv, TypeOK
    <3> QED BY <1>2, <3>1
  <2> QED BY <1>2, <2>1 DEF DeqMark, GoD, IInv, TypeOK
<1>4. PendingIs(k)'
  BY <1>1, <1>3, PendingStays
<1>5. CellFacts /\ CellFacts'
  BY CellsRead, PTL
<1>6. Pending = Reads(N, Cells, deqOff, k)
  BY <1>1, <1>5 DEF CellFacts
<1>7. Pending' = Reads(N, Cells', deqOff, k)
  <2>1. Pending' = Reads(N, Cells', deqOff', k)
    BY <1>4, <1>5 DEF CellFacts
  <2> QED BY <1>2, <2>1
<1>8. PICK j \in 1 .. k : At(N, deqOff, j) = ebuf[e]
  <2>1. ebuf[e] \in Run(N, deqOff, k)
    BY <1>1, <1>2 DEF PendingIs, PendingSlots, IInv, EnqueuersHold
  <2> QED BY <2>1 DEF Run
<1>9. Cells[ebuf[e]] = Fifo!Reserved(e)
  BY <1>2, <1>5 DEF CellFacts
<1>10. Cells'[ebuf[e]] = Fifo!Filled(data[ebuf[e]]) /\ data[ebuf[e]] \in Vals
  <2>1. Submitted(ebuf[e])'
    BY <1>2 DEF SubmitFlag, enqSide, Submitted, IInv, TypeOK
  <2>2. PICK t \in Slots : t = ebuf[e]
    BY <1>2
  <2>3. Submitted(t)'
    BY <1>2, <2>2 DEF SubmitFlag, Submitted, IInv, TypeOK
  <2>4. Cells'[t] = [by |-> NULL, val |-> data'[t]]
    BY <1>5, <2>3 DEF CellFacts, Fifo!Filled
  <2> QED BY <1>2, <2>2, <2>4 DEF Fifo!Filled, IInv, TypeOK
<1>11. \A s \in Run(N, deqOff, k) \ {At(N, deqOff, j)} : Cells'[s] = Cells[s]
  <2> SUFFICES ASSUME NEW s \in PendingSlots, s # ebuf[e] PROVE Cells'[s] = Cells[s]
    BY <1>1, <1>8 DEF PendingIs
  <2>1. \A f \in Enqueuers : SubmitFlag(f) => ebuf[f] # s
    <3> SUFFICES ASSUME NEW f \in Enqueuers, SubmitFlag(f), f # e PROVE FALSE
      OBVIOUS
    <3>1. epc'[e] = epc[e]
      BY DEF SubmitFlag, GoE, IInv, TypeOK
    <3> QED BY <1>2, <3>1
  <2> QED BY <1>3, <2>1, StepCells
<1>12. Pending' = [Pending EXCEPT ![j] = Cells'[At(N, deqOff, j)]]
  <2>1. PICK C, D, o : C = Cells /\ D = Cells' /\ o = deqOff
    OBVIOUS
  <2>2. o \in 0 .. N - 1 /\ SameBut(At(N, o, j), Run(N, o, k), C, D)
    BY <1>2, <1>11, <2>1 DEF SameBut
  <2>3. Reads(N, D, o, k) = [Reads(N, C, o, k) EXCEPT ![j] = D[At(N, o, j)]]
    BY <1>2, <2>2, ReadsExcept
  <2> QED BY <1>6, <1>7, <2>1, <2>3, Zenon
<1>13. Pending[j] = Cells[At(N, deqOff, j)] /\ j \in DOMAIN Pending
  BY <1>2, <1>6, <1>8, ReadsLength
<1>14. InHands' = InHands
  BY <1>2 DEF InHands
<1> QED BY <1>8, <1>9, <1>10, <1>12, <1>13, <1>14 DEF Fifo!Fill

\* dequeue_get takes the entry at the front, and what the dequeuer then reads is
\* what the entry was filled with.
LEMMA MarkIsTake ==
  ASSUME IInv, IInv', PendingRun, PendingHaveWriters, [Next]_vars,
         NEW d \in Dequeuers, DeqMark(d)
  PROVE  Fifo!Take(d)
<1>1. PICK k \in 0 .. N : PendingIs(k)
  BY DEF PendingRun
<1>2. /\ N \in Nat \ {0} /\ deqOff \in 0 .. N - 1 /\ deqOff \in Slots
      /\ Submitted(deqOff) /\ data[deqOff] \in Vals /\ dbuf[d] = NULL
      /\ UNCHANGED <<data, epc>> /\ dbuf' = [dbuf EXCEPT ![d] = deqOff]
      /\ deqOff' = At(N, deqOff, 2)
  BY AdvanceIsNext DEF IInv, TypeOK, Slots, DeqMark, GoD, enqSide, DequeuersHold, Buffers
<1>3. k > 0 /\ PendingIs(k - 1)' /\ k - 1 \in 0 .. N
  BY <1>1, MarkPending
<1>4. CellFacts /\ CellFacts'
  BY CellsRead, PTL
<1>5. Pending = Reads(N, Cells, deqOff, k)
  BY <1>1, <1>4 DEF CellFacts
<1>6. Pending' = Reads(N, Cells', At(N, deqOff, 2), k - 1)
  <2>1. Pending' = Reads(N, Cells', deqOff', k - 1)
    BY <1>3, <1>4 DEF CellFacts
  <2> QED BY <1>2, <2>1
<1>7. \A s \in Run(N, deqOff, k) \ {deqOff} : Cells'[s] = Cells[s]
  <2>1. ~ \E e \in Enqueuers : SubmitFlag(e)
    BY <1>2 DEF SubmitFlag, GoE, IInv, TypeOK
  <2>2. Run(N, deqOff, k) = PendingSlots
    BY <1>1 DEF PendingIs
  <2> QED BY <2>1, <2>2, StepCells
<1>8. /\ Pending # << >> /\ Head(Pending) = Cells[deqOff]
      /\ Pending' = Tail(Pending)
  <2>1. PICK C, D, o : C = Cells /\ D = Cells' /\ o = deqOff
    OBVIOUS
  <2>2. o \in 0 .. N - 1 /\ SameBut(o, Run(N, o, k), C, D)
    BY <1>2, <1>7, <2>1 DEF SameBut
  <2>3. Tail(Reads(N, C, o, k)) = Reads(N, D, At(N, o, 2), k - 1)
    BY <1>2, <1>3, <2>2, ReadsTail
  <2>4. Reads(N, C, o, k) # << >> /\ Head(Reads(N, C, o, k)) = C[o]
    BY <1>2, <1>3, <2>2, ReadsHead
  <2> QED BY <1>5, <1>6, <2>1, <2>3, <2>4, Zenon
<1>9. Head(Pending).val = data[deqOff] /\ data[deqOff] # NULL
  <2>1. Cells[deqOff] = [by |-> NULL, val |-> data[deqOff]]
    BY <1>2, <1>4 DEF CellFacts, Fifo!Filled
  <2>2. Cells[deqOff].val = data[deqOff]
    BY <2>1
  <2> QED BY <1>2, <1>8, <2>2, NullAssumption
<1>10. InHands' = [InHands EXCEPT ![d] = data[deqOff]]
  BY <1>2, NullAssumption DEF InHands, IInv, TypeOK
<1>11. InHands[d] = NULL
  BY <1>2 DEF InHands
<1> QED BY <1>8, <1>9, <1>10, <1>11 DEF Fifo!Take

\* A step that leaves the pending slots and their cells alone leaves the
\* sequence of them alone.
LEMMA PendingIsSame ==
  ASSUME IInv, IInv', NEW k \in 0 .. N, PendingIs(k), PendingIs(k)',
         UNCHANGED deqOff, \A s \in PendingSlots : Cells'[s] = Cells[s]
  PROVE  Pending' = Pending
<1>1. CellFacts /\ CellFacts'
  BY CellsRead, PTL
<1>2. /\ Pending = Reads(N, Cells, deqOff, k)
      /\ Pending' = Reads(N, Cells', deqOff', k)
  BY <1>1 DEF CellFacts
<1>3. PICK C, D, o : C = Cells /\ D = Cells' /\ o = deqOff
  OBVIOUS
<1>4. o \in 0 .. N - 1 /\ \A s \in Run(N, o, k) : D[s] = C[s]
  BY <1>3 DEF PendingIs, IInv, TypeOK, Slots
<1>5. Reads(N, D, o, k) = Reads(N, C, o, k)
  BY <1>4, ReadsSame
<1> QED BY <1>2, <1>3, <1>5, Zenon

\* dequeue_release gives back what the dequeuer held; every other step is none
\* of FifoQueue's.
LEMMA StepFifo ==
  ASSUME IInv, IInv', PendingRun, PendingHaveWriters, [Next]_vars
  PROVE  [Fifo!Next]_(Fifo!vars)
<1>1. CASE \E e \in Enqueuers : Reserve(e)
  BY <1>1, ReserveIsReserve DEF Fifo!Next
<1>2. CASE \E e \in Enqueuers : SubmitFlag(e)
  BY <1>2, SubmitIsFill DEF Fifo!Next
<1>3. CASE \E d \in Dequeuers : DeqMark(d)
  BY <1>3, MarkIsTake DEF Fifo!Next
<1>4. CASE /\ ~ \E e \in Enqueuers : Reserve(e) \/ SubmitFlag(e)
           /\ ~ \E d \in Dequeuers : DeqMark(d)
  <2>1. Pending' = Pending
    <3>1. PICK k \in 0 .. N : PendingIs(k)
      BY DEF PendingRun
    <3>2. PendingIs(k)' /\ UNCHANGED deqOff
      BY <1>4, <3>1, PendingStays
    <3>3. \A s \in PendingSlots : Cells'[s] = Cells[s]
      BY <1>4, StepCells
    <3> QED BY <3>1, <3>2, <3>3, PendingIsSame
  <2>2. CASE \E d \in Dequeuers : Free(d)
    <3>1. PICK d \in Dequeuers : Free(d)
      BY <2>2
    <3>2. /\ UNCHANGED data /\ dbuf' = [dbuf EXCEPT ![d] = NULL]
          /\ dbuf[d] \in Slots /\ data[dbuf[d]] \in Vals
      BY <3>1 DEF Free, GoD, IInv, TypeOK, Buffers, Reading
    <3>3. InHands' = [InHands EXCEPT ![d] = NULL]
      BY <3>2 DEF InHands, IInv, TypeOK
    <3>4. InHands[d] # NULL
      BY <3>2, NullAssumption DEF InHands
    <3> QED BY <2>1, <3>3, <3>4 DEF Fifo!Next, Fifo!Release
  <2>3. CASE ~ \E d \in Dequeuers : Free(d)
    BY <1>4, <2>1, <2>3, StepHands DEF Fifo!vars
  <2> QED BY <2>2, <2>3
<1> QED BY <1>1, <1>2, <1>3, <1>4

\* The queue is a bounded FIFO queue, for every number of slots and of threads
\* on either side: what is submitted is dequeued once, in the order in which the
\* entries were reserved, unchanged, and never are more than N entries in the
\* ring and in hands.
THEOREM QueueIsFifo == Spec => ImplementsFifo
<1>1. Init => Fifo!Init /\ PendingRun /\ PendingHaveWriters
  <2> SUFFICES ASSUME Init PROVE Fifo!Init /\ PendingRun /\ PendingHaveWriters
    OBVIOUS
  <2>1. PendingSlots = {} /\ deqOff = 0 /\ enqOff = 0 /\ 0 \in 0 .. N - 1 /\ 0 \in 0 .. N
    BY DEF Init, PendingSlots, INUSE, OWN
  <2>2. PendingIs(0)
    <3>1. At(N, 0, 0 + 1) = 0 /\ Run(N, 0, 0) = {}
      BY <2>1, AtFacts DEF Run
    <3> QED BY <2>1, <3>1 DEF PendingIs
  <2>3. PendingCount = 0
    BY <2>1 DEF PendingCount, PendingSlots, Slots
  <2>4. Pending = << >>
    BY <2>3 DEF Pending
  <2>5. InHands = [d \in Dequeuers |-> NULL]
    BY DEF Init, InHands
  <2> QED BY <2>1, <2>2, <2>4, <2>5 DEF Fifo!Init, PendingRun, PendingHaveWriters
<1>2. IInv /\ PendingRun /\ [Next]_vars => PendingRun'
  <2> SUFFICES ASSUME IInv, PendingRun, [Next]_vars PROVE PendingRun'
    OBVIOUS
  <2>1. PICK k \in 0 .. N : PendingIs(k)
    BY DEF PendingRun
  <2>2. ASSUME NEW e \in Enqueuers, Reserve(e) PROVE PendingRun'
    <3>1. PendingIs(k + 1)' /\ k + 1 \in 0 .. N
      BY <2>1, <2>2, ReservePending
    <3> QED BY <3>1 DEF PendingRun
  <2>3. ASSUME NEW d \in Dequeuers, DeqMark(d) PROVE PendingRun'
    <3>1. PendingIs(k - 1)' /\ k - 1 \in 0 .. N
      BY <2>1, <2>3, MarkPending
    <3> QED BY <3>1 DEF PendingRun
  <2> QED BY <2>1, <2>2, <2>3, PendingStays DEF PendingRun
<1>3. IInv /\ PendingRun /\ PendingHaveWriters /\ [Next]_vars => PendingHaveWriters'
  BY StepHaveWriters
<1>4. IInv /\ IInv' /\ PendingRun /\ PendingHaveWriters /\ [Next]_vars
        => [Fifo!Next]_(Fifo!vars)
  BY StepFifo
<1> QED BY <1>1, <1>2, <1>3, <1>4, QueueInvariant, PTL DEF Spec, ImplementsFifo, Fifo!Spec
=============================================================================
