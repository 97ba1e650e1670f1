-------------------------- MODULE CustomQueueProofs --------------------------
(***************************************************************************)
(* All four variants of both sides of a custom queue hand out entries      *)
(* exclusively, for every size and every set of threads.                   *)
(***************************************************************************)
EXTENDS CustomQueue, RingFacts, FiniteSetTheorems, TLAPS

USE CustomSize, CustomModes, CustomNull

\* The next offset is an index of the ring.
LEMMA SuccInSlots == \A o \in Slots : Succ(o) \in Slots
  BY DEF Slots, Succ

\* The empty queue has the invariant.
LEMMA InitIInv == Init => IInv
  BY DEF Init, IInv, TypeOK, Places, Marks, PublishedData, DataDiffer, EnqHas, DeqHas, Slots,
         OWN, TAKEN

\* No step of an enqueuer disturbs what the others have marked.
LEMMA EnqIInv ==
  ASSUME IInv, UNCHANGED mode, NEW e \in Enqueuers, e \in mode.enqueuers,
         EnqRead(e) \/ EnqStep(e)
  PROVE  IInv'
<1> USE DEF IInv, TypeOK, Places, Marks, PublishedData, DataDiffer, EnqHas, DeqHas, GoE,
            OWN, INUSE, TAKEN, EnqAtomic, EnqBlocking, DeqAtomic, DeqBlocking
<1>1. CASE EnqRead(e)  BY <1>1, SuccInSlots DEF EnqRead
<1>2. CASE EnqWait(e)  BY <1>2 DEF EnqWait
<1>3. CASE EnqTest(e)
  <2>1. \A f \in mode.enqueuers : f = e
    BY <1>3 DEF EnqTest
  <2> QED BY <1>3, <2>1 DEF EnqTest
<1>4. CASE EnqMark(e)  BY <1>4 DEF EnqMark
<1>5. CASE EnqDrop(e)  BY <1>5 DEF EnqDrop
<1>6. CASE EnqMove(e)  BY <1>6, SuccInSlots DEF EnqMove
<1>7. CASE EnqUndo(e)  BY <1>7 DEF EnqUndo
<1>8. CASE Copy(e)     BY <1>8 DEF Copy
<1>9. CASE Own(e)      BY <1>9 DEF Own
<1>10. CASE EnqEnd(e)  BY <1>10, SuccInSlots DEF EnqEnd
<1> QED BY <1>1, <1>2, <1>3, <1>4, <1>5, <1>6, <1>7, <1>8, <1>9, <1>10 DEF EnqStep

\* Nor does a step of a dequeuer.
LEMMA DeqIInv ==
  ASSUME IInv, UNCHANGED mode, NEW d \in Dequeuers, d \in mode.dequeuers, DeqStep(d)
  PROVE  IInv'
<1> USE DEF IInv, TypeOK, Places, Marks, PublishedData, DataDiffer, EnqHas, DeqHas, GoD,
            OWN, INUSE, TAKEN, EnqAtomic, EnqBlocking, DeqAtomic, DeqBlocking
<1>1. CASE DeqRead(d)   BY <1>1, SuccInSlots DEF DeqRead
<1>2. CASE DeqWait(d)   BY <1>2 DEF DeqWait
<1>3. CASE DeqInc(d)    BY <1>3, SuccInSlots DEF DeqInc
<1>4. CASE DeqTest(d)
  <2>1. \A c \in mode.dequeuers : c = d
    BY <1>4 DEF DeqTest
  <2> QED BY <1>4, <2>1, SuccInSlots DEF DeqTest
<1>5. CASE DeqMark(d)   BY <1>5 DEF DeqMark
<1>6. CASE DeqNone(d)   BY <1>6 DEF DeqNone
<1>7. CASE DeqMove(d)   BY <1>7, SuccInSlots DEF DeqMove
<1>8. CASE DeqUndo(d)   BY <1>8 DEF DeqUndo
<1>9. CASE Release(d)   BY <1>9 DEF Release
<1> QED BY <1>1, <1>2, <1>3, <1>4, <1>5, <1>6, <1>7, <1>8, <1>9 DEF DeqStep

\* The invariant of the custom queue.
THEOREM CustomInvariant == Spec => []IInv
<1>1. IInv /\ [Next]_vars => IInv'
  <2> SUFFICES ASSUME IInv, [Next]_vars PROVE IInv'
    OBVIOUS
  <2>1. CASE Next
    <3>1. CASE \E e \in mode.enqueuers : EnqRead(e) \/ EnqStep(e)
      BY <2>1, <3>1, EnqIInv DEF Next, IInv, TypeOK
    <3>2. CASE \E d \in mode.dequeuers : DeqStep(d)
      BY <2>1, <3>2, DeqIInv DEF Next, IInv, TypeOK
    <3> QED BY <2>1, <3>1, <3>2 DEF Next
  <2>2. CASE UNCHANGED vars
    BY <2>2 DEF vars, IInv, TypeOK, Places, Marks, PublishedData, DataDiffer, EnqHas, DeqHas,
                EnqAtomic, EnqBlocking, DeqAtomic, DeqBlocking
  <2> QED BY <2>1, <2>2
<1> QED BY InitIInv, <1>1, PTL DEF Spec

\* No thread copies into an entry that another thread copies into or reads.
THEOREM CustomEntriesAreExclusive == Spec => []ExclusiveEntries
<1>1. IInv => ExclusiveEntries
  BY DEF IInv, Marks, Places, ExclusiveEntries, EnqHas, DeqHas, Writing, Holding,
         OWN, INUSE, TAKEN
<1> QED BY <1>1, CustomInvariant, PTL

-----------------------------------------------------------------------------
(* The custom queue implements BagQueue.                                   *)

\* A dequeuer has something in its hands when it is at a place to read it.
LEMMA InHandsHeld ==
  ASSUME IInv
  PROVE  /\ \A d \in Dequeuers : Holding(d) =>
              /\ dold[d] \in Slots
              /\ status[dold[d]] \in {OWN, TAKEN}
              /\ InHands[d] = data[dold[d]]
              /\ InHands[d] \in Items
         /\ \A d \in Dequeuers : ~Holding(d) => InHands[d] = NULL
  BY DEF IInv, TypeOK, Places, Marks, PublishedData, InHands, Holding, DeqHas

\* The data of the waiting slots are different items.
LEMMA WaitingData ==
  ASSUME IInv
  PROVE  /\ \A s \in WaitingSlots : data[s] \in Items
         /\ \A s, t \in WaitingSlots : data[s] = data[t] => s = t
  BY DEF IInv, WaitingSlots, Waiting, PublishedData, DataDiffer

\* A step that leaves the waiting slots, the holders and their data alone is
\* no step of the bag.
LEMMA BagStutter ==
  ASSUME WaitingSlots' = WaitingSlots,
         \A s \in WaitingSlots : data'[s] = data[s],
         \A d \in Dequeuers : /\ Holding(d)' <=> Holding(d)
                              /\ Holding(d) => /\ dold'[d] = dold[d]
                                               /\ data'[dold[d]] = data[dold[d]]
  PROVE  UNCHANGED Bag!vars
<1>1. Inside' = Inside
  BY DEF Inside
<1>2. InHands' = InHands
  BY DEF InHands
<1> QED BY <1>1, <1>2 DEF Bag!vars

\* What a dequeuer comes to hold is then in its hands.
LEMMA HandsTake ==
  ASSUME NEW d \in Dequeuers, UNCHANGED <<data, dold>>, Holding(d)',
         \A c \in Dequeuers \ {d} : Holding(c)' <=> Holding(c)
  PROVE  InHands' = [InHands EXCEPT ![d] = data[dold[d]]]
  BY DEF InHands

\* A dequeuer that comes to hold a waiting slot takes its item.
LEMMA BagTake ==
  ASSUME IInv, NEW d \in Dequeuers, UNCHANGED <<data, dold>>,
         ~Holding(d), Holding(d)', dold[d] \in WaitingSlots,
         \A c \in Dequeuers \ {d} : Holding(c)' <=> Holding(c),
         \A s \in Slots : status'[s] \in {OWN, TAKEN} <=> status[s] \in {OWN, TAKEN}
  PROVE  Bag!Take(d)
<1>1. HeldSlots' = HeldSlots \cup {dold[d]}
  BY DEF HeldSlots
<1>2. WaitingSlots' = WaitingSlots \ {dold[d]}
  BY <1>1 DEF WaitingSlots, Waiting
<1>3. Inside' = Inside \ {data[dold[d]]} /\ data[dold[d]] \in Inside
  BY <1>2, WaitingData DEF Inside
<1>4. InHands' = [InHands EXCEPT ![d] = data[dold[d]]]
  BY HandsTake
<1>5. InHands[d] = NULL
  BY InHandsHeld
<1> QED BY <1>3, <1>4, <1>5 DEF Bag!Take

\* What waits and what is in hands is at most the number of the slots it is in.
LEMMA BagCounts ==
  ASSUME IInv
  PROVE  /\ IsFiniteSet(Inside) /\ IsFiniteSet(Bag!InHand)
         /\ IsFiniteSet(WaitingSlots \cup HeldSlots)
         /\ Cardinality(Inside) + Cardinality(Bag!InHand)
              <= Cardinality(WaitingSlots \cup HeldSlots)
<1> DEFINE f == [s \in WaitingSlots |-> data[s]]
           g == [d \in Bag!InHand |-> dold[d]]
<1>1. IsFiniteSet(Slots)
  BY FS_Interval DEF Slots
<1>2. WaitingSlots \subseteq Slots /\ HeldSlots \subseteq Slots
  BY InHandsHeld DEF WaitingSlots, HeldSlots
<1>3. IsFiniteSet(WaitingSlots) /\ IsFiniteSet(HeldSlots)
  BY <1>1, <1>2, FS_Subset
<1>4. IsFiniteSet(Inside) /\ Cardinality(Inside) <= Cardinality(WaitingSlots)
  <2>1. f \in Surjection(WaitingSlots, Inside)
    BY DEF Inside, Surjection
  <2> QED BY <1>3, <2>1, FS_Surjection
<1>5. IsFiniteSet(Bag!InHand) /\ Cardinality(Bag!InHand) <= Cardinality(HeldSlots)
  <2>1. Bag!InHand = {d \in Dequeuers : Holding(d)}
    BY InHandsHeld DEF Bag!InHand
  <2>2. \A d, c \in Dequeuers : Holding(d) /\ Holding(c) /\ dold[d] = dold[c] => d = c
    BY DEF IInv, Marks, Holding, DeqHas
  <2>3. g \in Injection(Bag!InHand, HeldSlots)
    BY <2>1, <2>2 DEF Injection, IsInjective, HeldSlots
  <2> QED BY <1>3, <2>3, FS_Injection
<1>6. WaitingSlots \cap HeldSlots = {}
  BY DEF WaitingSlots, Waiting
<1>7. /\ IsFiniteSet(WaitingSlots \cup HeldSlots)
      /\ Cardinality(WaitingSlots \cup HeldSlots)
           = Cardinality(WaitingSlots) + Cardinality(HeldSlots)
  <2>1. Cardinality(WaitingSlots \cap HeldSlots) = 0
    BY <1>6, FS_EmptySet
  <2>2. /\ IsFiniteSet(WaitingSlots \cup HeldSlots)
        /\ Cardinality(WaitingSlots \cup HeldSlots)
             = Cardinality(WaitingSlots) + Cardinality(HeldSlots)
                 - Cardinality(WaitingSlots \cap HeldSlots)
    BY <1>3, FS_Union
  <2>3. Cardinality(WaitingSlots) \in Nat /\ Cardinality(HeldSlots) \in Nat
    BY <1>3, FS_CardinalityType
  <2> QED BY <2>1, <2>2, <2>3
<1> QED BY <1>3, <1>4, <1>5, <1>7, FS_CardinalityType

\* The cardinality that BagQueue counts with is that of the facts above.
LEMMA BagCardinality == \A S : Bag!Cardinality(S) = Cardinality(S)
  BY DEF Bag!Cardinality, Cardinality

\* An enqueuer that sets FLAG_OWN puts its item: the slot was nobody's, and
\* what waits or is held is in the other slots.
LEMMA BagPut ==
  ASSUME IInv, NEW e \in Enqueuers, Own(e)
  PROVE  \E i \in Items : Bag!Put(i)
<1> DEFINE s == eold[e]
<1> USE DEF Own, GoE
<1>1. s \in Slots /\ data[s] \in Items /\ status[s] \in {0, INUSE}
  BY DEF IInv, TypeOK, Places, Marks, PublishedData, EnqHas
<1>2. s \notin WaitingSlots /\ s \notin HeldSlots
  BY <1>1, InHandsHeld DEF WaitingSlots, Waiting, HeldSlots, OWN, TAKEN, INUSE
<1>3. HeldSlots' = HeldSlots /\ InHands' = InHands
  BY DEF HeldSlots, InHands, Holding
<1>4. status' = [status EXCEPT ![s] = OWN] /\ status \in [Slots -> {0, OWN, INUSE, TAKEN}]
  BY DEF IInv, TypeOK
<1>5. WaitingSlots' = WaitingSlots \cup {s}
  BY <1>1, <1>2, <1>3, <1>4 DEF WaitingSlots, Waiting, OWN, TAKEN
<1>6. Inside' = Inside \cup {data[s]}
  BY <1>5 DEF Inside
<1>7. data[s] \notin Inside
  BY <1>1, <1>2 DEF Inside, IInv, DataDiffer, WaitingSlots
<1>8. Cardinality(Inside) + Cardinality(Bag!InHand) < N
  <2>1. IsFiniteSet(Slots) /\ Cardinality(Slots) = N
    BY FS_Interval DEF Slots
  <2>2. IsFiniteSet(Slots \ {s}) /\ Cardinality(Slots \ {s}) = N - 1
    BY <1>1, <2>1, FS_RemoveElement
  <2>3. WaitingSlots \cup HeldSlots \in SUBSET (Slots \ {s})
    BY <1>2, InHandsHeld DEF WaitingSlots, HeldSlots
  <2>4. Cardinality(WaitingSlots \cup HeldSlots) <= N - 1
    BY <2>2, <2>3, FS_Subset
  <2>5. /\ Cardinality(Inside) \in Nat /\ Cardinality(Bag!InHand) \in Nat
        /\ Cardinality(WaitingSlots \cup HeldSlots) \in Nat
    BY BagCounts, FS_CardinalityType
  <2> QED BY <2>4, <2>5, BagCounts
<1> QED BY <1>1, <1>3, <1>6, <1>7, <1>8, BagCardinality DEF Bag!Put

\* Every other step of an enqueuer is none of the bag: it changes only slots
\* that do not wait.
LEMMA EnqBag ==
  ASSUME IInv, NEW e \in Enqueuers, e \in mode.enqueuers, EnqRead(e) \/ EnqStep(e)
  PROVE  [Bag!Next]_(Bag!vars)
<1>1. CASE Own(e)
  BY <1>1, BagPut DEF Bag!Next
<1>2. CASE ~Own(e)
  <2>1. HeldSlots' = HeldSlots /\ UNCHANGED <<dpc, dold>>
    BY <1>2 DEF EnqRead, EnqStep, EnqWait, EnqTest, EnqMark, EnqDrop, EnqMove, EnqUndo,
                Copy, EnqEnd, HeldSlots, Holding
  <2>2. \A s \in Slots : status[s] \in {OWN, TAKEN} => data'[s] = data[s]
    BY <1>2 DEF EnqRead, EnqStep, EnqWait, EnqTest, EnqMark, EnqDrop, EnqMove, EnqUndo,
                Copy, EnqEnd, GoE, IInv, TypeOK, Marks, EnqHas, OWN, TAKEN, INUSE
  <2>3. \A s \in Slots : status'[s] \in {OWN, TAKEN} <=> status[s] \in {OWN, TAKEN}
    BY <1>2 DEF EnqRead, EnqStep, EnqWait, EnqTest, EnqMark, EnqDrop, EnqMove, EnqUndo,
                Copy, EnqEnd, GoE, IInv, TypeOK, Places, Marks, EnqHas, EnqAtomic,
                OWN, TAKEN, INUSE
  <2>4. WaitingSlots' = WaitingSlots
    BY <2>1, <2>3 DEF WaitingSlots, Waiting
  <2>5. \A s \in WaitingSlots : data'[s] = data[s]
    BY <2>2 DEF WaitingSlots, Waiting
  <2>6. \A d \in Dequeuers : /\ Holding(d)' <=> Holding(d)
                             /\ Holding(d) => /\ dold'[d] = dold[d]
                                              /\ data'[dold[d]] = data[dold[d]]
    BY <2>1, <2>2, InHandsHeld DEF Holding
  <2> QED BY <2>4, <2>5, <2>6, BagStutter
<1> QED BY <1>1, <1>2

\* A dequeuer is sure of its slot when it moves the offset past it, has it from
\* the test on or has marked it and need not undo that: the slot waits until then.
Takes(d) == DeqMove(d) \/ DeqTest(d) \/ DeqWait(d)

\* A dequeuer that takes has the entry that waits in its slot, and nobody else has it.
LEMMA TakesWaiting ==
  ASSUME IInv, NEW d \in Dequeuers, d \in mode.dequeuers, Takes(d)
  PROVE  /\ dold[d] \in WaitingSlots /\ UNCHANGED <<data, dold>>
         /\ ~Holding(d) /\ Holding(d)'
         /\ \A c \in Dequeuers \ {d} : Holding(c)' <=> Holding(c)
         /\ \A s \in Slots : status'[s] \in {OWN, TAKEN} <=> status[s] \in {OWN, TAKEN}
<1> USE DEF GoD, Takes
<1>1. status[dold[d]] \in {OWN, TAKEN} /\ dold[d] \in Slots
  <2>1. dold[d] # NULL => dold[d] \in Slots
    BY DEF IInv, TypeOK
  <2>2. dpc[d] # "idle" => dold[d] \in Slots
    BY <2>1 DEF IInv, Places
  <2> QED BY <2>2 DEF DeqWait, DeqTest, DeqMove, IInv, Places, Marks, DeqHas
<1>2. \A c \in Dequeuers : Holding(c) => dold[c] # dold[d]
  BY DEF DeqWait, DeqTest, DeqMove, IInv, Places, Marks, DeqHas, Holding,
         TypeOK, DeqBlocking, DeqAtomic, OWN, TAKEN
<1>3. dold[d] \in WaitingSlots
  BY <1>1, <1>2 DEF WaitingSlots, Waiting, HeldSlots
<1>4. /\ UNCHANGED <<data, dold>> /\ ~Holding(d) /\ Holding(d)'
      /\ \A c \in Dequeuers \ {d} : Holding(c)' <=> Holding(c)
  BY DEF DeqWait, DeqTest, DeqMove, Holding, IInv, TypeOK
<1>5. \A s \in Slots : status'[s] \in {OWN, TAKEN} <=> status[s] \in {OWN, TAKEN}
  BY DEF DeqWait, DeqTest, DeqMove, IInv, TypeOK
<1> QED BY <1>3, <1>4, <1>5

\* A dequeuer takes when its place to read the slot is sure, gives the slot
\* back when it releases it, and does neither with the mark it may undo.
LEMMA DeqBag ==
  ASSUME IInv, NEW d \in Dequeuers, d \in mode.dequeuers, DeqStep(d)
  PROVE  [Bag!Next]_(Bag!vars)
<1> USE DEF GoD
<1>1. dold[d] # NULL => dold[d] \in Slots
  BY DEF IInv, TypeOK
<1>2. dpc[d] # "idle" => dold[d] \in Slots
  BY <1>1 DEF IInv, Places
<1>3. CASE Takes(d)
  BY <1>3, TakesWaiting, BagTake DEF Bag!Next
<1>4. CASE Release(d)
  <2>1. Holding(d) /\ dold[d] \in Slots
    BY <1>2, <1>4 DEF Release, Holding
  <2>2. HeldSlots' = HeldSlots \ {dold[d]}
    BY <1>4, <2>1 DEF Release, HeldSlots, Holding, IInv, TypeOK, Marks, DeqHas
  <2>3. WaitingSlots' = WaitingSlots
    <3>1. \A s \in Slots : status'[s] = IF s = dold[d] THEN 0 ELSE status[s]
      BY <1>4 DEF Release, IInv, TypeOK
    <3>2. dold[d] \in HeldSlots
      BY <2>1 DEF HeldSlots
    <3>3. \A s \in Slots : Waiting(s)' <=> Waiting(s)
      BY <2>2, <3>1, <3>2 DEF Waiting, OWN, TAKEN
    <3> QED BY <3>3 DEF WaitingSlots
  <2>4. Inside' = Inside
    BY <1>4, <2>3 DEF Release, Inside
  <2>5. InHands' = [InHands EXCEPT ![d] = NULL]
    BY <1>4 DEF Release, InHands, Holding, IInv, TypeOK
  <2>6. InHands[d] # NULL
    BY <2>1, InHandsHeld
  <2> QED BY <2>4, <2>5, <2>6 DEF Bag!Next, Bag!Release
<1>5. CASE DeqRead(d) \/ DeqInc(d) \/ DeqMark(d) \/ DeqNone(d) \/ DeqUndo(d)
  <2>1. UNCHANGED data
    BY <1>5 DEF DeqRead, DeqInc, DeqMark, DeqNone, DeqUndo
  <2>2. \A c \in Dequeuers : /\ Holding(c)' <=> Holding(c)
                             /\ Holding(c) => dold'[c] = dold[c]
    BY <1>5 DEF DeqRead, DeqInc, DeqMark, DeqNone, DeqUndo, Holding, IInv, TypeOK
  <2>3. HeldSlots' = HeldSlots
    BY <2>2 DEF HeldSlots
  <2>4. \A s \in Slots : status'[s] \in {OWN, TAKEN} <=> status[s] \in {OWN, TAKEN}
    BY <1>5 DEF DeqRead, DeqInc, DeqMark, DeqNone, DeqUndo, IInv, TypeOK, Places, Marks,
                DeqHas
  <2>5. WaitingSlots' = WaitingSlots
    BY <2>3, <2>4 DEF WaitingSlots, Waiting
  <2> QED BY <2>1, <2>2, <2>5, BagStutter
<1> QED BY <1>3, <1>4, <1>5 DEF DeqStep, Takes

\* No entry is lost, doubled or handed to two threads, and never more than N
\* are in the queue and in the hands of its readers, in all variants.
THEOREM CustomIsABag == Spec => ImplementsBag
<1>1. Init => Bag!Init
  <2> SUFFICES ASSUME Init PROVE Bag!Init
    OBVIOUS
  <2>1. Inside = {}
    BY DEF Init, Inside, WaitingSlots, Waiting, OWN, TAKEN
  <2>2. InHands = [d \in Dequeuers |-> NULL]
    BY DEF Init, InHands, Holding
  <2> QED BY <2>1, <2>2 DEF Bag!Init
<1>2. IInv /\ [Next]_vars => [Bag!Next]_(Bag!vars)
  <2> SUFFICES ASSUME IInv, [Next]_vars PROVE [Bag!Next]_(Bag!vars)
    OBVIOUS
  <2>1. CASE Next
    <3>1. mode.enqueuers \subseteq Enqueuers /\ mode.dequeuers \subseteq Dequeuers
      BY DEF IInv, TypeOK
    <3> QED BY <2>1, <3>1, EnqBag, DeqBag DEF Next
  <2>2. CASE UNCHANGED vars
    BY <2>2, BagStutter DEF vars, WaitingSlots, Waiting, HeldSlots, Holding
  <2> QED BY <2>1, <2>2
<1> QED BY <1>1, <1>2, CustomInvariant, PTL DEF Spec, ImplementsBag, Bag!Spec

-----------------------------------------------------------------------------
(* In the variants that keep the order, the queue implements FifoQueue.    *)

\* Without CAS, `old' is the offset of its side until that moves on.
OffsetsKept ==
  /\ \A e \in Enqueuers : ~EnqAtomic /\ epc[e] # "idle" => eold[e] = enqOff
  /\ \A d \in Dequeuers :
       ~DeqAtomic /\ dpc[d] \in {"try", "wait", "inc"} => dold[d] = deqOff

\* Without CAS a side has one thread, and its offset moves when that gives up its `old'.
LEMMA StepOffsets ==
  ASSUME IInv, OffsetsKept, [Next]_vars
  PROVE  OffsetsKept'
<1> USE DEF EnqAtomic, DeqAtomic, EnqBlocking, DeqBlocking
<1>1. CASE \E e \in mode.enqueuers : EnqRead(e) \/ EnqStep(e)
  <2>1. PICK e \in mode.enqueuers : EnqRead(e) \/ EnqStep(e)
    BY <1>1
  <2>2. CASE mode.enq_atomic
    BY <2>1, <2>2 DEF Next, EnqRead, EnqStep, EnqWait, EnqTest, EnqMark, EnqDrop, EnqMove,
       EnqUndo, Copy, Own, EnqEnd, OffsetsKept, vars
  <2>3. CASE ~mode.enq_atomic
    <3>1. \A f \in Enqueuers : f # e => epc[f] = "idle"
      BY <2>3, CustomModes DEF IInv, TypeOK, Places
    <3>2. UNCHANGED <<mode, dpc, dold, deqOff>> /\ e \in Enqueuers
      BY <2>1 DEF Next, EnqRead, EnqStep, EnqWait, EnqTest, EnqMark,
         EnqDrop, EnqMove, EnqUndo, Copy, Own, EnqEnd, vars, IInv, TypeOK
    <3>3. \A f \in Enqueuers : f # e => epc'[f] = epc[f]
      BY <2>1 DEF EnqRead, EnqStep, EnqWait, EnqTest, EnqMark,
         EnqDrop, EnqMove, EnqUndo, Copy, Own, EnqEnd, GoE, IInv, TypeOK
    <3>4. epc'[e] # "idle" => eold'[e] = enqOff'
      <4>1. epc[e] # "idle" => eold[e] = enqOff
        BY <2>3, <3>2 DEF OffsetsKept
      <4>2. CASE EnqRead(e)
        BY <2>3, <3>2, <4>2 DEF EnqRead, IInv, TypeOK
      <4>3. CASE EnqDrop(e) \/ EnqEnd(e) \/ EnqUndo(e)
        BY <3>2, <4>3 DEF EnqDrop, EnqEnd, EnqUndo, GoE, IInv, TypeOK
      <4>4. CASE EnqMove(e)
        BY <2>3, <3>2, <4>4 DEF EnqMove, GoE, IInv, Places
      <4>5. CASE EnqWait(e) \/ EnqTest(e) \/ EnqMark(e) \/ Copy(e) \/ Own(e)
        BY <4>1, <4>5 DEF EnqWait, EnqTest, EnqMark, Copy, Own, GoE
      <4> QED BY <2>1, <4>2, <4>3, <4>4, <4>5 DEF EnqStep
    <3> QED BY <2>3, <3>1, <3>2, <3>3, <3>4 DEF OffsetsKept
  <2> QED BY <2>2, <2>3
<1>2. CASE \E d \in mode.dequeuers : DeqStep(d)
  <2>1. PICK d \in mode.dequeuers : DeqStep(d)
    BY <1>2
  <2>2. CASE mode.deq_atomic
    BY <2>1, <2>2 DEF Next, DeqRead, DeqStep, DeqWait, DeqTest, DeqMark, DeqNone, DeqMove,
       DeqUndo, DeqInc, Release, OffsetsKept, vars
  <2>3. CASE ~mode.deq_atomic
    <3>1. \A c \in Dequeuers : c # d => dpc[c] = "idle"
      BY <2>3, CustomModes DEF IInv, TypeOK, Places
    <3> QED BY <2>1, <2>3, <3>1 DEF Next, DeqRead, DeqStep, DeqWait, DeqTest, DeqMark,
       DeqNone, DeqMove, DeqUndo, DeqInc, Release, OffsetsKept, vars, GoD, IInv, TypeOK
  <2> QED BY <2>2, <2>3
<1>3. CASE UNCHANGED vars
  BY <1>3 DEF vars, OffsetsKept
<1> QED BY <1>1, <1>2, <1>3 DEF Next

\* Where the fronts of the two sides are.
FrontFacts ==
  IInv => /\ EnqFront \in Slots /\ DeqFront \in Slots
          /\ EnqAtomic => EnqFront = enqOff
          /\ ~EnqAtomic => \A e \in mode.enqueuers :
               EnqFront = IF epc[e] \in {"copy", "own", "end"} THEN Succ(enqOff) ELSE enqOff
          /\ InOrder /\ DeqAtomic => DeqFront = deqOff
          /\ ~DeqAtomic => \A d \in mode.dequeuers :
               DeqFront = IF dpc[d] = "inc" THEN Succ(deqOff) ELSE deqOff

\* The fronts are the offsets, but for the one thread of a side without CAS.
LEMMA FrontsAre == FrontFacts
<1> SUFFICES ASSUME IInv PROVE FrontFacts
  BY DEF FrontFacts
<1>1. EnqFront \in Slots /\ DeqFront \in Slots
  BY SuccInSlots DEF EnqFront, DeqFront, IInv, TypeOK
<1>2. EnqAtomic => EnqFront = enqOff
  BY DEF EnqFront
<1>3. ASSUME ~EnqAtomic, NEW e \in mode.enqueuers
      PROVE  EnqFront = IF epc[e] \in {"copy", "own", "end"} THEN Succ(enqOff) ELSE enqOff
  <2>1. \A f \in Enqueuers : f # e => epc[f] = "idle"
    BY <1>3, CustomModes DEF IInv, TypeOK, Places, EnqAtomic
  <2>2. e \in Enqueuers
    BY DEF IInv, TypeOK
  <2> QED BY <1>3, <2>1, <2>2 DEF EnqFront
<1>4. InOrder /\ DeqAtomic => DeqFront = deqOff
  BY DEF DeqFront, InOrder, IInv, Places
<1>5. ASSUME ~DeqAtomic, NEW d \in mode.dequeuers
      PROVE  DeqFront = IF dpc[d] = "inc" THEN Succ(deqOff) ELSE deqOff
  <2>1. \A c \in Dequeuers : c # d => dpc[c] = "idle"
    BY <1>5, CustomModes DEF IInv, TypeOK, Places, DeqAtomic
  <2>2. d \in Dequeuers
    BY DEF IInv, TypeOK
  <2> QED BY <1>5, <2>1, <2>2 DEF DeqFront
<1> QED BY <1>1, <1>2, <1>3, <1>4, <1>5 DEF FrontFacts

\* What the three ways to take a place at the end have in common: the slot at
\* the front of the enqueuing side is free or marked by the thread itself.
Claims(e) == \/ EnqMove(e) \/ EnqTest(e)
             \/ EnqWait(e)

\* The front of the enqueuing side moves when an enqueuer claims the slot at it.
LEMMA StepEnqFront ==
  ASSUME IInv, IInv', OffsetsKept, InOrder, UNCHANGED mode,
         NEW e \in Enqueuers, e \in mode.enqueuers, EnqRead(e) \/ EnqStep(e)
  PROVE  /\ DeqFront' = DeqFront
         /\ Claims(e) => eold[e] = EnqFront /\ EnqFront' = Succ(EnqFront)
         /\ ~Claims(e) => EnqFront' = EnqFront
<1> USE DEF GoE
<1>0. FrontFacts /\ FrontFacts'
  BY FrontsAre, PTL
<1>1. UNCHANGED <<deqOff, dpc>> /\ eold \in [Enqueuers -> Slots \cup {NULL}]
      /\ epc \in [Enqueuers -> {"idle", "wait", "try", "move", "copy", "own", "end"}]
  BY DEF EnqRead, EnqStep, EnqWait, EnqTest, EnqMark, EnqDrop, EnqMove, EnqUndo, Copy,
         Own, EnqEnd, IInv, TypeOK
<1>2. DeqFront' = DeqFront
  BY <1>1 DEF DeqFront, Succ
<1>3. CASE EnqAtomic
  <2>1. EnqFront = enqOff /\ EnqFront' = enqOff' /\ ~EnqBlocking
    BY <1>0, <1>3 DEF FrontFacts, EnqAtomic, InOrder
  <2>2. ~EnqTest(e) /\ ~EnqWait(e)
    BY <1>3, <2>1 DEF EnqTest, EnqWait, IInv, Places
  <2>3. CASE EnqMove(e)
    BY <1>2, <2>1, <2>3 DEF EnqMove, Claims
  <2>4. CASE ~EnqMove(e)
    BY <1>2, <1>3, <2>1, <2>2, <2>4 DEF EnqRead, EnqStep, EnqMark, EnqDrop, EnqUndo, Copy, Own,
       EnqEnd, Claims
  <2> QED BY <2>3, <2>4
<1>4. CASE ~EnqAtomic
  <2>1. /\ EnqFront = IF epc[e] \in {"copy", "own", "end"} THEN Succ(enqOff) ELSE enqOff
        /\ EnqFront' = IF epc'[e] \in {"copy", "own", "end"} THEN Succ(enqOff)' ELSE enqOff'
    BY <1>0, <1>4 DEF FrontFacts, EnqAtomic
  <2>2. epc[e] # "idle" => eold[e] = enqOff
    BY <1>4 DEF OffsetsKept
  <2>3. ~EnqMove(e) /\ ~EnqMark(e) /\ ~EnqUndo(e)
    BY <1>4 DEF EnqMove, EnqMark, EnqUndo, IInv, Places
  <2>4. CASE EnqTest(e) \/ EnqWait(e)
    BY <1>1, <1>2, <2>1, <2>2, <2>4 DEF EnqTest, EnqWait, Claims, Succ
  <2>5. CASE EnqRead(e) \/ EnqDrop(e) \/ Copy(e) \/ Own(e) \/ EnqEnd(e)
    <3>1. ~EnqTest(e) /\ ~EnqWait(e)
      <4>1. CASE EnqDrop(e)
        BY <4>1, <1>1 DEF EnqDrop, EnqTest, EnqWait
      <4>2. CASE EnqRead(e) \/ Copy(e) \/ Own(e) \/ EnqEnd(e)
        BY <4>2 DEF EnqRead, Copy, Own, EnqEnd, EnqTest, EnqWait
      <4> QED BY <2>5, <4>1, <4>2
    <3>2. EnqFront' = EnqFront
      BY <1>1, <1>4, <2>1, <2>5 DEF EnqRead, EnqDrop, Copy, Own, EnqEnd, Succ
    <3> QED BY <1>2, <2>3, <3>1, <3>2 DEF Claims
  <2> QED BY <2>3, <2>4, <2>5 DEF EnqStep
<1> QED BY <1>3, <1>4

\* The front of the dequeuing side moves when a dequeuer takes the slot at it.
LEMMA StepDeqFront ==
  ASSUME IInv, IInv', OffsetsKept, InOrder, UNCHANGED mode,
         NEW d \in Dequeuers, d \in mode.dequeuers, DeqStep(d)
  PROVE  /\ EnqFront' = EnqFront
         /\ Takes(d) => dold[d] = DeqFront /\ DeqFront' = Succ(DeqFront)
         /\ ~Takes(d) => DeqFront' = DeqFront
<1> USE DEF GoD
<1>0. FrontFacts /\ FrontFacts' /\ InOrder'
  <2>1. FrontFacts /\ FrontFacts'
    BY FrontsAre, PTL
  <2> QED BY <2>1 DEF InOrder, EnqBlocking, EnqAtomic, DeqBlocking, DeqAtomic
<1>1. UNCHANGED <<enqOff, epc>> /\ dold \in [Dequeuers -> Slots \cup {NULL}]
      /\ dpc \in [Dequeuers -> {"idle", "wait", "try", "move", "inc", "use"}]
  BY DEF DeqRead, DeqStep, DeqWait, DeqTest, DeqMark, DeqNone, DeqMove, DeqUndo, DeqInc,
         Release, IInv, TypeOK
<1>2. EnqFront' = EnqFront
  BY <1>1 DEF EnqFront, Succ, EnqAtomic
<1>3. CASE DeqAtomic
  <2>1. DeqFront = deqOff /\ DeqFront' = deqOff' /\ ~DeqBlocking
    BY <1>0, <1>3 DEF FrontFacts, DeqAtomic, InOrder
  <2>2. ~DeqTest(d) /\ ~DeqWait(d) /\ ~DeqInc(d)
    BY <1>3, <2>1 DEF DeqTest, DeqWait, DeqInc, IInv, Places
  <2>3. CASE DeqMove(d)
    BY <1>2, <2>1, <2>3 DEF DeqMove, Takes
  <2>4. CASE ~DeqMove(d)
    BY <1>2, <1>3, <2>1, <2>2, <2>4 DEF DeqRead, DeqStep, DeqMark, DeqNone, DeqUndo, Release,
       Takes
  <2> QED BY <2>3, <2>4
<1>4. CASE ~DeqAtomic
  <2>1. /\ DeqFront = IF dpc[d] = "inc" THEN Succ(deqOff) ELSE deqOff
        /\ DeqFront' = IF dpc'[d] = "inc" THEN Succ(deqOff)' ELSE deqOff'
    BY <1>0, <1>4 DEF FrontFacts, DeqAtomic
  <2>2. dpc[d] \in {"try", "wait", "inc"} => dold[d] = deqOff
    BY <1>4 DEF OffsetsKept
  <2>3. ~DeqMove(d) /\ ~DeqMark(d) /\ ~DeqUndo(d)
    BY <1>4 DEF DeqMove, DeqMark, DeqUndo, IInv, Places
  <2>4. CASE DeqTest(d) \/ DeqWait(d)
    BY <1>1, <1>2, <1>4, <2>1, <2>2, <2>4 DEF DeqTest, DeqWait, Takes, Succ
  <2>5. CASE DeqRead(d) \/ DeqNone(d) \/ DeqInc(d) \/ Release(d)
    <3>1. ~DeqTest(d) /\ ~DeqWait(d)
      <4>1. CASE DeqNone(d)
        BY <4>1, <1>1 DEF DeqNone, DeqTest, DeqWait
      <4>2. CASE DeqRead(d) \/ DeqInc(d) \/ Release(d)
        BY <4>2 DEF DeqRead, DeqInc, Release, DeqTest, DeqWait
      <4> QED BY <2>5, <4>1, <4>2
    <3>2. DeqFront' = DeqFront
      BY <1>1, <1>4, <2>1, <2>5 DEF DeqRead, DeqNone, DeqInc, Release, Succ
    <3> QED BY <1>2, <2>3, <3>1, <3>2 DEF Takes
  <2> QED BY <2>3, <2>4, <2>5 DEF DeqStep
<1> QED BY <1>3, <1>4

\* The slots claimed or filled and not yet taken are the k slots from the one
\* front up to the other.
PendingSlots == {s \in Slots : Waiting(s) \/ Claimed(s)}
PendingIs(k) == EnqFront = At(N, DeqFront, k + 1) /\ PendingSlots = Run(N, DeqFront, k)
PendingRun   == \E k \in 0 .. N : PendingIs(k)

\* Succ moves an offset to the next slot of the ring.
LEMMA SuccIsNext == \A o \in Slots : Succ(o) = At(N, o, 2)
<1>1. \A o \in Slots : o + 2 - 1 = o + 1
  BY DEF Slots
<1> QED BY <1>1 DEF At, Succ

\* The run that PendingRun speaks of is as long as PendingCount says.
RunIsCounted == IInv => \A k \in 0 .. N : PendingIs(k) => PendingCount = k

\* Offsets that differ are k apart; where they meet, the slot there tells none from all.
LEMMA PendingIsCounted == RunIsCounted
<1> SUFFICES ASSUME IInv, NEW k \in 0 .. N, PendingIs(k)
             PROVE  PendingCount = k
  BY DEF RunIsCounted
<1>1. N \in Nat \ {0} /\ DeqFront \in 0 .. N - 1 /\ DeqFront \in Slots
  BY FrontsAre DEF FrontFacts, Slots
<1>2. IF EnqFront = DeqFront THEN k = 0 \/ k = N ELSE (EnqFront - DeqFront) % N = k
  BY <1>1, AtDistance DEF PendingIs
<1>3. CASE EnqFront # DeqFront
  BY <1>2, <1>3 DEF PendingCount
<1>4. CASE EnqFront = DeqFront
  <2>1. k = 0 => DeqFront \notin PendingSlots
    BY <1>1, RunFacts DEF PendingIs
  <2>2. k = N => DeqFront \in PendingSlots
    BY <1>1, RunFacts DEF PendingIs
  <2> QED BY <1>1, <1>2, <1>4, <2>1, <2>2 DEF PendingCount, PendingSlots
<1> QED BY <1>3, <1>4

\* What an enqueuer does to the slots that wait, are claimed and are held.
LEMMA EnqSlots ==
  ASSUME IInv, IInv', UNCHANGED mode, InOrder,
         NEW e \in Enqueuers, e \in mode.enqueuers, EnqRead(e) \/ EnqStep(e)
  PROVE  /\ HeldSlots' = HeldSlots /\ InHands' = InHands
         /\ \A s \in Slots :
              /\ Waiting(s)' <=> Waiting(s) \/ (Own(e) /\ s = eold[e])
              /\ status[s] \in {OWN, TAKEN} => data'[s] = data[s]
         /\ PendingSlots' = IF Claims(e) THEN PendingSlots \cup {eold[e]}
                            ELSE PendingSlots
<1> USE DEF GoE
<1>1. HeldSlots' = HeldSlots /\ UNCHANGED <<dpc, dold>>
  BY DEF EnqRead, EnqStep, EnqWait, EnqTest, EnqMark, EnqDrop, EnqMove, EnqUndo,
         Copy, Own, EnqEnd, HeldSlots, Holding
<1>2. \A s \in Slots : status[s] \in {OWN, TAKEN} => data'[s] = data[s]
  BY DEF EnqRead, EnqStep, EnqWait, EnqTest, EnqMark, EnqDrop, EnqMove, EnqUndo,
         Copy, Own, EnqEnd, IInv, TypeOK, Marks, EnqHas, OWN, TAKEN, INUSE
<1>3. InHands' = InHands
  <2>1. \A d \in Dequeuers : Holding(d) => data'[dold[d]] = data[dold[d]]
    BY <1>2, InHandsHeld
  <2> QED BY <1>1, <2>1 DEF InHands, Holding
<1>4. \A s \in Slots : Waiting(s)' <=> Waiting(s) \/ (Own(e) /\ s = eold[e])
  <2>1. CASE Own(e)
    <3>1. eold[e] \in Slots /\ eold[e] \notin HeldSlots
      <4>1. eold[e] \in Slots /\ status[eold[e]] \in {0, INUSE}
        BY <2>1 DEF Own, IInv, TypeOK, Places, Marks, EnqHas
      <4> QED BY <4>1, InHandsHeld DEF HeldSlots, OWN, TAKEN, INUSE
    <3> QED BY <1>1, <2>1, <3>1 DEF Own, Waiting, IInv, TypeOK, OWN, TAKEN
  <2>2. CASE ~Own(e)
    <3>1. \A s \in Slots : status'[s] \in {OWN, TAKEN} <=> status[s] \in {OWN, TAKEN}
      BY <2>2 DEF EnqRead, EnqStep, EnqWait, EnqTest, EnqMark, EnqDrop, EnqMove, EnqUndo,
                  Copy, EnqEnd, IInv, TypeOK, Places, Marks, EnqHas, EnqAtomic,
                  OWN, TAKEN, INUSE
    <3> QED BY <1>1, <2>2, <3>1 DEF Waiting
  <2> QED BY <2>1, <2>2
<1>5. \A f \in Enqueuers : f # e => epc'[f] = epc[f] /\ eold'[f] = eold[f]
  BY DEF EnqRead, EnqStep, EnqWait, EnqTest, EnqMark, EnqDrop, EnqMove, EnqUndo,
         Copy, Own, EnqEnd, IInv, TypeOK
<1>6. CASE Claims(e)
  <2>1. Writing(e)' /\ ~Writing(e) /\ eold'[e] = eold[e] /\ eold[e] \in Slots /\ ~Own(e)
    BY <1>6 DEF Claims, EnqMove, EnqTest, EnqWait, Own, Writing, IInv, TypeOK, Places
  <2>2. \A s \in Slots : Claimed(s)' <=> Claimed(s) \/ s = eold[e]
    BY <1>5, <2>1 DEF Claimed, Writing
  <2> QED BY <1>1, <1>2, <1>3, <1>4, <1>6, <2>1, <2>2 DEF PendingSlots
<1>7. CASE Own(e)
  <2>1. Writing(e) /\ eold[e] \in Slots /\ ~Claims(e) /\ ~Writing(e)'
    BY <1>7 DEF Claims, EnqMove, EnqTest, EnqWait, Own, Writing, IInv, TypeOK, Places
  <2>2. \A s \in Slots : s # eold[e] => (Claimed(s)' <=> Claimed(s))
    BY <1>5, <1>7, <2>1 DEF Claimed, Writing, Own
  <2>3. Claimed(eold[e])
    BY <2>1 DEF Claimed
  <2> QED BY <1>1, <1>2, <1>3, <1>4, <1>7, <2>1, <2>2, <2>3 DEF PendingSlots
<1>8. CASE ~Claims(e) /\ ~Own(e)
  <2>1. (Writing(e)' <=> Writing(e)) /\ (Writing(e) => eold'[e] = eold[e])
    BY <1>8 DEF Claims, EnqRead, EnqStep, EnqWait, EnqTest, EnqMark, EnqDrop, EnqMove,
                EnqUndo, Copy, EnqEnd, Writing, IInv, TypeOK
  <2>2. \A s \in Slots : Claimed(s)' <=> Claimed(s)
    BY <1>5, <2>1 DEF Claimed, Writing
  <2> QED BY <1>1, <1>2, <1>3, <1>4, <1>8, <2>2 DEF PendingSlots
<1> QED BY <1>6, <1>7, <1>8

\* The slot that an enqueuer claims was nobody's.
LEMMA ClaimedWasFree ==
  ASSUME IInv, InOrder, NEW e \in Enqueuers, e \in mode.enqueuers, Claims(e)
  PROVE  eold[e] \in Slots /\ eold[e] \notin PendingSlots /\ eold[e] \notin HeldSlots
<1> USE DEF GoE
<1>1. eold[e] \in Slots /\ status[eold[e]] \in {0, INUSE}
  BY DEF Claims, EnqMove, EnqTest, EnqWait, IInv, TypeOK, Places, Marks, EnqHas
<1>2. eold[e] \notin HeldSlots /\ ~Waiting(eold[e])
  BY <1>1, InHandsHeld DEF HeldSlots, Waiting, OWN, TAKEN, INUSE
<1>3. ~Claimed(eold[e])
  <2> SUFFICES ASSUME NEW f \in Enqueuers, Writing(f), eold[f] = eold[e] PROVE FALSE
    BY DEF Claimed
  <2>1. f # e
    BY DEF Claims, EnqMove, EnqTest, EnqWait, Writing
  <2>2. CASE EnqMove(e)
    BY <2>1, <2>2 DEF EnqMove, Writing, IInv, Marks, EnqHas
  <2>3. CASE EnqTest(e) \/ EnqWait(e)
    <3>1. ~EnqAtomic
      BY <2>3 DEF EnqTest, EnqWait, InOrder, IInv, Places
    <3>2. f \in mode.enqueuers
      BY DEF Writing, IInv, Places
    <3> QED BY <2>1, <3>1, <3>2, CustomModes DEF EnqAtomic, IInv, TypeOK
  <2> QED BY <2>2, <2>3 DEF Claims
<1> QED BY <1>1, <1>2, <1>3 DEF PendingSlots

\* What a dequeuer does to them.
LEMMA DeqSlots ==
  ASSUME IInv, IInv', UNCHANGED mode,
         NEW d \in Dequeuers, d \in mode.dequeuers, DeqStep(d)
  PROVE  /\ UNCHANGED <<data, epc, eold>>
         /\ \A s \in Slots : Waiting(s)' <=> Waiting(s) /\ ~(Takes(d) /\ s = dold[d])
         /\ PendingSlots' = IF Takes(d) THEN PendingSlots \ {dold[d]} ELSE PendingSlots
<1> USE DEF GoD
<1>1. UNCHANGED <<data, epc, eold>>
  BY DEF DeqRead, DeqStep, DeqWait, DeqTest, DeqMark, DeqNone, DeqMove, DeqUndo, DeqInc,
         Release
<1>2. \A s \in Slots : Claimed(s)' <=> Claimed(s)
  BY <1>1 DEF Claimed, Writing
<1>3. CASE Takes(d)
  <2>1. /\ dold[d] \in WaitingSlots /\ UNCHANGED <<data, dold>>
        /\ ~Holding(d) /\ Holding(d)'
        /\ \A c \in Dequeuers \ {d} : Holding(c)' <=> Holding(c)
        /\ \A s \in Slots : status'[s] \in {OWN, TAKEN} <=> status[s] \in {OWN, TAKEN}
    BY <1>3, TakesWaiting
  <2>2. HeldSlots' = HeldSlots \cup {dold[d]}
    BY <2>1 DEF HeldSlots
  <2>3. \A s \in Slots : Waiting(s)' <=> Waiting(s) /\ s # dold[d]
    BY <2>1, <2>2 DEF Waiting
  <2>4. ~Claimed(dold[d])
    BY <2>1 DEF WaitingSlots, Waiting, Claimed, Writing, IInv, Marks, EnqHas, OWN, TAKEN,
                INUSE
  <2> QED BY <1>1, <1>2, <1>3, <2>3, <2>4 DEF PendingSlots
<1>4. CASE Release(d)
  <2>1. Holding(d) /\ dold[d] \in Slots
    BY <1>4 DEF Release, Holding, IInv, TypeOK, Places
  <2>2. HeldSlots' = HeldSlots \ {dold[d]}
    BY <1>4, <2>1 DEF Release, HeldSlots, Holding, IInv, TypeOK, Marks, DeqHas
  <2>3. \A s \in Slots : Waiting(s)' <=> Waiting(s)
    BY <1>4, <2>1, <2>2 DEF Release, Waiting, HeldSlots, IInv, TypeOK, OWN, TAKEN
  <2>4. ~Takes(d)
    BY <1>4 DEF Takes, Release, DeqMove, DeqTest, DeqWait
  <2> QED BY <1>1, <1>2, <2>3, <2>4 DEF PendingSlots
<1>5. CASE ~Takes(d) /\ ~Release(d)
  <2>1. \A c \in Dequeuers : /\ Holding(c)' <=> Holding(c)
                             /\ Holding(c) => dold'[c] = dold[c]
    BY <1>5 DEF Takes, DeqStep, DeqRead, DeqInc, DeqMark, DeqNone, DeqUndo, Holding, IInv,
                TypeOK
  <2>2. HeldSlots' = HeldSlots
    BY <2>1 DEF HeldSlots
  <2>3. \A s \in Slots : status'[s] \in {OWN, TAKEN} <=> status[s] \in {OWN, TAKEN}
    BY <1>5 DEF Takes, DeqStep, DeqRead, DeqInc, DeqMark, DeqNone, DeqUndo, IInv, TypeOK,
                Places, Marks, DeqHas
  <2>4. \A s \in Slots : Waiting(s)' <=> Waiting(s)
    BY <2>2, <2>3 DEF Waiting
  <2> QED BY <1>1, <1>2, <1>5, <2>4 DEF PendingSlots
<1> QED BY <1>3, <1>4, <1>5

\* What the refinement mapping reads in each slot, and the sequence of it.
Cells == [s \in Slots |-> CellAt(s)]

CellFacts ==
  IInv => /\ \A s \in Slots : Waiting(s) => Cells[s] = Fifo!Filled(data[s])
          /\ \A e \in Enqueuers : Writing(e) =>
                eold[e] \in Slots /\ Cells[eold[e]] = Fifo!Reserved(e)
          /\ \A k \in 0 .. N : PendingIs(k) => Pending = Reads(N, Cells, DeqFront, k)

\* A waiting slot shows its data, one being filled its enqueuer, and Pending reads them.
LEMMA CellsRead == CellFacts
<1> SUFFICES ASSUME IInv
             PROVE  /\ \A s \in Slots : Waiting(s) => Cells[s] = Fifo!Filled(data[s])
                    /\ \A e \in Enqueuers : Writing(e) =>
                          eold[e] \in Slots /\ Cells[eold[e]] = Fifo!Reserved(e)
                    /\ \A k \in 0 .. N : PendingIs(k) => Pending = Reads(N, Cells, DeqFront, k)
  BY DEF CellFacts
<1>1. ASSUME NEW s \in Slots, Waiting(s) PROVE Cells[s] = Fifo!Filled(data[s])
  BY <1>1 DEF Cells, CellAt, Fifo!Filled
<1>2. ASSUME NEW e \in Enqueuers, Writing(e)
      PROVE  eold[e] \in Slots /\ Cells[eold[e]] = Fifo!Reserved(e)
  <2>1. eold[e] \in Slots /\ ~Waiting(eold[e]) /\ Claimed(eold[e])
    BY <1>2 DEF IInv, TypeOK, Places, Marks, Writing, EnqHas, Waiting, Claimed, OWN, TAKEN,
                INUSE
  <2> DEFINE Its(f) == Writing(f) /\ eold[f] = eold[e]
  <2>2. Its(e) /\ \A f \in Enqueuers : Its(f) => f = e
    BY <1>2 DEF IInv, Marks, Writing, EnqHas
  <2>3. (CHOOSE f \in Enqueuers : Its(f)) = e
    BY <2>2
  <2>4. Claimer(eold[e]) = e
    BY <2>1, <2>3 DEF Claimer
  <2> QED BY <2>1, <2>4 DEF Cells, CellAt, Fifo!Reserved
<1>3. ASSUME NEW k \in 0 .. N, PendingIs(k)
      PROVE  Pending = Reads(N, Cells, DeqFront, k)
  <2>1. PendingCount = k
    BY <1>3, PendingIsCounted DEF RunIsCounted
  <2>2. DeqFront \in 0 .. N - 1
    BY FrontsAre DEF FrontFacts, Slots
  <2>3. \A i \in 1 .. k : At(N, DeqFront, i) \in Slots
    BY <2>2, AtFacts DEF Slots
  <2>4. \A i \in 1 .. k : (DeqFront + i - 1) % N = At(N, DeqFront, i)
    BY DEF At
  <2> QED BY <2>1, <2>3, <2>4 DEF Pending, Reads, Cells
<1> QED BY <1>1, <1>2, <1>3

\* The cell of a slot that waits on with its data, or stays its enqueuer's.
LEMMA CellStays ==
  ASSUME IInv, IInv', NEW s \in Slots,
         \/ Waiting(s) /\ Waiting(s)' /\ data'[s] = data[s]
         \/ \E e \in Enqueuers : /\ Writing(e) /\ Writing(e)'
                                 /\ eold[e] = s /\ eold'[e] = s
  PROVE  Cells'[s] = Cells[s]
<1>1. CellFacts /\ CellFacts'
  BY CellsRead, PTL
<1>2. CASE Waiting(s) /\ Waiting(s)' /\ data'[s] = data[s]
  BY <1>1, <1>2 DEF CellFacts, Fifo!Filled
<1>3. CASE \E e \in Enqueuers : /\ Writing(e) /\ Writing(e)'
                                /\ eold[e] = s /\ eold'[e] = s
  BY <1>1, <1>3 DEF CellFacts, Fifo!Reserved
<1> QED BY <1>2, <1>3

\* An enqueuer changes the cell of a pending slot only in Own.
LEMMA EnqCells ==
  ASSUME IInv, IInv', UNCHANGED mode, InOrder, NEW e \in Enqueuers,
         e \in mode.enqueuers, EnqRead(e) \/ EnqStep(e),
         NEW s \in PendingSlots, ~(Own(e) /\ s = eold[e])
  PROVE  Cells'[s] = Cells[s]
<1> USE DEF GoE
<1>0. s \in Slots /\ (Waiting(s) \/ Claimed(s))
  BY DEF PendingSlots
<1>1. CASE Waiting(s)
  <2>1. Waiting(s)' /\ data'[s] = data[s]
    BY <1>0, <1>1, EnqSlots DEF Waiting
  <2> QED BY <1>0, <1>1, <2>1, CellStays
<1>2. CASE Claimed(s)
  <2>1. PICK f \in Enqueuers : Writing(f) /\ eold[f] = s
    BY <1>2 DEF Claimed
  <2>2. Writing(f)' /\ eold'[f] = s
    BY <2>1 DEF EnqRead, EnqStep, EnqWait, EnqTest, EnqMark, EnqDrop, EnqMove, EnqUndo,
                Copy, Own, EnqEnd, Writing, IInv, TypeOK
  <2> QED BY <1>0, <2>1, <2>2, CellStays
<1> QED BY <1>0, <1>1, <1>2

\* A dequeuer changes none but takes one.
LEMMA DeqCells ==
  ASSUME IInv, IInv', UNCHANGED mode, NEW d \in Dequeuers,
         d \in mode.dequeuers, DeqStep(d),
         NEW s \in PendingSlots, ~(Takes(d) /\ s = dold[d])
  PROVE  Cells'[s] = Cells[s]
<1>0. s \in Slots /\ (Waiting(s) \/ Claimed(s))
  BY DEF PendingSlots
<1>1. /\ UNCHANGED <<data, epc, eold>>
      /\ Waiting(s) => Waiting(s)'
  BY <1>0, DeqSlots
<1> QED BY <1>0, <1>1, CellStays DEF Claimed, Writing

\* The cardinality that FifoQueue counts with is that of the facts above.
LEMMA FifoCardinality == \A S : Fifo!Cardinality(S) = Cardinality(S)
  BY DEF Fifo!Cardinality, Cardinality

\* There are N slots.
LEMMA SlotsFinite == IsFiniteSet(Slots) /\ Cardinality(Slots) = N
<1>1. 0 \in Int /\ N - 1 \in Int /\ 0 <= N - 1 /\ N - 1 - 0 + 1 = N
  OBVIOUS
<1> QED BY <1>1, FS_Interval DEF Slots

\* The slot that an enqueuer claims is neither pending nor held, so fewer than N
\* entries are.
LEMMA RoomToClaim ==
  ASSUME IInv, InOrder, NEW k \in 0 .. N, PendingIs(k), NEW e \in Enqueuers,
         e \in mode.enqueuers, Claims(e), eold[e] = EnqFront
  PROVE  /\ k < N /\ Run(N, DeqFront, k + 1) = PendingSlots \cup {eold[e]}
         /\ k + Cardinality(Fifo!InHand) < N
<1> DEFINE Rest == Slots \ Run(N, DeqFront, k + 1)
           g == [d \in Fifo!InHand |-> dold[d]]
<1>1. N \in Nat \ {0} /\ DeqFront \in 0 .. N - 1 /\ DeqFront \in Slots
  BY FrontsAre DEF FrontFacts, Slots
<1>2. eold[e] \in Slots /\ eold[e] \notin PendingSlots /\ eold[e] \notin HeldSlots
  BY ClaimedWasFree
<1>3. k < N /\ k + 1 \in 0 .. N
  <2>1. k = N => DeqFront \in Run(N, DeqFront, k) /\ At(N, DeqFront, k + 1) = DeqFront
    BY <1>1, RunFacts, AtFacts
  <2> QED BY <1>2, <2>1 DEF PendingIs
<1>4. Run(N, DeqFront, k + 1) = PendingSlots \cup {eold[e]}
  <2>1. Run(N, DeqFront, k + 1) = Run(N, DeqFront, k) \cup {At(N, DeqFront, k + 1)}
    BY <1>1, <1>3, RunGrows, Zenon
  <2> QED BY <2>1 DEF PendingIs
<1>5. Fifo!InHand = {d \in Dequeuers : Holding(d)}
  BY InHandsHeld DEF Fifo!InHand
<1>6. g \in Injection(Fifo!InHand, Rest)
  <2>1. \A d \in Fifo!InHand : dold[d] \in Rest
    <3> SUFFICES ASSUME NEW d \in Fifo!InHand PROVE dold[d] \in Rest
      OBVIOUS
    <3>1. dold[d] \in Slots /\ dold[d] \in HeldSlots /\ status[dold[d]] \in {OWN, TAKEN}
      BY <1>5, InHandsHeld DEF HeldSlots
    <3>2. dold[d] \notin PendingSlots
      BY <3>1 DEF PendingSlots, Waiting, Claimed, Writing, IInv, Marks, EnqHas,
                  OWN, TAKEN, INUSE
    <3> QED BY <1>2, <1>4, <3>1, <3>2
  <2>2. \A d, c \in Fifo!InHand : dold[d] = dold[c] => d = c
    BY <1>5 DEF IInv, Marks, Holding, DeqHas
  <2> HIDE DEF Rest
  <2> QED BY <2>1, <2>2 DEF Injection, IsInjective
<1>7. IsFiniteSet(Rest) /\ Cardinality(Rest) = N - (k + 1)
  <2>1. IsFiniteSet(Slots) /\ Cardinality(Slots) = N
    BY SlotsFinite
  <2>2. /\ Run(N, DeqFront, k + 1) \in SUBSET Slots
        /\ Cardinality(Run(N, DeqFront, k + 1)) = k + 1
    BY <1>1, <1>3, RunFacts DEF Slots
  <2>3. Slots \cap Run(N, DeqFront, k + 1) = Run(N, DeqFront, k + 1)
    BY <2>2
  <2>4. /\ IsFiniteSet(Slots \ Run(N, DeqFront, k + 1))
        /\ Cardinality(Slots \ Run(N, DeqFront, k + 1))
             = Cardinality(Slots) - Cardinality(Slots \cap Run(N, DeqFront, k + 1))
    BY <2>1, FS_Difference, Zenon
  <2> QED BY <2>1, <2>2, <2>3, <2>4, Zenon
<1> HIDE DEF Rest, g
<1>8. IsFiniteSet(Fifo!InHand) /\ Cardinality(Fifo!InHand) <= Cardinality(Rest)
  BY <1>6, <1>7, FS_Injection
<1>9. Cardinality(Fifo!InHand) \in Nat
  BY <1>8, FS_CardinalityType
<1> QED BY <1>3, <1>4, <1>7, <1>8, <1>9

\* A claim reserves an entry at the end.
LEMMA ClaimIsReserve ==
  ASSUME IInv, IInv', OffsetsKept, PendingRun, InOrder, UNCHANGED mode,
         NEW e \in Enqueuers, e \in mode.enqueuers, EnqStep(e), Claims(e)
  PROVE  Fifo!Reserve(e) /\ PendingRun'
<1>1. PICK k \in 0 .. N : PendingIs(k)
  BY DEF PendingRun
<1>2. /\ N \in Nat \ {0} /\ DeqFront \in 0 .. N - 1 /\ DeqFront' = DeqFront
      /\ eold[e] = EnqFront /\ EnqFront' = Succ(EnqFront) /\ EnqFront \in Slots
  BY StepEnqFront, FrontsAre DEF FrontFacts, Slots
<1>3. /\ k < N /\ k + 1 \in 0 .. N
      /\ Run(N, DeqFront, k + 1) = PendingSlots \cup {eold[e]}
      /\ k + Fifo!Cardinality(Fifo!InHand) < N
  BY <1>1, <1>2, RoomToClaim, FifoCardinality
<1>4. PendingIs(k + 1)'
  <2>1. PendingSlots' = PendingSlots \cup {eold[e]}
    BY EnqSlots
  <2>2. EnqFront' = At(N, DeqFront, k + 2)
    BY <1>1, <1>2, <1>3, SuccIsNext, RunFacts DEF PendingIs
  <2>3. k + 1 + 1 = k + 2
    OBVIOUS
  <2> QED BY <1>2, <1>3, <2>1, <2>2, <2>3 DEF PendingIs
<1>5. CellFacts /\ CellFacts'
  BY CellsRead, PTL
<1>6. Pending = Reads(N, Cells, DeqFront, k)
  BY <1>1, <1>5 DEF CellFacts
<1>7. Pending' = Reads(N, Cells', DeqFront, k + 1)
  <2>1. Pending' = Reads(N, Cells', DeqFront', k + 1)
    BY <1>3, <1>4, <1>5 DEF CellFacts
  <2> QED BY <1>2, <2>1
<1>8. \A s \in Run(N, DeqFront, k) : Cells'[s] = Cells[s]
  <2>1. ~Own(e)
    BY DEF Own, Claims, EnqMove, EnqTest, EnqWait, GoE
  <2> QED BY <1>1, <2>1, EnqCells DEF PendingIs
<1>9. Cells'[eold[e]] = Fifo!Reserved(e)
  <2>1. Writing(e)' /\ eold'[e] = eold[e]
    BY DEF Claims, EnqMove, EnqTest, EnqWait, Writing, GoE, IInv, TypeOK
  <2> QED BY <1>5, <2>1 DEF CellFacts, Fifo!Reserved
<1>10. Pending' = Append(Pending, Fifo!Reserved(e))
  <2>1. Reads(N, Cells', DeqFront, k + 1)
          = Append(Reads(N, Cells, DeqFront, k), Cells'[At(N, DeqFront, k + 1)])
    BY <1>2, <1>3, <1>8, ReadsAppend
  <2>2. At(N, DeqFront, k + 1) = eold[e]
    BY <1>1, <1>2 DEF PendingIs
  <2> QED BY <1>6, <1>7, <1>9, <2>1, <2>2
<1>11. Len(Pending) = k
  <2>1. Len(Reads(N, Cells, DeqFront, k)) = k
    BY <1>2, ReadsLength
  <2> QED BY <1>6, <2>1, Zenon
<1>12. InHands' = InHands
  BY EnqSlots
<1> QED BY <1>3, <1>4, <1>10, <1>11, <1>12 DEF Fifo!Reserve, PendingRun

\* A step that leaves the fronts, the pending slots and their cells alone leaves
\* the sequence of them alone.
LEMMA PendingIsSame ==
  ASSUME IInv, IInv', NEW k \in 0 .. N, PendingIs(k),
         DeqFront' = DeqFront, EnqFront' = EnqFront, PendingSlots' = PendingSlots,
         \A s \in PendingSlots : Cells'[s] = Cells[s]
  PROVE  Pending' = Pending /\ PendingIs(k)'
<1>1. CellFacts /\ CellFacts'
  BY CellsRead, PTL
<1>2. PendingIs(k)'
  BY DEF PendingIs
<1>3. /\ Pending = Reads(N, Cells, DeqFront, k)
      /\ Pending' = Reads(N, Cells', DeqFront', k)
  BY <1>1, <1>2 DEF CellFacts
<1>4. PICK C, D, o : C = Cells /\ D = Cells' /\ o = DeqFront
  OBVIOUS
<1>5. o \in 0 .. N - 1 /\ \A s \in Run(N, o, k) : D[s] = C[s]
  BY <1>4, FrontsAre DEF PendingIs, FrontFacts, Slots
<1>6. Reads(N, D, o, k) = Reads(N, C, o, k)
  BY <1>5, ReadsSame
<1>7. Pending' = Pending
  BY <1>3, <1>4, <1>6, Zenon
<1> QED BY <1>2, <1>7

\* FLAG_OWN fills the entry with what was copied into its slot.
LEMMA OwnIsFill ==
  ASSUME IInv, IInv', OffsetsKept, InOrder, NEW k \in 0 .. N, PendingIs(k),
         UNCHANGED mode, NEW e \in Enqueuers, e \in mode.enqueuers, EnqStep(e), Own(e)
  PROVE  (\E v \in Items : Fifo!Fill(e, v)) /\ PendingIs(k)'
<1>1. ~Claims(e)
  BY DEF Own, Claims, EnqMove, EnqTest, EnqWait, GoE
<1>2. /\ N \in Nat \ {0} /\ DeqFront \in 0 .. N - 1 /\ DeqFront' = DeqFront
      /\ EnqFront' = EnqFront
  BY <1>1, StepEnqFront, FrontsAre DEF FrontFacts, Slots
<1>3. /\ PendingSlots' = PendingSlots /\ InHands' = InHands
      /\ \A s \in Slots : Waiting(s)' <=> Waiting(s) \/ s = eold[e]
  BY <1>1, EnqSlots
<1>4. PendingIs(k)'
  BY <1>2, <1>3 DEF PendingIs
<1>5. CellFacts /\ CellFacts'
  BY CellsRead, PTL
<1>6. /\ Pending = Reads(N, Cells, DeqFront, k)
      /\ Pending' = Reads(N, Cells', DeqFront, k)
  <2>1. Pending' = Reads(N, Cells', DeqFront', k)
    BY <1>4, <1>5 DEF CellFacts
  <2>2. Pending = Reads(N, Cells, DeqFront, k)
    BY <1>5 DEF CellFacts
  <2> QED BY <1>2, <2>1, <2>2
<1>7. /\ Writing(e) /\ eold[e] \in PendingSlots /\ eold[e] \in Slots
      /\ UNCHANGED data /\ data[eold[e]] \in Items
  BY DEF Own, GoE, Writing, PendingSlots, Claimed, IInv, TypeOK, Places, PublishedData
<1>8. PICK j \in 1 .. k : At(N, DeqFront, j) = eold[e]
  <2>1. eold[e] \in Run(N, DeqFront, k)
    BY <1>7 DEF PendingIs
  <2> QED BY <2>1 DEF Run
<1>9. Cells[eold[e]] = Fifo!Reserved(e)
  BY <1>5, <1>7 DEF CellFacts
<1>10. Cells'[eold[e]] = Fifo!Filled(data[eold[e]])
  <2>1. PICK t \in Slots : t = eold[e]
    BY <1>7
  <2>2. Waiting(t)'
    BY <1>3, <2>1
  <2>3. Cells'[t] = [by |-> NULL, val |-> data'[t]]
    BY <1>5, <2>2 DEF CellFacts, Fifo!Filled
  <2> QED BY <1>7, <2>1, <2>3 DEF Fifo!Filled
<1>11. \A s \in Run(N, DeqFront, k) \ {At(N, DeqFront, j)} : Cells'[s] = Cells[s]
  <2> SUFFICES ASSUME NEW s \in PendingSlots, s # eold[e] PROVE Cells'[s] = Cells[s]
    BY <1>8 DEF PendingIs
  <2> QED BY EnqCells
<1>12. Pending' = [Pending EXCEPT ![j] = Cells'[At(N, DeqFront, j)]]
  <2>1. PICK C, D, o : C = Cells /\ D = Cells' /\ o = DeqFront
    OBVIOUS
  <2>2. o \in 0 .. N - 1 /\ SameBut(At(N, o, j), Run(N, o, k), C, D)
    BY <1>2, <1>11, <2>1 DEF SameBut
  <2>3. Reads(N, D, o, k) = [Reads(N, C, o, k) EXCEPT ![j] = D[At(N, o, j)]]
    BY <1>2, <2>2, ReadsExcept
  <2> QED BY <1>6, <2>1, <2>3, Zenon
<1>13. Pending[j] = Cells[At(N, DeqFront, j)] /\ j \in DOMAIN Pending
  <2>1. PICK C, o : C = Cells /\ o = DeqFront
    OBVIOUS
  <2>2. /\ DOMAIN Reads(N, C, o, k) = 1 .. k
        /\ Reads(N, C, o, k)[j] = C[At(N, o, j)]
    BY <1>2, <2>1, ReadsLength
  <2> QED BY <1>6, <2>1, <2>2, Zenon
<1> QED BY <1>3, <1>4, <1>7, <1>8, <1>9, <1>10, <1>12, <1>13 DEF Fifo!Fill

\* A dequeuer that is sure of the slot at the front takes the entry in it.
LEMMA TakeIsTake ==
  ASSUME IInv, IInv', OffsetsKept, InOrder, NEW k \in 0 .. N, PendingIs(k),
         UNCHANGED mode, NEW d \in Dequeuers, d \in mode.dequeuers, DeqStep(d), Takes(d)
  PROVE  Fifo!Take(d) /\ PendingRun'
<1>1. /\ N \in Nat \ {0} /\ DeqFront \in 0 .. N - 1 /\ DeqFront \in Slots
      /\ EnqFront' = EnqFront /\ dold[d] = DeqFront
      /\ DeqFront' = At(N, DeqFront, 2)
  BY StepDeqFront, FrontsAre, SuccIsNext DEF FrontFacts, Slots
<1>2. /\ DeqFront \in WaitingSlots /\ UNCHANGED <<data, dold>>
      /\ ~Holding(d) /\ Holding(d)'
      /\ \A c \in Dequeuers \ {d} : Holding(c)' <=> Holding(c)
  BY <1>1, TakesWaiting
<1>3. PendingSlots' = PendingSlots \ {DeqFront}
  BY <1>1, DeqSlots
<1>4. k > 0 /\ k - 1 \in 0 .. N
  <2>1. DeqFront \in PendingSlots
    BY <1>2 DEF PendingSlots, WaitingSlots
  <2>2. k = 0 => PendingSlots = {}
    BY <1>1, RunFacts DEF PendingIs
  <2> QED BY <2>1, <2>2
<1>5. PendingIs(k - 1)'
  <2>1. PICK o \in 0 .. N - 1 : o = DeqFront
    BY <1>1
  <2>2. /\ Run(N, At(N, o, 2), k - 1) = Run(N, o, k) \ {o}
        /\ At(N, At(N, o, 2), k) = At(N, o, k + 1)
    <3>1. Run(N, At(N, o, 2), k - 1) = Run(N, o, k) \ {o}
      BY <1>1, <1>4, RunShrinks, Zenon
    <3>2. At(N, At(N, o, 2), k) = At(N, o, k + 1)
      BY <1>1, <1>4, RunFacts
    <3> QED BY <3>1, <3>2
  <2>3. k - 1 + 1 = k
    OBVIOUS
  <2>4. EnqFront = At(N, o, k + 1) /\ PendingSlots = Run(N, o, k)
    BY <2>1, Zenon DEF PendingIs
  <2>5. EnqFront' = At(N, DeqFront', k) /\ PendingSlots' = Run(N, DeqFront', k - 1)
    BY <1>1, <1>3, <2>1, <2>2, <2>4, Zenon
  <2> QED BY <2>3, <2>5 DEF PendingIs
<1>6. CellFacts /\ CellFacts'
  BY CellsRead, PTL
<1>7. Pending = Reads(N, Cells, DeqFront, k)
  BY <1>6 DEF CellFacts
<1>8. Pending' = Reads(N, Cells', At(N, DeqFront, 2), k - 1)
  <2>1. Pending' = Reads(N, Cells', DeqFront', k - 1)
    BY <1>4, <1>5, <1>6 DEF CellFacts
  <2> QED BY <1>1, <2>1
<1>9. \A s \in Run(N, DeqFront, k) \ {DeqFront} : Cells'[s] = Cells[s]
  <2> SUFFICES ASSUME NEW s \in PendingSlots, s # DeqFront PROVE Cells'[s] = Cells[s]
    BY DEF PendingIs
  <2> QED BY <1>1, DeqCells
<1>10. /\ Pending # << >> /\ Head(Pending) = Cells[DeqFront]
       /\ Pending' = Tail(Pending)
  <2>1. PICK C, D, o : C = Cells /\ D = Cells' /\ o = DeqFront
    OBVIOUS
  <2>2. o \in 0 .. N - 1 /\ SameBut(o, Run(N, o, k), C, D)
    BY <1>1, <1>9, <2>1 DEF SameBut
  <2>3. Tail(Reads(N, C, o, k)) = Reads(N, D, At(N, o, 2), k - 1)
    BY <1>1, <1>4, <2>2, ReadsTail
  <2>4. Reads(N, C, o, k) # << >> /\ Head(Reads(N, C, o, k)) = C[o]
    BY <1>1, <1>4, <2>2, ReadsHead
  <2> QED BY <1>7, <1>8, <2>1, <2>3, <2>4, Zenon
<1>11. Head(Pending).val = data[DeqFront] /\ data[DeqFront] # NULL
  <2>1. Cells[DeqFront] = [by |-> NULL, val |-> data[DeqFront]]
    BY <1>1, <1>2, <1>6 DEF CellFacts, Fifo!Filled, WaitingSlots
  <2>2. Cells[DeqFront].val = data[DeqFront]
    BY <2>1
  <2> QED BY <1>2, <1>10, <2>2, WaitingData
<1>12. InHands' = [InHands EXCEPT ![d] = data[DeqFront]]
  <2>1. InHands' = [InHands EXCEPT ![d] = data[dold[d]]]
    BY <1>2, HandsTake
  <2> QED BY <1>1, <2>1, Zenon
<1>13. InHands[d] = NULL
  BY <1>2, InHandsHeld
<1> QED BY <1>4, <1>5, <1>10, <1>11, <1>12, <1>13 DEF Fifo!Take, PendingRun

\* Every other step of a dequeuer leaves the entries in the queue alone, and only
\* Release changes what is in hands.
LEMMA DeqFifo ==
  ASSUME IInv, IInv', OffsetsKept, InOrder, NEW k \in 0 .. N, PendingIs(k),
         UNCHANGED mode, NEW d \in Dequeuers, d \in mode.dequeuers, DeqStep(d)
  PROVE  [Fifo!Next]_(Fifo!vars) /\ PendingRun'
<1>1. CASE Takes(d)
  BY <1>1, TakeIsTake DEF Fifo!Next
<1>2. CASE ~Takes(d)
  <2>1. /\ DeqFront' = DeqFront /\ EnqFront' = EnqFront /\ UNCHANGED data
        /\ PendingSlots' = PendingSlots
    BY <1>2, StepDeqFront, DeqSlots
  <2>2. \A s \in PendingSlots : Cells'[s] = Cells[s]
    BY <1>2, DeqCells
  <2>3. Pending' = Pending /\ PendingRun'
    BY <2>1, <2>2, PendingIsSame DEF PendingRun
  <2>4. CASE Release(d)
    <3>1. Holding(d)
      BY <2>4 DEF Release, GoD, Holding
    <3>2. InHands' = [InHands EXCEPT ![d] = NULL]
      BY <2>4 DEF Release, GoD, InHands, Holding, IInv, TypeOK
    <3>3. InHands[d] # NULL
      BY <3>1, InHandsHeld
    <3> QED BY <2>3, <3>2, <3>3 DEF Fifo!Next, Fifo!Release
  <2>5. CASE ~Release(d)
    <3>1. \A c \in Dequeuers : /\ Holding(c)' <=> Holding(c)
                               /\ Holding(c) => dold'[c] = dold[c]
      BY <1>2, <2>5 DEF Takes, DeqStep, DeqRead, DeqInc, DeqMark, DeqNone, DeqUndo, GoD,
                        Holding, IInv, TypeOK
    <3>2. InHands' = InHands
      BY <2>1, <3>1 DEF InHands
    <3> QED BY <2>3, <3>2 DEF Fifo!vars
  <2> QED BY <2>4, <2>5
<1> QED BY <1>1, <1>2

\* An enqueuer claims an entry, fills it or leaves the queue alone.
LEMMA EnqFifo ==
  ASSUME IInv, IInv', OffsetsKept, InOrder, NEW k \in 0 .. N, PendingIs(k),
         UNCHANGED mode, NEW e \in Enqueuers, e \in mode.enqueuers,
         EnqRead(e) \/ EnqStep(e)
  PROVE  [Fifo!Next]_(Fifo!vars) /\ PendingRun'
<1>1. CASE Claims(e)
  <2>1. EnqStep(e) /\ PendingRun
    BY <1>1 DEF Claims, EnqStep, PendingRun
  <2> QED BY <1>1, <2>1, ClaimIsReserve DEF Fifo!Next
<1>2. CASE Own(e)
  <2>1. EnqStep(e)
    BY <1>2 DEF EnqStep
  <2> QED BY <1>2, <2>1, OwnIsFill DEF Fifo!Next, PendingRun
<1>3. CASE ~Claims(e) /\ ~Own(e)
  <2>1. /\ DeqFront' = DeqFront /\ EnqFront' = EnqFront
        /\ PendingSlots' = PendingSlots /\ InHands' = InHands
    BY <1>3, StepEnqFront, EnqSlots
  <2>2. \A s \in PendingSlots : Cells'[s] = Cells[s]
    BY <1>3, EnqCells
  <2>3. Pending' = Pending /\ PendingRun'
    BY <2>1, <2>2, PendingIsSame DEF PendingRun
  <2> QED BY <2>1, <2>3 DEF Fifo!vars
<1> QED BY <1>1, <1>2, <1>3

\* Every step of a queue that keeps the order is one of FifoQueue's or none.
LEMMA StepFifo ==
  ASSUME IInv, IInv', OffsetsKept, InOrder, PendingRun, [Next]_vars
  PROVE  [Fifo!Next]_(Fifo!vars) /\ PendingRun'
<1>1. PICK k \in 0 .. N : PendingIs(k)
  BY DEF PendingRun
<1>2. mode.enqueuers \subseteq Enqueuers /\ mode.dequeuers \subseteq Dequeuers
  BY DEF IInv, TypeOK
<1>3. CASE Next
  BY <1>1, <1>2, <1>3, EnqFifo, DeqFifo DEF Next
<1>4. CASE UNCHANGED vars
  <2>1. Pending' = Pending /\ InHands' = InHands
    BY <1>4 DEF vars, Pending, PendingCount, CellAt, Claimer, Claimed, Writing, Waiting,
                HeldSlots, Holding, EnqFront, DeqFront, Succ, EnqAtomic, InHands
  <2>2. PendingRun'
    BY <1>1, <1>4 DEF vars, PendingRun, PendingIs, PendingSlots, Claimed, Writing, Waiting,
                HeldSlots, Holding, EnqFront, DeqFront, Succ, EnqAtomic
  <2> QED BY <2>1, <2>2 DEF Fifo!vars
<1> QED BY <1>3, <1>4

\* A custom queue neither side of which moves its offset before it waits is a
\* bounded FIFO queue, for every size, sets of threads and choice of the other
\* variants: entries leave once, whole, in the order in which the enqueuers came
\* to own their slots, whichever compare-and-swaps fail and are undone.
THEOREM CustomIsFifo == Spec => ImplementsFifo
<1> DEFINE Ordered == InOrder => PendingRun
<1>1. Init => (InOrder => Fifo!Init) /\ OffsetsKept /\ Ordered
  <2> SUFFICES ASSUME Init PROVE Fifo!Init /\ OffsetsKept /\ PendingRun
    OBVIOUS
  <2>1. PendingSlots = {} /\ 0 \in 0 .. N - 1 /\ 0 \in 0 .. N
    BY DEF Init, PendingSlots, Waiting, Claimed, Writing, OWN, TAKEN
  <2>2. DeqFront = 0 /\ EnqFront = 0
    BY DEF Init, DeqFront, EnqFront
  <2>3. PendingIs(0)
    <3>1. At(N, 0, 0 + 1) = 0 /\ Run(N, 0, 0) = {}
      BY <2>1, AtFacts DEF Run
    <3> QED BY <2>1, <2>2, <3>1 DEF PendingIs
  <2>4. PendingCount = 0
    BY <2>1, <2>3, InitIInv, PendingIsCounted DEF RunIsCounted
  <2>5. Pending = << >>
    BY <2>4 DEF Pending
  <2>6. InHands = [d \in Dequeuers |-> NULL]
    BY DEF Init, InHands, Holding
  <2>7. OffsetsKept
    BY DEF Init, OffsetsKept
  <2> QED BY <2>1, <2>3, <2>5, <2>6, <2>7 DEF Fifo!Init, PendingRun
<1>2. IInv /\ OffsetsKept /\ [Next]_vars => OffsetsKept'
  BY StepOffsets
<1>3. UNCHANGED mode => (InOrder' <=> InOrder)
  BY DEF InOrder, EnqBlocking, EnqAtomic, DeqBlocking, DeqAtomic
<1>4. [Next]_vars => UNCHANGED mode
  BY DEF Next, vars
<1>5. IInv /\ IInv' /\ OffsetsKept /\ Ordered /\ [Next]_vars
        => Ordered' /\ [InOrder => Fifo!Next]_(Fifo!vars)
  BY <1>3, <1>4, StepFifo
<1> HIDE DEF Ordered
<1> QED BY <1>1, <1>2, <1>5, CustomInvariant, PTL DEF Spec, ImplementsFifo
=============================================================================
