---------------------------- MODULE CacheMapProofs ----------------------------
(***************************************************************************)
(* The cache with its store is one map (KeyValue), for every number of     *)
(* requests, keys, buckets and items to a bucket and for every policy, when *)
(* the requests of one key go to one process, or with write-back when no    *)
(* bucket has to put an item out.                                          *)
(***************************************************************************)
EXTENDS CacheProofs

USE CacheSize, CacheHash, CacheNone

DirtyVictim(p) == cache_item[p] # NoItem /\ cache_item[p].evicted = DIRTY + EVICTED
InHand(k) == \E p \in Procs : DirtyVictim(p) /\ cache_item[p].key = k

\* Where the value of a key is.
IsValue(k, v) ==
  \/ /\ WriteBack
     /\ \E s \in Slots : items[BucketOf[k]][s].key = k /\ items[BucketOf[k]][s].val = v
  \/ /\ WriteBack /\ ~IsCached(k)
     /\ \E p \in Procs : DirtyVictim(p) /\ cache_item[p].key = k /\ cache_item[p].val = v
  \/ /\ WriteBack => ~IsCached(k) /\ ~InHand(k)
     /\ store[k] = v

\* Two requests have items of different keys.
LEMMA ItemsDiffer ==
  ASSUME LockInv, NEW p \in Procs, NEW q \in Procs, cache_item[p] # NoItem,
         cache_item[q] # NoItem, cache_item[p].key = cache_item[q].key
  PROVE  p = q
  BY DEF LockInv, LockGoesWithItem

\* A key is in one slot of its bucket.
LEMMA SlotsDiffer ==
  ASSUME LockInv, NEW k \in Keys, NEW s \in Slots, NEW t \in Slots,
         items[BucketOf[k]][s].key = k, items[BucketOf[k]][t].key = k
  PROVE  s = t
<1>1. items[BucketOf[k]][s] # NoItem /\ BucketOf[k] \in Buckets
  BY ItemFacts
<1> QED BY <1>1 DEF LockInv, OneItemPerKey

\* The map has one value for a key, and it is there.
MapHasValues == LockInv => \A k \in Keys : \A v : KV[k] = v <=> IsValue(k, v)

\* The value of a key in the map KV is the one that IsValue finds.
LEMMA KeyHasValue == MapHasValues
<1> SUFFICES ASSUME LockInv, NEW k \in Keys PROVE \A v : KV[k] = v <=> IsValue(k, v)
  BY DEF MapHasValues
<1> DEFINE H == Holding(k, BucketOf[k])
<1>1. CASE WriteBack /\ IsCached(k)
  <2>1. PICK s \in Slots : items[BucketOf[k]][s].key = k
    BY <1>1 DEF IsCached
  <2>2. H = {s}
    BY <2>1, SlotsDiffer DEF Holding
  <2>3. (CHOOSE t \in H : TRUE) = s
    BY <2>2
  <2>4. KV[k] = items[BucketOf[k]][s].val
    BY <1>1, <2>2, <2>3 DEF KV
  <2> QED BY <1>1, <2>1, <2>4, SlotsDiffer DEF IsValue
<1>2. CASE WriteBack /\ ~IsCached(k) /\ InHand(k)
  <2>1. PICK p \in Procs : DirtyVictim(p) /\ cache_item[p].key = k
    BY <1>2 DEF InHand
  <2>2. \A q \in Procs : DirtyVictim(q) /\ cache_item[q].key = k => q = p
    BY <2>1, ItemsDiffer DEF DirtyVictim
  <2>3. Victims(k) = {cache_item[p]}
    BY <2>1, <2>2 DEF Victims, DirtyVictim
  <2>4. (CHOOSE it \in Victims(k) : TRUE) = cache_item[p]
    BY <2>3
  <2>5. H = {}
    BY <1>2 DEF IsCached, Holding
  <2>6. KV[k] = cache_item[p].val
    BY <1>2, <2>3, <2>4, <2>5 DEF KV
  <2> QED BY <1>2, <2>1, <2>2, <2>6 DEF IsValue, IsCached
<1>3. CASE WriteBack => ~IsCached(k) /\ ~InHand(k)
  <2>1. WriteBack => H = {} /\ Victims(k) = {}
    BY <1>3 DEF IsCached, Holding, InHand, Victims, DirtyVictim
  <2>2. KV[k] = store[k]
    BY <2>1 DEF KV
  <2> QED BY <1>3, <2>2 DEF IsValue, IsCached, InHand
<1> QED BY <1>1, <1>2, <1>3

\* The same after a step.
LEMMA KeyHasValueNext == MapHasValues'
  BY KeyHasValue, PTL

\* A step that keeps the values where they are, or moves them, keeps the map.
LEMMA KeepsMap ==
  ASSUME LockInv, LockInv', \A k \in Keys : \A v : IsValue(k, v) => IsValue(k, v)'
  PROVE  KV' = KV
<1>1. \A k \in Keys : KV'[k] = KV[k]
  <2> SUFFICES ASSUME NEW k \in Keys PROVE KV'[k] = KV[k]
    OBVIOUS
  <2>1. PICK v : KV[k] = v
    OBVIOUS
  <2>2. IsValue(k, v)
    BY <2>1, KeyHasValue DEF MapHasValues
  <2>3. IsValue(k, v)'
    BY <2>2
  <2>4. KV'[k] = v
    BY <2>3, KeyHasValueNext DEF MapHasValues
  <2> QED BY <2>1, <2>4
<1> QED BY <1>1 DEF KV

-----------------------------------------------------------------------------
(* What the steps do to the map.                                           *)

\* A dirty victim that its request has written to the store is there.
VictimStored == WriteBack =>
  \A p \in Procs : pc[p] \in {"out", "release", "free"} /\ DirtyVictim(p) =>
    store[cache_item[p].key] = cache_item[p].val

\* An item that is no dirty victim, taken or given back, says nothing of the map.
LEMMA HandKeepsMap ==
  ASSUME LockInv, LockInv', UNCHANGED <<policy, items, store>>,
         \A q \in Procs : /\ DirtyVictim(q)' <=> DirtyVictim(q)
                          /\ DirtyVictim(q) => cache_item'[q] = cache_item[q]
  PROVE  KV' = KV
<1>1. ASSUME NEW k \in Keys, NEW v, IsValue(k, v)
      PROVE  IsValue(k, v)'
  BY <1>1 DEF IsValue, IsCached, InHand, WriteBack
<1> QED BY <1>1, KeepsMap

\* With write-through the map is the store.
LEMMA ThroughIsStore ==
  ASSUME ~WriteBack, UNCHANGED policy
  PROVE  KV = [k \in Keys |-> store[k]] /\ KV' = [k \in Keys |-> store'[k]]
  BY DEF KV, WriteBack

\* A victim is the value of its key before it is written and after.
LEMMA WriteVictimKeepsMap ==
  ASSUME LockInv, LockInv', NEW p \in Procs, WriteBack, WriteVictim(p),
         UNCHANGED <<policy, items, cache_item>>
  PROVE  KV' = KV
<1>1. WriteBack' /\ \A k : IsCached(k)' = IsCached(k) /\ InHand(k)' = InHand(k)
  BY DEF WriteBack, IsCached, InHand, DirtyVictim
<1>2. ASSUME NEW k \in Keys, store'[k] # store[k]
      PROVE  InHand(k)
  BY <1>2 DEF WriteVictim, LockInv, Types, InHand, DirtyVictim
<1>3. ASSUME NEW k \in Keys, NEW v, IsValue(k, v)
      PROVE  IsValue(k, v)'
  BY <1>1, <1>2, <1>3 DEF IsValue, DirtyVictim
<1> QED BY <1>3, KeepsMap

\* A victim is freed when the store has its value.
LEMMA FreeKeepsMap ==
  ASSUME LockInv, LockInv', NEW p \in Procs, Take(p, NoItem),
         UNCHANGED <<policy, items, store>>,
         DirtyVictim(p) => store[cache_item[p].key] = cache_item[p].val
  PROVE  KV' = KV
<1>1. WriteBack' = WriteBack /\ \A k : IsCached(k)' = IsCached(k)
  BY DEF WriteBack, IsCached
<1>2. /\ ~DirtyVictim(p)'
      /\ \A q \in Procs : q # p => /\ cache_item'[q] = cache_item[q]
                                   /\ DirtyVictim(q)' = DirtyVictim(q)
  BY DEF LockInv, Types, Take, DirtyVictim
<1>3. ASSUME NEW k \in Keys, NEW v, IsValue(k, v)
      PROVE  IsValue(k, v)'
  <2>1. CASE /\ WriteBack
             /\ \E s \in Slots : /\ items[BucketOf[k]][s].key = k
                                 /\ items[BucketOf[k]][s].val = v
    BY <1>1, <2>1 DEF IsValue
  <2>2. ASSUME WriteBack, ~IsCached(k), NEW q \in Procs, DirtyVictim(q),
               cache_item[q].key = k, cache_item[q].val = v
        PROVE  IsValue(k, v)'
    <3>1. CASE q = p
      <4>1. \A r \in Procs : DirtyVictim(r) /\ cache_item[r].key = k => r = p
        BY <2>2, <3>1, ItemsDiffer DEF DirtyVictim
      <4>2. ~InHand(k)'
        BY <1>2, <4>1 DEF InHand
      <4> QED BY <1>1, <2>2, <3>1, <4>2 DEF IsValue
    <3>2. CASE q # p
      BY <1>1, <1>2, <2>2, <3>2 DEF IsValue
    <3> QED BY <3>1, <3>2
  <2>3. CASE (WriteBack => ~IsCached(k) /\ ~InHand(k)) /\ store[k] = v
    <3>1. WriteBack => ~InHand(k)'
      BY <1>2, <2>3 DEF InHand
    <3> QED BY <1>1, <2>3, <3>1 DEF IsValue
  <2> QED BY <1>3, <2>1, <2>2, <2>3 DEF IsValue
<1> QED BY <1>3, KeepsMap

\* An item put into an unlocked bucket is the value of its key; the one it takes
\* the place of goes on as a victim, or is the store's if it is clean.
LEMMA PutMovesMap ==
  ASSUME LockInv, LockInv', CleanIsStored, NEW p \in Procs, WriteBack,
         NEW s \in Slots, NEW it \in Items,
         it.key = key[p], Insert(Bucket(p), s, it), lock[Bucket(p)] = None,
         cache_item[p] = NoItem, UNCHANGED <<policy, store>>,
         Holding(key[p], Bucket(p)) \subseteq {s},
         \/ items[Bucket(p)][s] = NoItem /\ UNCHANGED cache_item
         \/ items[Bucket(p)][s].key = key[p] /\ UNCHANGED cache_item
         \/ items[Bucket(p)][s].evicted = 0 /\ UNCHANGED cache_item
         \/ items[Bucket(p)][s] # NoItem /\ Take(p, Evict(items[Bucket(p)][s]))
  PROVE  KV' = [KV EXCEPT ![key[p]] = it.val]
<1> DEFINE b == Bucket(p)
           old == items[b][s]
<1>0. /\ b \in Buckets /\ key[p] \in Keys /\ BucketOf[key[p]] = b /\ WriteBack'
      /\ old \in Items \cup {NoItem}
  BY CacheHash DEF LockInv, Types, Bucket, WriteBack
<1>1. \A c \in Buckets, t \in Slots :
        items'[c][t] = IF c = b /\ t = s THEN it ELSE items[c][t]
  BY <1>0 DEF LockInv, Types, Insert
<1>2. \A q \in Procs : cache_item[q] # NoItem => BucketOf[cache_item[q].key] # b
  BY CacheNone DEF LockInv, LockGoesWithItem
<1>3. \A q \in Procs : q # p => cache_item'[q] = cache_item[q]
  BY DEF Take, LockInv, Types
<1>4. \A k \in Keys : BucketOf[k] \in Buckets
  BY CacheHash
<1>5. ASSUME NEW k \in Keys, k # key[p], ~IsCached(k)
      PROVE  ~IsCached(k)'
  BY <1>1, <1>4, <1>5 DEF IsCached
<1>6. ASSUME NEW k \in Keys, k # key[p], BucketOf[k] = b, old.key = k
      PROVE  /\ ~IsCached(k)' /\ old # NoItem
             /\ ~InHand(k)' => old.evicted = 0
             /\ InHand(k)' => /\ DirtyVictim(p)'
                              /\ cache_item'[p].key = k /\ cache_item'[p].val = old.val
  <2>1. old # NoItem /\ old \in Items
    BY <1>0, <1>6, ItemFacts
  <2>2. ~IsEvicted(old)
    BY <1>0, <2>1 DEF LockInv, OneItemPerKey
  <2>3. \A t \in Slots : items[b][t].key = k => t = s
    BY <1>6, SlotsDiffer
  <2>4. ~IsCached(k)'
    BY <1>0, <1>1, <1>6, <2>3 DEF IsCached
  <2>5. \A q \in Procs : q # p => ~(DirtyVictim(q)' /\ cache_item'[q].key = k)
    BY <1>2, <1>3, <1>6 DEF DirtyVictim
  <2>6. /\ Evict(old) \in Items /\ Evict(old).key = k /\ Evict(old).val = old.val
        /\ Evict(old).evicted = old.evicted + EVICTED /\ Evict(old) # NoItem
    BY <1>6, <2>1, <2>2, EvictFacts, ItemFacts
  <2>7. old.evicted \in {0, DIRTY}
    BY <2>1, <2>2, ItemFacts DEF IsEvicted, DIRTY, EVICTED
  <2>8. CASE UNCHANGED cache_item /\ old.evicted = 0
    <3>1. ~DirtyVictim(p)'
      BY <2>8 DEF DirtyVictim
    <3> QED BY <2>1, <2>4, <2>5, <2>8, <3>1 DEF InHand
  <2>9. CASE Take(p, Evict(old))
    <3>1. cache_item'[p] = Evict(old)
      BY <2>9 DEF Take, LockInv, Types
    <3>2. DirtyVictim(p)' <=> old.evicted = DIRTY
      BY <2>6, <2>7, <3>1 DEF DirtyVictim, DIRTY, EVICTED
    <3> QED BY <2>1, <2>4, <2>5, <2>6, <2>7, <3>1, <3>2 DEF InHand
  <2> QED BY <1>6, <2>1, <2>8, <2>9
<1>7. ASSUME NEW k \in Keys, k # key[p], NEW v, IsValue(k, v)
      PROVE  IsValue(k, v)'
  <2>1. ASSUME NEW t \in Slots, items[BucketOf[k]][t].key = k, items[BucketOf[k]][t].val = v
        PROVE  IsValue(k, v)'
    <3>1. CASE BucketOf[k] = b /\ t = s
      <4>1. old.key = k /\ old.val = v
        BY <2>1, <3>1
      <4>2. CASE InHand(k)'
        <5>1. ~IsCached(k)' /\ DirtyVictim(p)' /\ cache_item'[p].key = k /\ cache_item'[p].val = v
          BY <1>6, <1>7, <3>1, <4>1, <4>2
        <5> QED BY <1>0, <5>1 DEF IsValue
      <4>3. CASE ~InHand(k)'
        <5>1. ~IsCached(k)' /\ old # NoItem /\ old.evicted = 0
          BY <1>6, <1>7, <3>1, <4>1, <4>3
        <5>2. old.val = store[old.key]
          BY <1>0, <5>1 DEF CleanIsStored
        <5> QED BY <1>0, <4>1, <4>3, <5>1, <5>2 DEF IsValue
      <4> QED BY <4>2, <4>3
    <3>2. CASE ~(BucketOf[k] = b /\ t = s)
      <4>1. items'[BucketOf[k]][t] = items[BucketOf[k]][t]
        BY <1>1, <1>4, <3>2
      <4> QED BY <1>0, <2>1, <4>1 DEF IsValue
    <3> QED BY <3>1, <3>2
  <2>2. ASSUME ~IsCached(k), NEW q \in Procs, DirtyVictim(q), cache_item[q].key = k,
               cache_item[q].val = v
        PROVE  IsValue(k, v)'
    <3>1. q # p /\ cache_item'[q] = cache_item[q]
      BY <1>3, <2>2 DEF DirtyVictim
    <3> QED BY <1>0, <1>5, <1>7, <2>2, <3>1 DEF IsValue, DirtyVictim
  <2>3. ASSUME ~IsCached(k), ~InHand(k), store[k] = v
        PROVE  IsValue(k, v)'
    <3>1. ~InHand(k)'
      <4>1. ASSUME NEW q \in Procs, DirtyVictim(q)', cache_item'[q].key = k
            PROVE  FALSE
        <5>1. q = p /\ Take(p, Evict(old)) /\ old # NoItem
          BY <1>3, <2>3, <4>1 DEF InHand, DirtyVictim
        <5>2. cache_item'[p] = Evict(old) /\ ~IsEvicted(old) /\ old \in Items
          BY <1>0, <5>1 DEF Take, LockInv, Types, OneItemPerKey
        <5>3. old.key = k
          BY <4>1, <5>1, <5>2, EvictFacts
        <5>4. BucketOf[k] = b
          BY <1>0, <5>1, <5>3 DEF LockInv, OneItemPerKey
        <5> QED BY <2>3, <5>3, <5>4 DEF IsCached
      <4> QED BY <4>1 DEF InHand
    <3> QED BY <1>5, <1>7, <2>3, <3>1 DEF IsValue
  <2> QED BY <1>7, <2>1, <2>2, <2>3 DEF IsValue
<1>8. PICK k0 \in Keys : k0 = key[p]
  BY <1>0
<1>9. IsValue(k0, it.val)'
  BY <1>0, <1>1, <1>8 DEF IsValue
<1>10. KV'[k0] = it.val
  BY <1>9, KeyHasValueNext DEF MapHasValues
<1>11. ASSUME NEW k \in Keys, k # k0 PROVE KV'[k] = KV[k]
  <2>1. PICK v : KV[k] = v
    OBVIOUS
  <2>2. IsValue(k, v)'
    BY <1>7, <1>8, <1>11, <2>1, KeyHasValue DEF MapHasValues
  <2> QED BY <2>1, <2>2, KeyHasValueNext DEF MapHasValues
<1>12. KV = [k \in Keys |-> KV[k]] /\ KV' = [k \in Keys |-> KV'[k]]
  BY DEF KV
<1>13. \A k \in Keys : KV'[k] = [KV EXCEPT ![k0] = it.val][k]
  BY <1>10, <1>11, <1>12
<1> QED BY <1>8, <1>12, <1>13

-----------------------------------------------------------------------------
(* The steps of the map.                                                   *)

\* What each place in a request asks of the map.
Asks == \A p \in Procs :
  /\ pc[p] \in {"get", "query", "fill"} =>
       Request(p) = [op |-> "get", key |-> key[p]]
  /\ pc[p] \in {"delete", "write"} \/ (WriteBack /\ pc[p] = "put") =>
       Request(p) = [op |-> "set", key |-> key[p], val |-> val[p]]
  /\ pc[p] \in {"evict", "out", "write_victim", "free", "ack"} =>
       Request(p) = [op |-> "done", key |-> key[p], val |-> val[p]]
  /\ pc[p] \in {"idle", "release"} \/ (~WriteBack /\ pc[p] = "put") =>
       Request(p) = [op |-> "none"]

\* Request says of a process what its place says.
LEMMA WhatIsAsked == Asks
  BY DEF Asks, Request

\* The same after a step.
LEMMA WhatIsAskedNext == Asks'
  BY WhatIsAsked, PTL

\* A get has seen the value its key has.
SeenInv ==
  /\ seen = [p \in Procs |-> seen[p]]
  /\ \A p \in Procs : Requests[p].op = "get" =>
       Requests[p].key = key[p] /\ KV[key[p]] \in seen[p]
  /\ \A p \in Procs : Requests[p].op # "get" => seen[p] = {}

\* A request that gets is one that the map gets for.
LEMMA GetsKey == \A p \in Procs : Requests[p].op = "get" => Requests[p].key = key[p]
<1> SUFFICES ASSUME NEW p \in Procs, Request(p).op = "get" PROVE Request(p).key = key[p]
  BY DEF Requests
<1> QED BY DEF Request

\* The same after a step.
LEMMA GetsKeyNext == \A p \in Procs : Requests'[p].op = "get" => Requests'[p].key = key'[p]
<1> SUFFICES ASSUME NEW p \in Procs, Request(p)'.op = "get" PROVE Request(p)'.key = key'[p]
  BY DEF Requests
<1> QED BY DEF Request

\* What a get has seen is kept by a step of the cache as by one of the map.
LEMMA RemembersSeen ==
  ASSUME Remember
  PROVE  SeenInv' /\ Map!Remember
<1>1. SeenInv'
  BY GetsKeyNext DEF Remember, SeenInv
<1>2. Map!Remember
  BY GetsKeyNext DEF Remember, Map!Remember
<1> QED BY <1>1, <1>2

\* One request moves on.
LEMMA OneMoves ==
  ASSUME NEW p \in Procs, UNCHANGED policy, NEW r, Request(p)' = r,
         \A q \in Procs : q # p => pc'[q] = pc[q] /\ key'[q] = key[q] /\ val'[q] = val[q]
  PROVE  Requests' = [Requests EXCEPT ![p] = r]
<1>1. \A q \in Procs : q # p => Request(q)' = Request(q)
  BY DEF Request, WriteBack
<1> QED BY <1>1 DEF Requests

\* A step that changes neither the map nor a request is a stutter of the map.
LEMMA MapStutters ==
  ASSUME SeenInv, Remember, UNCHANGED policy, KV' = KV, Requests' = Requests
  PROVE  UNCHANGED Map!vars
<1>1. TryLock' = TryLock
  BY DEF TryLock
<1>2. \A q \in Procs : seen'[q] = seen[q]
  BY GetsKeyNext DEF Remember, SeenInv
<1>3. seen' = [q \in Procs |-> seen'[q]]
  BY DEF Remember
<1>4. seen' = seen
  BY <1>2, <1>3 DEF SeenInv
<1> QED BY <1>1, <1>4 DEF Map!vars

\* A process that was idle and has a request then has begun it.
LEMMA MapBegins ==
  ASSUME Remember, UNCHANGED policy, KV' = KV, NEW p \in Procs,
         NEW r \in Map!Gets \cup Map!Sets, Request(p) = [op |-> "none"],
         Requests' = [Requests EXCEPT ![p] = r]
  PROVE  Map!Next
<1>1. Requests[p] = Map!Idle
  BY DEF Requests, Map!Idle
<1>2. Map!Begin(p)
  BY <1>1 DEF Map!Begin
<1> QED BY <1>2, RemembersSeen DEF Map!Next, TryLock

\* A get that is done with a value it has seen has been answered by the map.
LEMMA MapAnswers ==
  ASSUME Types, Remember, UNCHANGED policy, KV' = KV, NEW p \in Procs, NEW v \in seen[p],
         Request(p) = [op |-> "get", key |-> key[p]],
         Requests' = [Requests EXCEPT ![p] = [op |-> "done", key |-> key[p], val |-> v]]
  PROVE  Map!Next
<1>1. Requests[p] = [op |-> "get", key |-> key[p]] /\ key[p] \in Keys
  BY DEF Requests, Types
<1>2. Requests[p] \in Map!Gets /\ Requests[p].key = key[p]
  BY <1>1 DEF Map!Gets
<1>3. Map!Answer(p)
  BY <1>2 DEF Map!Answer
<1> QED BY <1>3, RemembersSeen DEF Map!Next, TryLock

\* The value its key has is one that a get has seen.
LEMMA SeesMap ==
  ASSUME SeenInv, NEW p \in Procs, Request(p) = [op |-> "get", key |-> key[p]]
  PROVE  KV[key[p]] \in seen[p]
  BY DEF SeenInv, Requests

\* A set that is done and has its value in the map is a set of the map.
LEMMA MapSets ==
  ASSUME Types, Remember, UNCHANGED policy, NEW p \in Procs, val[p] # Absent,
         KV' = [KV EXCEPT ![key[p]] = val[p]],
         Request(p) = [op |-> "set", key |-> key[p], val |-> val[p]],
         Requests' = [Requests EXCEPT ![p] =
                        [op |-> "done", key |-> key[p], val |-> val[p]]]
  PROVE  Map!Next
<1>1. /\ Requests[p] = [op |-> "set", key |-> key[p], val |-> val[p]]
      /\ key[p] \in Keys /\ val[p] \in Vals
  BY DEF Requests, Types
<1>2. Requests[p] \in Map!Sets /\ Requests[p].key = key[p] /\ Requests[p].val = val[p]
  BY <1>1 DEF Map!Sets
<1>3. [Requests[p] EXCEPT !.op = "done"] = [op |-> "done", key |-> key[p], val |-> val[p]]
  BY <1>1
<1>4. Map!SetKey(p)
  BY <1>2, <1>3 DEF Map!SetKey
<1> QED BY <1>4, RemembersSeen DEF Map!Next, TryLock

\* A request that is over, answered or given up under TryLock, ends one of the map.
LEMMA MapEnds ==
  ASSUME Types, Remember, UNCHANGED policy, KV' = KV, NEW p \in Procs,
         \/ Request(p) = [op |-> "done", key |-> key[p], val |-> val[p]]
         \/ TryLock /\ Request(p) = [op |-> "get", key |-> key[p]]
         \/ TryLock /\ Request(p) = [op |-> "set", key |-> key[p], val |-> val[p]],
         Requests' = [Requests EXCEPT ![p] = [op |-> "none"]]
  PROVE  Map!Next
<1>1. key[p] \in Keys /\ val[p] \in Vals \cup {Absent} /\ Requests[p] = Request(p)
  BY DEF Requests, Types
<1>2. Requests[p] \in Map!Answers \/ (TryLock /\ Requests[p] # Map!Idle)
  BY <1>1 DEF Map!Answers, Map!Idle
<1>3. Map!End(p)
  BY <1>2 DEF Map!End, Map!Idle
<1> QED BY <1>3, RemembersSeen DEF Map!Next, TryLock

\* Between the miss and the fill the map has the store's value.
LEMMA FreshIsStored ==
  ASSUME LockInv, NEW p \in Procs, Fresh(p), pc[p] \in {"query", "fill"}
  PROVE  KV[key[p]] = store[key[p]]
<1>1. key[p] \in Keys /\ ~IsCached(key[p]) /\ ~InHand(key[p])
  BY DEF Fresh, InHand, LockInv, Types
<1>2. PICK v : v = store[key[p]]
  OBVIOUS
<1>3. IsValue(key[p], v)
  BY <1>1, <1>2 DEF IsValue
<1> QED BY <1>1, <1>2, <1>3, KeyHasValue DEF MapHasValues

-----------------------------------------------------------------------------
(* Every step of the cache is one of the map, or none.                      *)

\* A victim that is written stays written while a request has it.
LEMMA StepVictimStored ==
  ASSUME LockInv, AllFresh, VictimStored, UNCHANGED policy, NEW p \in Procs,
         Begin(p) \/ Step(p)
  PROVE  VictimStored'
<1> USE DEF LockInv, Types, Goto, bucketVars
<1>1. SUFFICES ASSUME WriteBack, NEW q \in Procs,
                      pc'[q] \in {"out", "release", "free"}, DirtyVictim(q)'
               PROVE  store'[cache_item'[q].key] = cache_item'[q].val
  BY DEF VictimStored, WriteBack
<1>2. Fresh(p)
  BY DEF AllFresh
<1>3. \A r \in Procs : r # p => pc'[r] = pc[r] /\ cache_item'[r] = cache_item[r]
  BY DEF Begin, Step, GiveUp, CacheGet, Query, CacheSetGet, GetEvict, GetOut,
         FreeOrRelease, CacheSet, SetEvict, Free, SetOut, CacheDelete, SetQuery, Take
<1>4. \/ UNCHANGED store
      \/ /\ GetEvict(p) \/ SetEvict(p)
         /\ WriteVictim(p) /\ UNCHANGED cache_item
  BY <1>1, <1>2 DEF Begin, Step, GiveUp, CacheGet, Query, CacheSetGet, GetEvict, GetOut,
         FreeOrRelease, CacheSet, SetEvict, Free, SetOut, CacheDelete, SetQuery, Fresh
<1>5. CASE q # p
  <2>1. /\ pc[q] \in {"out", "release", "free"} /\ DirtyVictim(q)
        /\ cache_item'[q] = cache_item[q]
    BY <1>1, <1>3, <1>5 DEF DirtyVictim
  <2>2. store[cache_item[q].key] = cache_item[q].val
    BY <1>1, <2>1 DEF VictimStored
  <2>3. WriteVictim(p) => store'[cache_item[q].key] = store[cache_item[q].key]
    <3>1. cache_item[q].key \in Keys
      BY <2>1, ItemFacts DEF DirtyVictim
    <3>2. WriteVictim(p) /\ store' # store => cache_item[p].key # cache_item[q].key
      BY <1>5, <2>1, ItemsDiffer DEF WriteVictim, DirtyVictim
    <3> QED BY <3>1, <3>2 DEF WriteVictim
  <2> QED BY <1>4, <2>1, <2>2, <2>3
<1>6. CASE q = p /\ (GetEvict(p) \/ SetEvict(p))
  <2>1. WriteVictim(p) /\ UNCHANGED cache_item /\ DirtyVictim(p)
    BY <1>1, <1>6 DEF GetEvict, SetEvict, DirtyVictim
  <2>2. store' = [store EXCEPT ![cache_item[p].key] = cache_item[p].val]
    BY <2>1 DEF WriteVictim, DirtyVictim
  <2>3. cache_item[p].key \in Keys
    BY <2>1, ItemFacts DEF DirtyVictim
  <2> QED BY <1>6, <2>1, <2>2, <2>3
<1>7. CASE q = p /\ ~(GetEvict(p) \/ SetEvict(p))
  <2>1. UNCHANGED store
    BY <1>4, <1>7
  <2>2. CASE CacheGet(p)
    <3>1. cache_item[p] = NoItem /\ Bucket(p) \in Buckets
      BY <2>2, CacheHash DEF CacheGet, LockGoesWithItem, Bucket
    <3>2. PICK s \in Holding(key[p], Bucket(p)) : cache_item'[p] = items[Bucket(p)][s]
      BY <1>1, <1>7, <2>2, <3>1 DEF CacheGet, Take, DirtyVictim
    <3>3. items[Bucket(p)][s] # NoItem /\ s \in Slots
      BY <1>1, <1>7, <3>2 DEF Holding, DirtyVictim
    <3>4. ~IsEvicted(cache_item'[p])
      BY <3>1, <3>2, <3>3 DEF OneItemPerKey
    <3> QED BY <1>1, <1>7, <3>4 DEF DirtyVictim, IsEvicted, DIRTY, EVICTED
  <2>3. CASE ~CacheGet(p)
    <3>1. /\ pc[p] \in {"out", "release", "free"} /\ UNCHANGED cache_item
      BY <1>1, <1>7, <2>3 DEF Begin, Step, GiveUp, Query, CacheSetGet, GetEvict, GetOut,
           FreeOrRelease, CacheSet, SetEvict, Free, SetOut, CacheDelete, SetQuery, Take,
           DirtyVictim
    <3> QED BY <1>1, <1>7, <2>1, <3>1 DEF VictimStored, DirtyVictim
  <2> QED BY <2>2, <2>3
<1> QED BY <1>5, <1>6, <1>7

\* Where requests get to with either policy.
Routes == \A p \in Procs : /\ WriteBack => pc[p] \notin {"delete", "write"}
                           /\ ~WriteBack => pc[p] \notin {"write_victim", "free"}

\* What a fill would answer with is a value that its get has seen, and the one its
\* key has when it is put into the bucket.
FillsRight == \A p \in Procs : pc[p] = "fill" =>
  /\ val[p] \in seen[p]
  /\ Holding(key[p], Bucket(p)) = {} => val[p] = KV[key[p]]

MapFacts == CleanIsStored /\ VictimStored /\ Routes /\ FillsRight

\* Where each key has one process at a time, these are so.
LEMMA SteeredMapFacts == LockInv /\ AllFresh /\ VictimStored /\ SeenInv => MapFacts
<1> SUFFICES ASSUME LockInv, AllFresh, VictimStored, SeenInv PROVE MapFacts
  OBVIOUS
<1>1. CleanIsStored /\ Routes
  BY DEF AllFresh, Fresh, Routes
<1>2. ASSUME NEW p \in Procs, pc[p] = "fill"
      PROVE  val[p] \in seen[p] /\ val[p] = KV[key[p]]
  <2>1. Fresh(p)
    BY DEF AllFresh
  <2>2. val[p] = KV[key[p]]
    BY <1>2, <2>1, FreshIsStored DEF Fresh
  <2> QED BY <1>2, <2>2, SeesMap, WhatIsAsked DEF Asks
<1> QED BY <1>1, <1>2 DEF MapFacts, FillsRight

\* A get that finds an item in the bucket takes it and answers with its value.
LEMMA HitAnswers ==
  ASSUME LockInv, LockInv', CleanIsStored, SeenInv, Remember, NEW p \in Procs,
         UNCHANGED <<policy, items, store, key>>, pc[p] \in {"get", "fill"},
         NEW s \in Holding(key[p], Bucket(p)), Take(p, items[Bucket(p)][s]),
         val' = [val EXCEPT ![p] = items[Bucket(p)][s].val],
         Goto(p, "out") \/ Goto(p, "evict")
  PROVE  Map!Next
<1> DEFINE b == Bucket(p)
<1>a. Types /\ OneItemPerKey /\ LockGoesWithItem
  BY DEF LockInv
<1>b. cache_item[p] = NoItem
  BY <1>a DEF LockGoesWithItem
<1>c. key[p] \in Keys /\ b \in Buckets /\ BucketOf[key[p]] = b
  BY <1>a, CacheHash DEF Types, Bucket
<1>0. /\ Types /\ OneItemPerKey /\ cache_item[p] = NoItem
      /\ key[p] \in Keys /\ b \in Buckets /\ BucketOf[key[p]] = b
  BY <1>a, <1>b, <1>c
<1>1. s \in Slots /\ items[b][s] \in Items /\ items[b][s] # NoItem
  BY <1>0, ItemFacts, CacheNone DEF Holding, Types
<1>2. ~IsEvicted(items[b][s]) /\ items[b][s].key = key[p]
  BY <1>0, <1>1 DEF OneItemPerKey, Holding
<1>3. cache_item' = [cache_item EXCEPT ![p] = items[b][s]]
  BY DEF Take
<1>4. ~DirtyVictim(p) /\ ~DirtyVictim(p)'
  BY <1>0, <1>2, <1>3 DEF DirtyVictim, IsEvicted, DIRTY, EVICTED, Types
<1>5. \A q \in Procs : q # p => cache_item'[q] = cache_item[q]
  BY <1>0, <1>3 DEF Types
<1>6. KV' = KV
  BY <1>4, <1>5, HandKeepsMap DEF DirtyVictim
<1>7. items[b][s].val = KV[key[p]]
  <2>1. PICK v : v = items[b][s].val
    OBVIOUS
  <2>2. CASE WriteBack
    BY <1>0, <1>1, <1>2, <2>1, <2>2, KeyHasValue DEF MapHasValues, IsValue
  <2>3. CASE ~WriteBack
    BY <1>0, <1>1, <1>2, <2>3, ThroughIsStore DEF CleanIsStored
  <2> QED BY <2>2, <2>3
<1>8. Request(p)' = [op |-> "done", key |-> key[p], val |-> KV[key[p]]]
  BY <1>0, <1>7, WhatIsAskedNext DEF Asks, Types, Goto
<1>9. Requests' = [Requests EXCEPT ![p] = [op |-> "done", key |-> key[p], val |-> KV[key[p]]]]
  <2>1. PICK r : Request(p)' = r
    OBVIOUS
  <2>2. \A q \in Procs : q # p => pc'[q] = pc[q] /\ key'[q] = key[q] /\ val'[q] = val[q]
    BY <1>0 DEF Types, Goto
  <2> QED BY <1>8, <2>1, <2>2, OneMoves
<1>10. Request(p) = [op |-> "get", key |-> key[p]]
  BY WhatIsAsked DEF Asks
<1> QED BY <1>0, <1>6, <1>9, <1>10, SeesMap, MapAnswers

\* Each step of a request is a step of the map or leaves it alone.
LEMMA StepMap ==
  ASSUME LockInv, LockInv', MapFacts, SeenInv, UNCHANGED policy, Remember, NEW p \in Procs,
         Begin(p) \/ Step(p)
  PROVE  [Map!Next]_(Map!vars)
<1> USE DEF Goto, bucketVars
<1> DEFINE b == Bucket(p)
           done(v) == [op |-> "done", key |-> key[p], val |-> v]
<1>0. /\ Types /\ Routes /\ CleanIsStored /\ SetsHaveValues /\ OneItemPerKey
      /\ LockGoesWithItem /\ VictimStored
      /\ key[p] \in Keys /\ b \in Buckets /\ BucketOf[key[p]] = b /\ val[p] \in Vals \cup {Absent}
      /\ WriteBack' = WriteBack
  BY CacheHash DEF LockInv, MapFacts, Types, Bucket, WriteBack
<1>1. CASE Begin(p)
  <2>1. KV' = KV
    BY <1>1, HandKeepsMap DEF Begin, DirtyVictim
  <2>2. Request(p) = [op |-> "none"]
    BY <1>1, WhatIsAsked DEF Asks, Begin
  <2>3. PICK r \in Map!Gets \cup Map!Sets : Request(p)' = r
    <3>1. key'[p] \in Keys
      BY <1>1, <1>0, CachePolicies DEF Begin, KeysOf, Types
    <3>2. CASE Goto(p, "get")
      <4>1. Request(p)' = [op |-> "get", key |-> key'[p]]
        BY <1>0, <3>2, WhatIsAskedNext DEF Asks, Types
      <4> QED BY <3>1, <4>1 DEF Map!Gets
    <3>3. CASE ~Goto(p, "get")
      <4>1. PICK v \in Vals : val' = [val EXCEPT ![p] = v]
        BY <1>1, <3>3 DEF Begin
      <4>2. pc'[p] = IF WriteBack THEN "put" ELSE "delete"
        BY <1>0, <1>1, <3>3 DEF Begin, Types
      <4>3. val'[p] = v
        BY <1>0, <4>1 DEF Types
      <4>4. Request(p)' = [op |-> "set", key |-> key'[p], val |-> v]
        BY <1>0, <4>2, <4>3, WhatIsAskedNext DEF Asks
      <4> QED BY <3>1, <4>4 DEF Map!Sets
    <3> QED BY <3>2, <3>3
  <2>4. Requests' = [Requests EXCEPT ![p] = r]
    BY <1>0, <1>1, <2>3, OneMoves DEF Begin, Types
  <2> QED BY <2>1, <2>2, <2>4, MapBegins
<1> HIDE DEF done
<1>s. ASSUME KV' = KV, Request(p)' = Request(p),
             \A q \in Procs : q # p => pc'[q] = pc[q] /\ key'[q] = key[q] /\ val'[q] = val[q]
      PROVE  UNCHANGED Map!vars
  <2>1. Requests' = [Requests EXCEPT ![p] = Request(p)]
    BY <1>s, OneMoves
  <2>2. Requests' = Requests
    BY <2>1 DEF Requests
  <2> QED BY <1>s, <2>2, MapStutters
<1>2. CASE GiveUp(p)
  <2>1. KV' = KV /\ TryLock /\ UNCHANGED <<key, val>>
    BY <1>2, HandKeepsMap DEF GiveUp, DirtyVictim
  <2>2. \A q \in Procs : q # p => pc'[q] = pc[q] /\ key'[q] = key[q] /\ val'[q] = val[q]
    BY <1>0, <1>2, <2>1 DEF GiveUp, Types
  <2>3. CASE pc[p] \in {"get", "delete"} \/ (WriteBack /\ pc[p] = "put")
    <3>1. Request(p)' = [op |-> "none"]
      BY <1>0, <1>2, <2>3, WhatIsAskedNext DEF Asks, GiveUp, Types
    <3>2. Requests' = [Requests EXCEPT ![p] = [op |-> "none"]]
      BY <2>2, <3>1, OneMoves
    <3> QED BY <1>0, <2>1, <2>3, <3>2, WhatIsAsked, MapEnds DEF Asks
  <2>4. CASE ~WriteBack /\ pc[p] = "put"
    <3>1. Request(p)' = Request(p)
      BY <1>0, <1>2, <2>4, WhatIsAsked, WhatIsAskedNext DEF Asks, GiveUp, Types
    <3> QED BY <2>1, <2>2, <3>1, <1>s
  <2>5. CASE pc[p] = "fill"
    <3>1. val[p] \in seen[p]
      BY <2>5 DEF MapFacts, FillsRight
    <3>2. Request(p)' = done(val[p])
      BY <1>0, <1>2, <2>1, <2>5, WhatIsAskedNext DEF Asks, GiveUp, Types, done
    <3>3. Requests' = [Requests EXCEPT ![p] = done(val[p])]
      <4>1. PICK r : Request(p)' = r
        OBVIOUS
      <4> QED BY <2>2, <3>2, <4>1, OneMoves
    <3> QED BY <1>0, <2>1, <2>5, <3>1, <3>3, WhatIsAsked, MapAnswers DEF Asks, done
  <2> QED BY <1>2, <2>3, <2>4, <2>5 DEF GiveUp
<1>3. CASE Query(p)
  <2>1. KV' = KV
    BY <1>3, HandKeepsMap DEF Query, DirtyVictim
  <2>2. Request(p)' = Request(p)
    BY <1>0, <1>3, WhatIsAsked, WhatIsAskedNext DEF Asks, Query, Types
  <2> QED BY <1>0, <1>3, <2>1, <2>2, <1>s DEF Query, Types
<1>4. CASE GetOut(p) \/ SetOut(p)
  <2>1. KV' = KV
    BY <1>4, HandKeepsMap DEF GetOut, SetOut, DirtyVictim
  <2>2. Request(p)' = [op |-> "none"]
    BY <1>0, <1>4, WhatIsAskedNext DEF Asks, GetOut, SetOut, Types
  <2>3. Requests' = [Requests EXCEPT ![p] = [op |-> "none"]]
    BY <1>0, <1>4, <2>2, OneMoves DEF GetOut, SetOut, Types
  <2>4. Request(p) = [op |-> "done", key |-> key[p], val |-> val[p]]
    BY <1>4, WhatIsAsked DEF Asks, GetOut, SetOut
  <2> QED BY <1>0, <2>1, <2>3, <2>4, MapEnds
<1>5. CASE GetEvict(p) \/ SetEvict(p)
  <2>1. UNCHANGED <<items, cache_item, key, val>> /\ (WriteBack => WriteVictim(p))
        /\ (~WriteBack => UNCHANGED store)
    BY <1>0, <1>5 DEF GetEvict, SetEvict, Routes
  <2>2. KV' = KV
    BY <2>1, WriteVictimKeepsMap, ThroughIsStore
  <2>3. Request(p)' = Request(p)
    BY <1>0, <1>5, <2>1, WhatIsAsked, WhatIsAskedNext DEF Asks, GetEvict, SetEvict, Types
  <2> QED BY <1>0, <1>5, <2>1, <2>2, <2>3, <1>s DEF GetEvict, SetEvict, Types
<1>6. CASE FreeOrRelease(p) \/ Free(p)
  <2>1. UNCHANGED <<items, store, key, val>>
    BY <1>6 DEF FreeOrRelease, Free
  <2>2. ASSUME WriteBack, Take(p, NoItem) PROVE KV' = KV
    <3>1. DirtyVictim(p) => store[cache_item[p].key] = cache_item[p].val
      BY <1>0, <1>6, <2>2 DEF FreeOrRelease, Free, VictimStored
    <3> QED BY <2>1, <2>2, <3>1, FreeKeepsMap
  <2>3. ASSUME UNCHANGED cache_item PROVE KV' = KV
    BY <2>1, <2>3, HandKeepsMap DEF DirtyVictim
  <2>5. KV' = KV
    <3>1. Take(p, NoItem) \/ UNCHANGED cache_item
      BY <1>6 DEF FreeOrRelease, Free
    <3> QED BY <2>1, <2>2, <2>3, <3>1, ThroughIsStore
  <2>4. Request(p)' = Request(p)
    BY <1>0, <1>6, <2>1, WhatIsAsked, WhatIsAskedNext DEF Asks, FreeOrRelease, Free, Types
  <2> QED BY <1>0, <1>6, <2>1, <2>4, <2>5, <1>s DEF FreeOrRelease, Free, Types
<1>7. CASE CacheDelete(p)
  <2>1. ~WriteBack /\ UNCHANGED <<store, key, val>> /\ pc[p] = "delete"
    BY <1>0, <1>7 DEF CacheDelete, Routes
  <2>2. KV' = KV
    BY <2>1, ThroughIsStore
  <2>3. Request(p)' = Request(p)
    BY <1>0, <1>7, <2>1, WhatIsAsked, WhatIsAskedNext DEF Asks, CacheDelete, Types
  <2> QED BY <1>0, <1>7, <2>1, <2>2, <2>3, <1>s DEF CacheDelete, Types
<1>8. CASE SetQuery(p)
  <2>1. /\ ~WriteBack /\ UNCHANGED <<key, val>> /\ pc[p] = "write" /\ val[p] # Absent
        /\ store' = [store EXCEPT ![key[p]] = val[p]]
    BY <1>0, <1>8 DEF SetQuery, Routes, SetsHaveValues
  <2>2. KV' = [KV EXCEPT ![key[p]] = val[p]]
    BY <1>0, <2>1, ThroughIsStore DEF Types
  <2>3. Request(p)' = [op |-> "done", key |-> key[p], val |-> val[p]]
    BY <1>0, <1>8, <2>1, WhatIsAskedNext DEF Asks, SetQuery, Types
  <2>4. Requests' = [Requests EXCEPT ![p] = [op |-> "done", key |-> key[p], val |-> val[p]]]
    <3>1. PICK r : Request(p)' = r
      OBVIOUS
    <3> QED BY <1>0, <1>8, <2>1, <2>3, <3>1, OneMoves DEF SetQuery, Types
  <2> QED BY <1>0, <2>1, <2>2, <2>4, WhatIsAsked, MapSets DEF Asks
<1>9. CASE CacheGet(p)
  <2>1. /\ pc[p] = "get" /\ lock[b] = None /\ UNCHANGED <<items, store, key>>
        /\ cache_item[p] = NoItem
    BY <1>0, <1>9 DEF CacheGet, LockGoesWithItem
  <2>2. CASE \E s \in Holding(key[p], b) :
               /\ Take(p, items[b][s]) /\ Goto(p, "out")
               /\ val' = [val EXCEPT ![p] = items[b][s].val]
    BY <2>1, <2>2, HitAnswers DEF MapFacts
  <2>3. CASE Goto(p, "query") /\ UNCHANGED <<lock, cache_item, val>>
    <3>1. KV' = KV
      BY <2>1, <2>3, HandKeepsMap DEF DirtyVictim
    <3>2. Request(p)' = Request(p)
      BY <1>0, <2>1, <2>3, WhatIsAsked, WhatIsAskedNext DEF Asks, Types
    <3> QED BY <1>0, <2>1, <2>3, <3>1, <3>2, <1>s DEF Types
  <2> QED BY <1>9, <2>2, <2>3 DEF CacheGet
<1>10. CASE CacheSetGet(p)
  <2> DEFINE nit == Item(p, 0)
  <2>1. /\ pc[p] = "fill" /\ UNCHANGED <<store, key>> /\ Goto(p, "evict")
        /\ cache_item[p] = NoItem /\ val[p] \in seen[p]
        /\ Holding(key[p], b) = {} => val[p] = KV[key[p]]
    BY <1>0, <1>10 DEF CacheSetGet, LockGoesWithItem, MapFacts, FillsRight
  <2>2. ASSUME NEW s \in Holding(key[p], b), UNCHANGED items, Take(p, items[b][s]),
               val' = [val EXCEPT ![p] = items[b][s].val]
        PROVE  Map!Next
    BY <2>1, <2>2, HitAnswers DEF MapFacts
  <2>3. ASSUME KV' = KV, UNCHANGED val PROVE Map!Next
    <3>1. Request(p)' = done(val[p])
      BY <1>0, <2>1, <2>3, WhatIsAskedNext DEF Asks, Types, done
    <3>2. Requests' = [Requests EXCEPT ![p] = done(val[p])]
      <4>1. PICK r : Request(p)' = r
        OBVIOUS
      <4>2. \A q \in Procs : q # p => pc'[q] = pc[q] /\ key'[q] = key[q] /\ val'[q] = val[q]
        BY <1>0, <2>1, <2>3 DEF Types
      <4> QED BY <3>1, <4>1, <4>2, OneMoves
    <3> QED BY <1>0, <2>1, <2>3, <3>2, WhatIsAsked, MapAnswers DEF Asks, done
  <2>4. CASE UNCHANGED <<items, val, cache_item>>
    BY <2>1, <2>3, <2>4, HandKeepsMap DEF DirtyVictim
  <2>5. CASE ~WriteBack /\ UNCHANGED val
    BY <2>1, <2>3, <2>5, ThroughIsStore
  <2>6. ASSUME WriteBack, val[p] # Absent, lock[b] = None, Holding(key[p], b) = {},
               NEW s \in Slots, Insert(b, s, nit), UNCHANGED val,
               \/ items[b][s] = NoItem /\ UNCHANGED cache_item
               \/ items[b][s].evicted = 0 /\ UNCHANGED cache_item
               \/ items[b][s] # NoItem /\ Take(p, Evict(items[b][s]))
        PROVE  Map!Next
    <3>1. nit \in Items /\ nit.key = key[p]
      BY <1>0, <2>6, NewItem
    <3>2. nit.val = KV[key[p]]
      BY <2>1, <2>6 DEF Item
    <3> HIDE DEF nit
    <3>3. KV' = [KV EXCEPT ![key[p]] = KV[key[p]]]
      BY <1>0, <2>1, <2>6, <3>1, <3>2, PutMovesMap
    <3>4. KV = [k \in Keys |-> KV[k]]
      BY DEF KV
    <3> QED BY <2>3, <2>6, <3>3, <3>4
  <2>7. CASE /\ val[p] # Absent /\ Holding(key[p], b) = {} /\ UNCHANGED <<val, cache_item>>
             /\ \E s \in LastEmpty(b) : Insert(b, s, nit)
    <3>1. PICK s \in LastEmpty(b) : Insert(b, s, nit)
      BY <2>7
    <3>2. s \in Slots /\ items[b][s] = NoItem /\ lock[b] = None
      BY <1>10, <2>7 DEF LastEmpty, Empty, CacheSetGet
    <3> QED BY <2>5, <2>6, <2>7, <3>1, <3>2
  <2>8. CASE /\ val[p] # Absent /\ Holding(key[p], b) = {} /\ Empty(b) = {} /\ UNCHANGED val
             /\ Displace(b, nit)
             /\ IF Evict(items[b][replace[b]]).evicted = EVICTED
                THEN UNCHANGED cache_item
                ELSE Take(p, Evict(items[b][replace[b]]))
    <3>1. PICK s \in Slots : s = replace[b]
      BY <1>0 DEF Types
    <3>2. Insert(b, s, nit) /\ lock[b] = None
      BY <1>10, <2>8, <3>1 DEF Displace, Insert, CacheSetGet
    <3>3. items[b][s] # NoItem /\ items[b][s] \in Items
      BY <1>0, <2>8 DEF Empty, Types
    <3>4. ~IsEvicted(items[b][s])
      BY <1>0, <3>3 DEF OneItemPerKey
    <3>5. items[b][s].evicted \in Nat /\ Evict(items[b][s]).evicted = items[b][s].evicted + EVICTED
      BY <3>3, <3>4, EvictFacts, ItemFacts
    <3>6. Evict(items[b][s]).evicted = EVICTED => items[b][s].evicted = 0
      BY <3>5 DEF EVICTED
    <3> QED BY <2>5, <2>6, <2>8, <3>1, <3>2, <3>3, <3>6
  <2> QED BY <1>10, <2>1, <2>2, <2>4, <2>7, <2>8 DEF CacheSetGet
<1>11. CASE CacheSet(p) /\ WriteBack
  <2> DEFINE nit == Item(p, DIRTY)
  <2>1. /\ pc[p] = "put" /\ UNCHANGED <<store, key, val>> /\ Goto(p, "write_victim")
        /\ cache_item[p] = NoItem /\ lock[b] = None /\ val[p] # Absent /\ WriteAlloc
    BY <1>0, <1>11, CachePolicies
       DEF CacheSet, LockGoesWithItem, SetsHaveValues, Types, WriteBack, WriteAlloc
  <2>2. nit \in Items /\ nit.key = key[p] /\ nit.val = val[p]
    BY <1>0, <2>1, NewItem DEF Item
  <2> HIDE DEF nit
  <2>3. ASSUME NEW s \in Slots, Insert(b, s, nit), Holding(key[p], b) \subseteq {s},
               \/ items[b][s] = NoItem /\ UNCHANGED cache_item
               \/ items[b][s].key = key[p] /\ UNCHANGED cache_item
               \/ items[b][s] # NoItem /\ Take(p, Evict(items[b][s]))
        PROVE  KV' = [KV EXCEPT ![key[p]] = val[p]]
    BY <1>0, <1>11, <2>1, <2>2, <2>3, PutMovesMap
  <2>4. KV' = [KV EXCEPT ![key[p]] = val[p]]
    <3>1. CASE UNCHANGED cache_item /\ \E s \in Holding(key[p], b) : Insert(b, s, nit)
      <4>1. PICK s \in Holding(key[p], b) : Insert(b, s, nit)
        BY <3>1
      <4>2. s \in Slots /\ items[b][s].key = key[p] /\ Holding(key[p], b) \subseteq {s}
        BY <1>0, SlotsDiffer DEF Holding
      <4> QED BY <2>3, <3>1, <4>1, <4>2
    <3>2. CASE /\ Holding(key[p], b) = {} /\ UNCHANGED cache_item
               /\ \E s \in LastEmpty(b) : Insert(b, s, nit)
      BY <2>3, <3>2 DEF LastEmpty, Empty
    <3>3. CASE /\ Holding(key[p], b) = {} /\ Empty(b) = {} /\ Displace(b, nit)
               /\ Take(p, Evict(items[b][replace[b]]))
      <4>1. PICK s \in Slots : s = replace[b]
        BY <1>0 DEF Types
      <4>2. Insert(b, s, nit) /\ items[b][s] # NoItem
        BY <3>3, <4>1 DEF Displace, Insert, Empty
      <4> QED BY <2>3, <3>3, <4>1, <4>2
    <3> QED BY <1>11, <2>1, <3>1, <3>2, <3>3 DEF CacheSet, nit
  <2>5. Request(p)' = [op |-> "done", key |-> key[p], val |-> val[p]]
    BY <1>0, <2>1, WhatIsAskedNext DEF Asks, Types
  <2>6. Requests' = [Requests EXCEPT ![p] = [op |-> "done", key |-> key[p], val |-> val[p]]]
    <3>1. PICK r : Request(p)' = r
      OBVIOUS
    <3>2. \A q \in Procs : q # p => pc'[q] = pc[q] /\ key'[q] = key[q] /\ val'[q] = val[q]
      BY <1>0, <2>1 DEF Types
    <3> QED BY <2>5, <3>1, <3>2, OneMoves
  <2> QED BY <1>0, <1>11, <2>1, <2>4, <2>6, WhatIsAsked, MapSets DEF Asks
<1>12. CASE CacheSet(p) /\ ~WriteBack
  <2>1. pc[p] = "put" /\ UNCHANGED <<store, key, val>> /\ Goto(p, "idle")
    BY <1>12 DEF CacheSet
  <2>2. KV' = KV
    BY <1>12, <2>1, ThroughIsStore
  <2>3. Request(p)' = Request(p)
    BY <1>0, <1>12, <2>1, WhatIsAsked, WhatIsAskedNext DEF Asks, Types
  <2> QED BY <1>0, <2>1, <2>2, <2>3, <1>s DEF Types
<1> QED
  BY <1>1, <1>2, <1>3, <1>4, <1>5, <1>6, <1>7, <1>8, <1>9, <1>10, <1>11, <1>12 DEF Step

-----------------------------------------------------------------------------
(* Keys that have room.                                                    *)

\* A get of such a key has seen the store's value when it has found no item.
SeenStored == \A p \in Procs : pc[p] \in {"query", "fill"} => store[key[p]] \in seen[p]

\* The store has the value of such a key while the bucket has not.
LEMMA RoomIsStored ==
  ASSUME LockInv, NoneIsEvicted, NEW k \in Keys, Holding(k, BucketOf[k]) = {}
  PROVE  KV[k] = store[k] /\ ~InHand(k)
<1>1. ~IsCached(k) /\ ~InHand(k)
  BY DEF IsCached, Holding, InHand, DirtyVictim, NoneIsEvicted, IsEvicted, DIRTY, EVICTED
<1>2. PICK v : v = store[k]
  OBVIOUS
<1>3. IsValue(k, v)
  BY <1>1, <1>2 DEF IsValue
<1> QED BY <1>1, <1>2, <1>3, KeyHasValue DEF MapHasValues

\* The same after a step.
LEMMA RoomIsStoredNext ==
  ASSUME LockInv', NoneIsEvicted', NEW k \in Keys, Holding(k, BucketOf[k])' = {}
  PROVE  KV'[k] = store'[k]
<1>1. ~IsCached(k)' /\ ~InHand(k)'
  BY DEF IsCached, Holding, InHand, DirtyVictim, NoneIsEvicted, IsEvicted, DIRTY, EVICTED
<1>2. PICK v : v = store'[k]
  OBVIOUS
<1>3. IsValue(k, v)'
  BY <1>1, <1>2 DEF IsValue
<1> QED BY <1>2, <1>3, KeyHasValueNext DEF MapHasValues

\* Where keys have room, these are so too.
LEMMA RoomyMapFacts == LockInv /\ Roomy /\ NoneIsEvicted /\ SeenStored => MapFacts
<1> SUFFICES ASSUME LockInv, Roomy, NoneIsEvicted, SeenStored PROVE MapFacts
  OBVIOUS
<1>1. CleanIsStored /\ Routes
  BY DEF NoneIsEvicted, Routes, Roomy
<1>2. VictimStored
  BY DEF VictimStored, NoneIsEvicted, DirtyVictim, IsEvicted, DIRTY, EVICTED
<1>3. FillsRight
  BY RoomIsStored DEF FillsRight, NoneIsEvicted, SeenStored, LockInv, Types, Bucket
<1> QED BY <1>1, <1>2, <1>3 DEF MapFacts

\* A get that misses sees the store's value, and goes on having seen it.
LEMMA StepSeenStored ==
  ASSUME LockInv, LockInv', NoneIsEvicted', SeenStored, UNCHANGED <<policy, store>>, Remember,
         NEW p \in Procs, Begin(p) \/ Step(p)
  PROVE  SeenStored'
<1>1. SUFFICES ASSUME NEW q \in Procs, pc'[q] \in {"query", "fill"}
               PROVE  store'[key'[q]] \in seen'[q]
  BY DEF SeenStored
<1>2. Requests'[q].op = "get" /\ seen'[q] =
        (IF Requests[q].op = "get" THEN seen[q] ELSE {}) \cup {KV'[key'[q]]}
  BY <1>1, WhatIsAskedNext DEF Asks, Requests, Remember
<1>3. CASE pc[q] \in {"query", "fill"} /\ key'[q] = key[q]
  BY <1>2, <1>3, WhatIsAsked DEF Asks, Requests, SeenStored
<1>4. CASE ~(pc[q] \in {"query", "fill"} /\ key'[q] = key[q])
  <2>0. Types
    BY DEF LockInv
  <2>4. ASSUME Begin(p) PROVE FALSE
    <3>1. /\ \E l : Goto(p, l) /\ l \in {"get", "put", "delete"}
          /\ \E k \in Keys : key' = [key EXCEPT ![p] = k]
          /\ pc[p] = "idle"
      <4>1. KeysOf[p] \subseteq Keys
        BY <2>0, CachePolicies DEF Types, KeysOf
      <4> QED BY <2>4, <4>1 DEF Begin
    <3>2. q # p
      BY <1>1, <2>0, <3>1 DEF Goto, Types
    <3> QED BY <1>1, <1>4, <2>0, <3>1, <3>2 DEF Goto, Types
  <2>5. ASSUME Step(p), ~CacheGet(p) PROVE FALSE
    <3>1. UNCHANGED key
      BY <2>5 DEF Step, GiveUp, Query, CacheSetGet, GetEvict, GetOut, FreeOrRelease, CacheSet,
           SetEvict, Free, SetOut, CacheDelete, SetQuery
    <3>2. pc[q] \notin {"query", "fill"} /\ pc'[q] \in {"query", "fill"}
      BY <1>1, <1>4, <3>1
    <3>3. CASE Query(p)
      BY <2>0, <3>2, <3>3 DEF Query, Goto, Types
    <3>4. CASE ~Query(p)
      <4>1. \E l : Goto(p, l) /\ l \notin {"query", "fill"}
        BY <2>5, <3>4 DEF Step, GiveUp, CacheSetGet, GetEvict, GetOut, FreeOrRelease, CacheSet,
             SetEvict, Free, SetOut, CacheDelete, SetQuery
      <4> QED BY <2>0, <3>2, <4>1 DEF Goto, Types
    <3> QED BY <3>3, <3>4
  <2>6. ASSUME CacheGet(p) PROVE q = p /\ Holding(key[p], Bucket(p)) = {}
    <3>1. /\ UNCHANGED key
          /\ \/ Goto(p, "out")
             \/ Goto(p, "query") /\ Holding(key[p], Bucket(p)) = {}
      BY <2>6, Zenon DEF CacheGet
    <3> QED BY <1>1, <1>4, <2>0, <3>1 DEF Goto, Types
  <2>1. CacheGet(p) /\ q = p /\ Holding(key[p], Bucket(p)) = {}
    BY <2>4, <2>5, <2>6
  <2>2. key'[q] \in Keys /\ key' = key /\ items' = items
    BY <2>0, <2>1 DEF CacheGet, Types
  <2>3. KV'[key'[q]] = store'[key'[q]]
    <3>1. PICK k \in Keys : k = key'[q]
      BY <2>2
    <3>2. Holding(k, BucketOf[k])' = {}
      BY <2>1, <2>2, <3>1 DEF Holding, Bucket
    <3> QED BY <3>1, <3>2, RoomIsStoredNext
  <2> QED BY <1>2, <2>3
<1> QED BY <1>3, <1>4

-----------------------------------------------------------------------------
(* The theorem.                                                            *)

MapInv ==
  /\ SteeredFresh /\ RoomyKept /\ SeenInv
  /\ Steered => VictimStored
  /\ Roomy => SeenStored

\* A step keeps the invariant and is one of the map, in either case.
LEMMA StepMapInv ==
  ASSUME MapInv, [Next]_vars, SteeredFresh', RoomyKept', Steered \/ Roomy
  PROVE  MapInv' /\ (Steered \/ Roomy)' /\ [Map!Next]_(Map!vars)
<1>1. UNCHANGED policy /\ LockInv /\ LockInv'
  BY DEF Next, vars, MapInv, SteeredFresh
<1>2. (Steered' <=> Steered) /\ (Roomy' <=> Roomy)
  BY <1>1 DEF Steered, Roomy, Used, KeysIn, KeysOf, WriteBack
<1>3. CASE Next
  <2>1. PICK p \in Procs : Begin(p) \/ Step(p)
    BY <1>3 DEF Next
  <2>2. SeenInv' /\ Remember
    BY <1>3, RemembersSeen DEF Next
  <2>3. ASSUME Steered PROVE VictimStored' /\ MapFacts
    BY <1>1, <2>1, <2>3, StepVictimStored, SteeredMapFacts DEF MapInv, SteeredFresh
  <2>4. ASSUME Roomy PROVE SeenStored' /\ MapFacts
    <3>1. NoneIsEvicted /\ NoneIsEvicted' /\ SeenStored
      BY <1>2, <2>4 DEF MapInv, RoomyKept
    <3>2. UNCHANGED store
      BY <1>1, <2>1, <2>4, <3>1, StepRoom
    <3> QED BY <1>1, <2>1, <2>2, <2>4, <3>1, <3>2, StepSeenStored, RoomyMapFacts
  <2>5. MapFacts
    BY <2>3, <2>4
  <2>6. [Map!Next]_(Map!vars)
    BY <1>1, <2>1, <2>2, <2>5, StepMap DEF MapInv
  <2> QED BY <1>2, <2>2, <2>3, <2>4, <2>6 DEF MapInv
<1>4. CASE UNCHANGED vars
  <2>1. KV' = KV /\ Requests' = Requests /\ TryLock' = TryLock /\ seen' = seen
    BY <1>4 DEF vars, KV, Requests, Request, TryLock, Holding, Victims, WriteBack
  <2>2. SeenInv' /\ UNCHANGED Map!vars
    BY <1>4, <2>1 DEF MapInv, SeenInv, Map!vars, vars
  <2>3. (VictimStored => VictimStored') /\ (SeenStored => SeenStored')
    BY <1>4 DEF vars, VictimStored, DirtyVictim, WriteBack, SeenStored
  <2> QED BY <1>2, <2>2, <2>3 DEF MapInv
<1> QED BY <1>3, <1>4

\* The cache with its store is one map: each set takes effect once, at one moment,
\* a get answers with a value its key had while the get ran, and no fill, victim
\* or delete changes what the map says, as long as the requests of one key go to
\* one process or, with write-back, no bucket has to put an item out.
THEOREM CacheIsOneMap == Spec /\ (Steered \/ Roomy) => IsOneMap
<1>1. Init => MapInv /\ Map!Init
  <2> SUFFICES ASSUME Init PROVE MapInv /\ Map!Init
    OBVIOUS
  <2>1. SteeredFresh /\ RoomyKept /\ SeenStored
    <3>1. CleanIsStored /\ \A p \in Procs : pc[p] = "idle" /\ cache_item[p] = NoItem
      BY DEF Init, CleanIsStored
    <3> QED BY <3>1, InitLockInv
            DEF SteeredFresh, AllFresh, Fresh, RoomyKept, NoneIsEvicted, SeenStored, Init
  <2>2. \A p \in Procs : Request(p) = [op |-> "none"]
    BY WhatIsAsked DEF Asks, Init
  <2>3. Requests = [p \in Procs |-> [op |-> "none"]]
    BY <2>2 DEF Requests
  <2>4. SeenInv
    BY <2>3 DEF SeenInv, Init
  <2>5. VictimStored
    BY DEF VictimStored, Init
  <2>6. KV = store
    <3>1. \A k \in Keys : Holding(k, BucketOf[k]) = {} /\ Victims(k) = {}
      BY CacheNone DEF Init, Holding, Victims, NoItem
    <3>2. \A k \in Keys : KV[k] = store[k]
      BY <3>1 DEF KV
    <3>3. KV = [k \in Keys |-> KV[k]] /\ store = [k \in Keys |-> store[k]]
      BY DEF KV, Init
    <3> QED BY <3>2, <3>3
  <2>7. Map!Init
    BY <2>3, <2>6, CachePolicies DEF Init, Map!Init, Map!Idle, TryLock
  <2> QED BY <2>1, <2>4, <2>5, <2>7 DEF MapInv
<1>2. MapInv /\ (Steered \/ Roomy) /\ [Next]_vars /\ SteeredFresh' /\ RoomyKept'
        => MapInv' /\ (Steered \/ Roomy)' /\ [Map!Next]_(Map!vars)
  BY StepMapInv
<1> QED BY <1>1, <1>2, SteeredFreshHolds, RoomyKeptHolds, PTL DEF Spec, IsOneMap, Map!Spec

\* A step of the map changes it at the key of a set, which is done then.
LEMMA SetsChangeMap ==
  ASSUME [Map!Next]_(Map!vars), NEW k \in Keys, KV'[k] # KV[k]
  PROVE  \E p \in Procs : /\ Requests[p].op = "set" /\ key[p] = k
                          /\ Requests'[p].op = "done"
<1>1. PICK p \in Procs : Map!SetKey(p)
  BY DEF Map!vars, Map!Next, Map!Begin, Map!Answer, Map!End
<1>2. Requests[p] \in Map!Sets /\ Requests[p] = Request(p)
  BY <1>1 DEF Map!SetKey, Requests
<1>3. Requests[p].op = "set" /\ Requests[p].key = key[p]
  BY <1>2 DEF Map!Sets, Request
<1>4. KV' = [KV EXCEPT ![key[p]] = Requests[p].val]
  BY <1>1, <1>3 DEF Map!SetKey
<1>5. key[p] = k
  BY <1>4 DEF KV
<1>6. Requests'[p] = [Requests[p] EXCEPT !.op = "done"]
  BY <1>1 DEF Map!SetKey, Requests
<1>7. Requests'[p].op = "done"
  BY <1>2, <1>6 DEF Map!Sets
<1> QED BY <1>3, <1>5, <1>7

\* What is set stays until it is set again, whatever fills and evictions there are in
\* its bucket, under the same conditions; CacheStale shows that it takes them.
THEOREM CacheKeepsSets == Spec /\ (Steered \/ Roomy) => SetsAreKept
<1>1. [Map!Next]_(Map!vars) => [\A k \in Keys : KV'[k] # KV[k] =>
        \E p \in Procs : /\ Requests[p].op = "set" /\ key[p] = k
                         /\ Requests'[p].op = "done"]_vars
  BY SetsChangeMap
<1>2. IsOneMap => SetsAreKept
  BY <1>1, PTL DEF IsOneMap, Map!Spec, SetsAreKept
<1> QED BY <1>2, CacheIsOneMap, PTL
=============================================================================
