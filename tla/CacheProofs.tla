----------------------------- MODULE CacheProofs -----------------------------
(***************************************************************************)
(* Theorems about the cache, for every number of requests, keys, buckets   *)
(* and items to a bucket, and for every policy.                            *)
(***************************************************************************)
EXTENDS Cache, FiniteSetTheorems, TLAPS

USE CacheSize, CacheHash, CacheNone

\* What an item is, and that NULL is none.
LEMMA ItemFacts ==
  /\ \A it \in Items : /\ it.key \in Keys /\ it.val \in Vals
                       /\ it.evicted \in 0 .. 3 /\ it # NoItem
  /\ NoItem.key = None
  /\ \A k \in Keys, v \in Vals, e \in 0 .. 3 :
       [key |-> k, val |-> v, evicted |-> e] \in Items
  BY DEF Items, NoItem

\* An item that is evicted keeps its key and value and gets the bit.
LEMMA EvictFacts ==
  \A it \in Items : ~IsEvicted(it) =>
     /\ Evict(it) \in Items /\ IsEvicted(Evict(it))
     /\ Evict(it).key = it.key /\ Evict(it).val = it.val
     /\ Evict(it).evicted = it.evicted + EVICTED
<1> SUFFICES ASSUME NEW it \in Items, ~IsEvicted(it)
             PROVE  /\ Evict(it) \in Items /\ IsEvicted(Evict(it))
                    /\ Evict(it).key = it.key /\ Evict(it).val = it.val
                    /\ Evict(it).evicted = it.evicted + EVICTED
  OBVIOUS
<1>1. PICK k \in Keys, v \in Vals, e \in 0 .. 3 :
        it = [key |-> k, val |-> v, evicted |-> e]
  BY DEF Items
<1>2. e < 2
  BY <1>1 DEF IsEvicted, EVICTED
<1>3. Evict(it) = [key |-> k, val |-> v, evicted |-> e + 2]
  BY <1>1 DEF Evict, EVICTED
<1>4. e + 2 \in 0 .. 3
  BY <1>2
<1>5. Evict(it) \in Items
  BY <1>3, <1>4, ItemFacts
<1> QED BY <1>1, <1>2, <1>3, <1>5 DEF IsEvicted, EVICTED

LockInv == Types /\ SetsHaveValues /\ OneItemPerKey /\ LockGoesWithItem

\* The empty cache, with nobody in it, has the invariant.
LEMMA InitLockInv == Init => LockInv
  BY ItemFacts DEF Init, LockInv, Types, SetsHaveValues, OneItemPerKey, LockGoesWithItem, Slots

\* OneItemPerKey is about the buckets alone; LockGoesWithItem also about where
\* the requests with an item are.
LEMMA KeepOneItem ==
  ASSUME OneItemPerKey, UNCHANGED items
  PROVE  OneItemPerKey'
  BY DEF OneItemPerKey

GetHasItem == {"evict", "out", "release"}
HasItem == GetHasItem \cup {"write_victim", "free"}

\* Locks stay with their items when requests with an item in hand move on.
LEMMA KeepLocks ==
  ASSUME LockGoesWithItem, UNCHANGED <<items, lock, key, cache_item>>,
         \A q \in Procs : pc[q] \in HasItem /\ pc'[q] # pc[q] =>
            \/ cache_item[q] = NoItem
            \/ /\ pc'[q] \in HasItem
               /\ pc[q] \in GetHasItem => pc'[q] \in GetHasItem
  PROVE  LockGoesWithItem'
  BY DEF LockGoesWithItem, HasItem, GetHasItem, Bucket, InBucket, IsCached

\* Whoever locks a bucket has an item of it.
LEMMA Locker ==
  ASSUME Types, LockGoesWithItem, NEW b \in Buckets, lock[b] # None
  PROVE  \E r \in Procs : r = lock[b] /\ cache_item[r] # NoItem /\ Bucket(r) = b
<1>1. lock[b] \in Procs
  BY DEF Types
<1> QED BY <1>1 DEF LockGoesWithItem

\* A step of a request in an unlocked bucket disturbs nobody else's item, since
\* whoever has an item has its bucket's lock.
LEMMA UnlockedBucket ==
  ASSUME LockInv, NEW p \in Procs, lock[Bucket(p)] = None,
         cache_item[p] = NoItem, UNCHANGED key,
         \A b \in Buckets : b # Bucket(p) =>
            items'[b] = items[b] /\ lock'[b] = lock[b],
         \A q \in Procs : q # p =>
            pc'[q] = pc[q] /\ cache_item'[q] = cache_item[q],
         \/ cache_item'[p] = NoItem /\ lock'[Bucket(p)] = None
         \/ /\ lock'[Bucket(p)] = p /\ cache_item'[p] # NoItem
            /\ BucketOf[cache_item'[p].key] = Bucket(p)
            /\ pc'[p] \in HasItem
            /\ IF IsEvicted(cache_item'[p])
               THEN ~\E s \in Slots :
                      items'[Bucket(p)][s].key = cache_item'[p].key
               ELSE /\ \E s \in Slots : items'[Bucket(p)][s] = cache_item'[p]
                    /\ cache_item'[p].key = key[p] /\ pc'[p] \in GetHasItem
  PROVE  LockGoesWithItem'
<1> USE DEF LockInv, Types, HasItem, GetHasItem
<1>0. Bucket(p) \in Buckets /\ \A q \in Procs : Bucket(q) \in Buckets
  BY CacheHash DEF Bucket
<1>1. \A q \in Procs : q # p /\ cache_item[q] # NoItem => Bucket(q) # Bucket(p)
  BY CacheNone DEF LockGoesWithItem
<1>2. \A q \in Procs : Bucket(q)' = Bucket(q)
  BY DEF Bucket
<1>3. ASSUME NEW q \in Procs, cache_item'[q] # NoItem
      PROVE  /\ lock'[Bucket(q)] = q
             /\ BucketOf[cache_item'[q].key] = Bucket(q)
             /\ pc'[q] \in HasItem
             /\ IF IsEvicted(cache_item'[q]) THEN ~IsCached(cache_item[q].key)'
                ELSE /\ InBucket(cache_item[q])' /\ cache_item'[q].key = key'[q]
                     /\ pc'[q] \in GetHasItem
  <2>1. CASE q = p
    <3>1. BucketOf[cache_item'[q].key] = Bucket(p)
      BY <1>3, <2>1
    <3>2. lock'[Bucket(q)] = q /\ pc'[q] \in HasItem
      BY <1>0, <1>3, <2>1, CacheNone
    <3>3. CASE IsEvicted(cache_item'[q])
      BY <1>3, <2>1, <3>1, <3>2, <3>3 DEF IsCached
    <3>4. CASE ~IsEvicted(cache_item'[q])
      BY <1>3, <2>1, <3>1, <3>2, <3>4 DEF InBucket
    <3> QED BY <3>3, <3>4
  <2>2. CASE q # p
    <3>1. cache_item'[q] = cache_item[q] /\ pc'[q] = pc[q] /\ key'[q] = key[q]
      BY <2>2
    <3>2. /\ lock[Bucket(q)] = q /\ BucketOf[cache_item[q].key] = Bucket(q)
          /\ pc[q] \in HasItem
          /\ IF IsEvicted(cache_item[q]) THEN ~IsCached(cache_item[q].key)
             ELSE /\ InBucket(cache_item[q]) /\ cache_item[q].key = key[q]
                  /\ pc[q] \in GetHasItem
      BY <1>3, <3>1 DEF LockGoesWithItem
    <3>3. items'[Bucket(q)] = items[Bucket(q)] /\ lock'[Bucket(q)] = q
      BY <1>0, <1>1, <1>3, <2>2, <3>1, <3>2
    <3>4. /\ IsCached(cache_item[q].key)' = IsCached(cache_item[q].key)
          /\ InBucket(cache_item[q])' = InBucket(cache_item[q])
      BY <3>1, <3>2, <3>3 DEF IsCached, InBucket
    <3> QED BY <3>1, <3>2, <3>3, <3>4
  <2> QED BY <2>1, <2>2
<1>4. ASSUME NEW b \in Buckets, lock'[b] # None
      PROVE  \E r \in Procs : /\ lock'[b] = r /\ cache_item'[r] # NoItem
                              /\ Bucket(r) = b
  <2>1. CASE b = Bucket(p)
    BY <1>4, <2>1
  <2>2. CASE b # Bucket(p)
    <3>1. lock'[b] = lock[b] /\ lock[b] # None
      BY <1>4, <2>2
    <3>2. PICK r \in Procs : r = lock[b] /\ cache_item[r] # NoItem /\ Bucket(r) = b
      BY <3>1, Locker
    <3>3. cache_item'[r] # NoItem /\ lock'[b] = r
      BY <3>1, <3>2
    <3> QED BY <3>2, <3>3
  <2> QED BY <2>1, <2>2
<1>5. ASSUME NEW b \in Buckets, lock'[b] # None
      PROVE  cache_item'[lock'[b]] # NoItem /\ Bucket(lock[b])' = b
  BY <1>4, <1>5 DEF Bucket
<1>6. ASSUME NEW q \in Procs, cache_item'[q] # NoItem
      PROVE  /\ lock'[Bucket(q)'] = q /\ BucketOf[cache_item'[q].key] = Bucket(q)'
             /\ pc'[q] \in HasItem
             /\ IF IsEvicted(cache_item'[q]) THEN ~IsCached(cache_item[q].key)'
                ELSE /\ InBucket(cache_item[q])' /\ cache_item'[q].key = key'[q]
                     /\ pc'[q] \in GetHasItem
  BY <1>2, <1>3, <1>6
<1> QED BY <1>5, <1>6 DEF LockGoesWithItem

\* An item can go where its key's item is, or anywhere if its key has none.
LEMMA InsertKeeps ==
  ASSUME Types, OneItemPerKey, NEW b \in Buckets, NEW s \in Slots, NEW it \in Items,
         BucketOf[it.key] = b, ~IsEvicted(it), Holding(it.key, b) \subseteq {s},
         Insert(b, s, it)
  PROVE  /\ items' \in [Buckets -> [Slots -> Items \cup {NoItem}]]
         /\ OneItemPerKey'
         /\ \A c \in Buckets : c # b => items'[c] = items[c]
         /\ items'[b] = [items[b] EXCEPT ![s] = it]
<1>1. /\ items' \in [Buckets -> [Slots -> Items \cup {NoItem}]]
      /\ \A c \in Buckets : c # b => items'[c] = items[c]
      /\ items'[b] = [items[b] EXCEPT ![s] = it]
      /\ \A t \in Slots : items'[b][t] = IF t = s THEN it ELSE items[b][t]
  BY DEF Types, Insert
<1>2. it # NoItem /\ it.key # None
  BY ItemFacts
<1>3. \A t \in Slots : items[b][t].key = it.key => t = s
  BY DEF Holding
<1>4. ASSUME NEW c \in Buckets, NEW u \in Slots, items'[c][u] # NoItem
      PROVE  /\ BucketOf[items'[c][u].key] = c /\ ~IsEvicted(items'[c][u])
             /\ \A t \in Slots : items'[c][t].key = items'[c][u].key => u = t
  <2>1. CASE c # b
    BY <1>1, <1>4, <2>1 DEF OneItemPerKey, Types
  <2>2. CASE c = b /\ u = s
    BY <1>1, <1>3, <1>4, <2>2 DEF OneItemPerKey, Types
  <2>3. CASE c = b /\ u # s
    <3>1. items'[c][u] = items[b][u] /\ items[b][u] # NoItem
      BY <1>1, <1>4, <2>3
    <3>2. items[b][u].key # it.key
      BY <1>3, <2>3
    <3>3. /\ BucketOf[items[b][u].key] = b /\ ~IsEvicted(items[b][u])
          /\ \A t \in Slots : items[b][t].key = items[b][u].key => u = t
      BY <3>1 DEF OneItemPerKey
    <3>4. \A t \in Slots : items'[c][t].key = items'[c][u].key => u = t
      BY <1>1, <2>3, <3>1, <3>2, <3>3
    <3> QED BY <2>3, <3>1, <3>3, <3>4
  <2> QED BY <2>1, <2>2, <2>3
<1> QED BY <1>1, <1>4 DEF OneItemPerKey

\* Who gives its item back unlocks the bucket it has locked.
LEMMA GivesBack ==
  ASSUME LockInv, NEW p \in Procs, cache_item[p] # NoItem, Unlock(p),
         Take(p, NoItem), UNCHANGED <<items, key>>,
         \A q \in Procs : q # p => pc'[q] = pc[q]
  PROVE  LockGoesWithItem'
<1>1. Types /\ LockGoesWithItem
  BY DEF LockInv
<1>2. \A q \in Procs : Bucket(q) \in Buckets /\ Bucket(q)' = Bucket(q)
  BY <1>1, CacheHash DEF Bucket, Types
<1>3. /\ lock[Bucket(p)] = p /\ cache_item'[p] = NoItem /\ lock'[Bucket(p)] = None
      /\ \A b \in Buckets : b # Bucket(p) => lock'[b] = lock[b]
      /\ \A q \in Procs : q # p => cache_item'[q] = cache_item[q]
  BY <1>1, <1>2 DEF Unlock, Take, Types, LockGoesWithItem
<1>4. \A it : IsCached(it.key)' = IsCached(it.key) /\ InBucket(it)' = InBucket(it)
  BY DEF IsCached, InBucket
<1>5. ASSUME NEW q \in Procs, cache_item'[q] # NoItem
      PROVE  /\ q # p /\ cache_item'[q] = cache_item[q] /\ pc'[q] = pc[q]
             /\ lock[Bucket(q)] = q /\ lock'[Bucket(q)] = q
  BY <1>1, <1>2, <1>3, <1>5 DEF LockGoesWithItem
<1>6. ASSUME NEW b \in Buckets, lock'[b] # None
      PROVE  cache_item'[lock'[b]] # NoItem /\ Bucket(lock[b])' = b
  <2>1. b # Bucket(p) /\ lock'[b] = lock[b]
    BY <1>2, <1>3, <1>6
  <2>2. PICK r \in Procs : r = lock[b] /\ cache_item[r] # NoItem /\ Bucket(r) = b
    BY <1>1, <1>6, <2>1, Locker
  <2> QED BY <1>3, <2>1, <2>2 DEF Bucket
<1> QED BY <1>1, <1>2, <1>4, <1>5, <1>6 DEF LockGoesWithItem

\* A victim is an item of the bucket, and in no bucket afterwards.
LEMMA Displaces ==
  ASSUME Types, OneItemPerKey, NEW b \in Buckets, NEW it \in Items,
         BucketOf[it.key] = b, ~IsEvicted(it),
         Holding(it.key, b) = {}, Empty(b) = {}, Displace(b, it)
  PROVE  /\ items' \in [Buckets -> [Slots -> Items \cup {NoItem}]]
         /\ replace' \in [Buckets -> Slots]
         /\ OneItemPerKey'
         /\ \A c \in Buckets : c # b => items'[c] = items[c]
         /\ \E v \in Items : /\ v = Evict(items[b][replace[b]]) /\ v # NoItem
                             /\ IsEvicted(v) /\ BucketOf[v.key] = b
                             /\ ~\E s \in Slots : items'[b][s].key = v.key
<1>1. PICK s \in Slots : s = replace[b]
  BY DEF Types
<1>2. Insert(b, s, it)
  BY <1>1 DEF Displace, Insert
<1>3. /\ items' \in [Buckets -> [Slots -> Items \cup {NoItem}]]
      /\ OneItemPerKey'
      /\ \A c \in Buckets : c # b => items'[c] = items[c]
      /\ items'[b] = [items[b] EXCEPT ![s] = it]
  BY <1>2, InsertKeeps
<1>4. replace' \in [Buckets -> Slots]
  BY DEF Displace, Types, Slots
<1>5. PICK v \in Items : v = items[b][s]
  BY DEF Types, Empty
<1>6. /\ ~IsEvicted(v) /\ BucketOf[v.key] = b /\ v # NoItem
      /\ \A t \in Slots : items[b][t].key = v.key => t = s
  BY <1>5, ItemFacts DEF OneItemPerKey
<1>7. v.key # it.key
  BY <1>5 DEF Holding
<1>8. /\ Evict(v) \in Items /\ IsEvicted(Evict(v)) /\ Evict(v).key = v.key
  BY <1>6, EvictFacts
<1>9. \A t \in Slots : items'[b][t].key # v.key
  BY <1>3, <1>6, <1>7 DEF Types
<1>10. Evict(v) # NoItem
  BY <1>8, ItemFacts
<1>11. /\ Evict(v) = Evict(items[b][replace[b]]) /\ BucketOf[Evict(v).key] = b
       /\ ~\E t \in Slots : items'[b][t].key = Evict(v).key
  BY <1>1, <1>5, <1>6, <1>8, <1>9
<1>12. \E w \in Items : /\ w = Evict(items[b][replace[b]]) /\ w # NoItem
                        /\ IsEvicted(w) /\ BucketOf[w.key] = b
                        /\ ~\E t \in Slots : items'[b][t].key = w.key
  <2> USE <1>8
  <2> WITNESS Evict(v) \in Items
  <2> QED BY <1>10, <1>11
<1> QED BY <1>3, <1>4, <1>12

\* The item of a set, and of a fill.
LEMMA NewItem ==
  ASSUME Types, NEW p \in Procs, val[p] # Absent, NEW flags \in {0, DIRTY}
  PROVE  /\ Item(p, flags) \in Items /\ Item(p, flags).key = key[p]
         /\ ~IsEvicted(Item(p, flags))
<1>1. key[p] \in Keys /\ val[p] \in Vals /\ flags \in 0 .. 3 /\ flags < 2
  BY DEF Types, DIRTY
<1>2. Item(p, flags) \in Items
  BY <1>1, ItemFacts DEF Item
<1>3. Item(p, flags).evicted = flags /\ Item(p, flags).key = key[p]
  BY DEF Item
<1> QED BY <1>1, <1>2, <1>3 DEF IsEvicted, EVICTED

\* A set keeps the value it came with.
LEMMA StepSetsHaveValues ==
  ASSUME Types, SetsHaveValues, NEW p \in Procs, Begin(p) \/ Step(p)
  PROVE  SetsHaveValues'
<1> USE DEF SetsHaveValues, Types, Goto
<1>1. CASE Begin(p)
  BY <1>1, CacheNone DEF Begin
<1>2. CASE GiveUp(p)
  BY <1>2 DEF GiveUp
<1>3. CASE CacheGet(p) \/ CacheSetGet(p)
  <2>1. /\ pc[p] \notin {"put", "write_victim", "free", "ack", "delete", "write"}
        /\ Goto(p, "out") \/ Goto(p, "query") \/ Goto(p, "evict")
        /\ \A q \in Procs : q # p => val'[q] = val[q]
    BY <1>3 DEF CacheGet, CacheSetGet
  <2> QED BY <2>1
<1>4. CASE Query(p) \/ GetEvict(p) \/ GetOut(p) \/ FreeOrRelease(p)
  BY <1>4 DEF Query, GetEvict, GetOut, FreeOrRelease
<1>5. CASE CacheSet(p) \/ SetEvict(p) \/ Free(p) \/ SetOut(p) \/ CacheDelete(p) \/ SetQuery(p)
  <2>1. UNCHANGED val /\ val[p] # Absent /\ \A q \in Procs : q # p => pc'[q] = pc[q]
    BY <1>5 DEF CacheSet, SetEvict, Free, SetOut, CacheDelete, SetQuery
  <2> QED BY <2>1
<1> QED BY <1>1, <1>2, <1>3, <1>4, <1>5 DEF Step

\* Each step of a request, from its coming on, keeps the invariant.
LEMMA StepLockInv ==
  ASSUME LockInv, UNCHANGED policy, NEW p \in Procs, Begin(p) \/ Step(p)
  PROVE  LockInv'
<1> USE DEF LockInv, Types, Goto, bucketVars, HasItem, GetHasItem
<1>0. SetsHaveValues'
  BY StepSetsHaveValues
<1>1. CASE Begin(p)
  <2>1. Types'
    <3>1. key' \in [Procs -> Keys]
      BY <1>1, CachePolicies DEF Begin, KeysOf
    <3>2. val' \in [Procs -> Vals \cup {Absent}]
      BY <1>1 DEF Begin
    <3>3. Goto(p, "get") \/ Goto(p, "put") \/ Goto(p, "delete")
      BY <1>1 DEF Begin
    <3>4. pc' \in [Procs -> {"idle", "get", "query", "fill", "evict", "out",
               "release", "put", "write_victim", "free", "ack", "delete", "write"}]
      BY <3>3
    <3> QED BY <1>1, <3>1, <3>2, <3>4 DEF Begin
  <2>2. \A q \in Procs : cache_item[q] # NoItem => q # p
    BY <1>1 DEF Begin, LockGoesWithItem
  <2>3. \A q \in Procs : q # p =>
          /\ key'[q] = key[q] /\ pc'[q] = pc[q] /\ Bucket(q)' = Bucket(q)
    BY <1>1 DEF Begin, Bucket
  <2>4. UNCHANGED <<items, lock, cache_item>>
    BY <1>1 DEF Begin
  <2>5. \A it : IsCached(it.key)' = IsCached(it.key) /\ InBucket(it)' = InBucket(it)
    BY <2>4 DEF IsCached, InBucket
  <2>6. LockGoesWithItem'
    BY <2>2, <2>3, <2>4, <2>5 DEF LockGoesWithItem
  <2> QED BY <1>0, <2>1, <2>4, <2>6, KeepOneItem
<1>2. CASE GiveUp(p)
  BY <1>0, <1>2, KeepOneItem, KeepLocks DEF GiveUp
<1>4. CASE Query(p)
  BY <1>0, <1>4, KeepOneItem, KeepLocks DEF Query
<1>6. CASE GetEvict(p)
  BY <1>0, <1>6, KeepOneItem, KeepLocks, ItemFacts DEF GetEvict, WriteVictim
<1>7. CASE GetOut(p)
  BY <1>0, <1>7, KeepOneItem, KeepLocks DEF GetOut
<1>10. CASE SetEvict(p)
  BY <1>0, <1>10, KeepOneItem, KeepLocks, ItemFacts DEF SetEvict, WriteVictim
<1>12. CASE SetOut(p)
  BY <1>0, <1>12, KeepOneItem, KeepLocks DEF SetOut
<1>14. CASE SetQuery(p)
  BY <1>0, <1>14, KeepOneItem, KeepLocks DEF SetQuery
<1>3. CASE CacheGet(p)
  <2>1. cache_item[p] = NoItem /\ lock[Bucket(p)] = None /\ pc[p] = "get"
    BY <1>3 DEF CacheGet, LockGoesWithItem
  <2>2. Bucket(p) \in Buckets
    BY CacheHash DEF Bucket
  <2>3. ASSUME NEW s \in Holding(key[p], Bucket(p)),
               Lock(p), Take(p, items[Bucket(p)][s]), Goto(p, "out"),
               val' = [val EXCEPT ![p] = items[Bucket(p)][s].val],
               UNCHANGED <<items, replace, store, key, live>>
        PROVE  LockInv'
    <3>1. PICK it \in Items \cup {NoItem} : it = items[Bucket(p)][s] /\ s \in Slots
      BY <2>2, <2>3 DEF Holding
    <3>2. it \in Items /\ it.key = key[p] /\ it.val \in Vals /\ it # NoItem
      BY <2>3, <3>1, ItemFacts, CacheNone DEF Holding
    <3>3. BucketOf[it.key] = Bucket(p) /\ ~IsEvicted(it)
      BY <2>2, <3>1, <3>2 DEF OneItemPerKey
    <3>4. Types'
      BY <2>3, <3>1, <3>2 DEF Take, Lock
    <3>5. /\ \A b \in Buckets : b # Bucket(p) => lock'[b] = lock[b]
          /\ lock'[Bucket(p)] = p /\ cache_item'[p] = it /\ pc'[p] = "out"
      BY <2>2, <2>3, <3>1 DEF Take, Lock
    <3>6. \A q \in Procs : q # p => pc'[q] = pc[q] /\ cache_item'[q] = cache_item[q]
      BY <2>3 DEF Take
    <3>7. LockGoesWithItem'
      <4>1. \A c \in Buckets : c # Bucket(p) => items'[c] = items[c] /\ lock'[c] = lock[c]
        BY <2>3, <3>5
      <4>2. /\ cache_item'[p] # NoItem /\ BucketOf[cache_item'[p].key] = Bucket(p)
            /\ ~IsEvicted(cache_item'[p]) /\ pc'[p] \in HasItem
            /\ items'[Bucket(p)][s] = cache_item'[p] /\ s \in Slots
        BY <2>3, <3>1, <3>2, <3>3, <3>5
      <4>3. IF IsEvicted(cache_item'[p])
            THEN ~\E r \in Slots : items'[Bucket(p)][r].key = cache_item'[p].key
            ELSE /\ \E r \in Slots : items'[Bucket(p)][r] = cache_item'[p]
                 /\ cache_item'[p].key = key[p] /\ pc'[p] \in GetHasItem
        BY <3>2, <3>5, <4>2
      <4>4. LockInv /\ UNCHANGED key /\ lock[Bucket(p)] = None /\ cache_item[p] = NoItem
        BY <2>1, <2>3
      <4> HIDE DEF LockInv, HasItem, GetHasItem
      <4> QED BY <3>5, <3>6, <4>1, <4>2, <4>3, <4>4, UnlockedBucket
    <3> QED BY <1>0, <2>3, <3>4, <3>7, KeepOneItem
  <2>4. CASE Goto(p, "query") /\ UNCHANGED <<lock, cache_item, val>>
    BY <1>0, <1>3, <2>4, KeepOneItem, KeepLocks DEF CacheGet
  <2> QED BY <1>3, <2>3, <2>4 DEF CacheGet
<1>13. CASE CacheDelete(p)
  <2>1. cache_item[p] = NoItem /\ lock[Bucket(p)] = None /\ pc[p] = "delete"
    BY <1>13 DEF CacheDelete, LockGoesWithItem
  <2>2. Bucket(p) \in Buckets
    BY CacheHash DEF Bucket
  <2>3. ASSUME NEW s \in Holding(key[p], Bucket(p)), Insert(Bucket(p), s, NoItem),
               Goto(p, "write"),
               UNCHANGED <<replace, lock, store, key, val, cache_item>>
        PROVE  LockInv'
    <3>1. s \in Slots
      BY DEF Holding
    <3>2. /\ items' \in [Buckets -> [Slots -> Items \cup {NoItem}]]
          /\ \A b \in Buckets : b # Bucket(p) => items'[b] = items[b]
          /\ \A b \in Buckets, t \in Slots :
               items'[b][t] = NoItem \/ items'[b][t] = items[b][t]
      BY <2>2, <2>3, <3>1 DEF Insert
    <3>3. Types'
      BY <2>3, <3>2
    <3>4. OneItemPerKey'
      <4>1. ASSUME NEW b \in Buckets, NEW u \in Slots, items'[b][u] # NoItem
            PROVE  /\ BucketOf[items'[b][u].key] = b /\ ~IsEvicted(items'[b][u])
                   /\ \A t \in Slots : items'[b][t].key = items'[b][u].key => u = t
        <5>1. items'[b][u] = items[b][u] /\ items[b][u] # NoItem
          BY <3>2, <4>1
        <5>2. items[b][u].key # None
          BY <5>1, ItemFacts, CacheNone
        <5>3. /\ BucketOf[items[b][u].key] = b /\ ~IsEvicted(items[b][u])
              /\ \A t \in Slots : items[b][t].key = items[b][u].key => u = t
          BY <5>1 DEF OneItemPerKey
        <5>4. \A t \in Slots : items'[b][t].key = items'[b][u].key => u = t
          BY <3>2, <5>1, <5>2, <5>3, ItemFacts
        <5> QED BY <5>1, <5>3, <5>4
      <4> QED BY <4>1 DEF OneItemPerKey
    <3>5. LockGoesWithItem'
      BY <2>1, <2>3, <3>2, UnlockedBucket
    <3> QED BY <1>0, <3>3, <3>4, <3>5
  <2>4. CASE UNCHANGED items
    BY <1>0, <1>13, <2>4, KeepOneItem, KeepLocks DEF CacheDelete
  <2> QED BY <1>13, <2>3, <2>4 DEF CacheDelete
<1>8. CASE FreeOrRelease(p)
  <2>1. CASE cache_item[p] = NoItem
    BY <1>0, <1>8, <2>1, KeepOneItem, KeepLocks DEF FreeOrRelease, Take
  <2>2. CASE cache_item[p] # NoItem
    <3>1. Types'
      BY <1>8, <2>2 DEF FreeOrRelease, Take, Unlock
    <3>2. LockGoesWithItem'
      BY <1>8, <2>2, GivesBack DEF FreeOrRelease
    <3> QED BY <1>0, <1>8, <3>1, <3>2, KeepOneItem DEF FreeOrRelease
  <2> QED BY <2>1, <2>2
<1>11. CASE Free(p)
  <2>1. CASE cache_item[p] = NoItem
    BY <1>0, <1>11, <2>1, KeepOneItem, KeepLocks DEF Free, Take
  <2>2. CASE cache_item[p] # NoItem
    <3>1. Types'
      BY <1>11, <2>2 DEF Free, Take, Unlock
    <3>2. IsEvicted(cache_item[p])
      BY <1>11, <2>2 DEF Free, LockGoesWithItem
    <3>3. LockGoesWithItem'
      BY <1>11, <2>2, <3>2, GivesBack DEF Free
    <3> QED BY <1>0, <1>11, <3>1, <3>3, KeepOneItem DEF Free
  <2> QED BY <2>1, <2>2
<1>5. CASE CacheSetGet(p)
  <2> DEFINE b == Bucket(p)
             nit == Item(p, 0)
  <2>1. b \in Buckets /\ BucketOf[key[p]] = b
    BY CacheHash DEF Bucket
  <2>2. cache_item[p] = NoItem /\ pc[p] = "fill" /\ pc' = [pc EXCEPT ![p] = "evict"]
    BY <1>5 DEF CacheSetGet, LockGoesWithItem
  <2>3. CASE UNCHANGED <<bucketVars, val, cache_item, live>>
    BY <1>0, <1>5, <2>3, KeepOneItem, KeepLocks DEF CacheSetGet
  <2>4. ASSUME val[p] # Absent, lock[b] = None,
               NEW s \in Holding(key[p], b), Lock(p), Take(p, items[b][s]),
               val' = [val EXCEPT ![p] = items[b][s].val],
               UNCHANGED <<items, replace, live, store, key>>
        PROVE  LockInv'
    <3>0. s \in Slots /\ items[b][s] # NoItem /\ items[b][s].key = key[p]
      <4> SUFFICES s \in Holding(key[p], b) => s \in Slots /\ items[b][s] # NoItem
                                              /\ items[b][s].key = key[p]
        BY <2>4
      <4> QED BY ItemFacts, CacheNone DEF Holding
    <3>1. PICK it \in Items \cup {NoItem} : it = items[b][s] /\ s \in Slots
      BY <2>1, <3>0
    <3>2. it \in Items /\ it.key = key[p] /\ it.val \in Vals /\ it # NoItem
      BY <3>0, <3>1, ItemFacts
    <3>3. BucketOf[it.key] = b /\ ~IsEvicted(it)
      BY <2>1, <3>1, <3>2 DEF OneItemPerKey
    <3>4. Types'
      BY <2>2, <2>4, <3>1, <3>2 DEF Take, Lock
    <3>5. /\ \A c \in Buckets : c # b => lock'[c] = lock[c]
          /\ lock'[b] = p /\ cache_item'[p] = it /\ pc'[p] = "evict"
      BY <2>1, <2>2, <2>4, <3>1 DEF Take, Lock
    <3>6. \A q \in Procs : q # p => pc'[q] = pc[q] /\ cache_item'[q] = cache_item[q]
      BY <2>2, <2>4 DEF Take
    <3>7. /\ lock[Bucket(p)] = None /\ UNCHANGED <<items, key>>
          /\ \A c \in Buckets : c # Bucket(p) =>
               items'[c] = items[c] /\ lock'[c] = lock[c]
          /\ lock'[Bucket(p)] = p /\ BucketOf[cache_item'[p].key] = Bucket(p)
          /\ ~IsEvicted(cache_item'[p])
          /\ \E t \in Slots : items'[Bucket(p)][t] = cache_item'[p]
          /\ cache_item'[p].key = key[p] /\ cache_item'[p] # NoItem
      BY <2>4, <3>1, <3>2, <3>3, <3>5
    <3>8. LockGoesWithItem'
      BY <2>2, <3>5, <3>6, <3>7, UnlockedBucket
    <3> QED BY <1>0, <2>4, <3>4, <3>8, KeepOneItem
  <2>5. ASSUME val[p] # Absent PROVE nit \in Items /\ nit.key = key[p] /\ ~IsEvicted(nit)
    BY <2>5, NewItem
  <2>6. ASSUME val[p] # Absent, lock[b] = None, Holding(key[p], b) = {},
               NEW s \in LastEmpty(b), Insert(b, s, nit),
               UNCHANGED <<replace, lock, val, cache_item, store, key>>
        PROVE  LockInv'
    <3>1. s \in Slots
      BY <2>6 DEF LastEmpty, Empty
    <3> HIDE DEF b, nit
    <3>2. /\ items' \in [Buckets -> [Slots -> Items \cup {NoItem}]]
          /\ OneItemPerKey'
          /\ \A c \in Buckets : c # b => items'[c] = items[c]
      BY <2>1, <2>5, <2>6, <3>1, InsertKeeps
    <3>3. Types'
      BY <2>2, <2>6, <3>2
    <3>4. LockGoesWithItem'
      BY <2>2, <2>6, <3>2, UnlockedBucket DEF b
    <3> QED BY <1>0, <3>2, <3>3, <3>4
  <2>7. ASSUME val[p] # Absent, lock[b] = None, Holding(key[p], b) = {}, Empty(b) = {},
               Displace(b, nit),
               \/ UNCHANGED <<lock, cache_item>>
               \/ Lock(p) /\ Take(p, Evict(items[b][replace[b]])),
               UNCHANGED <<val, store, key>>
        PROVE  LockInv'
    <3> HIDE DEF b, nit
    <3>1. /\ items' \in [Buckets -> [Slots -> Items \cup {NoItem}]]
          /\ replace' \in [Buckets -> Slots]
          /\ OneItemPerKey'
          /\ \A c \in Buckets : c # b => items'[c] = items[c]
      BY <2>1, <2>5, <2>7, Displaces
    <3>2. PICK v \in Items : /\ v = Evict(items[b][replace[b]]) /\ v # NoItem
                             /\ IsEvicted(v) /\ BucketOf[v.key] = b
                             /\ ~\E s \in Slots : items'[b][s].key = v.key
      BY <2>1, <2>5, <2>7, Displaces
    <3>3. CASE UNCHANGED <<lock, cache_item>>
      <4>1. Types'
        BY <2>2, <2>7, <3>1, <3>3
      <4>2. LockGoesWithItem'
        BY <2>2, <2>7, <3>1, <3>3, UnlockedBucket DEF b
      <4> QED BY <1>0, <3>1, <4>1, <4>2
    <3>4. CASE Lock(p) /\ Take(p, v)
      <4>1. Types'
        BY <2>2, <2>7, <3>1, <3>4 DEF Lock, Take
      <4>2. /\ \A c \in Buckets : c # b => lock'[c] = lock[c]
            /\ lock'[b] = p /\ cache_item'[p] = v /\ pc'[p] = "evict"
            /\ \A q \in Procs : q # p => pc'[q] = pc[q] /\ cache_item'[q] = cache_item[q]
        BY <2>1, <2>2, <3>4 DEF Lock, Take, b
      <4>3. /\ \A c \in Buckets : c # Bucket(p) =>
                  items'[c] = items[c] /\ lock'[c] = lock[c]
            /\ ~\E s \in Slots : items'[Bucket(p)][s].key = cache_item'[p].key
            /\ lock'[Bucket(p)] = p /\ cache_item'[p] # NoItem
            /\ BucketOf[cache_item'[p].key] = Bucket(p)
            /\ IsEvicted(cache_item'[p])
        BY <3>1, <3>2, <4>2 DEF b
      <4>4. LockGoesWithItem'
        BY <2>2, <2>7, <4>2, <4>3, UnlockedBucket DEF b
      <4> QED BY <1>0, <3>1, <4>1, <4>4
    <3> QED BY <2>7, <3>2, <3>3, <3>4
  <2> QED BY <1>5, <2>3, <2>4, <2>6, <2>7 DEF CacheSetGet
<1>9. CASE CacheSet(p)
  <2> DEFINE b == Bucket(p)
             nit == Item(p, DIRTY)
  <2>1. b \in Buckets /\ BucketOf[key[p]] = b
    BY CacheHash DEF Bucket
  <2>2. /\ cache_item[p] = NoItem /\ pc[p] = "put" /\ lock[b] = None /\ val[p] # Absent
        /\ pc' = [pc EXCEPT ![p] = IF WriteBack THEN "write_victim" ELSE "idle"]
        /\ UNCHANGED <<store, key, val>>
    BY <1>9 DEF CacheSet, LockGoesWithItem, SetsHaveValues
  <2>3. CASE UNCHANGED <<bucketVars, cache_item>>
    BY <1>0, <2>2, <2>3, KeepOneItem, KeepLocks
  <2>4. nit \in Items /\ nit.key = key[p] /\ ~IsEvicted(nit)
    BY <2>2, NewItem
  <2>5. ASSUME NEW s \in Slots, Holding(key[p], b) \subseteq {s}, Insert(b, s, nit),
               UNCHANGED <<replace, lock, cache_item>>
        PROVE  LockInv'
    <3> HIDE DEF b, nit
    <3>1. /\ items' \in [Buckets -> [Slots -> Items \cup {NoItem}]]
          /\ OneItemPerKey'
          /\ \A c \in Buckets : c # b => items'[c] = items[c]
      BY <2>1, <2>4, <2>5, InsertKeeps
    <3>2. Types'
      BY <2>2, <2>5, <3>1
    <3>3. LockGoesWithItem'
      BY <2>2, <2>5, <3>1, UnlockedBucket DEF b
    <3> QED BY <1>0, <3>1, <3>2, <3>3
  <2>6. \A s \in Holding(key[p], b) : s \in Slots /\ Holding(key[p], b) \subseteq {s}
    BY <2>1, ItemFacts, CacheNone DEF Holding, OneItemPerKey
  <2>7. \A s \in LastEmpty(b) : s \in Slots
    BY DEF LastEmpty, Empty
  <2>8. ASSUME Holding(key[p], b) = {}, Empty(b) = {}, Displace(b, nit),
               \/ UNCHANGED <<lock, cache_item>>
               \/ WriteBack /\ Lock(p) /\ Take(p, Evict(items[b][replace[b]]))
        PROVE  LockInv'
    <3> HIDE DEF b, nit
    <3>1. /\ items' \in [Buckets -> [Slots -> Items \cup {NoItem}]]
          /\ replace' \in [Buckets -> Slots]
          /\ OneItemPerKey'
          /\ \A c \in Buckets : c # b => items'[c] = items[c]
      BY <2>1, <2>4, <2>8, Displaces
    <3>2. PICK v \in Items : /\ v = Evict(items[b][replace[b]]) /\ v # NoItem
                             /\ IsEvicted(v) /\ BucketOf[v.key] = b
                             /\ ~\E s \in Slots : items'[b][s].key = v.key
      BY <2>1, <2>4, <2>8, Displaces
    <3>3. CASE UNCHANGED <<lock, cache_item>>
      <4>1. Types'
        BY <2>2, <3>1, <3>3
      <4>2. LockGoesWithItem'
        BY <2>2, <3>1, <3>3, UnlockedBucket DEF b
      <4> QED BY <1>0, <3>1, <4>1, <4>2
    <3>4. CASE WriteBack /\ Lock(p) /\ Take(p, v)
      <4>1. Types'
        BY <2>2, <3>1, <3>4 DEF Lock, Take
      <4>2. /\ \A c \in Buckets : c # b => lock'[c] = lock[c]
            /\ lock'[b] = p /\ cache_item'[p] = v /\ pc'[p] = "write_victim"
            /\ \A q \in Procs : q # p => pc'[q] = pc[q] /\ cache_item'[q] = cache_item[q]
        BY <2>1, <2>2, <3>4 DEF Lock, Take, b
      <4>3. /\ \A c \in Buckets : c # Bucket(p) =>
                  items'[c] = items[c] /\ lock'[c] = lock[c]
            /\ ~\E s \in Slots : items'[Bucket(p)][s].key = cache_item'[p].key
            /\ lock'[Bucket(p)] = p /\ cache_item'[p] # NoItem
            /\ BucketOf[cache_item'[p].key] = Bucket(p)
            /\ IsEvicted(cache_item'[p])
        BY <3>1, <3>2, <4>2 DEF b
      <4>4. LockGoesWithItem'
        BY <2>2, <4>2, <4>3, UnlockedBucket DEF b
      <4> QED BY <1>0, <3>1, <4>1, <4>4
    <3> QED BY <2>8, <3>2, <3>3, <3>4
  <2>9. \/ UNCHANGED <<bucketVars, cache_item>>
        \/ \E s \in Slots : /\ Holding(key[p], b) \subseteq {s} /\ Insert(b, s, nit)
                            /\ UNCHANGED <<replace, lock, cache_item>>
        \/ /\ Holding(key[p], b) = {} /\ Empty(b) = {} /\ Displace(b, nit)
           /\ \/ UNCHANGED <<lock, cache_item>>
              \/ WriteBack /\ Lock(p) /\ Take(p, Evict(items[b][replace[b]]))
    BY <1>9, <2>6, <2>7 DEF CacheSet
  <2> QED BY <2>3, <2>5, <2>8, <2>9
<1> QED
  BY <1>1, <1>2, <1>3, <1>4, <1>5, <1>6, <1>7, <1>8, <1>9, <1>10, <1>11, <1>12,
     <1>13, <1>14 DEF Step

\* So does a stutter.
LEMMA StutterLockInv ==
  ASSUME LockInv, UNCHANGED vars
  PROVE  LockInv'
<1>1. Types' /\ SetsHaveValues'
  BY DEF LockInv, Types, SetsHaveValues, vars
<1>2. OneItemPerKey'
  BY KeepOneItem DEF LockInv, vars
<1>3. LockGoesWithItem'
  BY KeepLocks DEF LockInv, vars
<1> QED BY <1>1, <1>2, <1>3 DEF LockInv

\* The inductive invariant: types, OneItemPerKey and LockGoesWithItem need each
\* other.  A victim is in no bucket because no key was there twice, and a bucket
\* keeps its items while it is locked because the lock is with its item.
THEOREM CacheInvariant == Spec => []LockInv
<1>1. Init => LockInv
  BY InitLockInv
<1>2. LockInv /\ [Next]_vars => LockInv'
  BY StepLockInv, StutterLockInv DEF Next
<1> QED BY <1>1, <1>2, PTL DEF Spec

\* A bucket is locked exactly by the request that has an item of it, and no
\* request that is over has one (cache_get, cache_put, cache_release): whatever
\* the policy and the number of requests, nobody unlocks a lock of another.
THEOREM CacheLockGoesWithItem == Spec => []LockGoesWithItem
  BY CacheInvariant, PTL DEF LockInv

\* No bucket ever holds a key twice, or a key that is not its own (cache_put,
\* cache_put_or_get), however many requests of the key race.
THEOREM CacheOneItemPerKey == Spec => []OneItemPerKey
  BY CacheInvariant, PTL DEF LockInv
-----------------------------------------------------------------------------
(* Clean items are stored, where each key has one process at a time.        *)

\* The requests of one key go to one process.
Steered == \A p, q \in Procs : p # q => KeysOf[p] \cap KeysOf[q] = {}

\* From the miss to the fill the key is in no bucket and in no victim's hand,
\* and what the query found is still in the store; with write-through, from
\* the delete to the put likewise.
Fresh(p) ==
  /\ pc[p] # "idle" => key[p] \in KeysOf[p]
  /\ pc[p] \in {"query", "fill"} =>
       /\ ~IsCached(key[p])
       /\ \A q \in Procs : cache_item[q].key # key[p]
  /\ pc[p] = "fill" => val[p] = store[key[p]]
  /\ WriteBack => pc[p] \notin {"delete", "write"}
  /\ ~WriteBack => pc[p] \notin {"write_victim", "free"}
  /\ ~WriteBack /\ pc[p] \in {"write", "ack", "put"} => ~IsCached(key[p])
  /\ ~WriteBack /\ pc[p] \in {"ack", "put"} => val[p] = store[key[p]]

AllFresh == CleanIsStored /\ \A p \in Procs : Fresh(p)

\* What a step of p leaves as it is for the others: buckets gain no key but p's,
\* a hand takes only what a bucket had, and the store changes at p's own key or
\* at a victim's.
Disturbs(p) ==
  /\ UNCHANGED <<policy, key>>
  /\ \A q \in Procs : q # p => pc'[q] = pc[q] /\ val'[q] = val[q]
  /\ \A k \in Keys : k # key[p] /\ ~IsCached(k) => ~IsCached(k)'
  /\ \A q \in Procs : \/ cache_item'[q] = cache_item[q]
                      \/ cache_item'[q] = NoItem
                      \/ IsCached(cache_item'[q].key)
  /\ \A k \in Keys : \/ store'[k] = store[k]
                     \/ k = key[p]
                     \/ WriteBack /\ \E q \in Procs : cache_item[q].key = k

\* A step that disturbs its own key alone leaves the other requests fresh.
LEMMA OthersStayFresh ==
  ASSUME Types, Steered, NEW p \in Procs, pc[p] # "idle", Fresh(p), Disturbs(p),
         NEW q \in Procs, q # p, Fresh(q)
  PROVE  Fresh(q)'
<1>1. key[q] \in Keys /\ key'[q] = key[q] /\ pc'[q] = pc[q] /\ val'[q] = val[q]
  BY DEF Types, Disturbs
<1>2. pc[q] # "idle" => key[q] # key[p]
  BY DEF Fresh, Steered
<1>3. /\ WriteBack' = WriteBack
      /\ KeysOf' = KeysOf
  BY DEF Disturbs, WriteBack, KeysOf
<1>4. ASSUME pc[q] # "idle", ~IsCached(key[q])
      PROVE  ~IsCached(key[q])'
  <2>1. ~IsCached(key[q]) => \A s \in Slots : ~(items'[BucketOf[key[q]]][s].key = key[q])
    BY <1>1, <1>2, <1>4 DEF Disturbs, IsCached
  <2> QED BY <1>1, <1>4, <2>1 DEF IsCached
<1>5. ASSUME pc[q] \in {"query", "fill"}, NEW r \in Procs
      PROVE  cache_item'[r].key # key[q]
  <2>1. cache_item[r].key # key[q] /\ ~IsCached(key[q])
    BY <1>5 DEF Fresh
  <2>2. CASE cache_item'[r] = NoItem
    BY <1>1, <2>2, ItemFacts, CacheNone
  <2>3. CASE IsCached(cache_item'[r].key)
    BY <2>1, <2>3
  <2> QED BY <2>1, <2>2, <2>3 DEF Disturbs
<1>6. pc[q] = "fill" => store'[key[q]] = store[key[q]]
  BY <1>1, <1>2 DEF Disturbs, Fresh
<1>7. ~WriteBack /\ pc[q] \in {"ack", "put"} => store'[key[q]] = store[key[q]]
  BY <1>1, <1>2 DEF Disturbs, Fresh
<1> QED BY <1>1, <1>3, <1>4, <1>5, <1>6, <1>7 DEF Fresh

\* With its own freshness and a clean cache, it leaves all of them fresh.
LEMMA AllStayFresh ==
  ASSUME Types, Steered, AllFresh, NEW p \in Procs, pc[p] # "idle", Disturbs(p),
         Fresh(p)', CleanIsStored'
  PROVE  AllFresh'
  BY OthersStayFresh DEF AllFresh

\* A clean item is stored if it is one that was, or if it comes with the store's
\* value, while the store keeps what the buckets have.
LEMMA CleanStays ==
  ASSUME CleanIsStored, UNCHANGED policy,
         \A b \in Buckets : \A s \in Slots :
            \/ items'[b][s] = items[b][s]
            \/ items'[b][s] = NoItem
            \/ WriteBack /\ items'[b][s].evicted = DIRTY
            \/ items'[b][s].val = store'[items'[b][s].key],
         \A b \in Buckets : \A s \in Slots :
            items[b][s] # NoItem => store'[items[b][s].key] = store[items[b][s].key]
  PROVE  CleanIsStored'
<1>1. WriteBack' = WriteBack
  BY DEF WriteBack
<1>2. ASSUME NEW b \in Buckets, NEW s \in Slots, items'[b][s] # NoItem,
             WriteBack => items'[b][s].evicted = 0
      PROVE  items'[b][s].val = store'[items'[b][s].key]
  <2>1. CASE items'[b][s] = items[b][s]
    BY <1>2, <2>1 DEF CleanIsStored
  <2> QED BY <1>2, <2>1 DEF DIRTY
<1> QED BY <1>1, <1>2 DEF CleanIsStored

\* An item of p's key goes into p's bucket.
LEMMA PutStays ==
  ASSUME Types, CleanIsStored, NEW p \in Procs, NEW s \in Slots, NEW it \in Items,
         it.key = key[p], Insert(Bucket(p), s, it), UNCHANGED <<policy, store, key>>,
         (WriteBack /\ it.evicted = DIRTY) \/ it.val = store[key[p]]
  PROVE  /\ CleanIsStored'
         /\ \A k \in Keys : k # key[p] /\ ~IsCached(k) => ~IsCached(k)'
<1>1. Bucket(p) \in Buckets
  BY CacheHash DEF Types, Bucket
<1>2. \A b \in Buckets : \A t \in Slots :
        \/ items'[b][t] = items[b][t]
        \/ items'[b][t] = it
  BY <1>1 DEF Types, Insert
<1>3. CleanIsStored'
  BY <1>2, CleanStays
<1>4. \A k \in Keys : k # key[p] /\ ~IsCached(k) => ~IsCached(k)'
  BY <1>2, CacheHash DEF IsCached
<1> QED BY <1>3, <1>4

\* The steps that change neither the buckets nor the store.
LEMMA QuietStays ==
  ASSUME AllFresh, NEW p \in Procs, UNCHANGED <<policy, items, store, key>>,
         \A q \in Procs : q # p => pc'[q] = pc[q] /\ val'[q] = val[q],
         \A q \in Procs : \/ cache_item'[q] = cache_item[q]
                          \/ cache_item'[q] = NoItem
                          \/ IsCached(cache_item'[q].key)
  PROVE  Disturbs(p) /\ CleanIsStored'
<1>1. \A k : IsCached(k)' = IsCached(k)
  BY DEF IsCached
<1>2. Disturbs(p)
  BY <1>1 DEF Disturbs
<1>3. CleanIsStored'
  BY DEF AllFresh, CleanIsStored, WriteBack
<1> QED BY <1>2, <1>3

\* A victim's key is in no bucket: writing it to the store leaves clean items
\* stored.
LEMMA VictimStays ==
  ASSUME LockInv, AllFresh, NEW p \in Procs, WriteBack, WriteVictim(p),
         UNCHANGED <<policy, items, key, val, cache_item>>,
         \A q \in Procs : q # p => pc'[q] = pc[q]
  PROVE  Disturbs(p) /\ CleanIsStored'
<1>1. \A k : IsCached(k)' = IsCached(k)
  BY DEF IsCached
<1>2. \A k \in Keys : store'[k] = store[k] \/ cache_item[p].key = k
  BY DEF WriteVictim, LockInv, Types
<1>3. Disturbs(p)
  BY <1>1, <1>2 DEF Disturbs
<1>4. ASSUME NEW b \in Buckets, NEW s \in Slots, items[b][s] # NoItem
      PROVE  store'[items[b][s].key] = store[items[b][s].key]
  <2>1. items[b][s].key \in Keys /\ BucketOf[items[b][s].key] = b
    BY <1>4, ItemFacts DEF LockInv, Types, OneItemPerKey
  <2>2. IsCached(items[b][s].key)
    BY <2>1 DEF IsCached
  <2>3. CASE cache_item[p] # NoItem /\ cache_item[p].evicted = DIRTY + EVICTED
    <3>1. ~IsCached(cache_item[p].key)
      BY <2>3 DEF LockInv, LockGoesWithItem, IsEvicted, DIRTY, EVICTED
    <3> QED BY <1>2, <2>1, <2>2, <3>1
  <2>4. CASE ~(cache_item[p] # NoItem /\ cache_item[p].evicted = DIRTY + EVICTED)
    BY <2>4 DEF WriteVictim
  <2> QED BY <2>3, <2>4
<1>5. CleanIsStored'
  BY <1>4, CleanStays DEF AllFresh
<1> QED BY <1>3, <1>5

\* Each step of a request keeps all of them fresh.
LEMMA StepFresh ==
  ASSUME LockInv, Steered, AllFresh, UNCHANGED policy, NEW p \in Procs, Step(p)
  PROVE  AllFresh'
<1> USE DEF LockInv, Types, Goto, bucketVars
<1>0. /\ Types /\ Fresh(p) /\ CleanIsStored /\ key[p] \in Keys
      /\ Bucket(p) \in Buckets /\ BucketOf[key[p]] = Bucket(p)
      /\ WriteBack' = WriteBack /\ KeysOf' = KeysOf
  BY CacheHash DEF AllFresh, Bucket, WriteBack, KeysOf
<1>a. ASSUME pc[p] # "idle", Disturbs(p), Fresh(p)', CleanIsStored'
      PROVE  AllFresh'
  BY <1>a, AllStayFresh
<1>1. CASE GiveUp(p)
  <2>1. Disturbs(p) /\ CleanIsStored' /\ pc[p] # "idle"
    BY <1>1, QuietStays DEF GiveUp
  <2>2. Fresh(p)'
    BY <1>0, <1>1 DEF GiveUp, Fresh
  <2> QED BY <1>a, <2>1, <2>2
<1>2. CASE CacheGet(p)
  <2>1. /\ pc[p] = "get" /\ lock[Bucket(p)] = None /\ UNCHANGED <<items, store, key>>
        /\ \A q \in Procs : q # p => pc'[q] = pc[q] /\ val'[q] = val[q]
    BY <1>2 DEF CacheGet
  <2>2. ASSUME NEW s \in Holding(key[p], Bucket(p)), Take(p, items[Bucket(p)][s]),
               Goto(p, "out")
        PROVE  Disturbs(p) /\ CleanIsStored' /\ Fresh(p)'
    <3>1. IsCached(items[Bucket(p)][s].key)
      BY <1>0, <2>2 DEF Holding, IsCached
    <3>2. \A q \in Procs : cache_item'[q] = cache_item[q] \/ IsCached(cache_item'[q].key)
      BY <2>2, <3>1 DEF Take
    <3>3. Disturbs(p) /\ CleanIsStored'
      BY <2>1, <3>2, QuietStays
    <3> QED BY <1>0, <2>1, <2>2, <3>3 DEF Fresh
  <2>3. ASSUME Holding(key[p], Bucket(p)) = {}, Goto(p, "query"),
               UNCHANGED <<lock, cache_item, val>>
        PROVE  Disturbs(p) /\ CleanIsStored' /\ Fresh(p)'
    <3>1. Disturbs(p) /\ CleanIsStored'
      BY <2>1, <2>3, QuietStays
    <3>2. ~IsCached(key[p])
      BY <1>0, <2>3 DEF Holding, IsCached
    <3>3. ASSUME NEW q \in Procs PROVE cache_item[q].key # key[p]
      <4>1. CASE cache_item[q] = NoItem
        BY <1>0, <4>1, ItemFacts, CacheNone
      <4>2. CASE cache_item[q] # NoItem
        BY <1>0, <2>1, <4>2, CacheNone DEF LockGoesWithItem
      <4> QED BY <4>1, <4>2
    <3>4. IsCached(key[p])' = IsCached(key[p])
      BY <2>1 DEF IsCached
    <3> QED BY <1>0, <2>1, <2>3, <3>1, <3>2, <3>3, <3>4 DEF Fresh
  <2> QED BY <1>2, <1>a, <2>1, <2>2, <2>3 DEF CacheGet
<1>3. CASE Query(p)
  <2>1. Disturbs(p) /\ CleanIsStored' /\ pc[p] = "query"
    BY <1>3, QuietStays DEF Query
  <2>2. IsCached(key[p])' = IsCached(key[p])
    BY <1>3 DEF Query, IsCached
  <2>3. Fresh(p)'
    BY <1>0, <1>3, <2>2 DEF Query, Fresh
  <2> QED BY <1>a, <2>1, <2>3
<1>4. CASE GetEvict(p)
  <2>1. Disturbs(p) /\ CleanIsStored' /\ pc[p] # "idle"
    <3>1. CASE WriteBack
      BY <1>4, <3>1, VictimStays DEF GetEvict
    <3>2. CASE ~WriteBack
      BY <1>4, <3>2, QuietStays DEF GetEvict
    <3> QED BY <1>4, <3>1, <3>2 DEF GetEvict
  <2>2. Fresh(p)'
    BY <1>0, <1>4 DEF GetEvict, Fresh
  <2> QED BY <1>a, <2>1, <2>2
<1>5. CASE GetOut(p)
  <2>1. Disturbs(p) /\ CleanIsStored' /\ pc[p] # "idle"
    BY <1>5, QuietStays DEF GetOut
  <2>2. Fresh(p)'
    BY <1>0, <1>5 DEF GetOut, Fresh
  <2> QED BY <1>a, <2>1, <2>2
<1>6. CASE FreeOrRelease(p)
  <2>1. Disturbs(p) /\ CleanIsStored' /\ pc[p] # "idle"
    BY <1>6, QuietStays DEF FreeOrRelease, Take
  <2>2. Fresh(p)'
    BY <1>0, <1>6 DEF FreeOrRelease, Fresh
  <2> QED BY <1>a, <2>1, <2>2
<1>7. CASE SetEvict(p)
  <2>1. pc[p] = "write_victim" /\ WriteBack
    BY <1>0, <1>7 DEF SetEvict, Fresh
  <2>2. Disturbs(p) /\ CleanIsStored'
    BY <1>7, <2>1, VictimStays DEF SetEvict
  <2>3. Fresh(p)'
    BY <1>0, <1>7, <2>1 DEF SetEvict, Fresh
  <2> QED BY <1>a, <2>1, <2>2, <2>3
<1>8. CASE Free(p)
  <2>1. pc[p] = "free" /\ WriteBack
    BY <1>0, <1>8 DEF Free, Fresh
  <2>2. Disturbs(p) /\ CleanIsStored'
    BY <1>8, QuietStays DEF Free, Take
  <2>3. Fresh(p)'
    BY <1>0, <1>8, <2>1 DEF Free, Fresh
  <2> QED BY <1>a, <2>1, <2>2, <2>3
<1>9. CASE SetOut(p)
  <2>1. Disturbs(p) /\ CleanIsStored' /\ pc[p] = "ack"
    BY <1>9, QuietStays DEF SetOut
  <2>2. IsCached(key[p])' = IsCached(key[p])
    BY <1>9 DEF SetOut, IsCached
  <2>3. Fresh(p)'
    BY <1>0, <1>9, <2>2 DEF SetOut, Fresh
  <2> QED BY <1>a, <2>1, <2>3
<1>10. CASE SetQuery(p)
  <2>1. pc[p] = "write" /\ ~WriteBack /\ ~IsCached(key[p]) /\ UNCHANGED <<items, key>>
    BY <1>0, <1>10 DEF SetQuery, Fresh
  <2>2. \A k : IsCached(k)' = IsCached(k)
    BY <2>1 DEF IsCached
  <2>3. \A k \in Keys : store'[k] = store[k] \/ k = key[p]
    BY <1>0, <1>10 DEF SetQuery
  <2>4. Disturbs(p)
    BY <1>10, <2>2, <2>3 DEF SetQuery, Disturbs
  <2>5. ASSUME NEW b \in Buckets, NEW s \in Slots, items[b][s] # NoItem
        PROVE  store'[items[b][s].key] = store[items[b][s].key]
    <3>1. items[b][s].key \in Keys /\ BucketOf[items[b][s].key] = b
      BY <2>5, ItemFacts DEF OneItemPerKey
    <3>2. IsCached(items[b][s].key)
      BY <3>1 DEF IsCached
    <3> QED BY <2>1, <2>3, <3>1, <3>2
  <2>6. CleanIsStored'
    BY <1>0, <2>1, <2>5, CleanStays
  <2>7. Fresh(p)'
    <3>1. pc'[p] = "ack" /\ val'[p] = store'[key[p]] /\ UNCHANGED key
      BY <1>0, <1>10 DEF SetQuery
    <3> QED BY <1>0, <2>1, <2>2, <3>1 DEF Fresh
  <2> QED BY <1>a, <2>1, <2>4, <2>6, <2>7
<1>11. CASE CacheDelete(p)
  <2>1. /\ pc[p] = "delete" /\ ~WriteBack /\ pc'[p] = "write"
        /\ UNCHANGED <<store, key, val, cache_item>>
        /\ \A q \in Procs : q # p => pc'[q] = pc[q]
    BY <1>0, <1>11 DEF CacheDelete, Fresh
  <2>2. /\ \A b \in Buckets : \A t \in Slots :
             items'[b][t] = items[b][t] \/ items'[b][t] = NoItem
        /\ \A t \in Slots : items'[Bucket(p)][t].key # key[p]
    <3>1. CASE Holding(key[p], Bucket(p)) = {} /\ UNCHANGED items
      BY <3>1 DEF Holding
    <3>2. ASSUME NEW s \in Holding(key[p], Bucket(p)), Insert(Bucket(p), s, NoItem)
          PROVE  /\ \A b \in Buckets : \A t \in Slots :
                      items'[b][t] = items[b][t] \/ items'[b][t] = NoItem
                 /\ \A t \in Slots : items'[Bucket(p)][t].key # key[p]
      <4>1. s \in Slots /\ items[Bucket(p)][s].key = key[p] /\ key[p] # NoItem.key
        BY <1>0, ItemFacts, CacheNone DEF Holding
      <4>2. items[Bucket(p)][s] # NoItem
        BY <4>1
      <4>3. \A t \in Slots : items[Bucket(p)][t].key = key[p] => s = t
        BY <1>0, <4>1, <4>2 DEF OneItemPerKey
      <4>4. \A b \in Buckets : \A t \in Slots :
              items'[b][t] = IF b = Bucket(p) /\ t = s THEN NoItem ELSE items[b][t]
        BY <1>0, <3>2, <4>1 DEF Insert
      <4>5. \A t \in Slots : items'[Bucket(p)][t].key # key[p]
        BY <1>0, <4>1, <4>3, <4>4
      <4> QED BY <4>4, <4>5
    <3> QED BY <1>11, <3>1, <3>2 DEF CacheDelete
  <2>3. CleanIsStored'
    BY <1>0, <2>1, <2>2, CleanStays
  <2>4. \A k \in Keys : ~IsCached(k) => ~IsCached(k)'
    BY <2>2, CacheHash, ItemFacts, CacheNone DEF IsCached
  <2>5. Disturbs(p)
    BY <2>1, <2>4 DEF Disturbs
  <2>6. ~IsCached(key[p])'
    BY <1>0, <2>1, <2>2 DEF IsCached
  <2>7. Fresh(p)'
    BY <1>0, <2>1, <2>6 DEF Fresh
  <2> QED BY <1>a, <2>1, <2>3, <2>5, <2>7
<1>12. CASE CacheSetGet(p)
  <2> DEFINE b == Bucket(p)
             nit == Item(p, 0)
  <2>1. /\ pc[p] = "fill" /\ pc'[p] = "evict" /\ UNCHANGED <<store, key>>
        /\ \A q \in Procs : q # p => pc'[q] = pc[q] /\ val'[q] = val[q]
        /\ val[p] = store[key[p]]
    BY <1>0, <1>12 DEF CacheSetGet, Fresh
  <2>2. Fresh(p)'
    BY <1>0, <2>1 DEF Fresh
  <2>3. CASE UNCHANGED <<items, cache_item>>
    BY <1>a, <2>1, <2>2, <2>3, QuietStays
  <2>4. ASSUME NEW s \in Holding(key[p], b), Take(p, items[b][s]), UNCHANGED items
        PROVE  AllFresh'
    <3>1. IsCached(items[b][s].key)
      BY <1>0, <2>4 DEF Holding, IsCached
    <3>2. \A q \in Procs : cache_item'[q] = cache_item[q] \/ IsCached(cache_item'[q].key)
      BY <2>4, <3>1 DEF Take
    <3>3. Disturbs(p) /\ CleanIsStored'
      BY <2>1, <2>4, <3>2, QuietStays
    <3> QED BY <1>a, <2>1, <2>2, <3>3
  <2>5. ASSUME val[p] # Absent, NEW s \in Slots, Insert(b, s, nit),
               \A q \in Procs : cache_item'[q] = cache_item[q] \/ IsCached(cache_item'[q].key)
        PROVE  AllFresh'
    <3>1. nit \in Items /\ nit.key = key[p]
      BY <2>5, NewItem
    <3>2. nit.val = store[key[p]]
      BY <2>1 DEF Item
    <3> HIDE DEF nit
    <3>3. /\ CleanIsStored'
          /\ \A k \in Keys : k # key[p] /\ ~IsCached(k) => ~IsCached(k)'
      BY <1>0, <2>1, <2>5, <3>1, <3>2, PutStays
    <3>4. Disturbs(p)
      BY <2>1, <2>5, <3>3 DEF Disturbs
    <3> QED BY <1>a, <2>1, <2>2, <3>3, <3>4
  <2>6. ASSUME val[p] # Absent, Empty(b) = {}, Displace(b, nit),
               \/ UNCHANGED cache_item
               \/ Take(p, Evict(items[b][replace[b]]))
        PROVE  AllFresh'
    <3>1. replace[b] \in Slots /\ Insert(b, replace[b], nit)
      BY <1>0, <2>6 DEF Displace, Insert
    <3>2. /\ Evict(items[b][replace[b]]).key = items[b][replace[b]].key
          /\ IsCached(items[b][replace[b]].key)
      BY <1>0, <2>6, <3>1 DEF Empty, OneItemPerKey, IsCached, Evict
    <3>3. \A q \in Procs : cache_item'[q] = cache_item[q] \/ IsCached(cache_item'[q].key)
      BY <2>6, <3>2 DEF Take
    <3> QED BY <2>5, <2>6, <3>1, <3>3
  <2>7. \A s \in LastEmpty(b) : s \in Slots
    BY DEF LastEmpty, Empty
  <2> QED BY <1>12, <2>3, <2>4, <2>5, <2>6, <2>7 DEF CacheSetGet
<1>13. CASE CacheSet(p)
  <2> DEFINE b == Bucket(p)
             nit == Item(p, DIRTY)
  <2>1. /\ pc[p] = "put" /\ UNCHANGED <<store, key, val>> /\ val[p] # Absent
        /\ pc'[p] = IF WriteBack THEN "write_victim" ELSE "idle"
        /\ \A q \in Procs : q # p => pc'[q] = pc[q] /\ val'[q] = val[q]
        /\ ~WriteBack => val[p] = store[key[p]]
    BY <1>0, <1>13 DEF CacheSet, Fresh, SetsHaveValues
  <2>2. Fresh(p)'
    BY <1>0, <2>1 DEF Fresh
  <2>3. CASE UNCHANGED <<items, cache_item>>
    BY <1>a, <2>1, <2>2, <2>3, QuietStays
  <2>4. ASSUME NEW s \in Slots, Insert(b, s, nit),
               \A q \in Procs : cache_item'[q] = cache_item[q] \/ IsCached(cache_item'[q].key)
        PROVE  AllFresh'
    <3>1. nit \in Items /\ nit.key = key[p]
      BY <2>1, NewItem
    <3>2. nit.evicted = DIRTY /\ nit.val = val[p]
      BY DEF Item
    <3> HIDE DEF nit
    <3>3. /\ CleanIsStored'
          /\ \A k \in Keys : k # key[p] /\ ~IsCached(k) => ~IsCached(k)'
      BY <1>0, <2>1, <2>4, <3>1, <3>2, PutStays
    <3>4. Disturbs(p)
      BY <2>1, <2>4, <3>3 DEF Disturbs
    <3> QED BY <1>a, <2>1, <2>2, <3>3, <3>4
  <2>5. ASSUME Empty(b) = {}, Displace(b, nit),
               \/ UNCHANGED cache_item
               \/ Take(p, Evict(items[b][replace[b]]))
        PROVE  AllFresh'
    <3>1. replace[b] \in Slots /\ Insert(b, replace[b], nit)
      BY <1>0, <2>5 DEF Displace, Insert
    <3>2. /\ Evict(items[b][replace[b]]).key = items[b][replace[b]].key
          /\ IsCached(items[b][replace[b]].key)
      BY <1>0, <2>5, <3>1 DEF Empty, OneItemPerKey, IsCached, Evict
    <3>3. \A q \in Procs : cache_item'[q] = cache_item[q] \/ IsCached(cache_item'[q].key)
      BY <2>5, <3>2 DEF Take
    <3> QED BY <2>4, <2>5, <3>1, <3>3
  <2>6. /\ \A s \in LastEmpty(b) : s \in Slots
        /\ \A s \in Holding(key[p], b) : s \in Slots
    BY DEF LastEmpty, Empty, Holding
  <2> QED BY <1>13, <2>3, <2>4, <2>5, <2>6 DEF CacheSet
<1> QED
  BY <1>1, <1>2, <1>3, <1>4, <1>5, <1>6, <1>7, <1>8, <1>9, <1>10, <1>11, <1>12,
     <1>13 DEF Step

\* A request that arrives has nothing yet.
LEMMA BeginFresh ==
  ASSUME Types, AllFresh, UNCHANGED policy, NEW p \in Procs, Begin(p)
  PROVE  AllFresh'
<1>1. UNCHANGED <<items, store, cache_item>> /\ WriteBack' = WriteBack /\ KeysOf' = KeysOf
  BY DEF Begin, bucketVars, WriteBack, KeysOf
<1>2. \A k : IsCached(k)' = IsCached(k)
  BY <1>1 DEF IsCached
<1>3. ASSUME NEW q \in Procs, q # p PROVE Fresh(q)'
  <2>1. pc'[q] = pc[q] /\ key'[q] = key[q] /\ val'[q] = val[q]
    BY <1>3 DEF Begin, Goto, Types
  <2>2. Fresh(q)
    BY DEF AllFresh
  <2> QED BY <1>1, <1>2, <2>1, <2>2 DEF Fresh
<1>4. Fresh(p)'
  <2>1. /\ key'[p] \in KeysOf[p]
        /\ pc'[p] = "get" \/ pc'[p] = IF WriteBack THEN "put" ELSE "delete"
    BY DEF Begin, Goto, Types
  <2> QED BY <1>1, <2>1 DEF Fresh
<1>5. CleanIsStored'
  BY <1>1 DEF AllFresh, CleanIsStored
<1> QED BY <1>3, <1>4, <1>5 DEF AllFresh

\* So does a stutter.
LEMMA StutterFresh ==
  ASSUME AllFresh, UNCHANGED vars
  PROVE  AllFresh'
  BY DEF AllFresh, CleanIsStored, Fresh, vars, IsCached, WriteBack, KeysOf

SteeredFresh == LockInv /\ (Steered => AllFresh)

\* The invariant of steered requests holds in every behaviour.
LEMMA SteeredFreshHolds == Spec => []SteeredFresh
<1>1. Init => SteeredFresh
  <2> SUFFICES ASSUME Init PROVE SteeredFresh
    OBVIOUS
  <2>1. CleanIsStored /\ \A p \in Procs : pc[p] = "idle"
    BY DEF Init, CleanIsStored
  <2> QED BY <2>1, InitLockInv DEF SteeredFresh, AllFresh, Fresh
<1>2. SteeredFresh /\ [Next]_vars => SteeredFresh'
  <2> SUFFICES ASSUME SteeredFresh, [Next]_vars PROVE SteeredFresh'
    OBVIOUS
  <2>1. LockInv /\ LockInv' /\ UNCHANGED policy
    BY StepLockInv, StutterLockInv DEF SteeredFresh, Next, vars
  <2>2. Steered' => Steered
    BY <2>1 DEF Steered, KeysOf
  <2>3. ASSUME Steered PROVE AllFresh'
    BY <2>1, <2>3, BeginFresh, StepFresh, StutterFresh DEF SteeredFresh, Next, LockInv
  <2> QED BY <2>1, <2>2, <2>3 DEF SteeredFresh
<1> QED BY <1>1, <1>2, PTL DEF Spec

-----------------------------------------------------------------------------
(* Keys that all have room in their buckets, asked for by any requests.     *)

\* The keys that are asked for, and those of them in one bucket.
Used == UNION {KeysOf[p] : p \in Procs}
KeysIn(b) == {k \in Used : BucketOf[k] = b}

\* With write-back, the requests ask for no more keys than a bucket has items.
Roomy == WriteBack /\ \A b \in Buckets :
           IsFiniteSet(KeysIn(b)) /\ Cardinality(KeysIn(b)) <= NItems

\* Nothing is put out: no request ever has a victim, and the store stays as it is.
NoneIsEvicted ==
  /\ CleanIsStored
  /\ \A b \in Buckets, s \in Slots : items[b][s] # NoItem => items[b][s].key \in Used
  /\ \A p \in Procs :
       /\ pc[p] # "idle" => key[p] \in Used
       /\ pc[p] \notin {"delete", "write"}
       /\ cache_item[p] # NoItem => ~IsEvicted(cache_item[p])
       /\ pc[p] = "fill" => val[p] = store[key[p]]

\* A bucket whose keys are not all in it has an empty slot.
LEMMA RoomIsLeft ==
  ASSUME LockInv, Roomy, NoneIsEvicted, NEW k \in Used, k \in Keys,
         Holding(k, BucketOf[k]) = {}
  PROVE  Empty(BucketOf[k]) # {}
<1> DEFINE b == BucketOf[k]
           T  == KeysIn(b) \ {k}
           f  == [s \in Slots |-> items[b][s].key]
<1>1. b \in Buckets /\ IsFiniteSet(KeysIn(b)) /\ Cardinality(KeysIn(b)) <= NItems /\ k \in KeysIn(b)
  BY DEF Roomy, KeysIn
<1>2. IsFiniteSet(T) /\ Cardinality(T) = Cardinality(KeysIn(b)) - 1 /\ Cardinality(KeysIn(b)) \in Nat
  BY <1>1, FS_RemoveElement, FS_CardinalityType
<1>3. IsFiniteSet(Slots) /\ Cardinality(Slots) = NItems
  <2>1. 0 \in Int /\ NItems - 1 \in Int /\ 0 <= NItems - 1
    OBVIOUS
  <2>2. IsFiniteSet(0 .. NItems - 1) /\ Cardinality(0 .. NItems - 1) = NItems - 1 - 0 + 1
    BY <2>1, FS_Interval
  <2> QED BY <2>2 DEF Slots
<1>4. Cardinality(T) < Cardinality(Slots)
  BY <1>1, <1>2, <1>3
<1>5. ASSUME Empty(b) = {} PROVE FALSE
  <2>1. \A s \in Slots : items[b][s] # NoItem
    BY <1>5 DEF Empty
  <2>2. \A s \in Slots : items[b][s].key \in T
    BY <1>1, <2>1 DEF LockInv, OneItemPerKey, NoneIsEvicted, KeysIn, Holding
  <2>3. f \in [Slots -> T]
    BY <2>2
  <2> HIDE DEF T
  <2>4. \E s, t \in Slots : s # t /\ f[s] = f[t]
    <3> HIDE DEF f
    <3> QED BY <1>2, <1>3, <1>4, <2>3, FS_PigeonHole
  <2>5. PICK s \in Slots, t \in Slots : s # t /\ items[b][s].key = items[b][t].key
    BY <2>4
  <2> QED BY <1>1, <2>1, <2>5 DEF LockInv, OneItemPerKey
<1> QED BY <1>5

\* Each step of a request keeps it so.
LEMMA StepRoom ==
  ASSUME LockInv, Roomy, NoneIsEvicted, UNCHANGED policy, NEW p \in Procs, Begin(p) \/ Step(p)
  PROVE  NoneIsEvicted' /\ UNCHANGED store
<1> USE DEF LockInv, Types, Goto, bucketVars
<1> DEFINE b == Bucket(p)
<1>0. /\ key[p] \in Keys /\ b \in Buckets /\ BucketOf[key[p]] = b
      /\ WriteBack /\ WriteBack' /\ Used' = Used /\ Used \subseteq Keys
  <2>1. Used \subseteq Keys
    BY CachePolicies DEF Used, KeysOf
  <2> QED BY <2>1 DEF Bucket, Roomy, WriteBack, Used, KeysOf
<1> DEFINE CleanIn(it) == it.evicted = 0 => it.val = store[it.key]
<1>1. \A c \in Buckets, s \in Slots : items[c][s] # NoItem => CleanIn(items[c][s])
  BY <1>0 DEF NoneIsEvicted, CleanIsStored
<1>2. ASSUME UNCHANGED <<items, store>> PROVE
        /\ CleanIsStored'
        /\ \A c \in Buckets, s \in Slots : items'[c][s] # NoItem => items'[c][s].key \in Used'
  BY <1>0, <1>2 DEF NoneIsEvicted, CleanIsStored
<1>3. ASSUME UNCHANGED store, NEW s \in Slots, NEW it, Insert(b, s, it), key[p] \in Used,
             it.key = key[p], CleanIn(it)
      PROVE  /\ CleanIsStored'
             /\ \A c \in Buckets, t \in Slots : items'[c][t] # NoItem => items'[c][t].key \in Used'
  <2>1. \A c \in Buckets, t \in Slots :
          items'[c][t] = IF c = b /\ t = s THEN it ELSE items[c][t]
    BY <1>0, <1>3 DEF Insert
  <2>2. \A c \in Buckets, t \in Slots :
          items'[c][t] # NoItem => CleanIn(items'[c][t]) /\ items'[c][t].key \in Used
    BY <1>1, <1>3, <2>1 DEF NoneIsEvicted
  <2>3. store' = store
    BY <1>3
  <2> QED BY <1>0, <2>2, <2>3 DEF CleanIsStored
<1> HIDE DEF CleanIn
<1>4. CASE Begin(p)
  <2>1. /\ UNCHANGED <<items, store, cache_item>>
        /\ \E k \in KeysOf[p] : key' = [key EXCEPT ![p] = k]
        /\ pc' = [pc EXCEPT ![p] = pc'[p]] /\ pc'[p] \in {"get", "put"}
        /\ val' = [val EXCEPT ![p] = val'[p]]
    BY <1>0, <1>4 DEF Begin
  <2>2. \A q \in Procs : q # p => pc'[q] = pc[q] /\ key'[q] = key[q] /\ val'[q] = val[q]
    BY <2>1
  <2>3. key'[p] \in Used
    BY <2>1 DEF Used
  <2> QED BY <1>0, <1>2, <2>1, <2>2, <2>3 DEF NoneIsEvicted
<1>5. CASE GiveUp(p)
  BY <1>0, <1>2, <1>5 DEF GiveUp, NoneIsEvicted
<1>6. CASE CacheGet(p)
  <2>1. UNCHANGED <<items, store, key>> /\ \A q \in Procs : q # p =>
          pc'[q] = pc[q] /\ val'[q] = val[q] /\ cache_item'[q] = cache_item[q]
    BY <1>6 DEF CacheGet, Take
  <2>2. pc[p] = "get" /\ pc'[p] \in {"out", "query"}
    BY <1>6 DEF CacheGet
  <2>3. cache_item'[p] # NoItem => ~IsEvicted(cache_item'[p])
    BY <1>0, <1>6 DEF CacheGet, Take, NoneIsEvicted, OneItemPerKey, Holding
  <2> QED BY <1>0, <1>2, <2>1, <2>2, <2>3 DEF NoneIsEvicted
<1>7. CASE Query(p)
  <2>1. UNCHANGED <<items, store, key, cache_item>> /\ \A q \in Procs : q # p =>
          pc'[q] = pc[q] /\ val'[q] = val[q]
    BY <1>7 DEF Query
  <2>2. pc[p] = "query" /\ pc'[p] = "fill" /\ val'[p] = store[key[p]]
    BY <1>7 DEF Query
  <2> QED BY <1>0, <1>2, <2>1, <2>2 DEF NoneIsEvicted
<1>8. CASE CacheSetGet(p)
  <2>1. UNCHANGED <<store, key>> /\ pc[p] = "fill" /\ pc'[p] = "evict" /\ key[p] \in Used
        /\ \A q \in Procs : q # p => pc'[q] = pc[q]
    BY <1>8 DEF CacheSetGet, NoneIsEvicted
  <2>2. \A q \in Procs : q # p => val'[q] = val[q] /\ cache_item'[q] = cache_item[q]
    BY <1>8 DEF CacheSetGet, Take
  <2>3. ~(Holding(key[p], b) = {} /\ Empty(b) = {})
    BY <1>0, <2>1, RoomIsLeft
  <2>4. cache_item'[p] # NoItem => ~IsEvicted(cache_item'[p])
    BY <1>0, <1>8, <2>3 DEF CacheSetGet, Take, NoneIsEvicted, OneItemPerKey, Holding
  <2>5. \/ UNCHANGED items
        \/ \E s \in Slots : Insert(b, s, Item(p, 0))
    BY <1>8, <2>3 DEF CacheSetGet, LastEmpty, Empty
  <2>6. Item(p, 0).key = key[p] /\ CleanIn(Item(p, 0))
    BY <2>1 DEF Item, CleanIn, NoneIsEvicted
  <2>7. /\ CleanIsStored'
        /\ \A c \in Buckets, s \in Slots : items'[c][s] # NoItem => items'[c][s].key \in Used'
    BY <1>2, <1>3, <2>1, <2>5, <2>6
  <2> QED BY <1>0, <2>1, <2>2, <2>4, <2>7 DEF NoneIsEvicted
<1>9. CASE GetEvict(p) \/ SetEvict(p)
  <2>1. UNCHANGED <<items, store, key, val, cache_item>>
    BY <1>0, <1>9 DEF GetEvict, SetEvict, WriteVictim, NoneIsEvicted, IsEvicted, DIRTY, EVICTED
  <2>2. pc[p] # "idle" /\ pc'[p] \in {"out", "free"} /\ \A q \in Procs : q # p => pc'[q] = pc[q]
    BY <1>9 DEF GetEvict, SetEvict
  <2> QED BY <1>0, <1>2, <2>1, <2>2 DEF NoneIsEvicted
<1>10. CASE GetOut(p) \/ SetOut(p) \/ FreeOrRelease(p) \/ Free(p)
  <2>1. UNCHANGED <<items, store, key, val>>
    BY <1>10 DEF GetOut, SetOut, FreeOrRelease, Free
  <2>2. /\ pc[p] # "idle" /\ pc'[p] \in {"release", "idle", "ack"}
        /\ \A q \in Procs : q # p => pc'[q] = pc[q]
    BY <1>0, <1>10 DEF GetOut, SetOut, FreeOrRelease, Free
  <2>3. \A q \in Procs : cache_item'[q] = cache_item[q] \/ cache_item'[q] = NoItem
    BY <1>10 DEF GetOut, SetOut, FreeOrRelease, Free, Take
  <2> QED BY <1>0, <1>2, <2>1, <2>2, <2>3 DEF NoneIsEvicted
<1>11. CASE CacheSet(p)
  <2>1. UNCHANGED <<store, key, val>> /\ pc[p] = "put" /\ pc'[p] = "write_victim" /\ key[p] \in Used
        /\ \A q \in Procs : q # p => pc'[q] = pc[q]
    BY <1>0, <1>11 DEF CacheSet, NoneIsEvicted
  <2>2. ~(Holding(key[p], b) = {} /\ Empty(b) = {})
    BY <1>0, <2>1, RoomIsLeft
  <2>3. UNCHANGED cache_item /\ \E s \in Slots : Insert(b, s, Item(p, DIRTY))
    BY <1>11, <2>2 DEF CacheSet, LastEmpty, Empty, Holding
  <2>4. Item(p, DIRTY).key = key[p] /\ CleanIn(Item(p, DIRTY))
    BY DEF Item, CleanIn, DIRTY
  <2> QED BY <1>0, <1>3, <2>1, <2>3, <2>4 DEF NoneIsEvicted
<1>12. CASE CacheDelete(p) \/ SetQuery(p)
  BY <1>12 DEF CacheDelete, SetQuery, NoneIsEvicted
<1> QED BY <1>4, <1>5, <1>6, <1>7, <1>8, <1>9, <1>10, <1>11, <1>12 DEF Step

\* The invariant of such requests holds in every behaviour.
RoomyKept == LockInv /\ (Roomy => NoneIsEvicted)

\* It is inductive with LockInv.
LEMMA RoomyKeptHolds == Spec => []RoomyKept
<1>1. Init => RoomyKept
  <2> SUFFICES ASSUME Init PROVE RoomyKept
    OBVIOUS
  <2>1. CleanIsStored /\ \A p \in Procs : pc[p] = "idle" /\ cache_item[p] = NoItem
    BY DEF Init, CleanIsStored
  <2> QED BY <2>1, InitLockInv DEF RoomyKept, NoneIsEvicted, Init
<1>2. RoomyKept /\ [Next]_vars => RoomyKept'
  <2> SUFFICES ASSUME RoomyKept, [Next]_vars PROVE RoomyKept'
    OBVIOUS
  <2>1. LockInv /\ LockInv' /\ UNCHANGED policy
    BY StepLockInv, StutterLockInv DEF RoomyKept, Next, vars
  <2>2. Used' = Used /\ (Roomy' => Roomy)
    BY <2>1 DEF Roomy, Used, KeysIn, KeysOf, WriteBack
  <2>3. ASSUME Roomy, UNCHANGED vars PROVE NoneIsEvicted'
    BY <2>2, <2>3 DEF NoneIsEvicted, CleanIsStored, WriteBack, RoomyKept, vars
  <2>4. ASSUME Roomy PROVE NoneIsEvicted'
    BY <2>1, <2>3, <2>4, StepRoom DEF RoomyKept, Next
  <2> QED BY <2>1, <2>2, <2>4 DEF RoomyKept
<1> QED BY <1>1, <1>2, PTL DEF Spec

\* Dropping a clean item loses nothing (cache_put_or_get frees it, Evict does not
\* write it), however the requests of different keys meet in a bucket, as long as
\* those of one key go to one process or no bucket has to put an item out.
THEOREM CacheCleanIsStored == Spec => [](Steered \/ Roomy => CleanIsStored)
<1>1. SteeredFresh /\ RoomyKept => (Steered \/ Roomy => CleanIsStored)
  BY DEF SteeredFresh, AllFresh, RoomyKept, NoneIsEvicted
<1> QED BY <1>1, SteeredFreshHolds, RoomyKeptHolds, PTL

-----------------------------------------------------------------------------
(* Nothing the cache allocates leaks: every item that is allocated and not *)
(* freed is in a bucket or a victim in a request's hand.                   *)
\* Where a policy leaks, the items that can be reached are still among those
\* that are allocated: no item is freed twice.
LeakInv == live \in 0 .. LiveCap /\ Reached <= live /\ NothingLeaks

\* What can be reached is finite, and less than the bound of the count.
ReachIsBounded ==
  /\ IsFiniteSet(Filled) /\ IsFiniteSet(Evicting)
  /\ Cardinality(Filled) \in Nat /\ Cardinality(Evicting) \in Nat
  /\ Reached \in Nat /\ Reached <= LiveCap

\* There are at most as many filled slots as slots and as many victims as requests.
LEMMA ReachedBounds == ReachIsBounded
<1>1. IsFiniteSet(Slots)
  BY FS_Interval DEF Slots
<1>2. IsFiniteSet(Buckets \X Slots)
  BY <1>1, CacheLiveCap, FS_Product
<1>3. Filled \in SUBSET (Buckets \X Slots) /\ Evicting \in SUBSET Procs
  BY DEF Filled, Evicting
<1>4. /\ IsFiniteSet(Filled) /\ Cardinality(Filled) <= Cardinality(Buckets \X Slots)
  BY <1>2, <1>3, FS_Subset
<1>5. /\ IsFiniteSet(Evicting) /\ Cardinality(Evicting) <= Cardinality(Procs)
  BY <1>3, CacheLiveCap, FS_Subset
<1>6. /\ Cardinality(Filled) \in Nat /\ Cardinality(Evicting) \in Nat
      /\ Cardinality(Buckets \X Slots) \in Nat /\ Cardinality(Procs) \in Nat
  BY <1>2, <1>4, <1>5, CacheLiveCap, FS_CardinalityType
<1> QED BY <1>4, <1>5, <1>6, CacheLiveCap DEF Reached, ReachIsBounded

\* The same after a step.
LEMMA ReachedBoundsNext == ReachIsBounded'
  BY ReachedBounds, PTL

\* An allocation that puts one more item within reach, one that is lost where
\* the policy may lose items, and a free of what was within reach.
LEMMA LeakSteps ==
  ASSUME LeakInv, UNCHANGED policy,
         \/ Reached' = Reached /\ UNCHANGED live
         \/ Reached' = Reached /\ Allocated(1) /\ ~(WriteAlloc /\ ~TryLock)
         \/ Reached' = Reached + 1 /\ Allocated(1)
         \/ Reached' = Reached - 1 /\ Freed
  PROVE  LeakInv'
<1>1. Reached \in Nat /\ Reached' \in Nat /\ Reached' <= LiveCap /\ LiveCap \in Nat
  BY ReachedBounds, ReachedBoundsNext DEF ReachIsBounded
<1>2. (WriteAlloc /\ ~TryLock)' <=> (WriteAlloc /\ ~TryLock)
  BY DEF WriteAlloc, TryLock
<1> QED BY <1>1, <1>2 DEF LeakInv, NothingLeaks, Allocated, Freed

\* How Reached moves with the two sets.
LEMMA ReachedSame ==
  ASSUME Filled' = Filled, Evicting' = Evicting
  PROVE  Reached' = Reached
  BY DEF Reached

\* A slot that is filled is one item more.
LEMMA FilledMore ==
  ASSUME NEW x, x \notin Filled, Filled' = Filled \cup {x}, Evicting' = Evicting
  PROVE  Reached' = Reached + 1
<1>1. Cardinality(Filled') = Cardinality(Filled) + 1
  BY ReachedBounds, FS_AddElement DEF ReachIsBounded
<1> QED BY <1>1, ReachedBounds DEF Reached, ReachIsBounded

\* A slot that is emptied is one item less.
LEMMA FilledLess ==
  ASSUME NEW x, x \in Filled, Filled' = Filled \ {x}, Evicting' = Evicting
  PROVE  Reached' = Reached - 1
<1>1. Cardinality(Filled') = Cardinality(Filled) - 1
  BY ReachedBounds, FS_RemoveElement DEF ReachIsBounded
<1> QED BY <1>1, ReachedBounds DEF Reached, ReachIsBounded

\* A request that gets a victim has one item more.
LEMMA EvictingMore ==
  ASSUME NEW x, x \notin Evicting, Evicting' = Evicting \cup {x}, Filled' = Filled
  PROVE  Reached' = Reached + 1
<1>1. Cardinality(Evicting') = Cardinality(Evicting) + 1
  BY ReachedBounds, FS_AddElement DEF ReachIsBounded
<1> QED BY <1>1, ReachedBounds DEF Reached, ReachIsBounded

\* A victim that is let go is one item less.
LEMMA EvictingLess ==
  ASSUME NEW x, x \in Evicting, Evicting' = Evicting \ {x}, Filled' = Filled
  PROVE  Reached' = Reached - 1
<1>1. Cardinality(Evicting') = Cardinality(Evicting) - 1
  BY ReachedBounds, FS_RemoveElement DEF ReachIsBounded
<1> QED BY <1>1, ReachedBounds DEF Reached, ReachIsBounded

\* What a step does to the slots of a bucket and to the items in hands.
LEMMA InsertFills ==
  ASSUME Types, NEW b \in Buckets, NEW s \in Slots, NEW it \in Items, Insert(b, s, it),
         items[b][s] = NoItem, Evicting' = Evicting
  PROVE  Reached' = Reached + 1
<1>1. it # NoItem
  BY ItemFacts
<1>2. \A c \in Buckets, t \in Slots :
        items'[c][t] = IF c = b /\ t = s THEN it ELSE items[c][t]
  BY DEF Types, Insert
<1>3. <<b, s>> \notin Filled /\ Filled' = Filled \cup {<<b, s>>}
  BY <1>1, <1>2 DEF Filled
<1> QED BY <1>3, FilledMore

\* An item put in the place of another fills no further slot.
LEMMA InsertReplaces ==
  ASSUME Types, NEW b \in Buckets, NEW s \in Slots, NEW it \in Items, Insert(b, s, it),
         items[b][s] # NoItem
  PROVE  Filled' = Filled
<1>1. it # NoItem
  BY ItemFacts
<1>2. \A c \in Buckets, t \in Slots :
        items'[c][t] = IF c = b /\ t = s THEN it ELSE items[c][t]
  BY DEF Types, Insert
<1> QED BY <1>1, <1>2 DEF Filled

\* A slot set to NULL is one item less.
LEMMA InsertEmpties ==
  ASSUME Types, NEW b \in Buckets, NEW s \in Slots, Insert(b, s, NoItem),
         items[b][s] # NoItem, Evicting' = Evicting
  PROVE  Reached' = Reached - 1
<1>1. \A c \in Buckets, t \in Slots :
        items'[c][t] = IF c = b /\ t = s THEN NoItem ELSE items[c][t]
  BY DEF Types, Insert
<1>2. <<b, s>> \in Filled /\ Filled' = Filled \ {<<b, s>>}
  BY <1>1 DEF Filled
<1> QED BY <1>2, FilledLess

\* A request that had nothing takes an item: it counts when it is evicted.
LEMMA TakesItem ==
  ASSUME Types, NEW p \in Procs, cache_item[p] = NoItem, NEW it, it # NoItem, Take(p, it)
  PROVE  /\ IsEvicted(it) => p \notin Evicting /\ Evicting' = Evicting \cup {p}
         /\ ~IsEvicted(it) => Evicting' = Evicting
  BY DEF Types, Take, Evicting

\* A request gives back what it has: a victim no longer counts.
LEMMA GivesItem ==
  ASSUME Types, NEW p \in Procs, cache_item[p] # NoItem, Take(p, NoItem)
  PROVE  /\ IsEvicted(cache_item[p]) => p \in Evicting /\ Evicting' = Evicting \ {p}
         /\ ~IsEvicted(cache_item[p]) => Evicting' = Evicting
  BY DEF Types, Take, Evicting

\* A key's slot is a filled one.
LEMMA HoldingIsFilled ==
  ASSUME Types, NEW p \in Procs, NEW s \in Holding(key[p], Bucket(p))
  PROVE  /\ s \in Slots /\ items[Bucket(p)][s] \in Items
         /\ items[Bucket(p)][s] # NoItem /\ items[Bucket(p)][s].key = key[p]
<1>1. s \in Slots /\ items[Bucket(p)][s].key = key[p] /\ key[p] # None
  BY CacheNone DEF Holding, Types
<1>2. items[Bucket(p)][s] # NoItem
  BY <1>1, ItemFacts
<1>3. Bucket(p) \in Buckets
  BY CacheHash DEF Bucket, Types
<1> QED BY <1>1, <1>2, <1>3 DEF Types

\* The new item is put in place of a victim: the bucket is as full as before.
LEMMA DisplaceKeepsFilled ==
  ASSUME Types, OneItemPerKey, NEW b \in Buckets, NEW it \in Items, Empty(b) = {},
         Displace(b, it)
  PROVE  /\ Filled' = Filled
         /\ Evict(items[b][replace[b]]) # NoItem
         /\ IsEvicted(Evict(items[b][replace[b]]))
<1>1. replace[b] \in Slots /\ Insert(b, replace[b], it)
  BY DEF Types, Displace, Insert
<1>2. items[b][replace[b]] \in Items /\ items[b][replace[b]] # NoItem
  BY <1>1 DEF Types, Empty
<1>3. ~IsEvicted(items[b][replace[b]])
  BY <1>1, <1>2 DEF OneItemPerKey
<1> QED BY <1>1, <1>2, <1>3, InsertReplaces, EvictFacts, ItemFacts

\* Every step keeps count of the items it allocates, displaces and frees.
LEMMA StepLeakInv ==
  ASSUME LockInv, LeakInv, UNCHANGED policy, NEW p \in Procs, Begin(p) \/ Step(p)
  PROVE  LeakInv'
<1> USE DEF bucketVars
<1> DEFINE b == Bucket(p)
<1>0. /\ Types /\ OneItemPerKey /\ SetsHaveValues /\ LockGoesWithItem
      /\ b \in Buckets /\ \A s \in LastEmpty(b) : s \in Slots /\ items[b][s] = NoItem
  BY CacheHash DEF LockInv, Types, Bucket, LastEmpty, Empty
<1>1. CASE Begin(p) \/ Query(p) \/ GetEvict(p) \/ GetOut(p) \/ SetEvict(p) \/ SetOut(p)
           \/ SetQuery(p)
  <2>1. UNCHANGED <<items, cache_item, live>>
    BY <1>1 DEF Begin, Query, GetEvict, GetOut, SetEvict, SetOut, SetQuery
  <2> QED BY <2>1, LeakSteps, ReachedSame DEF Filled, Evicting
<1>2. CASE GiveUp(p)
  <2>1. UNCHANGED <<items, cache_item>> /\ TryLock /\ (UNCHANGED live \/ Allocated(1))
    BY <1>2 DEF GiveUp
  <2> QED BY <2>1, LeakSteps, ReachedSame DEF Filled, Evicting
<1>3. CASE CacheGet(p)
  <2>1. cache_item[p] = NoItem /\ UNCHANGED <<items, live>>
    BY <1>0, <1>3 DEF CacheGet, LockGoesWithItem
  <2>2. ASSUME NEW s \in Holding(key[p], b), Take(p, items[b][s])
        PROVE  Evicting' = Evicting
    BY <1>0, <2>1, <2>2, HoldingIsFilled, TakesItem DEF OneItemPerKey
  <2>3. Evicting' = Evicting
    BY <1>3, <2>2 DEF CacheGet, Evicting
  <2> QED BY <2>1, <2>3, LeakSteps, ReachedSame DEF Filled
<1>4. CASE CacheSetGet(p)
  <2> DEFINE nit == Item(p, 0)
             victim == Evict(items[b][replace[b]])
  <2>1. cache_item[p] = NoItem
    BY <1>0, <1>4 DEF CacheSetGet, LockGoesWithItem
  <2>2. val[p] # Absent => nit \in Items
    BY <1>0, NewItem
  <2> HIDE DEF nit
  <2>3. CASE UNCHANGED <<bucketVars, val, cache_item, live>>
    BY <2>3, LeakSteps, ReachedSame DEF Filled, Evicting
  <2>4. ASSUME NEW s \in Holding(key[p], b), Take(p, items[b][s]),
               UNCHANGED <<items, live>>
        PROVE  LeakInv'
    <3>1. Evicting' = Evicting
      BY <1>0, <2>1, <2>4, HoldingIsFilled, TakesItem DEF OneItemPerKey
    <3> QED BY <2>4, <3>1, LeakSteps, ReachedSame DEF Filled
  <2>5. ASSUME val[p] # Absent, NEW s \in LastEmpty(b), Insert(b, s, nit), Allocated(1),
               UNCHANGED cache_item
        PROVE  LeakInv'
    <3>1. Reached' = Reached + 1
      BY <1>0, <2>2, <2>5, InsertFills DEF Evicting
    <3> QED BY <2>5, <3>1, LeakSteps
  <2>6. ASSUME val[p] # Absent, Empty(b) = {}, Displace(b, nit),
               \/ UNCHANGED <<cache_item, live>>
               \/ Take(p, victim) /\ Allocated(1)
        PROVE  LeakInv'
    <3>1. Filled' = Filled /\ victim # NoItem /\ IsEvicted(victim)
      BY <1>0, <2>2, <2>6, DisplaceKeepsFilled
    <3>2. CASE UNCHANGED <<cache_item, live>>
      BY <3>1, <3>2, LeakSteps, ReachedSame DEF Evicting
    <3>3. CASE Take(p, victim) /\ Allocated(1)
      BY <1>0, <2>1, <3>1, <3>3, TakesItem, EvictingMore, LeakSteps
    <3> QED BY <2>6, <3>2, <3>3
  <2> QED BY <1>4, <2>3, <2>4, <2>5, <2>6 DEF CacheSetGet, nit
<1>5. CASE FreeOrRelease(p)
  <2>1. UNCHANGED items /\ Take(p, NoItem)
    BY <1>5 DEF FreeOrRelease
  <2>2. CASE cache_item[p] = NoItem
    <3>1. Evicting' = Evicting /\ UNCHANGED live
      BY <1>0, <1>5, <2>1, <2>2 DEF FreeOrRelease, Take, Types, Evicting
    <3> QED BY <2>1, <3>1, LeakSteps, ReachedSame DEF Filled
  <2>3. CASE cache_item[p] # NoItem /\ IsEvicted(cache_item[p])
    <3>1. Freed
      BY <1>5, <2>3 DEF FreeOrRelease
    <3>2. Reached' = Reached - 1
      BY <1>0, <2>1, <2>3, GivesItem, EvictingLess DEF Filled
    <3> QED BY <3>1, <3>2, LeakSteps
  <2>4. CASE cache_item[p] # NoItem /\ ~IsEvicted(cache_item[p])
    <3>1. UNCHANGED live
      BY <1>5, <2>4 DEF FreeOrRelease
    <3>2. Reached' = Reached
      BY <1>0, <2>1, <2>4, GivesItem, ReachedSame DEF Filled
    <3> QED BY <3>1, <3>2, LeakSteps
  <2> QED BY <2>2, <2>3, <2>4
<1>6. CASE CacheSet(p)
  <2> DEFINE nit == Item(p, DIRTY)
             victim == Evict(items[b][replace[b]])
  <2>1. cache_item[p] = NoItem /\ val[p] # Absent
    BY <1>0, <1>6 DEF CacheSet, LockGoesWithItem, SetsHaveValues
  <2>2. nit \in Items
    BY <1>0, <2>1, NewItem
  <2> HIDE DEF nit
  <2>3. ASSUME NEW s \in Holding(key[p], b), Insert(b, s, nit),
               UNCHANGED <<cache_item, live>>
        PROVE  LeakInv'
    <3>1. Filled' = Filled
      BY <1>0, <2>2, <2>3, HoldingIsFilled, InsertReplaces
    <3> QED BY <2>3, <3>1, LeakSteps, ReachedSame DEF Evicting
  <2>4. ASSUME NEW s \in LastEmpty(b), Insert(b, s, nit), Allocated(1),
               UNCHANGED cache_item
        PROVE  LeakInv'
    <3>1. Reached' = Reached + 1
      BY <1>0, <2>2, <2>4, InsertFills DEF Evicting
    <3> QED BY <2>4, <3>1, LeakSteps
  <2>5. ASSUME Empty(b) = {}, Displace(b, nit),
               \/ UNCHANGED <<cache_item, live>>
               \/ Take(p, victim) /\ Allocated(1)
        PROVE  LeakInv'
    <3>1. Filled' = Filled /\ victim # NoItem /\ IsEvicted(victim)
      BY <1>0, <2>2, <2>5, DisplaceKeepsFilled
    <3>2. CASE UNCHANGED <<cache_item, live>>
      BY <3>1, <3>2, LeakSteps, ReachedSame DEF Evicting
    <3>3. CASE Take(p, victim) /\ Allocated(1)
      BY <1>0, <2>1, <3>1, <3>3, TakesItem, EvictingMore, LeakSteps
    <3> QED BY <2>5, <3>2, <3>3
  <2>6. CASE ~WriteAlloc /\ Allocated(1) /\ UNCHANGED <<items, cache_item>>
    BY <2>6, LeakSteps, ReachedSame DEF Filled, Evicting
  <2> QED BY <1>6, <2>3, <2>4, <2>5, <2>6 DEF CacheSet, nit
<1>7. CASE Free(p)
  <2>1. CASE cache_item[p] # NoItem /\ IsEvicted(cache_item[p])
    <3>1. Freed /\ Take(p, NoItem) /\ UNCHANGED items
      BY <1>7, <2>1 DEF Free
    <3>2. Reached' = Reached - 1
      BY <1>0, <2>1, <3>1, GivesItem, EvictingLess DEF Filled
    <3> QED BY <3>1, <3>2, LeakSteps
  <2>2. CASE ~(cache_item[p] # NoItem /\ IsEvicted(cache_item[p]))
    <3>1. UNCHANGED <<items, cache_item, live>>
      BY <1>7, <2>2 DEF Free
    <3> QED BY <3>1, LeakSteps, ReachedSame DEF Filled, Evicting
  <2> QED BY <2>1, <2>2
<1>8. CASE CacheDelete(p)
  <2>1. UNCHANGED cache_item
    BY <1>8 DEF CacheDelete
  <2>2. CASE UNCHANGED <<items, live>>
    BY <2>1, <2>2, LeakSteps, ReachedSame DEF Filled, Evicting
  <2>3. ASSUME NEW s \in Holding(key[p], b), Insert(b, s, NoItem), Freed
        PROVE  LeakInv'
    <3>1. Reached' = Reached - 1
      BY <1>0, <2>1, <2>3, HoldingIsFilled, InsertEmpties DEF Evicting
    <3> QED BY <2>3, <3>1, LeakSteps
  <2> QED BY <1>8, <2>2, <2>3 DEF CacheDelete
<1> QED BY <1>1, <1>2, <1>3, <1>4, <1>5, <1>6, <1>7, <1>8 DEF Step

\* The count of the items in use, with its types.
THEOREM CacheCounts == Spec => [](TypeOK /\ NothingLeaks)
<1>1. Init => LeakInv
  <2> SUFFICES ASSUME Init PROVE LeakInv
    OBVIOUS
  <2>1. Filled = {} /\ Evicting = {} /\ live = 0
    BY DEF Init, Filled, Evicting
  <2>2. Reached = 0
    BY <2>1, FS_EmptySet DEF Reached
  <2> QED BY <2>1, <2>2 DEF LeakInv, NothingLeaks
<1>2. LockInv /\ LeakInv /\ [Next]_vars => LeakInv'
  <2> SUFFICES ASSUME LockInv, LeakInv, [Next]_vars PROVE LeakInv'
    OBVIOUS
  <2>1. CASE Next
    BY <2>1, StepLeakInv DEF Next
  <2>2. CASE UNCHANGED vars
    BY <2>2, LeakSteps, ReachedSame DEF vars, Filled, Evicting
  <2> QED BY <2>1, <2>2
<1>3. LockInv /\ LeakInv => TypeOK /\ NothingLeaks
  BY DEF LockInv, LeakInv, TypeOK
<1> QED BY <1>1, <1>2, <1>3, CacheInvariant, PTL DEF Spec

\* Types, and that the count of allocated items stays between 0 and its bound:
\* nothing is freed that is not allocated.
THEOREM CacheTypes == Spec => []TypeOK
  BY CacheCounts, PTL

\* Where no set is dropped and no request given up, every allocated item is in
\* a bucket or a victim in a request's hand.
THEOREM CacheNothingLeaks == Spec => []NothingLeaks
  BY CacheCounts, PTL
=============================================================================
