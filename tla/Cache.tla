-------------------------------- MODULE Cache --------------------------------
(***************************************************************************)
(* The cache a program puts around its queries: buckets of items under a   *)
(* lock (cache.h on the CPU, floem-cache.c on the NIC) and the elements     *)
(* cache.py builds a get and a set from.                                    *)
(*                                                                         *)
(*   get            CacheGet, on a miss the query, CacheSetGet, Evict,      *)
(*                  the answer, FreeOrRelease                               *)
(*   set, write-back     CacheSet, Evict, Free, the answer                  *)
(*   set, write-through  CacheDelete, the query, the answer, CacheSet       *)
(*                                                                         *)
(* A get that hits, and whoever evicts an item, leaves with the bucket      *)
(* locked and the item in state->cache_item: the lock is given back with    *)
(* the item.  The query is the program's own access to its store; the model *)
(* has it read or write one key.                                            *)
(***************************************************************************)
EXTENDS Naturals, FiniteSets

CONSTANTS Procs,            \* requests that run at the same time
          Keys, Vals,
          Absent,           \* the store has no value (vallen 0)
          Buckets, BucketOf,  \* hv % nbuckets
          NItems,           \* BUCKET_NITEMS
          Policies,         \* how the cache is generated and used
          LiveCap,          \* allocated items are counted up to it (bound)
          None

Slots == 0 .. NItems - 1

ASSUME CacheSize == NItems \in Nat \ {0} /\ LiveCap \in Nat
ASSUME CacheHash == Keys # {} /\ BucketOf \in [Keys -> Buckets]
\* write_policy, write_miss, whether the NIC gives up on a bucket that stays
\* locked, and the keys each process is asked for.  cache_default asserts that
\* write-back goes with write-allocate.
ASSUME CachePolicies ==
  /\ Policies \subseteq [write_back : BOOLEAN, write_alloc : BOOLEAN,
                         try_lock : BOOLEAN, keys : [Procs -> SUBSET Keys]]
  /\ \A m \in Policies : m.write_back => m.write_alloc
\* The bound on the count is above what the buckets and the requests can have.
ASSUME CacheLiveCap ==
  /\ IsFiniteSet(Procs) /\ IsFiniteSet(Buckets)
  /\ LiveCap >= Cardinality(Buckets \X Slots) + Cardinality(Procs)
ASSUME CacheNone == Absent \notin Vals /\ None \notin Procs \cup Keys

\* citem: evicted is 1 for a dirty item, 2 for an evicted one, 3 for both.
DIRTY   == 1
EVICTED == 2
Items   == [key : Keys, val : Vals, evicted : 0 .. 3]
NoItem  == [key |-> None]          \* NULL
IsEvicted(it) == it.evicted >= EVICTED

VARIABLES policy,                  \* fixed when the program is compiled
          items, replace, lock,    \* cache_bucket
          store,                   \* what the queries read and write
          pc, key, val,            \* the packet
          cache_item,              \* state->cache_item
          live,                    \* items allocated and not freed
          seen                     \* for the refinement: what a get could see

bucketVars == <<items, replace, lock>>
vars == <<policy, items, replace, lock, store, pc, key, val, cache_item, live, seen>>

WriteBack  == policy.write_back
WriteAlloc == policy.write_alloc
TryLock    == policy.try_lock
KeysOf     == policy.keys

Init ==
  /\ policy \in Policies
  /\ items = [b \in Buckets |-> [s \in Slots |-> NoItem]]
  /\ replace = [b \in Buckets |-> 0]
  /\ lock = [b \in Buckets |-> None]
  /\ store \in [Keys -> {Absent} \cup Vals]
  /\ pc = [p \in Procs |-> "idle"]
  /\ key = [p \in Procs |-> CHOOSE k \in Keys : TRUE]
  /\ val = [p \in Procs |-> Absent]
  /\ cache_item = [p \in Procs |-> NoItem]
  /\ live = 0
  /\ seen = [p \in Procs |-> {}]

Bucket(p) == BucketOf[key[p]]
Goto(p, l) == pc' = [pc EXCEPT ![p] = l]
\* Mutant: the loop over the slots ends one early.
MutHoldingShort(k, b) == {s \in 0 .. NItems - 2 : items[b][s].key = k}

Holding(k, b) == {s \in Slots : items[b][s].key = k}
Empty(b) == {s \in Slots : items[b][s] = NoItem}

\* The loop leaves `di' at the last empty slot.
LastEmpty(b) == {s \in Empty(b) : \A t \in Empty(b) : t <= s}

Insert(b, s, it) == items' = [items EXCEPT ![b][s] = it]
Lock(p) == lock' = [lock EXCEPT ![Bucket(p)] = p]
Unlock(p) == lock' = [lock EXCEPT ![Bucket(p)] = None]
Take(p, it) == cache_item' = [cache_item EXCEPT ![p] = it]
Allocated(n) == live' = IF live + n > LiveCap THEN LiveCap ELSE live + n
Freed == live' = live - 1

----------------------------------------------------------------------------
\* A request arrives.
Begin(p) ==
  /\ pc[p] = "idle"
  /\ \E k \in KeysOf[p] : key' = [key EXCEPT ![p] = k]
  /\ \/ Goto(p, "get") /\ val' = [val EXCEPT ![p] = Absent]
     \/ /\ Goto(p, IF WriteBack THEN "put" ELSE "delete")
        /\ \E v \in Vals : val' = [val EXCEPT ![p] = v]
  /\ UNCHANGED <<bucketVars, store, cache_item, live>>

\* cvmx_spinlock_trylock fails TRY times.
GiveUp(p) ==
  /\ TryLock /\ lock[Bucket(p)] # None
  /\ \/ pc[p] \in {"get", "delete"} /\ Goto(p, "idle") /\ UNCHANGED live
     \/ pc[p] = "put" /\ Goto(p, "idle") /\ Allocated(1)
     \/ /\ pc[p] = "fill" /\ val[p] # Absent
        /\ Goto(p, "evict") /\ Allocated(1)
  /\ UNCHANGED <<bucketVars, store, key, val, cache_item>>

\* cache_get: a hit keeps the lock.
CacheGet(p) ==
  /\ pc[p] = "get" /\ lock[Bucket(p)] = None
  /\ LET b == Bucket(p) IN
     \/ \E s \in Holding(key[p], b) :
          /\ Lock(p)
          /\ Take(p, items[b][s])
          /\ val' = [val EXCEPT ![p] = items[b][s].val]
          /\ Goto(p, "out")
     \/ /\ Holding(key[p], b) = {}
        /\ Goto(p, "query")
        /\ UNCHANGED <<lock, cache_item, val>>
  /\ UNCHANGED <<items, replace, store, key, live>>

\* The program's query of a get.
Query(p) ==
  /\ pc[p] = "query"
  /\ val' = [val EXCEPT ![p] = store[key[p]]]
  /\ Goto(p, "fill")
  /\ UNCHANGED <<bucketVars, store, key, cache_item, live>>

Item(p, flags) == [key |-> key[p], val |-> val[p], evicted |-> flags]
Evict(it) == [it EXCEPT !.evicted = @ + EVICTED]

\* Mutant: replace is not reduced modulo BUCKET_NITEMS.
MutDisplaceNoWrap(b, it) ==
  /\ items' = [items EXCEPT ![b][replace[b]] = it]
  /\ replace' = [replace EXCEPT ![b] = @ + 1]

\* The victim of a full bucket, and the item that takes its place.
Displace(b, it) ==
  /\ items' = [items EXCEPT ![b][replace[b]] = it]
  /\ replace' = [replace EXCEPT ![b] = (@ + 1) % NItems]

\* CacheSetGet, over cache_put_or_get: an item that is there wins over the
\* answer of the query; a clean victim is freed at once, a dirty one kept.
CacheSetGet(p) ==
  /\ pc[p] = "fill" /\ (val[p] # Absent => lock[Bucket(p)] = None)
  /\ Goto(p, "evict")
  /\ LET b == Bucket(p)
         nit == Item(p, 0)
         victim == Evict(items[b][replace[b]])
     IN
     \/ /\ val[p] = Absent
        /\ UNCHANGED <<bucketVars, val, cache_item, live>>
     \/ /\ val[p] # Absent
        /\ \E s \in Holding(key[p], b) :
             /\ Lock(p)
             /\ Take(p, items[b][s])
             /\ val' = [val EXCEPT ![p] = items[b][s].val]
        /\ UNCHANGED <<items, replace, live>>
     \/ /\ val[p] # Absent /\ Holding(key[p], b) = {} /\ Empty(b) # {}
        /\ \E s \in LastEmpty(b) : Insert(b, s, nit)
        /\ Allocated(1)
        /\ UNCHANGED <<replace, lock, val, cache_item>>
     \/ /\ val[p] # Absent /\ Holding(key[p], b) = {} /\ Empty(b) = {}
        /\ Displace(b, nit)
        /\ IF victim.evicted = EVICTED
           THEN UNCHANGED <<lock, cache_item, live>>
           ELSE Lock(p) /\ Take(p, victim) /\ Allocated(1)
        /\ UNCHANGED val
  /\ UNCHANGED <<store, key>>

\* Mutant: the packet's key goes out with the victim's value.
MutVictimToOwnKey(p) ==
  IF cache_item[p] # NoItem /\ cache_item[p].evicted = DIRTY + EVICTED
  THEN store' = [store EXCEPT ![key[p]] = cache_item[p].val]
  ELSE UNCHANGED store

\* EvictComposite: a dirty victim is written to the store, under the lock.
WriteVictim(p) ==
  IF cache_item[p] # NoItem /\ cache_item[p].evicted = DIRTY + EVICTED
  THEN store' = [store EXCEPT ![cache_item[p].key] = cache_item[p].val]
  ELSE UNCHANGED store

GetEvict(p) ==
  /\ pc[p] = "evict"
  /\ IF WriteBack THEN WriteVictim(p) ELSE UNCHANGED store
  /\ Goto(p, "out")
  /\ UNCHANGED <<bucketVars, key, val, cache_item, live>>

\* The answer of a get goes out before its item is released.
GetOut(p) ==
  /\ pc[p] = "out" /\ Goto(p, "release")
  /\ UNCHANGED <<bucketVars, store, key, val, cache_item, live>>

\* Mutant: only an item of the bucket is released; a victim is just freed.
MutReleaseHitsOnly(p) ==
  /\ pc[p] = "release" /\ Goto(p, "idle")
  /\ IF cache_item[p] = NoItem
     THEN UNCHANGED <<lock, live>>
     ELSE IF IsEvicted(cache_item[p]) THEN Freed /\ UNCHANGED lock
          ELSE Unlock(p) /\ UNCHANGED live
  /\ Take(p, NoItem)
  /\ UNCHANGED <<items, replace, store, key, val>>

FreeOrRelease(p) ==
  /\ pc[p] = "release" /\ Goto(p, "idle")
  /\ IF cache_item[p] = NoItem
     THEN UNCHANGED <<lock, live>>
     ELSE /\ Unlock(p)
          /\ IF IsEvicted(cache_item[p]) THEN Freed ELSE UNCHANGED live
  /\ Take(p, NoItem)
  /\ UNCHANGED <<items, replace, store, key, val>>

\* CacheSet, over cache_put: the new item replaces one of its key, takes an
\* empty slot or a victim's, or (no_write_alloc) is dropped and never freed.
CacheSet(p) ==
  /\ pc[p] = "put" /\ lock[Bucket(p)] = None
  /\ Goto(p, IF WriteBack THEN "write_victim" ELSE "idle")
  /\ LET b == Bucket(p)
         nit == Item(p, DIRTY)
     IN
     \/ /\ \E s \in Holding(key[p], b) : Insert(b, s, nit)
        /\ UNCHANGED <<replace, lock, cache_item, live>>
     \/ /\ Holding(key[p], b) = {} /\ Empty(b) # {}
        /\ \E s \in LastEmpty(b) : Insert(b, s, nit)
        /\ Allocated(1)
        /\ UNCHANGED <<replace, lock, cache_item>>
     \/ /\ Holding(key[p], b) = {} /\ Empty(b) = {} /\ WriteAlloc
        /\ Displace(b, nit)
        /\ IF WriteBack
           THEN /\ Lock(p) /\ Take(p, Evict(items[b][replace[b]]))
                /\ Allocated(1)
           ELSE UNCHANGED <<lock, cache_item, live>>
     \/ /\ Holding(key[p], b) = {} /\ Empty(b) = {} /\ ~WriteAlloc
        /\ Allocated(1)
        /\ UNCHANGED <<items, replace, lock, cache_item>>
  /\ UNCHANGED <<store, key, val>>

SetEvict(p) ==
  /\ pc[p] = "write_victim" /\ Goto(p, "free")
  /\ WriteVictim(p)
  /\ UNCHANGED <<bucketVars, key, val, cache_item, live>>

\* Mutant: the victim is not freed.
MutFreeForgets(p) ==
  /\ pc[p] = "free" /\ Goto(p, "ack")
  /\ IF cache_item[p] # NoItem /\ IsEvicted(cache_item[p])
     THEN Unlock(p) /\ Take(p, NoItem) /\ UNCHANGED live
     ELSE UNCHANGED <<lock, live, cache_item>>
  /\ UNCHANGED <<items, replace, store, key, val>>
\* Free: the victim, and the lock with it.
Free(p) ==
  /\ pc[p] = "free" /\ Goto(p, "ack")
  /\ IF cache_item[p] # NoItem /\ IsEvicted(cache_item[p])
     THEN Unlock(p) /\ Freed /\ Take(p, NoItem)
     ELSE UNCHANGED <<lock, live, cache_item>>
  /\ UNCHANGED <<items, replace, store, key, val>>

SetOut(p) ==
  /\ pc[p] = "ack" /\ Goto(p, IF WriteBack THEN "idle" ELSE "put")
  /\ UNCHANGED <<bucketVars, store, key, val, cache_item, live>>

\* SetWriteThrough starts with cache_delete and the program's query.
\* Mutant: the set goes to the store without cache_delete.
MutDeleteNothing(p) ==
  /\ pc[p] = "delete" /\ lock[Bucket(p)] = None /\ Goto(p, "write")
  /\ UNCHANGED <<bucketVars, store, key, val, cache_item, live>>

CacheDelete(p) ==
  /\ pc[p] = "delete" /\ lock[Bucket(p)] = None
  /\ Goto(p, "write")
  /\ LET b == Bucket(p) IN
     \/ /\ Holding(key[p], b) = {}
        /\ UNCHANGED <<items, live>>
     \/ /\ \E s \in Holding(key[p], b) : Insert(b, s, NoItem)
        /\ Freed
  /\ UNCHANGED <<replace, lock, store, key, val, cache_item>>

SetQuery(p) ==
  /\ pc[p] = "write" /\ Goto(p, "ack")
  /\ store' = [store EXCEPT ![key[p]] = val[p]]
  /\ UNCHANGED <<bucketVars, key, val, cache_item, live>>

----------------------------------------------------------------------------
\* The map the cache and the store stand for: with write-back the cached
\* value counts, then a victim's on its way to the store, then the store's.
Victims(k) == {cache_item[p] : p \in {q \in Procs :
                 /\ cache_item[q] # NoItem /\ cache_item[q].key = k
                 /\ cache_item[q].evicted = DIRTY + EVICTED}}
KV == [k \in Keys |->
  IF WriteBack /\ Holding(k, BucketOf[k]) # {}
  THEN items[BucketOf[k]][CHOOSE s \in Holding(k, BucketOf[k]) : TRUE].val
  ELSE IF WriteBack /\ Victims(k) # {} THEN (CHOOSE it \in Victims(k) : TRUE).val
  ELSE store[k]]

\* A request is what its process is at until the answer went out.
Request(p) ==
  CASE pc[p] \in {"get", "query", "fill"} -> [op |-> "get", key |-> key[p]]
    [] pc[p] \in {"delete", "write"} \/ (WriteBack /\ pc[p] = "put") ->
         [op |-> "set", key |-> key[p], val |-> val[p]]
    [] pc[p] \in {"evict", "out", "write_victim", "free", "ack"} ->
         [op |-> "done", key |-> key[p], val |-> val[p]]
    [] OTHER -> [op |-> "none"]
Requests == [p \in Procs |-> Request(p)]

\* Auxiliary: the values a get's key has had since the get arrived.
Remember == seen' = [p \in Procs |->
  IF Requests'[p].op # "get" THEN {}
  ELSE (IF Requests[p].op = "get" THEN seen[p] ELSE {}) \cup {KV'[key'[p]]}]

Step(p) == \/ GiveUp(p) \/ CacheGet(p) \/ Query(p) \/ CacheSetGet(p)
           \/ GetEvict(p) \/ GetOut(p) \/ FreeOrRelease(p)
           \/ CacheSet(p) \/ SetEvict(p) \/ Free(p) \/ SetOut(p)
           \/ CacheDelete(p) \/ SetQuery(p)

Next == (\E p \in Procs : Begin(p) \/ Step(p)) /\ UNCHANGED policy /\ Remember
Spec == Init /\ [][Next]_vars

----------------------------------------------------------------------------
\* The values of the variables.
Types ==
  /\ policy \in Policies
  /\ items \in [Buckets -> [Slots -> Items \cup {NoItem}]]
  /\ replace \in [Buckets -> Slots]
  /\ lock \in [Buckets -> Procs \cup {None}]
  /\ store \in [Keys -> Vals \cup {Absent}]
  /\ pc \in [Procs -> {"idle", "get", "query", "fill", "evict", "out", "release",
                       "put", "write_victim", "free", "ack", "delete", "write"}]
  /\ key \in [Procs -> Keys] /\ val \in [Procs -> Vals \cup {Absent}]
  /\ cache_item \in [Procs -> Items \cup {NoItem}]
SetsHaveValues ==
  \A p \in Procs : pc[p] \in {"put", "write_victim", "free", "ack", "delete",
                              "write"} => val[p] # Absent
TypeOK == Types /\ SetsHaveValues /\ live \in 0 .. LiveCap

InBucket(it) == \E s \in Slots : items[BucketOf[it.key]][s] = it
IsCached(k) == \E s \in Slots : items[BucketOf[k]][s].key = k

\* The lock goes with the item (cache_release unlocks it->bucket): a bucket is
\* locked by the request whose state->cache_item is of that bucket, that item
\* is the bucket's own (a get's) or a victim no bucket holds, and a request that
\* is over holds neither.  A second unlock, or a lock kept, would break it.
LockGoesWithItem ==
  /\ \A p \in Procs : cache_item[p] # NoItem =>
       /\ lock[Bucket(p)] = p /\ BucketOf[cache_item[p].key] = Bucket(p)
       /\ pc[p] \in {"evict", "out", "release", "write_victim", "free"}
       /\ IF IsEvicted(cache_item[p]) THEN ~IsCached(cache_item[p].key)
          ELSE /\ InBucket(cache_item[p]) /\ cache_item[p].key = key[p]
               /\ pc[p] \in {"evict", "out", "release"}
  /\ \A b \in Buckets : lock[b] # None =>
       cache_item[lock[b]] # NoItem /\ Bucket(lock[b]) = b

\* No bucket holds a key twice, a key of another bucket or an item marked as
\* evicted: a get and the cache_put that replaces in place would otherwise
\* see different items.
OneItemPerKey ==
  \A b \in Buckets : \A s \in Slots :
    items[b][s] # NoItem =>
      /\ BucketOf[items[b][s].key] = b /\ ~IsEvicted(items[b][s])
      /\ \A t \in Slots : items[b][t].key = items[b][s].key => s = t

Filled   == {bs \in Buckets \X Slots : items[bs[1]][bs[2]] # NoItem}
Evicting == {p \in Procs : cache_item[p] # NoItem /\ IsEvicted(cache_item[p])}
Reached  == Cardinality(Filled) + Cardinality(Evicting)

\* Every item that is allocated is in a bucket or a victim in a request's hand
\* (item_src allocates one per fill and per set, and cache_put frees what it
\* replaces): nothing leaks, unless a request is given up or a set dropped.
NothingLeaks == WriteAlloc /\ ~TryLock => live = Reached

\* Dropping a clean item loses nothing (CacheSetGet frees it, Evict does not
\* write it): the store holds its value.  With write-through this is so of
\* every item.
CleanIsStored ==
  \A b \in Buckets : \A s \in Slots :
    items[b][s] # NoItem /\ (WriteBack => items[b][s].evicted = 0)
      => items[b][s].val = store[items[b][s].key]

\* What is set stays until it is set again: the value the cache and its store
\* have for a key changes only at a set of that key.
SetsAreKept ==
  [][\A k \in Keys : KV'[k] # KV[k] =>
       \E p \in Procs : /\ Requests[p].op = "set" /\ key[p] = k
                        /\ Requests'[p].op = "done"]_vars

\* The cache with its store is one map: each set takes effect once, at one
\* moment, a get answers with a value its key had while the get ran, and no
\* fill, victim or delete changes what the map says.
Map == INSTANCE KeyValue WITH kv <- KV, request <- Requests, mayDrop <- TryLock
IsOneMap == Map!Spec
=============================================================================
