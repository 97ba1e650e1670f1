----------------------------- MODULE SmartCache -----------------------------
(***************************************************************************)
(* The smart cache (cache_smart.py, cache_smart_compile.py): a program     *)
(* marks where the query of a get and of a set begin and end, and the      *)
(* compiler puts the elements of cache.py there.  Modelled as both         *)
(* programs of src/apps use it: keys and values of variable size and the   *)
(* hash in the per-packet state, write-back, allocation on a miss.         *)
(***************************************************************************)
EXTENDS FlowCompiler

Key   == {"key", "keylen"}
Value == {"val", "vallen"}

\* What the assigned fields lead to when they are set from a cache item.
From(item) == ("key" :> item) @@ ("val" :> item)

-----------------------------------------------------------------------------
(* The elements.  A key has its item in the cache (citem), or its item has  *)
(* been put out by another key's: one that has yet to be written to the     *)
(* store is a victim.                                                       *)

\* On the NIC a bucket that stays locked makes a get or a set fail.
Failing(mayFail) == [Port EXCEPT !.lost = TRUE, !.kinds = IF mayFail THEN @ ELSE {}]

CacheGet(mayFail) ==
  OneOf({"hash"} \cup Key, {},
        [hit  |-> [Opens("citem", "same") EXCEPT !.sets  = {"cache_item"} \cup Value,
                                                 !.leads = [cache_item |-> "citem", val |-> "citem"]],
         miss |-> Clearing({"cache_item"} \cup Value),
         fail |-> [Failing(mayFail) EXCEPT !.nulls = {"cache_item"} \cup Value]])

\* The query found nothing to fill in; what it found is filled in, in an empty
\* place or in that of a clean item; another request has filled in the key
\* meanwhile; or a dirty item had to make room.
CacheSetGet ==
  OneOf({"hash"} \cup Key \cup Value, {},
        [nothing |-> When(Fires(Clearing({"cache_item"}), <<"out">>), "vallen", Null),
         filled  |-> When(Fires(Clearing({"cache_item"}), <<"out">>), "vallen", Some),
         found   |-> When([Opens("citem", "same") EXCEPT !.sets  = {"cache_item"} \cup Key \cup Value,
                                                         !.leads = ("cache_item" :> "citem") @@ From("citem"),
                                                         !.fires = <<"out">>], "vallen", Some),
         evicts  |-> When([Opens("victim", "same") EXCEPT !.sets  = {"cache_item"},
                                                          !.leads = [cache_item |-> "victim"],
                                                          !.fires = <<"out">>], "vallen", Some)])

\* An empty value is not put into the cache: the set fails.
CacheSet(mayFail) ==
  OneOf({"hash"} \cup Key \cup Value, {},
        [out      |-> When(Clearing({"cache_item"}), "vallen", Some),
         replaces |-> When([Opens("citem", "same") EXCEPT !.sets  = {"cache_item"},
                                                          !.leads = [cache_item |-> "citem"],
                                                          !.fires = <<"out">>], "vallen", Some),
         evicts   |-> When([Opens("victim", "same") EXCEPT !.sets  = {"cache_item"},
                                                           !.leads = [cache_item |-> "victim"],
                                                           !.fires = <<"out">>], "vallen", Some),
         fail     |-> When([Failing(mayFail) EXCEPT !.nulls = {"cache_item"}], "vallen", Some),
         empty    |-> When([Failing(TRUE) EXCEPT !.nulls = {"cache_item"}, !.fires = <<"fail">>],
                           "vallen", Null)])

FreeOrRelease == Frees(OneOf({"cache_item"}, {}, [out |-> Clearing({"cache_item"})]), "cache_item")

\* CacheSet leaves only items that have been put out.
Free == FreeOrRelease

Evict ==
  OneOf({"cache_item"}, {},
        [out  |-> When([Setting({"hash"} \cup Key \cup Value) EXCEPT !.leads = From("victim")],
                       "cache_item", {"victim"}),
         skip |-> When(Fires(Port, <<"skip">>), "cache_item", Null \cup {"citem"})])

EvictSave ==
  [OneOf({"cache_item"} \cup Key \cup Value, {},
         [out |-> [Setting(Key \cup Value) EXCEPT !.leads = From("victim"),
                                                  !.fires = <<"out", "revert">>]])
     EXCEPT !.saves = Key \cup Value]

EvictRevert == [Through({}, Key \cup Value) EXCEPT !.restores = TRUE]

ForkRel        == InTurn(Through({}, {}), <<"out", "release">>)
ForkRelKeyOnly == ForkRel
Fork           == InTurn(Through({}, {}), <<"out1", "out2">>)
ForkEvictFree  == InTurn(Through({}, {}), <<"evict", "free">>)

CacheElements(mayFail) ==
  [CacheGet |-> CacheGet(mayFail), CacheSetGet |-> CacheSetGet, CacheSet |-> CacheSet(mayFail),
   FreeOrRelease |-> FreeOrRelease, Free |-> Free,
   Evict |-> Evict, EvictSave |-> EvictSave, EvictRevert |-> EvictRevert,
   ForkRel |-> ForkRel, ForkRelKeyOnly |-> ForkRelKeyOnly, Fork |-> Fork,
   ForkEvictFree |-> ForkEvictFree, cache_Drop |-> Through({}, {})]

-----------------------------------------------------------------------------
(* The composites: the wires among their elements.  Instances made for the  *)
(* get end in 0, those made for the set in 1.                               *)

EvictComposite(n) ==
  << <<"Evict" \o n, "out", "EvictSave" \o n>>, <<"EvictSave" \o n, "revert", "EvictRevert" \o n>> >>

GetComposite ==
  << <<"ForkRelKeyOnly", "out", "CacheGet">>,
     <<"CacheGet", "fail", "cache_Drop">>,
     <<"CacheSetGet", "out", "ForkRel0", "Fork0">>,
     <<"ForkRel0", "release", "FreeOrRelease0">>,
     <<"Fork0", "out1", "Evict0">>,
     <<"CacheGet", "hit", "ForkRel">>,
     <<"ForkRel", "release", "FreeOrRelease">> >>
  \o EvictComposite("0")

SetWriteBack ==
  << <<"CacheSet", "fail", "cache_Drop">>,
     <<"ForkRel1", "out", "CacheSet", "Fork1">>,
     <<"Fork1", "out1", "ForkEvictFree">>,
     <<"ForkEvictFree", "evict", "Evict1">>,
     <<"ForkEvictFree", "free", "Free">> >>
  \o EvictComposite("1")

CacheInstances ==
  [ForkRel0 |-> "ForkRel", ForkRel1 |-> "ForkRel", Fork0 |-> "Fork", Fork1 |-> "Fork",
   FreeOrRelease0 |-> "FreeOrRelease", Evict0 |-> "Evict", Evict1 |-> "Evict",
   EvictSave0 |-> "EvictSave", EvictSave1 |-> "EvictSave",
   EvictRevert0 |-> "EvictRevert", EvictRevert1 |-> "EvictRevert"]

-----------------------------------------------------------------------------
(* The rewriting of the program's graph.                                    *)

Wire(i, port, j) == [from |-> i, port |-> port, to |-> j]

\* dfs_same_thread, find_last_queue: the queues between two instances, with
\* the channel taken, in order.
QueuesBetween(p, s, t) ==
  LET paths[i \in Instances(p)] ==
        IF i = t THEN {<<>>}
        ELSE IF EnqueueOf(p, i) # {}
        THEN UNION {{<<e>> \o r : r \in paths[p.queues[e[1]].deq[e[2]]]} : e \in EnqueueOf(p, i)}
        ELSE UNION {paths[w.to] : w \in {v \in ToSet(Wires(p)) : v.from = i}}
  IN  CHOOSE path \in paths[s] : TRUE

\* Where the wires at the ends of the queries go.
Get(w) ==
  << CASE w.to   = "CacheGetStart" -> [w EXCEPT !.to = "ForkRelKeyOnly"]
       [] w.from = "CacheGetStart" -> Wire("CacheGet", "miss", w.to)
       [] w.to   = "CacheGetEnd"   -> [w EXCEPT !.to = "CacheSetGet"]
       [] w.from = "CacheGetEnd"   -> Wire("Fork0", "out2", w.to)
       [] OTHER                    -> w >>
  \o IF w.from = "CacheGetEnd" THEN <<Wire("ForkRel", "out", w.to)>> ELSE <<>>

\* The query of a set is run for what is evicted, by a get and by a set.
Set(w) ==
  CASE w.to   = "CacheSetStart" -> <<[w EXCEPT !.to = "ForkRel1"]>>
    [] w.from = "CacheSetStart" -> <<Wire("EvictSave0", "out", w.to), Wire("EvictSave1", "out", w.to)>>
    [] w.from = "CacheSetEnd"   -> <<Wire("Fork1", "out2", w.to)>>
    [] OTHER                    -> <<w>>

\* With write-back nobody waits for that query.  What led to its end leads
\* nowhere; where two queues are on the way, the last one is left out, and who
\* enqueued goes on with what follows the enqueue.
CutAt(p, last, w) ==
  LET q    == p.queues[last[1]]
      done == {v.to : v \in {u \in ToSet(Wires(p)) : u.from = q.done}}
  IN  CASE w.from = q.deq[last[2]] -> <<>>
        [] w.to   = q.enq[last[2]] ->
             <<[w EXCEPT !.to = IF done = {} THEN "cache_Drop" ELSE CHOOSE i \in done : TRUE]>>
        [] OTHER                   -> <<w>>

Cut(p, path, w) ==
  IF Len(path) > 1 THEN CutAt(p, Last(path), w)
  ELSE IF w.to = "CacheSetEnd" THEN <<[w EXCEPT !.to = "cache_Drop"]>> ELSE <<w>>

WithoutChannel(queue, c) ==
  [queue EXCEPT !.enq = RemoveAt(@, c), !.deq = RemoveAt(@, c), !.blocking = RemoveAt(@, c)]

\* What followed an enqueue into the first queue, cleaning up after a packet
\* that has gone to the other side, is done when the cache is through with it.
AfterEnqueue(p, path, w) ==
  IF path # <<>> /\ w.from = p.queues[Head(path)[1]].done
  THEN <<Wire("ForkRelKeyOnly", "release", w.to), Wire("ForkRel1", "release", w.to)>>
  ELSE <<w>>

EachWire(wires, f(_)) == FlattenSeq([n \in DOMAIN wires |-> f(wires[n])])

\* cache_pass, of a program whose cache is on the NIC or on the CPU.
WithCache(p, mayFail) ==
  LET gets  == QueuesBetween(p, "CacheGetStart", "CacheGetEnd")
      sets  == QueuesBetween(p, "CacheSetStart", "CacheSetEnd")
      after == EachWire(Wires(p), LAMBDA w : AfterEnqueue(p, gets, w))
      cut   == EachWire(after, LAMBDA w : Cut(p, sets, w))
      wires == EachWire(EachWire(cut, Get), Set)
  IN  [p EXCEPT
         !.elements = CacheElements(mayFail) @@ @,
         !.of       = CacheInstances @@ @,
         !.queues   = [q \in DOMAIN @ |->
                         IF Len(sets) > 1 /\ q = Last(sets)[1]
                         THEN WithoutChannel(@[q], Last(sets)[2]) ELSE @[q]],
         !.chains   = [n \in DOMAIN wires |-> <<wires[n].from, wires[n].port, wires[n].to>>]
                      \o GetComposite \o SetWriteBack]
=============================================================================
