----------------------------- MODULE MCFlowRun -----------------------------
(* FlowRun on the programs of src/apps. *)
EXTENDS FlowRun, FlowLabels, SmartCache

CpuOnly       == INSTANCE MemcachedCpuOnly
Split         == INSTANCE MemcachedSplit
Optimized     == INSTANCE MemcachedOptimized
Nosteer       == INSTANCE MemcachedNosteer
Nosmart       == INSTANCE MemcachedNosmart
NoSteering    == INSTANCE MemcachedNoSteering
NicOnly       == INSTANCE MemcachedNicOnly
Cached        == INSTANCE MemcachedCached
SmartCpu      == INSTANCE MemcachedSmartCache
SmartNic      == INSTANCE MemcachedSmartCacheNic
Dccp          == INSTANCE Storm
DccpNic       == INSTANCE StormNic
DccpBypass    == INSTANCE StormCpuBypass
DccpNicBypass == INSTANCE StormNicBypass
DccpCounter   == INSTANCE StormNicCounter
Simple        == INSTANCE Benchmarks
\* Of eight workers, two.
Parameters    == INSTANCE ParameterServer WITH AllocNames <- <<"alloc1", "alloc2">>,
                                               CopyNames <- <<"Copy1", "Copy2">>

\* The program is not asked for some things; an element never takes a way out.
Without(p, kinds) ==
  [p EXCEPT !.starts = [k \in DOMAIN p.starts \ kinds |-> p.starts[k]]]

Never(p, element, port) == [p EXCEPT !.elements[element].ports[port].kinds = {}]

\* No dirty item is put out of the cache, and no value is empty.
Spared(p) == Never(Never(Never(p, "CacheSet", "evicts"), "CacheSetGet", "evicts"), "KV2State", "empty")

AllPrograms ==
  [memcached_cpu_only    |-> CpuOnly!Program,
   memcached_split       |-> Split!Program,
   memcached_optimized   |-> Optimized!Program,
   memcached_nosteer     |-> Nosteer!Program,
   memcached_nosmart     |-> Without(Nosmart!Program, {"set"}),
   memcached_no_steering |-> NoSteering!Program,
   memcached_nic_only    |-> NicOnly!Program,
   memcached_cached      |-> Never(Cached!Program, "GetItemSpec", "nothing"),
   memcached_smart_cpu   |-> Spared(WithCache(SmartCpu!Program, FALSE)),
   memcached_smart_nic   |-> Spared(WithCache(SmartNic!Program, TRUE)),
   storm_dccp            |-> Without(Dccp!Program, {"junk"}),
   storm_nic             |-> Without(DccpNic!Program, {"junk"}),
   storm_cpu_bypass      |-> Without(DccpBypass!Program, {"junk"}),
   storm_nic_bypass      |-> Without(DccpNicBypass!Program, {"junk"}),
   storm_nic_counter     |-> Without(DccpCounter!Program, {"junk"}),
   memcached_simple      |-> Simple!MemcachedSimple,
   inqueue               |-> Simple!InQueue,
   inqueue1core          |-> Simple!InQueue1Core,
   inqueue2              |-> Simple!InQueue2,
   inout                 |-> Simple!InOut,
   simple_reply          |-> Simple!SimpleReply,
   param_update          |-> Simple!ParamUpdate,
   param_update2         |-> Simple!ParamUpdate2,
   network_functions     |-> Simple!NetworkFunctions,
   parameter_server      |-> Parameters!Server,
   parameter_worker      |-> Without(Parameters!Worker, {"junk"})]

\* Gets that put dirty items out of the cache.
EvictingPrograms ==
  [memcached_smart_cpu |-> Without(WithCache(SmartCpu!Program, FALSE), Kinds \ {"get"}),
   memcached_smart_nic |-> Without(WithCache(SmartNic!Program, TRUE), Kinds \ {"get"})]

\* In two programs some paths of the graph are taken by no packet: what is read on
\* them was tested for before, or was saved for it from another branch, and only
\* the runs tell.
PathDependent == {"memcached_smart_cpu", "memcached_smart_nic"}

\* Every field read on any path through a program's graph has been written on it,
\* or is among what the compiler puts into the entries the path goes through, and
\* it has been written by an instance above the one that reads it.
GraphSuppliesNeeds ==
  prog \notin PathDependent /\ ~started =>
    LET left == Table(Additions(code, kind))
        seen == Table(Findings(code, kind, left))
    IN  /\ IsClosed(code, kind)
        /\ SuppliesNeeds(code, kind, Table(Needs(code, kind)))
        /\ OrdersWrites(code, kind, seen, left, {})

\* Every path through a program's graph sends the answers the program has for the
\* request, but where a buffer is missing.
GraphCountsAnswers ==
  ~started =>
    IsClosed(code, kind) /\ CountsAnswers(code, kind, Table(Answers(code, kind)))
=============================================================================
