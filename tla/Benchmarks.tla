----------------------------- MODULE Benchmarks -----------------------------
(* The small programs of src/apps/benchmarks_simple, benchmarks_param_update *)
(* and benchmarks_network_func that take packets in: what measures a queue,  *)
(* a round trip, an update of parameters or a function on the way.           *)
EXTENDS Elements

Stateless == [within |-> <<>>, points |-> <<>>, copied |-> <<>>]

\* From the network and back, or nowhere: each of them starts like this.
NetChains == << <<"from_net", "nothing", "Drop">> >>

NetInstances == [from_net |-> "FromNet", from_net_free |-> "FromNetFree", to_net |-> "ToNet"]

Drop == [Drop |-> Through({}, {})]

\* A program is asked for what these kinds are about.
Benchmark(state, elements, instances, queues, chains, starts, answered) ==
  [state |-> state, elements |-> NetElements @@ Drop @@ elements, of |-> NetInstances @@ instances,
   queues |-> queues, chains |-> chains, starts |-> starts, answered |-> answered]

FromNetwork(kinds) == [k \in kinds |-> "from_net"]
-----------------------------------------------------------------------------
(* Queues.  What MakeKey makes goes to the host through a smart queue.      *)

RxQueue == [rx |-> Queue(<<"rx_enq">>, <<"rx_deq">>, <<>>, "rx_done", TRUE)]

\* memcached_simple.py and memcached_simple_nosmart.py: the key is copied by
\* its length, and the packet freed behind the enqueue.
KeyState == [within |-> <<>>, points |-> [pkt |-> "rx", pkt_buff |-> "rx", key |-> "rx"],
             copied |-> [key |-> "keylen"]]

KeyElements ==
  [MakeKey    |-> Hands(Through({}, {"pkt", "pkt_buff", "keylen", "key", "qid"}), "none"),
   GetPktBuff |-> Alone(Hands(Through({"pkt", "pkt_buff"}, {}), "rx")),
   Display    |-> Alone(Through({"key", "keylen"}, {}))]

KeyChains ==
  NetChains \o
  << <<"from_net", "out", "MakeKey", "rx_enq">>,
     <<"rx_done", "out", "GetPktBuff", "from_net_free">>,
     <<"rx_deq", "out", "Display">> >>

MemcachedSimple ==
  Benchmark(KeyState, KeyElements, <<>>, RxQueue, KeyChains, FromNetwork({"call", "idle"}), <<>>)

\* inqueue.py: the key is the first 64 bytes of the packet.
InQueue ==
  [MemcachedSimple EXCEPT
     !.state    = [KeyState EXCEPT !.copied = [key |-> "sizeof"]],
     !.elements = [MakeKey |-> Hands(Through({}, {"pkt", "pkt_buff", "key", "qid"}), "none"),
                   Display |-> Alone(Through({"key"}, {}))] @@ @]

\* inqueue1core.py and inqueue2.py: the NIC makes up what it sends, as data of
\* which key is the length, or as a number.
MakingUp(fields, copied) ==
  Benchmark([Stateless EXCEPT !.copied = copied],
            [MakeKey |-> Through({}, fields \cup {"qid"}), Display |-> Alone(Through(fields, {}))],
            <<>>, RxQueue,
            << <<"MakeKey", "out", "rx_enq">>, <<"rx_deq", "out", "Display">> >>,
            [k \in {"call"} |-> "MakeKey"], <<>>)

InQueue1Core == MakingUp({"key", "data"}, [data |-> "key"])
InQueue2     == MakingUp({"key"}, <<>>)

\* inout.py: the host sends it back through another queue.
InOut ==
  [InQueue2 EXCEPT
     !.queues = [tx |-> Queue(<<"tx_enq">>, <<"tx_deq">>, <<>>, "tx_done", TRUE)] @@ @,
     !.chains = << <<"MakeKey", "out", "rx_enq">>, <<"rx_deq", "out", "tx_enq">>,
                   <<"tx_deq", "out", "Display">> >>]
-----------------------------------------------------------------------------
(* Answers. *)

\* benchmarks_simple/reply.py: the packet is turned round.
SimpleReply ==
  Benchmark(Stateless, [Reply |-> Wipes(Through({}, {}))], <<>>, <<>>,
            NetChains \o << <<"from_net", "out", "Reply", "to_net">> >>,
            FromNetwork({"call", "idle"}), [k \in {"call"} |-> 1])

\* benchmarks_param_update/main.py: a parameter is updated before it is.
ParamUpdate ==
  [SimpleReply EXCEPT
     !.elements = [Update |-> Hands(Through({}, {}), "none")] @@ @,
     !.chains   = << <<"from_net", "nothing", "Drop">>, <<"from_net", "out", "Update">>,
                     <<"from_net", "out", "Reply", "to_net">> >>]

\* main2.py: the update is told to five others, in copies.
Ports == <<"out1", "out2", "out3", "out4", "out5">>

ParamUpdate2 ==
  Benchmark([Stateless EXCEPT !.points = [pkt |-> "rx"]],
    [Update |-> Wipes(Hands(Through({}, {"pkt"}), "none")),
     Fork   |-> OneOf({}, {}, [all |-> Fires(Port, Ports)]),
     Copy   |-> Wipes(Through({"pkt"}, {})),
     Reply  |-> Through({}, {})],
    [net_alloc |-> "NetAlloc", to_net2 |-> "ToNet"], <<>>,
    << <<"from_net", "nothing", "Drop">>, <<"from_net", "out", "Update", "Fork">> >>
    \o [n \in DOMAIN Ports |-> <<"Fork", Ports[n], "net_alloc">>]
    \o << <<"net_alloc", "out", "Copy", "to_net2">>, <<"net_alloc", "oom", "Drop">>,
          <<"from_net", "out", "Reply", "to_net">> >>,
    FromNetwork({"call", "idle"}), [k \in {"call"} |-> 6])

\* benchmarks_network_func/reply.py: a function is computed over the packet.
Functions ==
  [Filter   |-> OneOf({}, {}, [other |-> For({"junk"}), out |-> For({"call", "slow"})]),
   Classify |-> OneOf({}, {}, [hash |-> For({"call"}), flow |-> For({"call"}), seq |-> For({"call"}),
                               other |-> For({"slow"})]),
   Hash     |-> Wipes(Through({}, {})),
   Flow     |-> Through({}, {}),
   Seq      |-> Wipes(Through({}, {})),
   Reply    |-> Wipes(Through({}, {}))]

FunctionChains ==
  NetChains \o
  << <<"from_net", "out", "Filter">>, <<"Filter", "other", "from_net_free">>,
     <<"Filter", "out", "Classify">>,
     <<"Classify", "hash", "Hash", "Reply">>, <<"Classify", "flow", "Flow", "Reply">>,
     <<"Classify", "seq", "Seq", "Reply">>, <<"Classify", "other", "from_net_free">>,
     <<"Reply", "out", "to_net">> >>

NetworkFunctions ==
  Benchmark(Stateless, Functions, <<>>, <<>>, FunctionChains,
            FromNetwork({"call", "slow", "junk", "idle"}), [k \in {"call"} |-> 1])
=============================================================================
