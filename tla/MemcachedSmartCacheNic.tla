----------------------- MODULE MemcachedSmartCacheNic -----------------------
(* src/apps/memcached_cpu_only/main_cache.py: the cache on the NIC, in      *)
(* front of the host's table.  What it has not got goes to the host and     *)
(* back through two queues.                                                 *)
EXTENDS Elements

SmartCache == INSTANCE MemcachedSmartCache

\* MyState and CacheState: the entries hold the packet's headers, the key and
\* the value.
State ==
  [within |-> SmartCache!State.within,
   points |-> [pkt |-> "rx", pkt_buff |-> "rx", key |-> "rx", it |-> "item", val |-> "rx",
               cache_item |-> "citem"],
   copied |-> [pkt |-> "sizeof", key |-> "keylen", val |-> "vallen"]]

ReceiveElements ==
  [SaveState |-> Hands(Through({}, {"pkt", "pkt_buff"}), "none")] @@ SmartCache!ReceiveElements

HashElements ==
  [JenkinsHash |-> Through({"key"}, {"hash"}),
   QID         |-> Through({"hash"}, {"qid"}),
   QIDCPU      |-> Through({"hash"}, {"qid"}),
   HashPut     |-> Through({"it"}, {})]
  @@ SmartCache!HashElements

\* The answers start with the headers of the request.
GetResponseElements ==
  [PrepareGetResp     |-> Wipes(Through({"pkt", "val", "vallen"}, {})),
   PrepareGetNullResp |-> Wipes(Through({"pkt"}, {}))]
  @@ SmartCache!GetResponseElements

SetResponseElements ==
  [PrepareSetResp |-> Wipes(Through({"pkt"}, {})),
   PktBuff        |-> Hands(Through({"pkt", "pkt_buff"}, {}), "rx")]
  @@ SmartCache!SetResponseElements

OtherElements == SmartCache!OtherElements

ItemElements ==
  [GetItemSpec |-> OneOf({"qid", "hash", "key", "keylen", "val", "vallen"}, {},
                         [out  |-> [Setting({"it"}) EXCEPT !.opens = {"item"}],
                          full |-> Fires(Clearing({"keylen"}), <<"out">>)]),
   Drop        |-> Through({}, {})]
  @@ SmartCache!ItemElements

-----------------------------------------------------------------------------
Queues ==
  [rx |-> [Queue(<<"rx_enq0", "rx_enq1">>, <<"rx_deq0", "rx_deq1">>, <<>>, "rx_done", TRUE) EXCEPT
             !.blocking = <<FALSE, TRUE>>],
   tx |-> Queue(<<"tx_enq0", "tx_enq1">>, <<"tx_deq0", "tx_deq1">>, <<>>, "tx_done", TRUE)]

HostChains ==
  << <<"rx_deq0", "out", "HashGet", "get_QIDCPU", "tx_enq0">>,
     <<"rx_deq1", "out", "GetItemSpec", "HashPut", "set_QIDCPU", "tx_enq1">>,
     <<"tx_done", "out", "Unref", "Drop">> >>

ReceiveChains ==
  << <<"from_net", "out", "hton1", "CheckPacket", "SaveState", "GetKey", "JenkinsHash", "Classifer">>,
     <<"from_net", "nothing", "drop">>,
     <<"Classifer", "out_get", "Key2State", "CacheGetStart", "get_QID", "rx_enq0">>,
     <<"Classifer", "out_set", "KV2State", "CacheSetStart", "set_QID", "rx_enq1">>,
     <<"rx_done", "out", "PktBuff", "from_net_free">>,
     <<"CheckPacket", "slowpath", "HandleArp", "rx_to_net">>,
     <<"HandleArp", "drop", "from_net_free">>,
     <<"CheckPacket", "drop", "from_net_free">> >>

SendChains ==
  << <<"tx_deq0", "out", "CacheGetEnd", "GetResult">>,
     <<"GetResult", "hit", "SizeGetResp", "net_alloc0", "PrepareGetResp", "PrepareHeader">>,
     <<"GetResult", "miss", "SizeGetNullResp", "net_alloc1", "PrepareGetNullResp", "PrepareHeader">>,
     <<"tx_deq1", "out", "CacheSetEnd", "SetResult">>,
     <<"SetResult", "success", "SizeSetResp0", "net_alloc2", "set_response", "PrepareHeader">>,
     <<"SetResult", "fail", "SizeSetResp1", "net_alloc3", "set_reponse_fail", "PrepareHeader">>,
     <<"PrepareHeader", "out", "hton2", "tx_to_net">>,
     <<"net_alloc0", "oom", "tx_drop">>,
     <<"net_alloc1", "oom", "tx_drop">>,
     <<"net_alloc2", "oom", "tx_drop">>,
     <<"net_alloc3", "oom", "tx_drop">> >>

Instances ==
  [get_QID |-> "QID", set_QID |-> "QID", get_QIDCPU |-> "QIDCPU", set_QIDCPU |-> "QIDCPU",
   rx_to_net |-> "ToNet", tx_to_net |-> "ToNet", tx_drop |-> "Drop",
   net_alloc0 |-> "NetAlloc", net_alloc1 |-> "NetAlloc", net_alloc2 |-> "NetAlloc",
   net_alloc3 |-> "NetAlloc"]
  @@ SmartCache!Program["of"]

\* Before the compiler has put the cache in.
Program ==
  [SmartCache!Program EXCEPT
     !.state    = State,
     !.elements = NetElements @@ ReceiveElements @@ HashElements @@ GetResponseElements
                  @@ SetResponseElements @@ OtherElements @@ ItemElements,
     !.of       = Instances,
     !.queues   = Queues,
     !.chains   = HostChains \o ReceiveChains \o SendChains,
     !.starts   = [k \in DOMAIN @ |-> "from_net"]]
=============================================================================
