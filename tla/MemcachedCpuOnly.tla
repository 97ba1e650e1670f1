-------------------------- MODULE MemcachedCpuOnly --------------------------
(* src/apps/memcached_cpu_only/main.py: the key-value store with steering:  *)
(* the receiving thread makes the item in a log segment and hands the       *)
(* request to the core of its key; another thread sends the answers.        *)
EXTENDS Elements

\* MyState, with what its pointers lead to.
State ==
  [within |-> [pkt_opcode  |-> "pkt", pkt_keylen  |-> "pkt", pkt_extlen |-> "pkt",
               pkt_bodylen |-> "pkt", pkt_payload |-> "pkt", it_vallen  |-> "it"],
   points |-> [pkt |-> "rx", pkt_buff |-> "rx", key |-> "rx", it |-> "item"],
   copied |-> [key |-> "pkt_keylen"]]

Peer == {"src_mac", "dst_mac", "src_ip", "src_port"}

ReceiveElements ==
  [SaveState   |-> Hands(Through({}, {"pkt", "pkt_buff"} \cup Peer), "none"),
   GetPktBuff  |-> Hands(Through({"pkt", "pkt_buff"}, {}), "rx"),
   CheckPacket |-> OneOf({}, {}, [out      |-> For({"get", "set"}),
                                  slowpath |-> For({"arp", "slow"}),
                                  drop     |-> For({"junk"})]),
   Classifer   |-> OneOf({"pkt_opcode"}, {}, [out_get |-> For({"get"}), out_set |-> For({"set"})]),
   GetKey      |-> Through({"pkt_payload", "pkt_extlen"}, {"key"}),
   GetCore     |-> Through({"hash"}, {"qid"})]

HashElements ==
  [JenkinsHash |-> Through({"key", "pkt_keylen"}, {"hash"}),
   HashGet     |-> OneOf({"key", "pkt_keylen", "hash"}, {},
                         [out  |-> [Setting({"it"}) EXCEPT !.opens = {"item"}],
                          null |-> [Port EXCEPT !.nulls = {"it"}]]),
   HashPut     |-> Through({"it"}, {})]

GetResponseElements ==
  [SizeGetResp        |-> Through({"it_vallen"}, {"vallen"}),
   PrepareGetResp     |-> Wipes(Through({"it", "vallen"}, {})),
   SizeGetNullResp    |-> Through({}, {}),
   PrepareGetNullResp |-> Wipes(Through({}, {}))]

SetResponseElements ==
  [SizeSetResp        |-> Through({}, {}),
   SizePktBuffSetResp |-> Hands(Through({"pkt", "pkt_buff"}, {}), "rx"),
   PrepareSetResp     |-> Wipes(Through({}, {})),
   PrepareHeader      |-> Through(Peer, {})]

OtherElements ==
  [HandleArp |-> OneOf({}, {}, [out |-> For({"arp"}), drop |-> For(Kinds \ {"arp"})]),
   PrintMsg  |-> Through({}, {})]

LogElements ==
  [FilterFull   |-> [OneOf({}, {"qid"}, [out |-> Port, skip |-> Port]) EXCEPT !.late = {"segfull"}],
   FirstSegment |-> Through({}, {"qid", "segbase", "seglen"}),
   NewSegment   |-> OneOf({"segfull"}, {}, [out  |-> Setting({"segbase", "seglen", "qid"}),
                                            null |-> Port]),
   AddLogseg    |-> Through({"segbase", "seglen"}, {})]

ItemElements ==
  [GetItem |-> OneOf({"pkt_bodylen", "pkt_extlen", "pkt_keylen", "hash", "key"}, {"segfull"},
                     [out     |-> [Setting({"it"}) EXCEPT !.opens = {"item"}],
                      nothing |-> Port]),
   Unref   |-> Alone(Frees(Through({"it"}, {}), "it")),
   Drop    |-> Through({}, {})]

-----------------------------------------------------------------------------
Queues ==
  [rx      |-> Queue(<<"rx_enq0", "rx_enq1">>, <<"rx_deq0", "rx_deq1">>, <<>>, "rx_done", TRUE),
   tx      |-> Queue(<<"tx_enq0", "tx_enq1", "tx_enq2">>, <<"tx_deq0", "tx_deq1", "tx_deq2">>,
                     <<"tx_scan0", "tx_scan1", "tx_scan2">>, "tx_done", TRUE),
   log_in  |-> Queue(<<"log_in_enq">>, <<"log_in_deq">>, <<>>, "log_in_done", TRUE),
   log_out |-> Queue(<<"log_out_enq">>, <<"log_out_deq">>, <<>>, "log_out_done", TRUE)]

ReceiveChains ==
  << <<"from_net", "nothing", "Drop">>,
     <<"from_net", "out", "hton1", "CheckPacket">>,
     <<"CheckPacket", "out", "SaveState", "GetKey", "JenkinsHash", "GetCore", "Classifer">>,
     <<"Classifer", "out_get", "rx_enq0">>,
     <<"Classifer", "out_set", "GetItem", "rx_enq1">>,
     <<"GetItem", "nothing", "SizePktBuffSetResp", "set_reponse_fail", "rx_PrepareHeader",
       "rx_PrintMsg", "hton2", "rx_to_net">>,
     <<"GetItem", "out", "FilterFull">>,
     <<"GetItem", "nothing", "FilterFull">>,
     <<"FilterFull", "out", "log_in_enq">>,
     <<"CheckPacket", "slowpath", "HandleArp", "rx_to_net">>,
     <<"HandleArp", "drop", "from_net_free">>,
     <<"CheckPacket", "drop", "from_net_free">>,
     <<"rx_done", "out", "GetPktBuff", "from_net_free">> >>

HostChains ==
  << <<"rx_deq0", "out", "HashGet", "tx_enq0">>,
     <<"HashGet", "null", "tx_enq2">>,
     <<"rx_deq1", "out", "HashPut", "Unref", "tx_enq1">>,
     <<"tx_scan0", "out", "scan_Unref", "Drop">>,
     <<"tx_scan1", "out", "Drop">>,
     <<"tx_scan2", "out", "Drop">>,
     <<"FirstSegment", "out", "log_out_enq">>,
     <<"log_in_deq", "out", "NewSegment", "log_out_enq">>,
     <<"NewSegment", "null", "Drop">> >>

SendChains ==
  << <<"tx_deq0", "out", "SizeGetResp", "net_alloc0", "PrepareGetResp", "tx_PrepareHeader">>,
     <<"tx_deq2", "out", "SizeGetNullResp", "net_alloc3", "PrepareGetNullResp", "tx_PrepareHeader">>,
     <<"tx_deq1", "out", "SizeSetResp", "net_alloc1", "PrepareSetResp", "tx_PrepareHeader">>,
     <<"tx_PrepareHeader", "out", "tx_PrintMsg", "tx_hton", "tx_to_net">>,
     <<"net_alloc0", "oom", "Drop">>,
     <<"net_alloc1", "oom", "Drop">>,
     <<"net_alloc3", "oom", "Drop">>,
     <<"log_out_deq", "out", "AddLogseg">> >>

\* The instances that do not have the name of their element.
Instances ==
  [from_net |-> "FromNet", from_net_free |-> "FromNetFree", hton1 |-> "HTON", hton2 |-> "HTON",
   tx_hton |-> "HTON", rx_to_net |-> "ToNet", tx_to_net |-> "ToNet",
   net_alloc0 |-> "NetAlloc", net_alloc1 |-> "NetAlloc", net_alloc3 |-> "NetAlloc",
   set_reponse_fail |-> "PrepareSetResp", scan_Unref |-> "Unref",
   rx_PrepareHeader |-> "PrepareHeader", tx_PrepareHeader |-> "PrepareHeader",
   rx_PrintMsg |-> "PrintMsg", tx_PrintMsg |-> "PrintMsg"]

Program ==
  [state    |-> State,
   elements |-> NetElements @@ ReceiveElements @@ HashElements @@ GetResponseElements
                @@ SetResponseElements @@ OtherElements @@ LogElements @@ ItemElements,
   of       |-> Instances,
   queues   |-> Queues,
   chains   |-> ReceiveChains \o HostChains \o SendChains,
   starts   |-> [k \in {"get", "set", "arp", "slow", "junk", "idle", "init"} |->
                   IF k = "init" THEN "FirstSegment" ELSE "from_net"],
   answered |-> [k \in {"get", "set", "arp"} |-> 1]]
=============================================================================
