-------------------------- MODULE MemcachedCached --------------------------
(* src/apps/memcached_cached/main_no_steering.py: the NIC answers what is  *)
(* in its own table, as MemcachedNicOnly does, and passes the rest to the  *)
(* host, which answers as in MemcachedNosmart.  Whether the NIC has a key  *)
(* is simulated by a counter, here left open.                              *)
EXTENDS Elements

NicOnly == INSTANCE MemcachedNicOnly
Nosmart == INSTANCE MemcachedNosmart

State == [Nosmart!State EXCEPT !.copied = [pkt |-> "pkt_size", resp |-> "resp_size"]]

CoreOf(port) == [port EXCEPT !.nulls = {"pkt"}]

ReceiveElements ==
  [SaveState      |-> Hands(Through({}, {"pkt", "pkt_buff", "pkt_size"}), "none"),
   CheckPacket    |-> OneOf({}, {"qid"}, [out      |-> CoreOf(For({"get", "set"})),
                                          slowpath |-> CoreOf(For({"arp", "slow"})),
                                          drop     |-> CoreOf(For({"junk"}))]),
   CacheSimulator |-> OneOf({}, {}, [out_hit |-> Port, out_miss |-> Port])]
  @@ Nosmart!ReceiveElements

\* HashGetDummy drops the item it gets at once.
HashElements ==
  [JenkinsHash  |-> Through({"pkt_extlen", "pkt_keylen", "pkt_payload"}, {"hash"}),
   HashGet      |-> [Nosmart!HashElements["HashGet"] EXCEPT !.ports.out.sets = {"it"}],
   HashGetDummy |-> Reads(Through({"pkt", "hash"}, {}),
                          {"pkt_opcode", "pkt_keylen", "pkt_payload", "pkt_extlen"})]
  @@ Nosmart!HashElements

GetResponseElements ==
  [SizeGetResp    |-> Through({"it_vallen"}, {"resp_size", "vallen"}),
   PrepareGetResp |-> Wipes(Through({"it", "vallen"}, {}))]
  @@ Nosmart!GetResponseElements

\* The host's header is made from the request, the NIC's in its buffer.
SetResponseElements ==
  [SizePktBuff      |-> Hands(Through({"pkt", "pkt_buff"}, {}), "rx"),
   PrepareHeader    |-> Through({}, {}),
   PrepareHeaderCPU |-> Nosmart!SetResponseElements["PrepareHeader"]]
  @@ Nosmart!SetResponseElements

OtherElements == Nosmart!OtherElements

ItemElements ==
  [GetItemSpec |-> Reads(OneOf({"pkt", "hash", "qid"}, {},
                               [out     |-> [Setting({"it"}) EXCEPT !.opens = {"item"}],
                                nothing |-> Port]),
                         {"pkt_bodylen", "pkt_extlen", "pkt_keylen", "pkt_payload"}),
   Drop         |-> OneOf({}, {"qid"}, [out |-> CoreOf(Port)]),
   library_Drop |-> Through({}, {}),
   CleanLog     |-> [Through({"qid", "pkt"}, {}) EXCEPT !.tests = {"pkt"}]]
  @@ Nosmart!ItemElements

-----------------------------------------------------------------------------
Queues ==
  [rx |-> Queue(<<"rx_enq">>, <<"rx_deq">>, <<>>, "rx_done", TRUE),
   tx |-> Queue(<<"tx_enq">>, <<"tx_deq">>, <<>>, "tx_done", TRUE)]

HostChains ==
  << <<"rx_deq", "out", "host_Classifer">>,
     <<"host_Classifer", "out_get", "host_HashGet", "host_SizeGetResp", "Malloc0",
       "host_PrepareGetResp", "host_Header0", "SaveResponse">>,
     <<"host_HashGet", "null", "host_SizeGetNullResp", "Malloc1", "host_PrepareGetNullResp",
       "host_Header1", "SaveResponse">>,
     <<"host_Classifer", "out_set", "host_GetItemSpec", "host_HashPut", "host_SizeSetResp0",
       "Malloc2", "host_set_response", "host_Header2", "SaveResponse">>,
     <<"host_GetItemSpec", "nothing", "host_SizeSetResp1", "Malloc3", "host_set_response_fail",
       "host_Header3", "SaveResponse">>,
     <<"SaveResponse", "out", "tx_enq">>,
     <<"tx_done", "out", "host_Unref", "Free">> >>

SendChains == << <<"tx_deq", "out", "ExtractPkt", "tx_PrintMsg", "tx_hton", "tx_to_net">> >>

ProcessChains ==
  << <<"from_net", "out", "hton1", "CheckPacket", "SaveState", "JenkinsHash", "CacheSimulator">>,
     <<"CacheSimulator", "out_miss", "HashGetDummy", "rx_enq">>,
     <<"rx_done", "out", "GetPktBuff", "from_net_free">>,
     <<"CacheSimulator", "out_hit", "Classifer">>,
     <<"from_net", "nothing", "drop">>,
     <<"Classifer", "out_get", "HashGet", "SizeGetResp", "SizePktBuff0", "PrepareGetResp",
       "PrepareHeader">>,
     <<"PrepareGetResp", "out", "get_Unref", "library_Drop">>,
     <<"HashGet", "null", "SizeGetNullResp", "SizePktBuff1", "PrepareGetNullResp", "PrepareHeader">>,
     <<"Classifer", "out_set", "GetItemSpec", "HashPut", "set_Unref", "SizeSetResp0",
       "SizePktBuff2", "set_response", "PrepareHeader">>,
     <<"GetItemSpec", "nothing", "SizeSetResp1", "SizePktBuff3", "set_reponse_fail",
       "PrepareHeader">>,
     <<"CheckPacket", "slowpath", "HandleArp", "to_net">>,
     <<"HandleArp", "drop", "from_net_free">>,
     <<"CheckPacket", "drop", "from_net_free">>,
     <<"PrepareHeader", "out", "PrintMsg", "hton2", "to_net">> >>

\* Its ialloc_maintenance segment shares no state with the packets.
OrderChains == NicOnly!OrderChains

Instances ==
  [host_Classifer |-> "Classifer", host_HashGet |-> "HashGet", host_HashPut |-> "HashPut",
   host_SizeGetResp |-> "SizeGetResp", host_PrepareGetResp |-> "PrepareGetResp",
   host_SizeGetNullResp |-> "SizeGetNullResp", host_PrepareGetNullResp |-> "PrepareGetNullResp",
   host_SizeSetResp0 |-> "SizeSetResp", host_SizeSetResp1 |-> "SizeSetResp",
   host_set_response |-> "PrepareSetResp", host_set_response_fail |-> "PrepareSetResp",
   host_Header0 |-> "PrepareHeaderCPU", host_Header1 |-> "PrepareHeaderCPU",
   host_Header2 |-> "PrepareHeaderCPU", host_Header3 |-> "PrepareHeaderCPU",
   host_GetItemSpec |-> "GetItemSpec", host_Unref |-> "Unref",
   Malloc0 |-> "Malloc", Malloc1 |-> "Malloc", Malloc2 |-> "Malloc", Malloc3 |-> "Malloc"]
  @@ NicOnly!Program["of"]

Program ==
  [NicOnly!Program EXCEPT
     !.state    = State,
     !.elements = NetElements @@ ReceiveElements @@ HashElements @@ GetResponseElements
                  @@ SetResponseElements @@ OtherElements @@ ItemElements,
     !.of       = Instances,
     !.queues   = Queues,
     !.chains   = HostChains \o SendChains \o ProcessChains \o OrderChains]
=============================================================================
