------------------------ MODULE MemcachedNoSteering ------------------------
(* src/apps/memcached_cpu_only/main_no_steering.py: one segment serves a   *)
(* request from the receive to the send and puts the answer into the       *)
(* buffer the request came in.                                             *)
EXTENDS Elements

CpuOnly == INSTANCE MemcachedCpuOnly

\* MyState.
State == [CpuOnly!State EXCEPT !.copied = <<>>]

ReceiveElements ==
  [SaveID    |-> OneOf({}, {"core"}, [out |-> [Port EXCEPT !.nulls = {"pkt"}]]),
   SaveState |-> Hands(Through({}, {"pkt", "pkt_buff"}), "none")]
  @@ CpuOnly!ReceiveElements

HashElements == CpuOnly!HashElements

GetResponseElements == CpuOnly!GetResponseElements

\* The header is made from the one of the request in the same buffer.
SetResponseElements ==
  [SizePktBuff   |-> Hands(Through({"pkt", "pkt_buff"}, {}), "rx"),
   PrepareHeader |-> Through({}, {})]
  @@ CpuOnly!SetResponseElements

OtherElements == CpuOnly!OtherElements

ItemElements ==
  [GetItemSpec |-> OneOf({"pkt_bodylen", "pkt_extlen", "pkt_keylen", "hash", "key", "core"}, {},
                         [out     |-> [Setting({"it"}) EXCEPT !.opens = {"item"}],
                          nothing |-> Port]),
   CleanLog    |-> [Through({"core", "pkt"}, {}) EXCEPT !.tests = {"pkt"}]]
  @@ CpuOnly!ItemElements

\* Mutant: the answer is put into the buffer before the item is made of it.
MutAnswerFirst ==
  <<"Classifer", "out_set", "SizeSetResp0", "SizePktBuff2", "set_response",
    "GetItemSpec", "HashPut", "set_Unref", "PrepareHeader">>

SetChain ==
  <<"Classifer", "out_set", "GetItemSpec", "HashPut", "set_Unref",
    "SizeSetResp0", "SizePktBuff2", "set_response", "PrepareHeader">>

ProcessChains ==
  << <<"from_net", "out", "hton1", "CheckPacket", "SaveState", "GetKey", "JenkinsHash", "Classifer">>,
     <<"from_net", "nothing", "drop">>,
     <<"Classifer", "out_get", "HashGet", "SizeGetResp", "SizePktBuff0", "PrepareGetResp",
       "PrepareHeader">>,
     <<"PrepareGetResp", "out", "get_Unref", "Drop">>,
     <<"HashGet", "null", "SizeGetNullResp", "SizePktBuff1", "PrepareGetNullResp", "PrepareHeader">>,
     SetChain,
     <<"GetItemSpec", "nothing", "SizeSetResp1", "SizePktBuff3", "set_reponse_fail",
       "PrepareHeader">>,
     <<"CheckPacket", "slowpath", "HandleArp", "to_net">>,
     <<"HandleArp", "drop", "from_net_free">>,
     <<"CheckPacket", "drop", "from_net_free">>,
     <<"PrepareHeader", "out", "PrintMsg", "hton2", "to_net">> >>

\* run_order: the log is cleaned when the packet has left.
OrderChains ==
  << <<"SaveID", "_out", "from_net">>,
     <<"to_net", "_out", "CleanLog">>,
     <<"from_net_free", "_out", "CleanLog">>,
     <<"drop", "_out", "CleanLog">> >>

Instances ==
  [to_net |-> "ToNet", drop |-> "Drop",
   get_Unref |-> "Unref", set_Unref |-> "Unref", set_response |-> "PrepareSetResp",
   SizeSetResp0 |-> "SizeSetResp", SizeSetResp1 |-> "SizeSetResp",
   SizePktBuff0 |-> "SizePktBuff", SizePktBuff1 |-> "SizePktBuff",
   SizePktBuff2 |-> "SizePktBuff", SizePktBuff3 |-> "SizePktBuff"]
  @@ CpuOnly!Instances

Program ==
  [state    |-> State,
   elements |-> NetElements @@ ReceiveElements @@ HashElements @@ GetResponseElements
                @@ SetResponseElements @@ OtherElements @@ ItemElements,
   of       |-> Instances,
   queues   |-> <<>>,
   chains   |-> ProcessChains \o OrderChains,
   starts   |-> [k \in {"get", "set", "arp", "slow", "junk", "idle"} |-> "SaveID"],
   answered |-> [k \in {"get", "set", "arp"} |-> 1]]
=============================================================================
