------------------------ MODULE MemcachedSmartCache ------------------------
(* src/apps/memcached_cpu_only/main_no_steering_cache.py: the program of    *)
(* MemcachedNoSteering with a smart cache in front of its table.            *)
EXTENDS Elements

NoSteering == INSTANCE MemcachedNoSteering

\* MyState and CacheState.  The value of a set is in the request.
State ==
  [NoSteering!State EXCEPT !.points = [it_set |-> "item", val |-> "rx", cache_item |-> "citem"] @@ @]

ReceiveElements == NoSteering!ReceiveElements

\* Looking up an item that is not there leaves the value alone.
HashElements ==
  [HashGet   |-> OneOf({"key", "keylen", "hash"}, {},
                       [out     |-> [Leading([it |-> "item", val |-> "item"]) EXCEPT
                                       !.sets = @ \cup {"vallen"}, !.opens = {"item"}],
                        nothing |-> Fires(Clearing({"it", "vallen"}), <<"out">>)]),
   GetResult |-> OneOf({"vallen"}, {}, [hit  |-> When(Port, "vallen", Some),
                                        miss |-> When(Port, "vallen", Null)]),
   HashPut   |-> Through({"it_set"}, {})]
  @@ NoSteering!HashElements

GetResponseElements ==
  [SizeGetResp    |-> Through({"vallen"}, {}),
   PrepareGetResp |-> Wipes(Through({"val", "vallen"}, {}))]
  @@ NoSteering!GetResponseElements

SetResponseElements == NoSteering!SetResponseElements
OtherElements       == NoSteering!OtherElements

\* Without memory for an item GetItemSpec clears keylen.
ItemElements ==
  [KV2State    |-> OneOf({"key", "pkt_bodylen", "pkt_extlen", "pkt_keylen"}, {"keylen", "val"},
                         [out   |-> Setting({"vallen"}),
                          empty |-> Fires(Clearing({"vallen"}), <<"out">>)]),
   GetItemSpec |-> OneOf({"core", "hash", "key", "keylen", "val", "vallen"}, {},
                         [out  |-> [Setting({"it_set"}) EXCEPT !.opens = {"item"}],
                          full |-> Fires(Clearing({"keylen"}), <<"out">>)]),
   SetResult   |-> OneOf({"keylen"}, {}, [success |-> When(Port, "keylen", Some),
                                          fail    |-> When(Port, "keylen", Null)]),
   Key2State   |-> OneOf({"pkt_keylen"}, {"keylen"}, [out |-> Clearing({"it"})]),
   UnrefSet    |-> Frees(Through({"it_set"}, {}), "it_set")]
  @@ NoSteering!ItemElements

ProcessChains ==
  << <<"from_net", "out", "hton1", "CheckPacket", "SaveState", "GetKey", "JenkinsHash", "Classifer">>,
     <<"from_net", "nothing", "drop">>,
     <<"Classifer", "out_get", "Key2State", "CacheGetStart", "HashGet", "CacheGetEnd", "GetResult">>,
     <<"GetResult", "hit", "SizeGetResp", "SizePktBuff0", "PrepareGetResp", "PrepareHeader">>,
     <<"PrepareGetResp", "out", "get_Unref", "Drop">>,
     <<"GetResult", "miss", "SizeGetNullResp", "SizePktBuff1", "PrepareGetNullResp",
       "PrepareHeader">>,
     <<"Classifer", "out_set", "KV2State", "CacheSetStart", "GetItemSpec", "HashPut", "UnrefSet",
       "CacheSetEnd", "SetResult">>,
     <<"SetResult", "success", "SizeSetResp0", "SizePktBuff2", "set_response", "PrepareHeader">>,
     <<"SetResult", "fail", "SizeSetResp1", "SizePktBuff3", "set_reponse_fail", "PrepareHeader">>,
     <<"CheckPacket", "slowpath", "HandleArp", "to_net">>,
     <<"HandleArp", "drop", "from_net_free">>,
     <<"CheckPacket", "drop", "from_net_free">>,
     <<"PrepareHeader", "out", "PrintMsg", "hton2", "to_net">> >>

\* Before the compiler has put the cache in.
Program ==
  [NoSteering!Program EXCEPT
     !.state    = State,
     !.elements = NetElements @@ ReceiveElements @@ HashElements @@ GetResponseElements
                  @@ SetResponseElements @@ OtherElements @@ ItemElements,
     !.chains   = ProcessChains \o NoSteering!OrderChains]
=============================================================================
