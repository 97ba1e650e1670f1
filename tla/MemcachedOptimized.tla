------------------------- MODULE MemcachedOptimized -------------------------
(* src/apps/memcached_split/main_optimized.py: the host prepares the answer *)
(* in memory of its own, the queue copies it, and the NIC only sends it.    *)
EXTENDS Elements

Split == INSTANCE MemcachedSplit

\* MyState.
State == [Split!State EXCEPT !.points = @ @@ [resp |-> "resp"],
                             !.copied = @ @@ [resp |-> "resp_size"]]

\* GetCore takes the queues in turn.
ReceiveElements ==
  [GetCore |-> Through({"pkt_keylen", "hash"}, {"qid"})] @@ Split!ReceiveElements

HashElements == Split!HashElements

\* The answers are sized for memory that Malloc gets.
GetResponseElements ==
  [Malloc          |-> [Through({}, {}) EXCEPT !.ports.out = Opens("resp", "resp")],
   SizeGetResp     |-> [Split!GetResponseElements["SizeGetResp"] EXCEPT !.sets = @ \cup {"resp_size"}],
   SizeGetNullResp |-> Through({}, {"resp_size"})]
  @@ Split!GetResponseElements

SetResponseElements ==
  [SizeSetResp |-> Through({}, {"resp_size"})] @@ Split!SetResponseElements

OtherElements ==
  [SaveResponse |-> Hands(Through({}, {"resp"}), "none"),
   ExtractPkt   |-> Through({"resp", "resp_size"}, {})]
  @@ Split!OtherElements

LogElements == Split!LogElements

\* Unref leaves no pointer behind; Free is for the host's copy of the answer.
ItemElements ==
  [Unref |-> [Split!ItemElements["Unref"] EXCEPT !.ports.out.nulls = {"it"}],
   Free  |-> Frees(Through({"resp"}, {}), "resp")]
  @@ Split!ItemElements

-----------------------------------------------------------------------------
Queues ==
  [tx |-> Queue(<<"tx_enq">>, <<"tx_deq">>, <<>>, "tx_done", TRUE)] @@ Split!Queues

ReceiveChains == Split!ReceiveChains

HostChains ==
  << <<"rx_deq0", "out", "HashGet", "SizeGetResp", "Malloc0", "PrepareGetResp", "PrepareHeader">>,
     <<"HashGet", "null", "SizeGetNullResp", "Malloc1", "PrepareGetNullResp", "PrepareHeader">>,
     <<"rx_deq1", "out", "HashPut", "SizeSetResp", "Malloc2", "PrepareSetResp", "PrepareHeader">>,
     <<"PrepareHeader", "out", "SaveResponse", "tx_enq">>,
     <<"tx_done", "out", "Unref", "Free">>,
     <<"FirstSegment", "out", "log_out_enq">>,
     <<"log_in_deq", "out", "NewSegment", "log_out_enq">>,
     <<"NewSegment", "null", "Drop">> >>

SendChains ==
  << <<"tx_deq", "out", "ExtractPkt", "tx_PrintMsg", "tx_hton", "tx_to_net">>,
     <<"log_out_deq", "out", "AddLogseg">> >>

Program ==
  [Split!Program EXCEPT
     !.state    = State,
     !.elements = NetElements @@ ReceiveElements @@ HashElements @@ GetResponseElements
                  @@ SetResponseElements @@ OtherElements @@ LogElements @@ ItemElements,
     !.of       = [Malloc0 |-> "Malloc", Malloc1 |-> "Malloc", Malloc2 |-> "Malloc"] @@ @,
     !.queues   = Queues,
     !.chains   = ReceiveChains \o HostChains \o SendChains]
=============================================================================
