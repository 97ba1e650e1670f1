--------------------------- MODULE StormNicCounter ---------------------------
(* src/apps/storm/main_dccp_nic_counter.py: the counter runs on the NIC: its  *)
(* tuples go through queues of their own, and the sending thread takes turns  *)
(* with the counter's queue.                                                  *)
EXTENDS Elements

Dccp == INSTANCE Storm

RxState == Dccp!RxState
TxState == Dccp!TxState \* and tx_queue, a truth value
State   == [Dccp!State EXCEPT !.points = RxState @@ TxState]

ReceiveElements == [GetCountCore |-> Through({}, {})] @@ Dccp!ReceiveElements

CounterElements ==
  [CountOrNot   |-> OneOf({}, {}, [out |-> Port, count |-> Port]),
   CounterTuple |-> Through({}, {}),
   Counter      |-> Through({}, {})]

CongestionElements == Dccp!CongestionElements
AckElements        == Dccp!AckElements
PacketElements     == Dccp!PacketElements
BufferElements     == Dccp!BufferElements

\* GetBuff gives the entry back to the queue tx_queue says it came from.
ScheduleElements ==
  [BatchScheduler |-> OneOf({}, {}, [tx |-> Setting({"tx_queue"}), count |-> Clearing({"tx_queue"})]),
   GetBuff |-> LET Back == [Port EXCEPT !.hand = "q_buf"]
               IN  Alone(OneOf({"q_buf", "tx_queue"}, {}, [tx    |-> When(Back, "tx_queue", Some),
                                                           count |-> When(Back, "tx_queue", Null)]))]
  @@ Dccp!ScheduleElements

TupleQueues == Dccp!TupleQueues

\* The queues into and out of the counter.
CountQueues ==
  [count_in_enq     |-> Dccp!EnqueueElement(FALSE),
   count_in_deq     |-> Alone(Dccp!DequeueElement("cslot")),
   count_in_release |-> Dccp!ReleaseElement("cslot"),
   count_deq        |-> Dccp!DequeueElement("cslot"),
   count_release    |-> Dccp!ReleaseElement("cslot")]

ReceiveChains ==
  << <<"from_net", "nothing", "Drop">>,
     <<"from_net", "out", "Classifier">>,
     <<"Classifier", "pkt", "size_ack", "rx_alloc", "GetBothPkts", "DccpSendAck", "ack_buf", "rx_to_net">>,
     <<"rx_alloc", "oom", "Drop">>,
     <<"Classifier", "pkt", "Pkt2Tuple", "CountOrNot", "GetCore", "rx_enq">>,
     <<"rx_enq", "done", "GetRxBuf">>,
     <<"CountOrNot", "count", "GetCountCore", "count_in_enq">>,
     <<"count_in_enq", "done", "GetRxBuf">>,
     <<"Classifier", "ack", "DccpRecvAck", "GetRxBuf">>,
     <<"Classifier", "drop", "GetRxBuf">>,
     <<"GetRxBuf", "out", "from_net_free">> >>

\* count_process
CountChains == << <<"count_in_deq", "out", "CounterTuple", "Counter", "count_in_release">> >>

PreparePkt == Dccp!PreparePkt

SendChains ==
  << <<"BatchScheduler", "tx", "tx_deq", "SaveBuff">>,
     <<"BatchScheduler", "count", "count_deq", "SaveBuff">>,
     <<"SaveBuff", "out", "PrintTuple", "SaveWorkerID", "LocalOrRemote">>,
     <<"LocalOrRemote", "out_send", "GetWorkerID">>,
     <<"Identity", "out", "GetBuff">>,
     <<"LocalOrRemote", "out_local", "tx_CountOrNot", "tx_GetCore", "local_enq">>,
     <<"local_enq", "done", "GetBuff">>,
     <<"tx_CountOrNot", "count", "tx_GetCountCore", "local_count_enq">>,
     <<"local_count_enq", "done", "GetBuff">>,
     <<"GetBuff", "tx", "tx_release">>,
     <<"GetBuff", "count", "count_release">> >>

Program ==
  [state    |-> State,
   elements |-> NetElements @@ ReceiveElements @@ CounterElements @@ CongestionElements @@ AckElements
                @@ PacketElements @@ BufferElements @@ ScheduleElements @@ TupleQueues @@ CountQueues,
   of       |-> [tx_CountOrNot |-> "CountOrNot", tx_GetCountCore |-> "GetCountCore",
                 local_count_enq |-> "count_in_enq"] @@ Dccp!Instances,
   queues   |-> <<>>,
   chains   |-> ReceiveChains \o CountChains \o PreparePkt \o SendChains,
   starts   |-> (("count" :> "count_in_deq") @@ Dccp!Program.starts),
   answered |-> [k \in {"data", "remote"} |-> 1]]
=============================================================================
