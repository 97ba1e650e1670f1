-------------------------------- MODULE Storm --------------------------------
(* src/apps/storm/main_dccp.py: workers pass tuples to each other.  A thread *)
(* acknowledges every packet and queues its tuple for an executor; another   *)
(* takes the executors' tuples from a queue, entry by entry, and sends or    *)
(* passes on each before it releases the entry.                              *)
EXTENDS Elements

RxState == [rx_pkt |-> "rx", rx_net_buf |-> "rx", tx_net_buf |-> "tx"]

\* worker and myworker are numbers; q_buf leads to the entry in hand.
TxState == [tx_net_buf |-> "tx"]

State == [within |-> [q_buf_entry |-> "q_buf"], points |-> RxState @@ TxState, copied |-> <<>>]

\* A packet that is neither is dropped without the state GetRxBuf reads.
ReceiveElements ==
  [Classifier    |-> OneOf({}, {}, [ack  |-> [Setting({"rx_pkt", "rx_net_buf"}) EXCEPT !.kinds = {"ack"}],
                                    pkt  |-> [Setting({"rx_pkt", "rx_net_buf"}) EXCEPT !.kinds = {"data"}],
                                    drop |-> For({"junk"})]),
   GetCore       |-> Through({}, {}),
   LocalOrRemote |-> OneOf({"worker", "myworker"}, {}, [out_send  |-> For({"remote"}),
                                                        out_local |-> For({"local"})]),
   PrintTuple    |-> OneOf({}, {}, [out |-> For(Kinds \ {"still"}), skip |-> For({"still"})])]

\* What is not sent because the window is full is lost.
CongestionElements ==
  [DccpCheckCongestion |-> OneOf({}, {}, [send |-> Port, drop |-> [Port EXCEPT !.lost = TRUE]]),
   DccpSeqTime         |-> Wipes(Through({}, {}))]

AckElements ==
  [DccpSendAck |-> Wipes(Through({}, {})),
   DccpRecvAck |-> Through({}, {})]

PacketElements ==
  [CountPacket    |-> Through({}, {}),
   SaveWorkerID   |-> Through({}, {"worker", "myworker"}),
   GetWorkerID    |-> Reads(Hands(Through({}, {}), "none"), {"worker"}),
   GetWorkerIDPkt |-> Reads(Through({}, {}), {"worker"}),
   Tuple2Pkt      |-> Wipes(Through({"q_buf_entry", "worker", "myworker"}, {"tx_net_buf"})),
   Pkt2Tuple      |-> Through({}, {}),
   SizePkt        |-> Alone(Through({}, {}))]

BufferElements ==
  [GetBothPkts |-> Through({"rx_pkt"}, {"tx_net_buf"}),
   GetTxBuf    |-> Through({"tx_net_buf"}, {}),
   GetRxBuf    |-> Alone(Hands(Through({"rx_pkt", "rx_net_buf"}, {}), "rx"))]

ScheduleElements ==
  [BatchScheduler |-> Through({}, {}),
   BatchInc       |-> Alone(Through({}, {})),
   SaveBuff       |-> OneOf({}, {}, [out |-> Leading([q_buf |-> "hand"])]),
   GetBuff        |-> Alone(Hands(Through({"q_buf"}, {}), "q_buf")),
   Identity       |-> Alone(Through({}, {})),
   Drop           |-> Alone(Through({}, {}))]

\* queue_custom: an enqueue copies the tuple, or drops it when there is no room
\* and it does not wait, and calls done; a dequeue hands out the entry or NULL;
\* a release gives the entry back.
EnqueueElement(blocking) ==
  OneOf({}, {}, [done |-> Port] @@
                IF blocking THEN <<>>
                ELSE [full |-> [Fires(Port, <<"done">>) EXCEPT !.lost = TRUE]])

DequeueElement(entry) ==
  OneOf({}, {}, [out  |-> [Opens(entry, entry) EXCEPT !.kinds = Kinds \ {"still"}],
                 null |-> [Fires(For({"still", "count"}), <<"out">>) EXCEPT !.hand = "none"]])

ReleaseElement(entry) == Frees(Through({}, {}), entry)

TupleQueues ==
  [rx_enq     |-> EnqueueElement(FALSE),
   tx_enq     |-> EnqueueElement(TRUE),
   tx_deq     |-> DequeueElement("slot"),
   tx_release |-> ReleaseElement("slot")]
-----------------------------------------------------------------------------
ReceiveChains ==
  << <<"from_net", "nothing", "Drop">>,
     <<"from_net", "out", "Classifier">>,
     <<"Classifier", "pkt", "size_ack", "rx_alloc", "GetBothPkts", "DccpSendAck", "ack_buf", "rx_to_net">>,
     <<"Classifier", "pkt", "Pkt2Tuple", "GetCore", "rx_enq">>,
     <<"rx_enq", "done", "GetRxBuf">>,
     <<"Classifier", "ack", "DccpRecvAck", "GetRxBuf">>,
     <<"Classifier", "drop", "GetRxBuf">>,
     <<"rx_alloc", "oom", "Drop">>,
     <<"GetRxBuf", "out", "from_net_free">> >>

\* PreparePkt: from the tuple in hand to nop.
PreparePkt ==
  << <<"GetWorkerID", "out", "DccpCheckCongestion">>,
     <<"DccpCheckCongestion", "send", "size_pkt", "tx_alloc", "Tuple2Pkt", "CountPacket",
       "GetWorkerIDPkt", "DccpSeqTime", "tx_buf", "tx_to_net">>,
     <<"DccpCheckCongestion", "drop", "Identity">>,
     <<"tx_alloc", "oom", "Identity">>,
     <<"Tuple2Pkt", "out", "Identity">> >>

SendChains ==
  << <<"BatchScheduler", "out", "tx_deq", "SaveBuff", "PrintTuple", "SaveWorkerID", "LocalOrRemote">>,
     <<"SaveBuff", "out", "BatchInc">>,
     <<"LocalOrRemote", "out_send", "GetWorkerID">>,
     <<"Identity", "out", "GetBuff">>,
     <<"LocalOrRemote", "out_local", "tx_GetCore", "local_enq">>,
     <<"local_enq", "done", "GetBuff">>,
     <<"GetBuff", "out", "tx_release">> >>

Instances ==
  [from_net |-> "FromNet", from_net_free |-> "FromNetFree", size_ack |-> "SizePkt",
   size_pkt |-> "SizePkt", rx_alloc |-> "NetAlloc", tx_alloc |-> "NetAlloc",
   ack_buf |-> "GetTxBuf", tx_buf |-> "GetTxBuf", rx_to_net |-> "ToNet", tx_to_net |-> "ToNet",
   tx_GetCore |-> "GetCore", local_enq |-> "rx_enq"]

Program ==
  [state    |-> State,
   elements |-> NetElements @@ ReceiveElements @@ CongestionElements @@ AckElements @@ PacketElements
                @@ BufferElements @@ ScheduleElements @@ TupleQueues,
   of       |-> Instances,
   queues   |-> <<>>,
   chains   |-> ReceiveChains \o PreparePkt \o SendChains,
   starts   |-> [k \in {"data", "ack", "junk", "idle", "remote", "local", "still"} |->
                   IF k \in {"data", "ack", "junk", "idle"} THEN "from_net" ELSE "BatchScheduler"],
   answered |-> [k \in {"data", "remote"} |-> 1]]
=============================================================================
