--------------------------- MODULE StormCpuBypass ---------------------------
(* src/apps/storm/main_dccp_cpu_bypass.py: an executor's put passes tuples   *)
(* for this worker to a queue of their own; only those for other workers     *)
(* come to the sending thread.                                               *)
EXTENDS Elements

Dccp == INSTANCE Storm

RxState == Dccp!RxState
TxState == Dccp!TxState
State   == [Dccp!State EXCEPT !.points = RxState @@ TxState]

\* LocalOrRemote looks at the tuple itself.
ReceiveElements ==
  [LocalOrRemote |-> OneOf({}, {}, [out_send |-> For({"put"}), out_local |-> For({"local"})]),
   GetCoreCPU    |-> Through({}, {})]
  @@ Dccp!ReceiveElements

CongestionElements == Dccp!CongestionElements
AckElements        == Dccp!AckElements
PacketElements     == Dccp!PacketElements
BufferElements     == Dccp!BufferElements
ScheduleElements   == Dccp!ScheduleElements

TupleQueues == [bypass_enq |-> Dccp!EnqueueElement(FALSE)] @@ Dccp!TupleQueues

ReceiveChains == Dccp!ReceiveChains

\* outqueue_put
PutChains ==
  << <<"LocalOrRemote", "out_local", "GetCoreCPU", "bypass_enq">>,
     <<"LocalOrRemote", "out_send", "tx_enq">> >>

PreparePkt == Dccp!PreparePkt

SendChains ==
  << <<"BatchScheduler", "out", "tx_deq", "SaveBuff", "PrintTuple", "SaveWorkerID", "GetWorkerID">>,
     <<"Identity", "out", "GetBuff", "tx_release">> >>

Program ==
  [state    |-> State,
   elements |-> NetElements @@ ReceiveElements @@ CongestionElements @@ AckElements @@ PacketElements
                @@ BufferElements @@ ScheduleElements @@ TupleQueues,
   of       |-> Dccp!Instances,
   queues   |-> <<>>,
   chains   |-> ReceiveChains \o PutChains \o PreparePkt \o SendChains,
   starts   |-> [k \in {"data", "ack", "junk", "idle", "remote", "still", "local", "put"} |->
                   CASE k \in {"local", "put"}    -> "LocalOrRemote"
                     [] k \in {"remote", "still"} -> "BatchScheduler"
                     [] OTHER                     -> "from_net"],
   answered |-> [k \in {"data", "remote"} |-> 1]]
=============================================================================
