--------------------------- MODULE StormNicBypass ---------------------------
(* src/apps/storm/main_dccp_nic_bypass.py: main_dccp_cpu_bypass.py with the  *)
(* flows on the NIC and one queue of tuples, which its threads share.        *)
EXTENDS Elements

Bypass == INSTANCE StormCpuBypass

RxState == Bypass!RxState
TxState == Bypass!TxState
State   == [Bypass!State EXCEPT !.points = RxState @@ TxState]

ReceiveElements    == Bypass!ReceiveElements
CongestionElements == Bypass!CongestionElements
AckElements        == Bypass!AckElements
PacketElements     == Bypass!PacketElements
BufferElements     == Bypass!BufferElements

\* The thread's queue is always the first.
ScheduleElements == [Constant |-> Alone(Through({}, {}))] @@ Bypass!ScheduleElements

\* The bypass queue's enqueue waits for room.
TupleQueues == [bypass_enq |-> Bypass!Dccp!EnqueueElement(TRUE)] @@ Bypass!TupleQueues

ReceiveChains == Bypass!ReceiveChains
PutChains     == Bypass!PutChains
PreparePkt    == Bypass!PreparePkt

SendChains ==
  << <<"Constant", "out", "tx_deq", "SaveBuff", "PrintTuple", "SaveWorkerID", "GetWorkerID">>,
     <<"Identity", "out", "GetBuff", "tx_release">> >>

Program ==
  [Bypass!Program EXCEPT
     !.state    = State,
     !.elements = NetElements @@ ReceiveElements @@ CongestionElements @@ AckElements @@ PacketElements
                  @@ BufferElements @@ ScheduleElements @@ TupleQueues,
     !.chains   = ReceiveChains \o PutChains \o PreparePkt \o SendChains,
     !.starts   = [k \in DOMAIN @ |-> IF @[k] = "BatchScheduler" THEN "Constant" ELSE @[k]]]
=============================================================================
