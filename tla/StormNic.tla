------------------------------ MODULE StormNic ------------------------------
(* src/apps/storm/main_dccp_nic.py: the flows of main_dccp.py, on the NIC    *)
(* when it has one, with a queue of tuples whose entries have checksums.     *)
EXTENDS Elements

Dccp == INSTANCE Storm

RxState == Dccp!RxState
TxState == Dccp!TxState
State   == [Dccp!State EXCEPT !.points = RxState @@ TxState]

ReceiveElements    == Dccp!ReceiveElements
CongestionElements == Dccp!CongestionElements
AckElements        == Dccp!AckElements
PacketElements     == Dccp!PacketElements
BufferElements     == Dccp!BufferElements
ScheduleElements   == Dccp!ScheduleElements
TupleQueues        == Dccp!TupleQueues

ReceiveChains == Dccp!ReceiveChains
PreparePkt    == Dccp!PreparePkt
SendChains    == Dccp!SendChains
Instances     == Dccp!Instances

Program ==
  [Dccp!Program EXCEPT
     !.state    = State,
     !.elements = NetElements @@ ReceiveElements @@ CongestionElements @@ AckElements @@ PacketElements
                  @@ BufferElements @@ ScheduleElements @@ TupleQueues,
     !.of       = Instances,
     !.chains   = ReceiveChains \o PreparePkt \o SendChains]
=============================================================================
