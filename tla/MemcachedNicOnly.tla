-------------------------- MODULE MemcachedNicOnly --------------------------
(* src/apps/memcached_nic_only/main_no_steering.py: MemcachedNoSteering on  *)
(* the cores of the NIC.  Its ialloc_maintenance segment shares no state    *)
(* with the packets.                                                        *)
EXTENDS Elements

NoSteering == INSTANCE MemcachedNoSteering

State == NoSteering!State

\* CheckPacket does what SaveID does.
ReceiveElements ==
  [CheckPacket |-> OneOf({}, {"core"}, [out      |-> [For({"get", "set"}) EXCEPT !.nulls = {"pkt"}],
                                        slowpath |-> [For({"arp", "slow"}) EXCEPT !.nulls = {"pkt"}],
                                        drop     |-> [For({"junk"}) EXCEPT !.nulls = {"pkt"}]])]
  @@ NoSteering!ReceiveElements

HashElements        == NoSteering!HashElements
GetResponseElements == NoSteering!GetResponseElements
SetResponseElements == NoSteering!SetResponseElements
OtherElements       == NoSteering!OtherElements

\* So does Drop; behind Unref it is the library's, which does nothing.
ItemElements ==
  [Drop         |-> OneOf({}, {"core"}, [out |-> [Port EXCEPT !.nulls = {"pkt"}]]),
   library_Drop |-> Through({}, {})]
  @@ NoSteering!ItemElements

ProcessChains ==
  [NoSteering!ProcessChains EXCEPT ![4] = <<"PrepareGetResp", "out", "get_Unref", "library_Drop">>]

OrderChains ==
  SelectSeq(NoSteering!OrderChains, LAMBDA c : c[1] # "SaveID")

Program ==
  [NoSteering!Program EXCEPT
     !.state    = State,
     !.elements = NetElements @@ ReceiveElements @@ HashElements @@ GetResponseElements
                  @@ SetResponseElements @@ OtherElements @@ ItemElements,
     !.chains   = ProcessChains \o OrderChains,
     !.starts   = [k \in DOMAIN @ |-> "from_net"]]
=============================================================================
