-------------------------- MODULE MemcachedNosmart --------------------------
(* src/apps/memcached_split/main_optimized_nosmart.py: MemcachedOptimized   *)
(* where the queue copies the whole request.  The elements read it through  *)
(* a local copy of the pointer, so that the compiler sees only pkt: what    *)
(* they read of it is out of its sight.                                     *)
EXTENDS Elements

Optimized == INSTANCE MemcachedOptimized

\* MyState.  The source of the request is within pkt too.
State ==
  [within |-> [pkt_peer |-> "pkt"] @@ Optimized!State.within,
   points |-> [f \in DOMAIN Optimized!State.points \ {"key"} |-> Optimized!State.points[f]],
   copied |-> [pkt |-> "size", resp |-> "resp_size"]]

ReceiveElements ==
  [SaveState |-> Hands(Through({}, {"pkt", "pkt_buff", "size"}), "none"),
   Classifer |-> Reads(OneOf({"pkt"}, {}, [out_get |-> For({"get"}), out_set |-> For({"set"})]),
                       {"pkt_opcode"}),
   GetKey    |-> Through({}, {}),
   GetCore   |-> Reads(Through({"pkt", "hash"}, {"qid"}), {"pkt_keylen"})]
  @@ Optimized!ReceiveElements

\* The key is where the request has it.
HashElements ==
  [JenkinsHash |-> Reads(Through({"pkt"}, {"hash"}), {"pkt_keylen", "pkt_payload", "pkt_extlen"}),
   HashGet     |-> Reads([Optimized!HashElements["HashGet"] EXCEPT !.uses = {"pkt", "hash"}],
                         {"pkt_keylen", "pkt_payload", "pkt_extlen"})]
  @@ Optimized!HashElements

GetResponseElements == Optimized!GetResponseElements

\* The answer goes back to where the request says it came from.
SetResponseElements ==
  [PrepareHeader |-> Reads(Through({"pkt"}, {}), {"pkt_peer"})]
  @@ Optimized!SetResponseElements

OtherElements == Optimized!OtherElements
LogElements   == Optimized!LogElements

ItemElements ==
  [GetItem |-> Reads([Optimized!ItemElements["GetItem"] EXCEPT !.uses = {"pkt", "hash"}],
                     {"pkt_bodylen", "pkt_extlen", "pkt_keylen", "pkt_payload"})]
  @@ Optimized!ItemElements

Queues        == Optimized!Queues
ReceiveChains == Optimized!ReceiveChains
HostChains    == Optimized!HostChains
SendChains    == Optimized!SendChains

Program ==
  [Optimized!Program EXCEPT
     !.state    = State,
     !.elements = NetElements @@ ReceiveElements @@ HashElements @@ GetResponseElements
                  @@ SetResponseElements @@ OtherElements @@ LogElements @@ ItemElements,
     !.queues   = Queues,
     !.chains   = ReceiveChains \o HostChains \o SendChains]
=============================================================================
