-------------------------- MODULE MemcachedNosteer --------------------------
(* src/apps/memcached_split/main_optimized_nosteer.py: MemcachedOptimized   *)
(* without steering: a request goes to the queue of the core that received  *)
(* it.  Which queue a thread polls next (Scheduler, CpuScheduler) is left   *)
(* open, as in the other programs.                                          *)
EXTENDS Elements

Optimized == INSTANCE MemcachedOptimized

State               == Optimized!State
ReceiveElements     == [GetCore |-> Through({"pkt_keylen", "hash"}, {"qid"})]
                       @@ Optimized!ReceiveElements
HashElements        == Optimized!HashElements
GetResponseElements == Optimized!GetResponseElements
SetResponseElements == Optimized!SetResponseElements
OtherElements       == Optimized!OtherElements
LogElements         == Optimized!LogElements
ItemElements        == Optimized!ItemElements

Queues        == Optimized!Queues
ReceiveChains == Optimized!ReceiveChains
HostChains    == Optimized!HostChains
SendChains    == Optimized!SendChains

Program ==
  [Optimized!Program EXCEPT
     !.state    = State,
     !.elements = NetElements @@ ReceiveElements @@ HashElements @@ GetResponseElements
                  @@ SetResponseElements @@ OtherElements @@ LogElements @@ ItemElements,
     !.queues   = Queues,
     !.chains   = ReceiveChains \o HostChains \o SendChains]
=============================================================================
