--------------------------- MODULE MemcachedSplit ---------------------------
(* src/apps/memcached_split/main.py: the store of MemcachedCpuOnly with the *)
(* receiving and the sending thread on the NIC, which reaches the items in  *)
(* the host's memory by their DMA address.                                  *)
EXTENDS Elements

CpuOnly == INSTANCE MemcachedCpuOnly

\* Mutant: an entry has a pointer to the key, not the key.
MutKeyNotCopied == [CpuOnly!State EXCEPT !.within = @ @@ [it_keylen |-> "it"],
                                         !.points = @ @@ [it_addr |-> "item"],
                                         !.copied = <<>>]

\* MyState.
State == [CpuOnly!State EXCEPT !.within = @ @@ [it_keylen |-> "it"],
                               !.points = @ @@ [it_addr |-> "item"]]

ReceiveElements == CpuOnly!ReceiveElements

\* An item is found with its DMA address.
HashElements ==
  [HashGet |-> [CpuOnly!HashElements["HashGet"] EXCEPT !.ports.out.sets = @ \cup {"it_addr"}]]
  @@ CpuOnly!HashElements

\* The NIC reads the item by it_addr, which the code for the host mentions in
\* SizeGetResp only to keep it live.
GetResponseElements ==
  [SizeGetResp    |-> Through({"it_vallen", "it_keylen", "it_addr"}, {"vallen", "keylen"}),
   PrepareGetResp |-> [CpuOnly!GetResponseElements["PrepareGetResp"] EXCEPT
                         !.late = {"it_addr", "keylen"}]]
  @@ CpuOnly!GetResponseElements

SetResponseElements == CpuOnly!SetResponseElements

OtherElements == CpuOnly!OtherElements

\* A segment comes with the address by which the NIC reaches it.
LogElements ==
  [FirstSegment |-> Through({}, {"qid", "segbase", "segaddr", "seglen"}),
   NewSegment   |-> OneOf({"segfull"}, {}, [out  |-> Setting({"segbase", "segaddr", "seglen", "qid"}),
                                            null |-> Port]),
   AddLogseg    |-> Through({"segbase", "segaddr", "seglen"}, {})]
  @@ CpuOnly!LogElements

ItemElements == CpuOnly!ItemElements

Queues        == CpuOnly!Queues
ReceiveChains == CpuOnly!ReceiveChains
HostChains    == CpuOnly!HostChains
SendChains    == CpuOnly!SendChains

Program ==
  [CpuOnly!Program EXCEPT
     !.state    = State,
     !.elements = NetElements @@ ReceiveElements @@ HashElements @@ GetResponseElements
                  @@ SetResponseElements @@ OtherElements @@ LogElements @@ ItemElements,
     !.queues   = Queues,
     !.chains   = ReceiveChains \o HostChains \o SendChains]
=============================================================================
