--------------------------- MODULE ParameterServer ---------------------------
(* src/apps/parameter_server: server.py adds up the parameters the workers   *)
(* send for a group and, with those of the last one, sends every worker the  *)
(* new ones; request.py is the workers' side, which sends its parameters     *)
(* round by round.                                                           *)
EXTENDS Elements

CONSTANTS AllocNames, CopyNames \* a NetAlloc and a Copy for each worker

\* MyState; parameters leads into the server's own store.
State == [within |-> <<>>, points |-> [pkt |-> "rx", pkt_buff |-> "rx"], copied |-> <<>>]

FilterElement == OneOf({}, {}, [out |-> For(Kinds \ {"junk"}), other |-> For({"junk"})])

ServerElements ==
  [Filter      |-> FilterElement,
   SavePkt     |-> Through({}, {"pkt_buff", "pkt"}),
   Aggregate   |-> OneOf({}, {}, [up    |-> [For({"full"}) EXCEPT !.hand = "none"],
                                  other |-> For({"part"})]),
   UpdateParam |-> Through({}, {"group_id", "n", "parameters"}),
   Copy        |-> Wipes(Through({"pkt", "parameters", "n"}, {})),
   GetPkt      |-> Alone(Hands(Through({"pkt", "pkt_buff"}, {}), "rx")),
   Drop        |-> Through({}, {})]

ServerChains ==
  << <<"from_net", "out", "Filter", "SavePkt", "Aggregate">>,
     <<"Aggregate", "up", "UpdateParam">>,
     <<"Aggregate", "other", "GetPkt">> >>
  \o [w \in DOMAIN CopyNames |-> <<"UpdateParam", "out", AllocNames[w], CopyNames[w], "to_net">>]
  \o [w \in DOMAIN CopyNames |-> <<AllocNames[w], "oom", "Drop">>]
  \o << <<"from_net", "nothing", "Drop">>,
        <<"Filter", "other", "from_net_free">>,
        <<"UpdateParam", "out", "GetPkt">>,
        <<"GetPkt", "out", "from_net_free">> >>

Named(names, element) == [i \in {names[w] : w \in DOMAIN names} |-> element]

Server ==
  [state    |-> State,
   elements |-> NetElements @@ ServerElements,
   of       |-> [from_net |-> "FromNet", from_net_free |-> "FromNetFree", to_net |-> "ToNet"]
                @@ Named(AllocNames, "NetAlloc") @@ Named(CopyNames, "Copy"),
   queues   |-> <<>>,
   chains   |-> ServerChains,
   starts   |-> [k \in {"part", "full", "junk", "idle"} |-> "from_net"],
   answered |-> [k \in {"full"} |-> Len(CopyNames)]]
-----------------------------------------------------------------------------
\* What the worker gets that is no answer is dropped, with its buffer.
WorkerElements ==
  [Wait       |-> OneOf({}, {"core_id"}, [out |-> For({"call"}), skip |-> For({"still"})]),
   Request    |-> Wipes(Through({"core_id"}, {})),
   PayloadGen |-> Wipes(Through({"core_id"}, {})),
   Filter     |-> FilterElement,
   Reply      |-> Through({}, {}),
   Drop       |-> Through({}, {})]

WorkerChains ==
  << <<"Wait", "out", "net_alloc">>,
     <<"net_alloc", "oom", "Drop">>,
     <<"net_alloc", "out", "Request", "PayloadGen", "to_net">>,
     <<"from_net", "out", "Filter", "Reply", "from_net_free">>,
     <<"from_net", "nothing", "Drop">>,
     <<"Filter", "other", "Drop">> >>

Worker ==
  [Server EXCEPT
     !.elements = NetElements @@ WorkerElements,
     !.of       = [net_alloc |-> "NetAlloc"] @@ @,
     !.chains   = WorkerChains,
     !.starts   = [k \in {"call", "still", "data", "junk", "idle"} |->
                     IF k \in {"call", "still"} THEN "Wait" ELSE "from_net"],
     !.answered = [k \in {"call"} |-> 1]]
=============================================================================
