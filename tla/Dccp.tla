--------------------------------- MODULE Dccp ---------------------------------
(***************************************************************************)
(* The congestion control of the Storm application (apps/storm): the       *)
(* elements the nic_tx and nic_rx segments send packets and take acks with. *)
(*                                                                         *)
(*   tx   DccpCheckCongestion, NetAlloc, DccpSeqTime, to_net               *)
(*   rx   DccpRecvAck (and, at the other worker, DccpSendAck)              *)
(*                                                                         *)
(* The tx and rx threads share one DccpInfo: a connection for each worker  *)
(* and one retransmission timer for all of them.  Only seq, pipe and the   *)
(* halving of cwnd are atomic; each other store is a step of its own, and  *)
(* so is each load whose value another thread may have changed meanwhile.  *)
(* DccpRecvAck loads lastack and pipe in one step at its head, where no    *)
(* store or atomic operation comes between the two.  The network loses,    *)
(* delays and reorders packets and acks.                                   *)
(*                                                                         *)
(* The programs that may run on the NIC (main_dccp_nic.py and the two that *)
(* follow it) take an ack a little differently: pipe is loaded once more   *)
(* after the subtraction, the loop that halves cwnd reads it again, and    *)
(* cwnd is increased atomically.                                           *)
(***************************************************************************)
EXTENDS Integers, FiniteSets

CONSTANTS Workers,      \* the workers this one sends to
          InitCwnd,     \* 4 in init_congestion_control
          SeqMod,       \* 1 << 24: sequence numbers in a header
          Modes,        \* threads, and how many packets are sent
          NoWorker

ASSUME DccpConstants == /\ InitCwnd \in Nat \ {0}
                        /\ SeqMod \in Nat \ {0}
                        /\ NoWorker \notin Workers
\* The version, n_nic_tx, n_nic_rx, the workers there are tuples for, and a bound
\* on the packets sent to each.
ASSUME DccpModes ==
  Modes \subseteq [nic : BOOLEAN, tx : Nat \ {0}, rx : Nat, to : SUBSET Workers, max_sent : Nat]

VARIABLES mode,         \* fixed when the program is compiled
          cwnd, pipe, seq, lastack,     \* struct connection
          expired,      \* rdtsc() >= retrans_timeout
          tx, rx,       \* the threads
          data, acks,   \* in the network
          peak          \* for the properties: the widest window so far

conns == <<cwnd, pipe, seq, lastack>>
vars  == <<mode, cwnd, pipe, seq, lastack, expired, tx, rx, data, acks, peak>>

TxThreads == 1 .. mode.tx
RxThreads == 1 .. mode.rx

\* A tuple on its way out: its worker and the pipe it was checked against.
IdleTx == [pc |-> "idle", w |-> NoWorker, seen |-> 0]
\* An ack being taken: its worker and number, and a field read before.
IdleRx == [pc |-> "idle", w |-> NoWorker, ack |-> 0, old |-> 0]

TxGo(t, p, n) == tx' = [tx EXCEPT ![t] = [pc |-> p, w |-> tx[t].w, seen |-> n]]
TxEnd(t)      == tx' = [tx EXCEPT ![t] = IdleTx]
RxGo(t, p, n) == rx' = [rx EXCEPT ![t] = [pc |-> p, w |-> rx[t].w, ack |-> rx[t].ack, old |-> n]]

Init ==
  /\ mode \in Modes
  /\ cwnd = [w \in Workers |-> InitCwnd]
  /\ pipe = [w \in Workers |-> 0]
  /\ seq = [w \in Workers |-> 0]
  /\ lastack = [w \in Workers |-> 0]
  /\ expired = TRUE         \* retrans_timeout is LINK_RTT cycles after boot
  /\ tx = [t \in 1 .. mode.tx |-> IdleTx]
  /\ rx = [t \in 1 .. mode.rx |-> IdleRx]
  /\ data = {} /\ acks = {}
  /\ peak = [w \in Workers |-> InitCwnd]
-----------------------------------------------------------------------------
(* Time and the network.  Every write of retrans_timeout sets it into the   *)
(* future, and time goes on.  A packet or an ack that is lost is one that   *)
(* stays in the network for ever.                                           *)

Expire ==
  /\ ~expired
  /\ expired' = TRUE
  /\ UNCHANGED <<mode, conns, tx, rx, data, acks, peak>>

\* The other worker acknowledges the number it finds in the header.
DccpSendAck(d) ==
  /\ d \in data
  /\ data' = data \ {d}
  /\ acks' = acks \cup {d}
  /\ UNCHANGED <<mode, conns, expired, tx, rx, peak>>
-----------------------------------------------------------------------------
(* DccpCheckCongestion: the timer, then pipe, then cwnd.                     *)

CheckTimer(t, w) ==
  /\ tx[t].pc = "idle"
  /\ tx' = [tx EXCEPT ![t] = [pc |-> IF expired THEN "reset" ELSE "look", w |-> w, seen |-> 0]]
  /\ UNCHANGED <<mode, conns, expired, rx, data, acks, peak>>

\* Mutant: the timer runs out and pipe is left as it is.
MutResetNothing(t) ==
  /\ tx[t].pc = "reset"
  /\ TxGo(t, "look", 0)
  /\ UNCHANGED <<mode, conns, expired, rx, data, acks, peak>>

ResetPipe(t) ==
  /\ tx[t].pc = "reset"
  /\ pipe' = [pipe EXCEPT ![tx[t].w] = 0]
  /\ TxGo(t, "look", 0)
  /\ UNCHANGED <<mode, cwnd, seq, lastack, expired, rx, data, acks, peak>>

LookPipe(t) ==
  /\ tx[t].pc = "look"
  /\ TxGo(t, "compare", pipe[tx[t].w])
  /\ UNCHANGED <<mode, conns, expired, rx, data, acks, peak>>

\* Mutant: room for one more than the window.
MutWindowOver(t) == tx[t].seen > cwnd[tx[t].w]

\* A tuple the window has no room for is dropped.
WindowFull(t) == tx[t].seen >= cwnd[tx[t].w]

Compare(t) ==
  /\ tx[t].pc = "compare"
  /\ IF WindowFull(t) THEN TxEnd(t) ELSE TxGo(t, "alloc", 0)
  /\ UNCHANGED <<mode, conns, expired, rx, data, acks, peak>>

\* network_alloc.oom
NoBuffer(t) ==
  /\ tx[t].pc = "alloc"
  /\ TxEnd(t)
  /\ UNCHANGED <<mode, conns, expired, rx, data, acks, peak>>

\* Under global_lock; seq is the number the packet takes, in seen.
DccpSeqTime(t) ==
  /\ tx[t].pc = "alloc"
  /\ seq[tx[t].w] < mode.max_sent
  /\ expired' = FALSE
  /\ seq' = [seq EXCEPT ![tx[t].w] = @ + 1]
  /\ TxGo(t, "count", seq[tx[t].w])
  /\ UNCHANGED <<mode, cwnd, pipe, lastack, rx, data, acks, peak>>

\* The lock is free again; the packet is counted and goes out.
CountAndSend(t) ==
  /\ tx[t].pc = "count"
  /\ pipe' = [pipe EXCEPT ![tx[t].w] = @ + 1]
  /\ data' = data \cup {[w |-> tx[t].w, seq |-> tx[t].seen]}
  /\ TxEnd(t)
  /\ UNCHANGED <<mode, cwnd, seq, lastack, expired, rx, acks, peak>>
-----------------------------------------------------------------------------
(* DccpRecvAck.                                                              *)

\* An old ack, or one of numbers that have started again from zero.
IsWraparound(w, ack) ==
  /\ ack < lastack[w]
  /\ lastack[w] - ack > pipe[w]
  /\ lastack[w] > SeqMod \div 2

RecvAck(t) ==
  /\ rx[t].pc = "idle"
  /\ \E a \in acks :
       LET ack == a.seq % SeqMod IN
       /\ acks' = acks \ {a}
       /\ rx' = [rx EXCEPT ![t] =
                   [pc |-> IF IsWraparound(a.w, ack) THEN "wrap"
                           ELSE IF lastack[a.w] < ack THEN "acked" ELSE "gap",
                    w |-> a.w, ack |-> ack, old |-> lastack[a.w]]]
  /\ UNCHANGED <<mode, conns, expired, tx, data, peak>>

Wrap(t) ==
  /\ rx[t].pc = "wrap"
  /\ lastack' = [lastack EXCEPT ![rx[t].w] = rx[t].old - SeqMod]
  /\ RxGo(t, "acked", rx[t].old - SeqMod)
  /\ UNCHANGED <<mode, cwnd, pipe, seq, expired, tx, data, acks, peak>>

\* The subtraction gives the value that is tested next, or another load does.
AfterSub(left) == IF mode.nic THEN "test" ELSE IF left < 0 THEN "clamp" ELSE "timer"

\* Mutant: the value of pipe before the subtraction is tested.
MutAckedOld(t) ==
  /\ rx[t].pc = "acked"
  /\ LET w == rx[t].w IN
     /\ pipe' = [pipe EXCEPT ![w] = @ - (rx[t].ack - rx[t].old)]
     /\ RxGo(t, AfterSub(pipe[w]), 0)
  /\ UNCHANGED <<mode, cwnd, seq, lastack, expired, tx, data, acks, peak>>

Acked(t) ==
  /\ rx[t].pc = "acked"
  /\ LET w == rx[t].w  left == pipe[w] - (rx[t].ack - rx[t].old) IN
     /\ pipe' = [pipe EXCEPT ![w] = left]
     /\ RxGo(t, AfterSub(left), 0)
  /\ UNCHANGED <<mode, cwnd, seq, lastack, expired, tx, data, acks, peak>>

TestPipe(t) ==
  /\ rx[t].pc = "test"
  /\ RxGo(t, IF pipe[rx[t].w] < 0 THEN "clamp" ELSE "timer", 0)
  /\ UNCHANGED <<mode, conns, expired, tx, data, acks, peak>>

Clamp(t) ==
  /\ rx[t].pc = "clamp"
  /\ pipe' = [pipe EXCEPT ![rx[t].w] = 0]
  /\ RxGo(t, "timer", 0)
  /\ UNCHANGED <<mode, cwnd, seq, lastack, expired, tx, data, acks, peak>>

ResetTimer(t) ==
  /\ rx[t].pc = "timer"
  /\ expired' = FALSE
  /\ RxGo(t, "gap", 0)
  /\ UNCHANGED <<mode, conns, tx, data, acks, peak>>

\* A gap is a congestion event.
LookGap(t) ==
  /\ rx[t].pc = "gap"
  /\ RxGo(t, IF rx[t].ack > lastack[rx[t].w] + 1 THEN "shrink" ELSE "grow", 0)
  /\ UNCHANGED <<mode, conns, expired, tx, data, acks, peak>>

LookCwnd(t) ==
  /\ rx[t].pc = "shrink" \/ (rx[t].pc = "grow" /\ ~mode.nic)
  /\ RxGo(t, IF rx[t].pc = "grow" THEN "widen" ELSE "halve", cwnd[rx[t].w])
  /\ UNCHANGED <<mode, conns, expired, tx, data, acks, peak>>

\* Mutant: a window of one is halved too.
MutHalveOne(t) ==
  /\ rx[t].pc = "halve"
  /\ cwnd[rx[t].w] = rx[t].old
  /\ cwnd' = [cwnd EXCEPT ![rx[t].w] = @ \div 2]
  /\ RxGo(t, "max", 0)
  /\ UNCHANGED <<mode, pipe, seq, lastack, expired, tx, data, acks, peak>>

\* Mutant: a window of one is tried again instead of left.
MutHalveRetries(t) ==
  /\ rx[t].pc = "halve" /\ rx[t].old >= 2
  /\ cwnd[rx[t].w] = rx[t].old
  /\ cwnd' = [cwnd EXCEPT ![rx[t].w] = @ \div 2]
  /\ RxGo(t, "max", 0)
  /\ UNCHANGED <<mode, pipe, seq, lastack, expired, tx, data, acks, peak>>

\* When the compare-and-swap fails, oldcwnd is not read again: the thread tries
\* until cwnd is oldcwnd ...
Halve(t) ==
  /\ rx[t].pc = "halve"
  /\ LET w == rx[t].w IN
     IF rx[t].old < 2 THEN cwnd' = cwnd
     ELSE cwnd[w] = rx[t].old /\ cwnd' = [cwnd EXCEPT ![w] = rx[t].old \div 2]
  /\ RxGo(t, "max", 0)
  /\ UNCHANGED <<mode, pipe, seq, lastack, expired, tx, data, acks, peak>>

\* ... except in the versions for the NIC.
LookAgain(t) ==
  /\ rx[t].pc = "halve" /\ mode.nic
  /\ rx[t].old >= 2 /\ cwnd[rx[t].w] # rx[t].old
  /\ RxGo(t, "shrink", 0)
  /\ UNCHANGED <<mode, conns, expired, tx, data, acks, peak>>

Wider(w, new) ==
  /\ cwnd' = [cwnd EXCEPT ![w] = new]
  /\ peak' = [peak EXCEPT ![w] = IF new > @ THEN new ELSE @]

\* cwnd++, which is not atomic there ...
Widen(t) ==
  /\ rx[t].pc = "widen"
  /\ Wider(rx[t].w, rx[t].old + 1)
  /\ RxGo(t, "max", 0)
  /\ UNCHANGED <<mode, pipe, seq, lastack, expired, tx, data, acks>>

\* ... and is here.
WidenAtOnce(t) ==
  /\ rx[t].pc = "grow" /\ mode.nic
  /\ Wider(rx[t].w, cwnd[rx[t].w] + 1)
  /\ RxGo(t, "max", 0)
  /\ UNCHANGED <<mode, pipe, seq, lastack, expired, tx, data, acks>>

LookLast(t) ==
  /\ rx[t].pc = "max"
  /\ LET last == lastack[rx[t].w] IN
     RxGo(t, "last", IF last < rx[t].ack THEN rx[t].ack ELSE last)
  /\ UNCHANGED <<mode, conns, expired, tx, data, acks, peak>>

SetLast(t) ==
  /\ rx[t].pc = "last"
  /\ lastack' = [lastack EXCEPT ![rx[t].w] = rx[t].old]
  /\ rx' = [rx EXCEPT ![t] = IdleRx]
  /\ UNCHANGED <<mode, cwnd, pipe, seq, expired, tx, data, acks, peak>>
-----------------------------------------------------------------------------
TxStep(t) == \/ \E w \in mode.to : CheckTimer(t, w)
             \/ ResetPipe(t) \/ LookPipe(t) \/ Compare(t) \/ CountAndSend(t)
RxStep(t) == \/ Wrap(t) \/ Acked(t) \/ TestPipe(t) \/ Clamp(t) \/ ResetTimer(t)
             \/ LookGap(t) \/ LookCwnd(t) \/ Halve(t) \/ LookAgain(t) \/ Widen(t)
             \/ WidenAtOnce(t) \/ LookLast(t) \/ SetLast(t)

Next ==
  \/ Expire
  \/ \E d \in data : DccpSendAck(d)
  \/ \E t \in TxThreads : TxStep(t) \/ NoBuffer(t) \/ DccpSeqTime(t)
  \/ \E t \in RxThreads : RecvAck(t) \/ RxStep(t)

Spec == Init /\ [][Next]_vars

-----------------------------------------------------------------------------
(* Properties. *)

TxPcs == {"idle", "reset", "look", "compare", "alloc", "count"}
RxPcs == {"idle", "wrap", "acked", "test", "clamp", "timer", "gap", "shrink", "grow", "halve",
          "widen", "max", "last"}

TxTuple == [pc : TxPcs, w : Workers \cup {NoWorker}, seen : Int]
RxAck   == [pc : RxPcs, w : Workers \cup {NoWorker}, ack : Nat, old : Int]
Packet  == [w : Workers, seq : Nat]

\* Types of the fields of DccpInfo and of what the threads hold.  A window is
\* never closed: cwnd stays at one or more whatever the halvings and the
\* increments that race with them leave (L302-325), or the connection would
\* not send again even after a timeout.
TypeOK ==
  /\ mode \in Modes
  /\ cwnd \in [Workers -> Nat \ {0}] /\ peak \in [Workers -> Nat \ {0}]
  /\ pipe \in [Workers -> Int] /\ seq \in [Workers -> Nat] /\ lastack \in [Workers -> Int]
  /\ expired \in BOOLEAN
  /\ tx \in [TxThreads -> TxTuple] /\ rx \in [RxThreads -> RxAck]
  /\ data \subseteq Packet /\ acks \subseteq Packet

\* The window is checked long before the packet is counted (L196, L229), by
\* every tx thread on its own: the packets counted pass the widest window there
\* has been, but by no more than one for each other thread.
PipeWithinWindow ==
  \A w \in Workers : pipe[w] <= peak[w] + mode.tx - 1

\* An ack that takes more out of pipe than there is, because it comes after a timeout
\* emptied pipe or before another thread has counted its packet, leaves it below
\* zero only until it is set right (L291-295), also where another thread may come in
\* between the subtraction and the test.
NegativeIsClamped ==
  \A w \in Workers :
    pipe[w] < 0 => \E t \in RxThreads : rx[t].pc \in {"test", "clamp"} /\ rx[t].w = w

\* Time goes on, a thread in the middle of an ack goes on with it, and of the tx
\* threads some thread does, takes one tuple after another and gets a buffer now
\* and then.  Nothing says that a packet or an ack arrives.
AnyRxThread == UNION {1 .. m.rx : m \in Modes}
FairSpec ==
  /\ Spec
  /\ WF_vars(Expire)
  /\ WF_vars(\E t \in TxThreads : TxStep(t))
  /\ SF_vars(\E t \in TxThreads : DccpSeqTime(t))
  /\ \A t \in AnyRxThread : WF_vars(t \in RxThreads /\ RxStep(t))

\* A window that is full of lost packets, or of packets whose acks are lost, opens
\* again (L192-193): tuples are not dropped for ever.
SendsGoOn == <>(\E w \in mode.to : seq[w] = mode.max_sent)

\* An ack is taken to its end, unless the window has been moved from under a
\* thread that is about to halve it and does not read it again.
AcksEnd ==
  \A t \in AnyRxThread :
    t \in RxThreads /\ rx[t].pc # "idle"
      ~> (t \in RxThreads => \/ rx[t].pc = "idle"
                             \/ (rx[t].pc = "halve" /\ ~mode.nic /\ cwnd[rx[t].w] # rx[t].old))
=============================================================================
