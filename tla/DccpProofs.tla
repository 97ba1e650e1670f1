------------------------------ MODULE DccpProofs ------------------------------
(***************************************************************************)
(* The window is never closed, and never passed by more than one packet    *)
(* for each other thread, for every number of workers, threads and packets *)
(* and every order the network delivers them in.                           *)
(***************************************************************************)
EXTENDS Dccp, FiniteSetTheorems, TLAPS

USE DccpConstants

\* What a thread holds between two steps.
Held ==
  /\ \A w \in Workers : lastack[w] < SeqMod
  /\ \A t \in TxThreads :
       LET r == tx[t] IN
       /\ r.pc # "idle" => r.w \in Workers
       /\ r.pc = "count" => r.seen \in Nat
  /\ \A t \in RxThreads :
       LET r == rx[t] IN
       /\ r.pc # "idle" => r.w \in Workers
       /\ r.ack < SeqMod
       /\ r.pc = "acked" => r.old < r.ack
       /\ r.pc \in {"wrap", "last"} => r.old < SeqMod
       /\ r.pc \in {"widen", "halve"} => r.old \in Nat \ {0}

\* The threads that will count one more packet for w without looking at pipe
\* again, while the window is no wider than b.
Through(w, b) ==
  {t \in TxThreads : /\ tx[t].w = w
                     /\ \/ tx[t].pc = "compare" /\ tx[t].seen < b
                        \/ tx[t].pc \in {"alloc", "count"}}

\* Counting what these threads will add, pipe has room in every window as wide as
\* the widest there has been.  PipeWithinWindow alone is not kept by CountAndSend.
Room ==
  \A w \in Workers :
    /\ cwnd[w] <= peak[w]
    /\ \A b \in Int : b >= peak[w] =>
         pipe[w] + Cardinality(Through(w, b)) <= b + mode.tx - 1
-----------------------------------------------------------------------------
\* At the start all threads are idle and all fields have their types.
LEMMA InitTyped == Init => TypeOK /\ Held
  BY DEF Init, TypeOK, Held, TxThreads, RxThreads, IdleTx, IdleRx, TxPcs, RxPcs,
         TxTuple, RxAck, Packet

\* Half of two or more is one or more.
LEMMA HalfPositive == \A n \in Nat : n >= 2 => n \div 2 \in Nat \ {0}
  OBVIOUS

\* What the threads go on with has its type.
LEMMA TxGoTyped ==
  ASSUME TypeOK, NEW t \in TxThreads, NEW p \in TxPcs, NEW n \in Int, TxGo(t, p, n)
  PROVE  tx' \in [TxThreads -> TxTuple]
<1>1. [pc |-> p, w |-> tx[t].w, seen |-> n] \in TxTuple
  BY DEF TypeOK, TxTuple
<1> QED BY <1>1 DEF TypeOK, TxGo

\* A tx thread that drops or has sent its packet is idle.
LEMMA TxEndTyped ==
  ASSUME TypeOK, NEW t \in TxThreads, TxEnd(t)
  PROVE  tx' \in [TxThreads -> TxTuple]
<1>1. IdleTx \in TxTuple  BY DEF IdleTx, TxTuple, TxPcs
<1> QED BY <1>1 DEF TypeOK, TxEnd

\* An rx thread that goes on has the ack it took.
LEMMA RxGoTyped ==
  ASSUME TypeOK, NEW t \in RxThreads, NEW p \in RxPcs, NEW n \in Int, RxGo(t, p, n)
  PROVE  rx' \in [RxThreads -> RxAck]
<1>1. [pc |-> p, w |-> rx[t].w, ack |-> rx[t].ack, old |-> n] \in RxAck
  BY DEF TypeOK, RxAck
<1> QED BY <1>1 DEF TypeOK, RxGo

\* The steps of a tx thread.
LEMMA TxTyped ==
  ASSUME TypeOK, Held, NEW t \in TxThreads, TxStep(t) \/ NoBuffer(t) \/ DccpSeqTime(t)
  PROVE  TypeOK' /\ Held'
<1>0. mode' = mode /\ mode.to \subseteq Workers
  BY DccpModes DEF TypeOK, TxStep, CheckTimer, ResetPipe, LookPipe, Compare, NoBuffer,
                   DccpSeqTime, CountAndSend
<1> USE <1>0 DEF conns
<1>1. ASSUME NEW w \in mode.to, CheckTimer(t, w) PROVE TypeOK' /\ Held'
  <2>1. tx' \in [TxThreads -> TxTuple]
    BY <1>1 DEF CheckTimer, TypeOK, TxTuple, TxPcs
  <2>2. TypeOK'  BY <1>1, <2>1 DEF CheckTimer, TypeOK, TxThreads, RxThreads
  <2>3. Held'    BY <1>1, <2>1 DEF CheckTimer, TypeOK, Held, TxThreads, RxThreads
  <2> QED BY <2>2, <2>3
<1>2. CASE ResetPipe(t)
  <2>1. tx' \in [TxThreads -> TxTuple]
    <3>1. TxGo(t, "look", 0)  BY <1>2 DEF ResetPipe
    <3> QED BY <3>1, TxGoTyped DEF TxPcs
  <2>2. tx[t].w \in Workers  BY <1>2 DEF ResetPipe, Held
  <2>3. pipe' \in [Workers -> Int]  BY <1>2, <2>2 DEF ResetPipe, TypeOK
  <2>4. TypeOK'  BY <1>2, <2>1, <2>3 DEF ResetPipe, TypeOK, TxThreads, RxThreads
  <2>5. Held'
    BY <1>2, <2>1 DEF ResetPipe, TypeOK, Held, TxThreads, RxThreads, TxTuple, TxGo, TxEnd,
                      IdleTx
  <2> QED BY <2>4, <2>5
<1>3. CASE LookPipe(t)
  <2>1. tx[t].w \in Workers  BY <1>3 DEF LookPipe, Held
  <2>2. pipe[tx[t].w] \in Int  BY <2>1 DEF TypeOK
  <2>3. tx' \in [TxThreads -> TxTuple]
    <3>1. TxGo(t, "compare", pipe[tx[t].w])  BY <1>3 DEF LookPipe
    <3> QED BY <3>1, <2>2, TxGoTyped DEF TxPcs
  <2>4. TypeOK'  BY <1>3, <2>3 DEF LookPipe, TypeOK, TxThreads, RxThreads
  <2>5. Held'
    BY <1>3, <2>3 DEF LookPipe, TypeOK, Held, TxThreads, RxThreads, TxTuple, TxGo, TxEnd, IdleTx
  <2> QED BY <2>4, <2>5
<1>4. CASE Compare(t)
  <2>1. tx' \in [TxThreads -> TxTuple]
    <3>1. TxEnd(t) \/ TxGo(t, "alloc", 0)  BY <1>4 DEF Compare
    <3> QED BY <3>1, TxEndTyped, TxGoTyped DEF TxPcs
  <2>2. TypeOK'  BY <1>4, <2>1 DEF Compare, TypeOK, TxThreads, RxThreads
  <2>3. Held'
    <3>1. CASE TxEnd(t)
      BY <1>4, <2>1, <3>1 DEF Compare, TypeOK, Held, TxThreads, RxThreads, TxTuple, TxEnd,
                        IdleTx
    <3>2. CASE TxGo(t, "alloc", 0)
      BY <1>4, <2>1, <3>2 DEF Compare, TypeOK, Held, TxThreads, RxThreads, TxTuple, TxGo
    <3> QED BY <1>4, <3>1, <3>2 DEF Compare
  <2> QED BY <2>2, <2>3
<1>5. CASE NoBuffer(t)
  <2>1. tx' \in [TxThreads -> TxTuple]
    <3>1. TxEnd(t)  BY <1>5 DEF NoBuffer
    <3> QED BY <3>1, TxEndTyped
  <2>2. TypeOK'  BY <1>5, <2>1 DEF NoBuffer, TypeOK, TxThreads, RxThreads
  <2>3. Held'
    BY <1>5, <2>1 DEF NoBuffer, TypeOK, Held, TxThreads, RxThreads, TxTuple, TxGo, TxEnd, IdleTx
  <2> QED BY <2>2, <2>3
<1>6. CASE DccpSeqTime(t)
  <2>1. tx[t].w \in Workers  BY <1>6 DEF DccpSeqTime, Held
  <2>2. seq[tx[t].w] \in Nat /\ seq' \in [Workers -> Nat]
    BY <1>6, <2>1 DEF DccpSeqTime, TypeOK
  <2>3. tx' \in [TxThreads -> TxTuple]
    <3>1. TxGo(t, "count", seq[tx[t].w])  BY <1>6 DEF DccpSeqTime
    <3> QED BY <3>1, <2>2, TxGoTyped DEF TxPcs
  <2>4. TypeOK'  BY <1>6, <2>3, <2>2 DEF DccpSeqTime, TypeOK, TxThreads, RxThreads
  <2>5. Held'
    BY <1>6, <2>3, <2>2 DEF DccpSeqTime, TypeOK, Held, TxThreads, RxThreads, TxTuple, TxGo,
                        TxEnd, IdleTx
  <2> QED BY <2>4, <2>5
<1>7. CASE CountAndSend(t)
  <2>1. tx[t].w \in Workers  BY <1>7 DEF CountAndSend, Held
  <2>2. pipe' \in [Workers -> Int]  BY <1>7, <2>1 DEF CountAndSend, TypeOK
  <2>3. data' \subseteq Packet
    <3>1. tx[t].seen \in Nat  BY <1>7 DEF CountAndSend, Held
    <3>2. [w |-> tx[t].w, seq |-> tx[t].seen] \in Packet  BY <2>1, <3>1 DEF Packet
    <3> QED BY <1>7, <3>2 DEF CountAndSend, TypeOK
  <2>4. tx' \in [TxThreads -> TxTuple]
    <3>1. TxEnd(t)  BY <1>7 DEF CountAndSend
    <3> QED BY <3>1, TxEndTyped
  <2>5. TypeOK'  BY <1>7, <2>4, <2>2, <2>3 DEF CountAndSend, TypeOK, TxThreads, RxThreads
  <2>6. Held'
    BY <1>7, <2>4 DEF CountAndSend, TypeOK, Held, TxThreads, RxThreads, TxTuple, TxGo,
                      TxEnd, IdleTx
  <2> QED BY <2>5, <2>6
<1> QED BY <1>1, <1>2, <1>3, <1>4, <1>5, <1>6, <1>7 DEF TxStep

\* The steps of an rx thread.
LEMMA RxTyped ==
  ASSUME TypeOK, Held, NEW t \in RxThreads, RecvAck(t) \/ RxStep(t)
  PROVE  TypeOK' /\ Held'
<1>0. mode' = mode
  BY DEF RxStep, RecvAck, Wrap, Acked, TestPipe, Clamp, ResetTimer, LookGap, LookCwnd,
         Halve, LookAgain, Widen, WidenAtOnce, LookLast, SetLast
<1> USE <1>0 DEF conns
<1>r. rx[t] \in RxAck /\ rx[t].old \in Int /\ rx[t].ack \in Nat
  BY DEF TypeOK, RxAck
<1>1. CASE RecvAck(t)
  <2>1. PICK a \in acks :
          LET ack == a.seq % SeqMod IN
          /\ acks' = acks \ {a}
          /\ rx' = [rx EXCEPT ![t] =
                     [pc |-> IF IsWraparound(a.w, ack) THEN "wrap"
                             ELSE IF lastack[a.w] < ack THEN "acked" ELSE "gap",
                      w |-> a.w, ack |-> ack, old |-> lastack[a.w]]]
    BY <1>1 DEF RecvAck
  <2>2. a.w \in Workers /\ a.seq \in Nat /\ lastack[a.w] \in Int /\ lastack[a.w] < SeqMod
    BY DEF TypeOK, Packet, Held
  <2>3. a.seq % SeqMod \in Nat /\ a.seq % SeqMod < SeqMod
    BY <2>2
  <2> DEFINE ack == a.seq % SeqMod
             r == [pc |-> IF IsWraparound(a.w, ack) THEN "wrap"
                          ELSE IF lastack[a.w] < ack THEN "acked" ELSE "gap",
                   w |-> a.w, ack |-> ack, old |-> lastack[a.w]]
  <2>4. ack \in Nat /\ ack < SeqMod  BY <2>3
  <2>5. rx' = [rx EXCEPT ![t] = r] /\ acks' \subseteq acks  BY <2>1
  <2> HIDE DEF ack
  <2>6. r \in RxAck /\ r.w \in Workers /\ r.ack < SeqMod /\ r.old < SeqMod
        /\ (r.pc = "acked" => r.old < r.ack) /\ r.pc \notin {"last", "widen", "halve"}
    BY <2>2, <2>4 DEF RxAck, RxPcs
  <2> HIDE DEF r
  <2>7. rx' \in [RxThreads -> RxAck]
    BY <2>5, <2>6 DEF TypeOK
  <2>8. TypeOK'  BY <1>1, <2>7, <2>5 DEF RecvAck, TypeOK, TxThreads, RxThreads
  <2>9. Held'    BY <1>1, <2>5, <2>6 DEF RecvAck, TypeOK, Held, TxThreads, RxThreads
  <2> QED BY <2>8, <2>9
<1>2. CASE Wrap(t)
  <2>1. rx[t].w \in Workers  BY <1>2 DEF Wrap, Held
  <2>2. rx[t].old - SeqMod \in Int /\ rx[t].old - SeqMod < 0  BY <1>2, <1>r DEF Wrap, Held
  <2>3. lastack' \in [Workers -> Int]  BY <1>2, <2>1, <2>2 DEF Wrap, TypeOK
  <2>4. rx[t].old - SeqMod < rx[t].ack /\ rx[t].old - SeqMod < SeqMod  BY <2>2, <1>r
  <2>5. rx' \in [RxThreads -> RxAck]
    <3>1. RxGo(t, "acked", rx[t].old - SeqMod)  BY <1>2 DEF Wrap
    <3> QED BY <3>1, <2>2, RxGoTyped DEF RxPcs
  <2>6. TypeOK'  BY <1>2, <2>5, <2>3 DEF Wrap, TypeOK, TxThreads, RxThreads
  <2>7. Held'
    BY <1>2, <2>5, <2>1, <2>2, <2>4, <1>r DEF Wrap, TypeOK, Held, TxThreads, RxThreads,
                        RxAck, RxGo, IdleRx
  <2> QED BY <2>6, <2>7
<1>3. CASE Acked(t)
  <2>1. rx[t].w \in Workers  BY <1>3 DEF Acked, Held
  <2>2. pipe' \in [Workers -> Int]  BY <1>3, <2>1, <1>r DEF Acked, TypeOK
  <2>3. rx' \in [RxThreads -> RxAck]
    <3>1. PICK p \in {"test", "clamp", "timer"} : RxGo(t, p, 0)  BY <1>3 DEF Acked, AfterSub
    <3> QED BY <3>1, RxGoTyped DEF RxPcs
  <2>4. TypeOK'  BY <1>3, <2>3, <2>2 DEF Acked, TypeOK, TxThreads, RxThreads
  <2>5. Held'
    <3>1. PICK p \in {"test", "clamp", "timer"} : RxGo(t, p, 0)  BY <1>3 DEF Acked, AfterSub
    <3>2. lastack' = lastack /\ tx' = tx  BY <1>3 DEF Acked
    <3> QED BY <2>1, <2>3, <3>1, <3>2 DEF TypeOK, Held, TxThreads, RxThreads, RxAck, RxGo
  <2> QED BY <2>4, <2>5
<1>4. CASE Clamp(t)
  <2>1. rx[t].w \in Workers  BY <1>4 DEF Clamp, Held
  <2>2. pipe' \in [Workers -> Int]  BY <1>4, <2>1 DEF Clamp, TypeOK
  <2>3. rx' \in [RxThreads -> RxAck]
    <3>1. RxGo(t, "timer", 0)  BY <1>4 DEF Clamp
    <3> QED BY <3>1, RxGoTyped DEF RxPcs
  <2>4. TypeOK'  BY <1>4, <2>3, <2>2 DEF Clamp, TypeOK, TxThreads, RxThreads
  <2>5. Held'
    BY <1>4, <2>3 DEF Clamp, TypeOK, Held, TxThreads, RxThreads, RxAck, RxGo, IdleRx
  <2> QED BY <2>4, <2>5
<1>5. CASE ResetTimer(t)
  <2>1. rx' \in [RxThreads -> RxAck]
    <3>1. RxGo(t, "gap", 0)  BY <1>5 DEF ResetTimer
    <3> QED BY <3>1, RxGoTyped DEF RxPcs
  <2>2. TypeOK'  BY <1>5, <2>1 DEF ResetTimer, TypeOK, TxThreads, RxThreads
  <2>3. Held'
    BY <1>5, <2>1 DEF ResetTimer, TypeOK, Held, TxThreads, RxThreads, RxAck, RxGo, IdleRx
  <2> QED BY <2>2, <2>3
<1>6. CASE LookGap(t)
  <2>1. rx' \in [RxThreads -> RxAck]
    <3>1. \E p \in {"shrink", "grow"} : RxGo(t, p, 0)  BY <1>6 DEF LookGap
    <3> QED BY <3>1, RxGoTyped DEF RxPcs
  <2>2. TypeOK'  BY <1>6, <2>1 DEF LookGap, TypeOK, TxThreads, RxThreads
  <2>3. Held'
    BY <1>6, <2>1 DEF LookGap, TypeOK, Held, TxThreads, RxThreads, RxAck, RxGo, IdleRx
  <2> QED BY <2>2, <2>3
<1>7. CASE LookCwnd(t)
  <2>1. rx[t].w \in Workers  BY <1>7 DEF LookCwnd, Held
  <2>2. cwnd[rx[t].w] \in Nat \ {0}  BY <2>1 DEF TypeOK
  <2>3. rx' \in [RxThreads -> RxAck]
    <3>1. \E p \in {"widen", "halve"} : RxGo(t, p, cwnd[rx[t].w])  BY <1>7 DEF LookCwnd
    <3> QED BY <3>1, <2>2, RxGoTyped DEF RxPcs
  <2>4. TypeOK'  BY <1>7, <2>3 DEF LookCwnd, TypeOK, TxThreads, RxThreads
  <2>5. Held'
    BY <1>7, <2>3, <2>2 DEF LookCwnd, TypeOK, Held, TxThreads, RxThreads, RxAck, RxGo, IdleRx
  <2> QED BY <2>4, <2>5
<1>8. CASE Halve(t)
  <2>1. rx[t].w \in Workers  BY <1>8 DEF Halve, Held
  <2>2. cwnd' \in [Workers -> Nat \ {0}]
    <3>1. rx[t].old \in Nat  BY <1>8 DEF Halve, Held
    <3>2. rx[t].old >= 2 => rx[t].old \div 2 \in Nat \ {0}  BY <3>1, HalfPositive
    <3>3. rx[t].old < 2 => cwnd' = cwnd  BY <1>8 DEF Halve
    <3>4. rx[t].old >= 2 => cwnd' = [cwnd EXCEPT ![rx[t].w] = rx[t].old \div 2]
      BY <1>8, <3>1 DEF Halve
    <3> QED BY <3>1, <3>2, <3>3, <3>4 DEF TypeOK
  <2>3. rx' \in [RxThreads -> RxAck]
    <3>1. RxGo(t, "max", 0)  BY <1>8 DEF Halve
    <3> QED BY <3>1, RxGoTyped DEF RxPcs
  <2>4. TypeOK'  BY <1>8, <2>3, <2>2 DEF Halve, TypeOK, TxThreads, RxThreads
  <2>5. Held'
    BY <1>8, <2>3 DEF Halve, TypeOK, Held, TxThreads, RxThreads, RxAck, RxGo, IdleRx
  <2> QED BY <2>4, <2>5
<1>9. CASE Widen(t)
  <2>1. rx[t].w \in Workers  BY <1>9 DEF Widen, Held
  <2>2. rx[t].old + 1 \in Nat \ {0}  BY <1>9 DEF Widen, Held
  <2>3. cwnd' \in [Workers -> Nat \ {0}] /\ peak' \in [Workers -> Nat \ {0}]
    BY <1>9, <2>1, <2>2 DEF Widen, Wider, TypeOK
  <2>4. rx' \in [RxThreads -> RxAck]
    <3>1. RxGo(t, "max", 0)  BY <1>9 DEF Widen
    <3> QED BY <3>1, RxGoTyped DEF RxPcs
  <2>5. TypeOK'  BY <1>9, <2>4, <2>3 DEF Widen, Wider, TypeOK, TxThreads, RxThreads
  <2>6. Held'
    BY <1>9, <2>4 DEF Widen, Wider, TypeOK, Held, TxThreads, RxThreads, RxAck, RxGo, IdleRx
  <2> QED BY <2>5, <2>6
<1>10. CASE LookLast(t)
  <2>1. rx[t].w \in Workers  BY <1>10 DEF LookLast, Held
  <2> DEFINE last == lastack[rx[t].w]
             new == IF last < rx[t].ack THEN rx[t].ack ELSE last
  <2>2. new \in Int /\ new < SeqMod  BY <2>1, <1>r DEF TypeOK, Held
  <2>3. RxGo(t, "last", new)  BY <1>10 DEF LookLast
  <2> HIDE DEF new
  <2>4. rx' \in [RxThreads -> RxAck]
    BY <2>2, <2>3, RxGoTyped DEF RxPcs
  <2>5. TypeOK'  BY <1>10, <2>4 DEF LookLast, TypeOK, TxThreads, RxThreads
  <2>6. /\ rx' = [rx EXCEPT ![t] = [pc |-> "last", w |-> rx[t].w, ack |-> rx[t].ack, old |-> new]]
        /\ UNCHANGED <<lastack, tx>>
    BY <1>10, <2>3 DEF LookLast, RxGo
  <2>7. Held'    BY <2>4, <2>1, <2>2, <2>6 DEF TypeOK, Held, TxThreads, RxThreads, RxAck
  <2> QED BY <2>5, <2>7
<1>11. CASE SetLast(t)
  <2>1. rx[t].w \in Workers  BY <1>11 DEF SetLast, Held
  <2>2. lastack' \in [Workers -> Int]  BY <1>11, <2>1, <1>r DEF SetLast, TypeOK
  <2>3. IdleRx \in RxAck  BY DEF IdleRx, RxAck, RxPcs
  <2>4. rx' \in [RxThreads -> RxAck]  BY <1>11, <2>3 DEF SetLast, TypeOK
  <2>5. TypeOK'  BY <1>11, <2>4, <2>2 DEF SetLast, TypeOK, TxThreads, RxThreads
  <2>6. Held'
    BY <1>11, <2>4 DEF SetLast, TypeOK, Held, TxThreads, RxThreads, RxAck, RxGo, IdleRx
  <2> QED BY <2>5, <2>6
<1>12. CASE WidenAtOnce(t)
  <2>1. rx[t].w \in Workers  BY <1>12 DEF WidenAtOnce, Held
  <2>2. cwnd[rx[t].w] + 1 \in Nat \ {0}  BY <2>1 DEF TypeOK
  <2>3. cwnd' \in [Workers -> Nat \ {0}] /\ peak' \in [Workers -> Nat \ {0}]
    BY <1>12, <2>1, <2>2 DEF WidenAtOnce, Wider, TypeOK
  <2>4. rx' \in [RxThreads -> RxAck]
    <3>1. RxGo(t, "max", 0)  BY <1>12 DEF WidenAtOnce
    <3> QED BY <3>1, RxGoTyped DEF RxPcs
  <2>5. TypeOK'  BY <1>12, <2>4, <2>3 DEF WidenAtOnce, Wider, TypeOK, TxThreads, RxThreads
  <2>6. Held'
    BY <1>12, <2>4 DEF WidenAtOnce, Wider, TypeOK, Held, TxThreads, RxThreads, RxAck, RxGo, IdleRx
  <2> QED BY <2>5, <2>6
<1>13. CASE TestPipe(t)
  <2>1. rx' \in [RxThreads -> RxAck]
    <3>1. \E p \in {"clamp", "timer"} : RxGo(t, p, 0)  BY <1>13 DEF TestPipe
    <3> QED BY <3>1, RxGoTyped DEF RxPcs
  <2>2. TypeOK'  BY <1>13, <2>1 DEF TestPipe, TypeOK, TxThreads, RxThreads
  <2>3. Held'
    BY <1>13, <2>1 DEF TestPipe, TypeOK, Held, TxThreads, RxThreads, RxAck, RxGo, IdleRx
  <2> QED BY <2>2, <2>3
<1>14. CASE LookAgain(t)
  <2>1. rx' \in [RxThreads -> RxAck]
    <3>1. \E p \in {"shrink"} : RxGo(t, p, 0)  BY <1>14 DEF LookAgain
    <3> QED BY <3>1, RxGoTyped DEF RxPcs
  <2>2. TypeOK'  BY <1>14, <2>1 DEF LookAgain, TypeOK, TxThreads, RxThreads
  <2>3. Held'
    BY <1>14, <2>1 DEF LookAgain, TypeOK, Held, TxThreads, RxThreads, RxAck, RxGo, IdleRx
  <2> QED BY <2>2, <2>3
<1> QED BY <1>1, <1>2, <1>3, <1>4, <1>5, <1>6, <1>7, <1>8,
              <1>9, <1>10, <1>11, <1>12, <1>13, <1>14 DEF RxStep
-----------------------------------------------------------------------------
\* Threads that will count one more are some of the tx threads.
LEMMA ThroughSize ==
  ASSUME TypeOK, NEW w, NEW b
  PROVE  /\ IsFiniteSet(Through(w, b))
         /\ Cardinality(Through(w, b)) \in Nat
         /\ Cardinality(Through(w, b)) <= mode.tx
<1>1. mode.tx \in Nat \ {0}  BY DccpModes DEF TypeOK
<1>2. IsFiniteSet(TxThreads) /\ Cardinality(TxThreads) = mode.tx
  BY <1>1, FS_Interval DEF TxThreads
<1>3. Through(w, b) \subseteq TxThreads  BY DEF Through
<1> QED BY <1>2, <1>3, FS_Subset, FS_CardinalityType

\* There is room in b after a step that takes no thread through and counts nothing.
LEMMA KeepsRoom ==
  ASSUME TypeOK, TypeOK', Room, mode' = mode, NEW w \in Workers, NEW b \in Int,
         b >= peak[w], pipe'[w] <= pipe[w], Through(w, b)' \subseteq Through(w, b)
  PROVE  pipe'[w] + Cardinality(Through(w, b))' <= b + mode.tx - 1
<1>1. Cardinality(Through(w, b)) \in Nat /\ IsFiniteSet(Through(w, b))
  BY ThroughSize
<1>2. Cardinality(Through(w, b)') <= Cardinality(Through(w, b)) /\ Cardinality(Through(w, b)') \in Nat
  BY <1>1, FS_Subset, FS_CardinalityType
<1>3. pipe[w] \in Int /\ pipe'[w] \in Int /\ mode.tx \in Nat
  BY DccpModes DEF TypeOK
<1>4. pipe[w] + Cardinality(Through(w, b)) <= b + mode.tx - 1
  BY DEF Room
<1> QED BY <1>1, <1>2, <1>3, <1>4

\* There is room in b whatever the threads do while pipe is less than b.
LEMMA LowHasRoom ==
  ASSUME TypeOK', mode' = mode, NEW w \in Workers, NEW b \in Int, pipe'[w] < b
  PROVE  pipe'[w] + Cardinality(Through(w, b))' <= b + mode.tx - 1
<1>1. mode.tx \in Nat \ {0} /\ pipe'[w] \in Int
  BY DccpModes DEF TypeOK
<1>2. IsFiniteSet(1 .. mode.tx) /\ Cardinality(1 .. mode.tx) = mode.tx
  BY <1>1, FS_Interval
<1>3. Through(w, b)' \subseteq 1 .. mode.tx  BY DEF Through, TxThreads
<1>4. Cardinality(Through(w, b)') \in Nat /\ Cardinality(Through(w, b)') <= mode.tx
  BY <1>2, <1>3, FS_Subset, FS_CardinalityType
<1> QED BY <1>1, <1>4

\* The steps of a tx thread keep the room.
LEMMA TxRoom ==
  ASSUME TypeOK, TypeOK', Held, Room, NEW t \in TxThreads,
         TxStep(t) \/ NoBuffer(t) \/ DccpSeqTime(t)
  PROVE  Room'
<1>0. mode' = mode
  BY DEF TxStep, CheckTimer, ResetPipe, LookPipe, Compare, NoBuffer, DccpSeqTime, CountAndSend
<1> USE <1>0
<1>1. ASSUME NEW v \in mode.to, CheckTimer(t, v) PROVE Room'
  <2>1. pipe' = pipe /\ cwnd' = cwnd /\ peak' = peak  BY <1>1 DEF CheckTimer, conns
  <2>2. \A w \in Workers, b \in Int : Through(w, b)' \subseteq Through(w, b)
    BY <1>1 DEF CheckTimer, Through, TypeOK, TxThreads
  <2> QED BY <2>1, <2>2, KeepsRoom DEF Room, TypeOK
<1>2. CASE ResetPipe(t)
  <2>1. cwnd' = cwnd /\ peak' = peak  BY <1>2 DEF ResetPipe
  <2>2. ASSUME NEW w \in Workers, NEW b \in Int, b >= peak[w]
        PROVE  pipe'[w] + Cardinality(Through(w, b))' <= b + mode.tx - 1
    <3>1. CASE w = tx[t].w
      <4>1. pipe'[w] = 0 /\ b > 0  BY <1>2, <2>2, <3>1 DEF ResetPipe, TypeOK
      <4> QED BY <4>1, LowHasRoom
    <3>2. CASE w # tx[t].w
      <4>1. pipe'[w] = pipe[w]  BY <1>2, <3>2 DEF ResetPipe, TypeOK
      <4>2. Through(w, b)' \subseteq Through(w, b)
        BY <1>2 DEF ResetPipe, Through, TypeOK, TxThreads, TxGo
      <4> QED BY <2>2, <4>1, <4>2, KeepsRoom DEF TypeOK
    <3> QED BY <3>1, <3>2
  <2> QED BY <2>1, <2>2 DEF Room
<1>3. CASE LookPipe(t)
  <2>1. pipe' = pipe /\ cwnd' = cwnd /\ peak' = peak  BY <1>3 DEF LookPipe, conns
  <2>2. ASSUME NEW w \in Workers, NEW b \in Int, b >= peak[w]
        PROVE  pipe'[w] + Cardinality(Through(w, b))' <= b + mode.tx - 1
    <3>1. CASE pipe[w] < b  BY <2>1, <3>1, LowHasRoom
    <3>2. CASE ~(pipe[w] < b)
      <4>1. Through(w, b)' \subseteq Through(w, b)
        BY <1>3, <3>2 DEF LookPipe, Through, TypeOK, TxThreads, TxGo
      <4> QED BY <2>1, <2>2, <4>1, KeepsRoom DEF TypeOK
    <3> QED BY <3>1, <3>2
  <2> QED BY <2>1, <2>2 DEF Room
<1>4. CASE Compare(t)
  <2>1. pipe' = pipe /\ cwnd' = cwnd /\ peak' = peak  BY <1>4 DEF Compare, conns
  <2>2. ASSUME NEW w \in Workers, NEW b \in Int, b >= peak[w]
        PROVE  Through(w, b)' \subseteq Through(w, b)
    <3>1. CASE WindowFull(t)
      BY <1>4, <3>1 DEF Compare, Through, TypeOK, TxThreads, TxEnd, IdleTx
    <3>2. CASE ~WindowFull(t)
      <4>1. cwnd[w] <= peak[w] /\ cwnd[w] \in Int /\ peak[w] \in Int /\ tx[t].seen \in Int
        BY DEF Room, TypeOK, TxTuple
      <4>2. tx[t].w = w => tx[t].seen < b  BY <2>2, <3>2, <4>1 DEF WindowFull
      <4>3. tx' = [tx EXCEPT ![t] = [pc |-> "alloc", w |-> tx[t].w, seen |-> 0]]
        BY <1>4, <3>2 DEF Compare, TxGo
      <4> QED BY <1>4, <4>2, <4>3 DEF Compare, Through, TypeOK, TxThreads
    <3> QED BY <3>1, <3>2
  <2> QED BY <2>1, <2>2, KeepsRoom DEF Room, TypeOK
<1>5. CASE NoBuffer(t)
  <2>1. pipe' = pipe /\ cwnd' = cwnd /\ peak' = peak  BY <1>5 DEF NoBuffer, conns
  <2>2. \A w \in Workers, b \in Int : Through(w, b)' \subseteq Through(w, b)
    BY <1>5 DEF NoBuffer, Through, TypeOK, TxThreads, TxEnd, IdleTx
  <2> QED BY <2>1, <2>2, KeepsRoom DEF Room, TypeOK
<1>6. CASE DccpSeqTime(t)
  <2>1. pipe' = pipe /\ cwnd' = cwnd /\ peak' = peak  BY <1>6 DEF DccpSeqTime, conns
  <2>2. \A w \in Workers, b \in Int : Through(w, b)' \subseteq Through(w, b)
    BY <1>6 DEF DccpSeqTime, Through, TypeOK, TxThreads, TxGo
  <2> QED BY <2>1, <2>2, KeepsRoom DEF Room, TypeOK
<1>7. CASE CountAndSend(t)
  <2>1. cwnd' = cwnd /\ peak' = peak  BY <1>7 DEF CountAndSend
  <2>2. ASSUME NEW w \in Workers, NEW b \in Int, b >= peak[w]
        PROVE  pipe'[w] + Cardinality(Through(w, b))' <= b + mode.tx - 1
    <3>1. CASE w = tx[t].w
      <4>1. t \in Through(w, b) /\ Through(w, b)' = Through(w, b) \ {t}
        BY <1>7, <3>1 DEF CountAndSend, Through, TypeOK, TxThreads, TxEnd, IdleTx
      <4>2. Cardinality(Through(w, b)') = Cardinality(Through(w, b)) - 1
        BY <4>1, ThroughSize, FS_RemoveElement
      <4>3. pipe'[w] = pipe[w] + 1 /\ pipe[w] \in Int  BY <1>7, <3>1 DEF CountAndSend, TypeOK
      <4>4. pipe[w] + Cardinality(Through(w, b)) <= b + mode.tx - 1  BY <2>2 DEF Room
      <4>5. Cardinality(Through(w, b)) \in Nat  BY ThroughSize
      <4>6. mode.tx \in Nat  BY DccpModes DEF TypeOK
      <4> QED BY <4>2, <4>3, <4>4, <4>5, <4>6
    <3>2. CASE w # tx[t].w
      <4>1. pipe'[w] = pipe[w]  BY <1>7, <3>2 DEF CountAndSend, TypeOK
      <4>2. Through(w, b)' \subseteq Through(w, b)
        BY <1>7 DEF CountAndSend, Through, TypeOK, TxThreads, TxEnd, IdleTx
      <4> QED BY <2>2, <4>1, <4>2, KeepsRoom DEF TypeOK
    <3> QED BY <3>1, <3>2
  <2> QED BY <2>1, <2>2 DEF Room
<1> QED BY <1>1, <1>2, <1>3, <1>4, <1>5, <1>6, <1>7 DEF TxStep

\* Nor does an rx thread take any of it: an ack only takes packets out of pipe, and
\* a wider window has more room.
LEMMA RxRoom ==
  ASSUME TypeOK, TypeOK', Held, Room, NEW t \in RxThreads, RecvAck(t) \/ RxStep(t)
  PROVE  Room'
<1>0. mode' = mode /\ tx' = tx
  BY DEF RxStep, RecvAck, Wrap, Acked, TestPipe, Clamp, ResetTimer, LookGap, LookCwnd,
         Halve, LookAgain, Widen, WidenAtOnce, LookLast, SetLast
<1>1. \A w \in Workers, b \in Int : Through(w, b)' = Through(w, b)
  BY <1>0 DEF Through, TxThreads
<1>2. CASE Acked(t)
  <2>1. cwnd' = cwnd /\ peak' = peak  BY <1>2 DEF Acked
  <2>2. rx[t].old \in Int /\ rx[t].ack \in Int /\ rx[t].old < rx[t].ack
    BY <1>2 DEF Acked, Held, TypeOK, RxAck
  <2>3. \A w \in Workers : pipe'[w] <= pipe[w]
    BY <1>2, <2>2 DEF Acked, TypeOK
  <2> QED BY <1>0, <1>1, <2>1, <2>3, KeepsRoom DEF Room, TypeOK
<1>3. CASE Clamp(t)
  <2>1. cwnd' = cwnd /\ peak' = peak  BY <1>3 DEF Clamp
  <2>2. ASSUME NEW w \in Workers, NEW b \in Int, b >= peak[w]
        PROVE  pipe'[w] + Cardinality(Through(w, b))' <= b + mode.tx - 1
    <3>1. CASE w = rx[t].w
      <4>1. pipe'[w] = 0 /\ b > 0  BY <1>3, <2>2, <3>1 DEF Clamp, TypeOK
      <4> QED BY <1>0, <4>1, LowHasRoom
    <3>2. CASE w # rx[t].w
      <4>1. pipe'[w] = pipe[w] /\ pipe[w] \in Int  BY <1>3, <3>2 DEF Clamp, TypeOK
      <4>2. pipe'[w] <= pipe[w]  BY <4>1
      <4> QED BY <1>0, <1>1, <2>2, <4>2, KeepsRoom
    <3> QED BY <3>1, <3>2
  <2> QED BY <1>0, <2>1, <2>2 DEF Room
<1>4. CASE Halve(t)
  <2>1. pipe' = pipe /\ peak' = peak  BY <1>4 DEF Halve
  <2>2. \A w \in Workers : cwnd'[w] <= peak[w]
    <3>1. rx[t].old \in Nat  BY <1>4 DEF Halve, Held
    <3>2. rx[t].old \div 2 <= rx[t].old /\ rx[t].old \div 2 \in Nat  BY <3>1
    <3>3. \/ cwnd' = cwnd
          \/ cwnd[rx[t].w] = rx[t].old /\ cwnd' = [cwnd EXCEPT ![rx[t].w] = rx[t].old \div 2]
      BY <1>4 DEF Halve
    <3> QED BY <3>1, <3>2, <3>3 DEF Room, TypeOK
  <2> QED BY <1>0, <1>1, <2>1, <2>2, KeepsRoom DEF Room, TypeOK
<1>5. CASE Widen(t) \/ WidenAtOnce(t)
  <2>1. pipe' = pipe  BY <1>5 DEF Widen, WidenAtOnce
  <2>2. PICK new \in Nat : Wider(rx[t].w, new)
    <3>1. rx[t].w \in Workers  BY <1>5 DEF Widen, WidenAtOnce, Held
    <3>2. cwnd[rx[t].w] + 1 \in Nat  BY <3>1 DEF TypeOK
    <3>3. Widen(t) => rx[t].old + 1 \in Nat  BY DEF Widen, Held
    <3> QED BY <1>5, <3>2, <3>3 DEF Widen, WidenAtOnce
  <2>3. \A w \in Workers : cwnd'[w] <= peak'[w] /\ peak[w] <= peak'[w]
    BY <2>2 DEF Wider, Room, TypeOK
  <2>4. \A w \in Workers : peak[w] \in Int /\ peak'[w] \in Int  BY DEF TypeOK
  <2>5. \A w \in Workers, b \in Int : b >= peak'[w] => b >= peak[w]  BY <2>3, <2>4
  <2> QED BY <1>0, <1>1, <2>1, <2>3, <2>5, KeepsRoom DEF Room, TypeOK
<1>6. CASE RecvAck(t) \/ Wrap(t) \/ TestPipe(t) \/ ResetTimer(t) \/ LookGap(t)
          \/ LookCwnd(t) \/ LookAgain(t) \/ LookLast(t) \/ SetLast(t)
  <2>1. pipe' = pipe /\ cwnd' = cwnd /\ peak' = peak
    BY <1>6 DEF RecvAck, Wrap, TestPipe, ResetTimer, LookGap, LookCwnd, LookAgain, LookLast,
                SetLast, conns
  <2> QED BY <1>0, <1>1, <2>1 DEF Room
<1> QED BY <1>2, <1>3, <1>4, <1>5, <1>6 DEF RxStep
-----------------------------------------------------------------------------
DccpInv == TypeOK /\ Held /\ Room

\* At the start nobody is on the way to add to pipe, which is zero.
LEMMA InitRoom == Init => Room
<1> SUFFICES ASSUME Init PROVE Room
  OBVIOUS
<1>1. \A w, b : Through(w, b) = {}  BY DEF Init, Through, IdleTx, TxThreads
<1>2. mode.tx \in Nat \ {0}  BY DccpModes DEF Init
<1>3. ASSUME NEW w \in Workers, NEW b \in Int, b >= peak[w]
      PROVE  pipe[w] + Cardinality(Through(w, b)) <= b + mode.tx - 1
  <2>1. pipe[w] = 0 /\ peak[w] = InitCwnd  BY DEF Init
  <2>2. Cardinality(Through(w, b)) = 0  BY <1>1, FS_EmptySet
  <2>3. mode.tx >= 1 /\ b >= 1 /\ mode.tx \in Int  BY <1>2, <1>3, <2>1
  <2> QED BY <2>1, <2>2, <2>3
<1>4. \A w \in Workers : cwnd[w] <= peak[w]  BY DEF Init
<1> QED BY <1>3, <1>4 DEF Room

\* The other steps are the clock's and the other worker's.
LEMMA WorldKeeps ==
  ASSUME DccpInv, Expire \/ \E d \in data : DccpSendAck(d)
  PROVE  DccpInv'
<1>1. UNCHANGED <<mode, conns, tx, rx, peak>>
  BY DEF Expire, DccpSendAck
<1>2. TypeOK'
  BY <1>1 DEF DccpInv, Expire, DccpSendAck, TypeOK, conns, TxThreads, RxThreads
<1>3. Held'  BY <1>1 DEF DccpInv, Held, conns, TxThreads, RxThreads
<1>4. \A w, b : Through(w, b)' = Through(w, b)  BY <1>1 DEF Through, TxThreads
<1>5. Room'  BY <1>1, <1>4 DEF DccpInv, Room, conns
<1> QED BY <1>2, <1>3, <1>5 DEF DccpInv

\* DccpInv is inductive.
THEOREM DccpInvariant == Spec => []DccpInv
<1>1. Init => DccpInv
  BY InitTyped, InitRoom DEF DccpInv
<1>2. DccpInv /\ [Next]_vars => DccpInv'
  <2> SUFFICES ASSUME DccpInv, [Next]_vars PROVE DccpInv'
    OBVIOUS
  <2>1. CASE Expire \/ \E d \in data : DccpSendAck(d)
    BY <2>1, WorldKeeps
  <2>2. CASE \E t \in TxThreads : TxStep(t) \/ NoBuffer(t) \/ DccpSeqTime(t)
    BY <2>2, TxTyped, TxRoom DEF DccpInv
  <2>3. CASE \E t \in RxThreads : RecvAck(t) \/ RxStep(t)
    BY <2>3, RxTyped, RxRoom DEF DccpInv
  <2>4. CASE UNCHANGED vars
    <3>1. TypeOK'  BY <2>4 DEF vars, DccpInv, TypeOK, TxThreads, RxThreads
    <3>2. Held'  BY <2>4 DEF vars, DccpInv, Held, TxThreads, RxThreads
    <3>3. \A w, b : Through(w, b)' = Through(w, b)  BY <2>4 DEF vars, Through, TxThreads
    <3>4. Room'  BY <2>4, <3>3 DEF vars, DccpInv, Room
    <3> QED BY <3>1, <3>2, <3>4 DEF DccpInv
  <2> QED BY <2>1, <2>2, <2>3, <2>4 DEF Next
<1> QED BY <1>1, <1>2, PTL DEF Spec

\* Every field keeps its type; above all, no order of halvings and increments
\* closes a window.
THEOREM DccpTypes == Spec => []TypeOK
<1>1. DccpInv => TypeOK  BY DEF DccpInv
<1> QED BY <1>1, DccpInvariant, PTL

\* pipe passes the widest window by at most one for each other tx thread.
THEOREM DccpWindow == Spec => []PipeWithinWindow
<1>1. DccpInv => PipeWithinWindow
  <2> SUFFICES ASSUME DccpInv, NEW w \in Workers PROVE pipe[w] <= peak[w] + mode.tx - 1
    BY DEF PipeWithinWindow
  <2>1. peak[w] \in Int /\ pipe[w] \in Int /\ mode.tx \in Nat
    BY DccpModes DEF DccpInv, TypeOK
  <2>2. pipe[w] + Cardinality(Through(w, peak[w])) <= peak[w] + mode.tx - 1
    BY <2>1 DEF DccpInv, Room
  <2>3. Cardinality(Through(w, peak[w])) \in Nat  BY ThroughSize DEF DccpInv
  <2> QED BY <2>1, <2>2, <2>3
<1> QED BY <1>1, DccpInvariant, PTL
-----------------------------------------------------------------------------
\* A step of a tx thread does not take a packet out of a pipe that is below zero.
LEMMA TxClamped ==
  ASSUME TypeOK, Held, NegativeIsClamped, NEW t \in TxThreads,
         TxStep(t) \/ NoBuffer(t) \/ DccpSeqTime(t)
  PROVE  NegativeIsClamped'
<1>1. mode' = mode /\ rx' = rx
  BY DEF TxStep, CheckTimer, ResetPipe, LookPipe, Compare, NoBuffer, DccpSeqTime, CountAndSend
<1>2. \A w \in Workers : pipe'[w] < 0 => pipe[w] < 0
  <2>1. CASE ResetPipe(t)  BY <2>1 DEF ResetPipe, TypeOK
  <2>2. CASE CountAndSend(t)  BY <2>2 DEF CountAndSend, TypeOK
  <2>3. CASE pipe' = pipe  BY <2>3
  <2> QED BY <2>1, <2>2, <2>3 DEF TxStep, CheckTimer, LookPipe, Compare, NoBuffer,
                                  DccpSeqTime, conns
<1> QED BY <1>1, <1>2 DEF NegativeIsClamped, RxThreads

\* The rx thread that takes pipe below zero will set it right.
LEMMA RxClamped ==
  ASSUME TypeOK, Held, NegativeIsClamped, NEW t \in RxThreads, RecvAck(t) \/ RxStep(t)
  PROVE  NegativeIsClamped'
<1>0. mode' = mode
  BY DEF RxStep, RecvAck, Wrap, Acked, TestPipe, Clamp, ResetTimer, LookGap, LookCwnd,
         Halve, LookAgain, Widen, WidenAtOnce, LookLast, SetLast
<1>1. CASE Acked(t)
  <2> DEFINE left == pipe[rx[t].w] - (rx[t].ack - rx[t].old)
  <2>1. rx[t].w \in Workers  BY <1>1 DEF Acked, Held
  <2>2. pipe' = [pipe EXCEPT ![rx[t].w] = left] /\ RxGo(t, AfterSub(left), 0)
    BY <1>1 DEF Acked
  <2> SUFFICES ASSUME NEW w \in Workers, pipe'[w] < 0
               PROVE  \E s \in RxThreads : rx'[s].pc \in {"test", "clamp"} /\ rx'[s].w = w
    BY <1>0 DEF NegativeIsClamped, RxThreads
  <2>3. CASE w = rx[t].w
    <3>1. left < 0  BY <2>2, <2>3 DEF TypeOK
    <3>2. AfterSub(left) \in {"test", "clamp"}  BY <3>1 DEF AfterSub
    <3>3. rx'[t].pc \in {"test", "clamp"} /\ rx'[t].w = w
      BY <2>2, <2>3, <3>2 DEF RxGo, TypeOK
    <3> QED BY <3>3
  <2>4. CASE w # rx[t].w
    <3>1. pipe[w] < 0  BY <2>2, <2>4 DEF TypeOK
    <3>2. PICK s \in RxThreads : rx[s].pc \in {"test", "clamp"} /\ rx[s].w = w
      BY <3>1 DEF NegativeIsClamped
    <3>3. s # t  BY <1>1, <3>2 DEF Acked
    <3>4. rx'[s] = rx[s]  BY <2>2, <3>3 DEF RxGo, TypeOK
    <3> QED BY <3>2, <3>4
  <2> QED BY <2>3, <2>4
<1>2. CASE TestPipe(t)
  <2>1. /\ pipe' = pipe
        /\ RxGo(t, IF pipe[rx[t].w] < 0 THEN "clamp" ELSE "timer", 0)
    BY <1>2 DEF TestPipe, conns
  <2> SUFFICES ASSUME NEW w \in Workers, pipe[w] < 0
               PROVE  \E s \in RxThreads : rx'[s].pc \in {"test", "clamp"} /\ rx'[s].w = w
    BY <1>0, <2>1 DEF NegativeIsClamped, RxThreads
  <2>2. PICK s \in RxThreads : rx[s].pc \in {"test", "clamp"} /\ rx[s].w = w
    BY DEF NegativeIsClamped
  <2>3. CASE s = t
    BY <2>1, <2>2, <2>3 DEF RxGo, TypeOK
  <2>4. CASE s # t
    BY <2>1, <2>2, <2>4 DEF RxGo, TypeOK
  <2> QED BY <2>3, <2>4
<1>3. CASE Clamp(t)
  <2> SUFFICES ASSUME NEW w \in Workers, pipe'[w] < 0
               PROVE  \E s \in RxThreads : rx'[s].pc \in {"test", "clamp"} /\ rx'[s].w = w
    BY <1>0 DEF NegativeIsClamped, RxThreads
  <2>1. w # rx[t].w /\ pipe[w] < 0  BY <1>3 DEF Clamp, TypeOK
  <2>2. PICK s \in RxThreads : rx[s].pc \in {"test", "clamp"} /\ rx[s].w = w
    BY <2>1 DEF NegativeIsClamped
  <2>3. s # t  BY <2>1, <2>2
  <2>4. rx'[s] = rx[s]  BY <1>3, <2>3 DEF Clamp, RxGo, TypeOK
  <2> QED BY <2>2, <2>4
<1>4. CASE /\ pipe' = pipe /\ rx[t].pc \notin {"test", "clamp"}
           /\ \A s \in RxThreads : s # t => rx'[s] = rx[s]
  BY <1>0, <1>4 DEF NegativeIsClamped, RxThreads
<1>5. ASSUME RecvAck(t) \/ Wrap(t) \/ ResetTimer(t) \/ LookGap(t) \/ LookCwnd(t) \/ Halve(t)
             \/ LookAgain(t) \/ Widen(t) \/ WidenAtOnce(t) \/ LookLast(t) \/ SetLast(t)
      PROVE  /\ pipe' = pipe /\ rx[t].pc \notin {"test", "clamp"}
             /\ \A s \in RxThreads : s # t => rx'[s] = rx[s]
  BY <1>5 DEF RecvAck, Wrap, ResetTimer, LookGap, LookCwnd, Halve, LookAgain, Widen,
              WidenAtOnce, LookLast, SetLast, conns, RxGo, TypeOK
<1> QED BY <1>1, <1>2, <1>3, <1>4, <1>5 DEF RxStep

\* A pipe below zero is about to be set to zero.
THEOREM DccpClamped == Spec => []NegativeIsClamped
<1>1. Init => NegativeIsClamped
  BY DEF Init, NegativeIsClamped
<1>2. DccpInv /\ NegativeIsClamped /\ [Next]_vars => NegativeIsClamped'
  <2> SUFFICES ASSUME DccpInv, NegativeIsClamped, [Next]_vars PROVE NegativeIsClamped'
    OBVIOUS
  <2>1. CASE UNCHANGED <<mode, pipe, rx>>
    BY <2>1 DEF NegativeIsClamped, RxThreads
  <2>2. CASE \E t \in TxThreads : TxStep(t) \/ NoBuffer(t) \/ DccpSeqTime(t)
    BY <2>2, TxClamped DEF DccpInv
  <2>3. CASE \E t \in RxThreads : RecvAck(t) \/ RxStep(t)
    BY <2>3, RxClamped DEF DccpInv
  <2> QED BY <2>1, <2>2, <2>3 DEF Next, Expire, DccpSendAck, vars, conns
<1> QED BY <1>1, <1>2, DccpInvariant, PTL DEF Spec
=============================================================================
