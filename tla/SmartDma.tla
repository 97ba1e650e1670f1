------------------------------ MODULE SmartDma ------------------------------
(***************************************************************************)
(* The queue synchronisation layer of the NIC (floem-queue-manage.c, built *)
(* with RUNTIME) under one queue of floem-queue.c: the ring lives in host  *)
(* memory; the NIC works on copies of it in segments, which manager cores  *)
(* read and write back by DMA.                                             *)
(*                                                                         *)
(* Seen from the NIC an entry is "ready" (the host has given it), "done"   *)
(* (the NIC has given it back) or "busy" (neither).  For a Dequeue on the  *)
(* NIC (ToNic) ready is FLAG_OWN with the pad byte and done is 0; for an   *)
(* Enqueue on the NIC ready is 0 and done is FLAG_OWN.                     *)
(*                                                                         *)
(* Addresses are in entries: the ring is 1 .. N, and 0 is the null of      *)
(* min, max and commit_max.  read_ready_seg and write_ready_seg follow     *)
(* from read_ready and write_ready, which the manager moves together.      *)
(***************************************************************************)
EXTENDS Integers, FiniteSets, FiniteSetsExt

CONSTANT Modes \* the queues: their sizes and how they are used

\* create_dma_circular_queue asserts 4*BUFF_SIZE <= size.
ASSUME DmaModes ==
  /\ Modes \subseteq [n : Nat, k : Nat \ {0},    \* entries of the ring and of a segment
                      to_nic : BOOLEAN,         \* Dequeue on the NIC, or Enqueue
                      cores : Nat \ {0},        \* of the NIC, that use the queue
                      torn_reads : BOOLEAN,     \* smart_dma_read takes several steps
                      late_counts : BOOLEAN,    \* an entry is done, then counted
                      slow_writes : BOOLEAN,    \* write_gap ever exceeds WRITE_WAIT
                      host_claims : Nat \ {0},  \* entries the CPU works on at a time
                      outstanding : Nat \ {0}]  \* given and not returned
  /\ \A m \in Modes : m.n >= 4 * m.k

VARIABLE mode \* fixed when the queue is created

N       == mode.n
K       == mode.k
Entries == 1 .. N
S       == 1 + (N - 1) \div K
Segs    == 0 .. S - 1

SegOf(a)    == (a - 1) \div K
Addr(s)     == 1 + s * K
AddrMax(s)  == IF s = S - 1 THEN N + 1 ELSE Addr(s + 1)
SegSize(s)  == AddrMax(s) - Addr(s)
NextSeg(s)  == (s + 1) % S
\* Mutant: no wrap after the last entry.
MutAdvanceNoWrap(a, n) == a + n

Advance(a, n) == 1 + ((a - 1 + n) % N)

VARIABLES
  host, hostCur,                    \* the ring in host memory, the CPU's offset
  local,                            \* seg->buf of all segments
  status, todo,                     \* seg->status; what its DMA has to copy yet
  smin, smax, commit, count,        \* of each segment
  readReady, writeReady,            \* the local entries between are the NIC's
  writeStart, writeFinish,          \* write_start_seg, write_finish_seg
  mpc,                              \* where the manager core is
  cursor, wpc, seenWrite,           \* q->offset; smart_dma_read, write_ready in it
  uncounted,                        \* done, seg->count not yet incremented
  use                               \* history: what the NIC did with an entry

hostVars   == <<host, hostCur>>
segVars    == <<smin, smax, commit>>
ringVars   == <<readReady, writeReady>>
orderVars  == <<writeStart, writeFinish>>
workerVars == <<cursor, wpc, seenWrite>>
vars == <<mode, hostVars, local, status, todo, segVars, count, ringVars, orderVars,
          mpc, workerVars, uncounted, use>>

ToNic       == mode.to_nic
Cores       == mode.cores
TornReads   == mode.torn_reads
LateCounts  == mode.late_counts
SlowWrites  == mode.slow_writes
HostClaims  == mode.host_claims
Outstanding == mode.outstanding

\* The CPU starts with all entries free: to fill, or (ToNic = FALSE) for the
\* NIC to fill.  A buffer fresh from the pool may hold zeros, which an Enqueue
\* takes for free entries, or anything else.
Init ==
  /\ mode \in Modes
  /\ host = [e \in Entries |-> IF ToNic THEN "done" ELSE "ready"]
  /\ hostCur = 1
  /\ local \in {[e \in Entries |-> f] : f \in {"busy"} \cup IF ToNic THEN {} ELSE {"ready"}}
  /\ status = [s \in Segs |-> "INVALID"] /\ todo = [s \in Segs |-> {}]
  /\ smin = [s \in Segs |-> IF s = 0 THEN 1 ELSE 0]
  /\ smax = [s \in Segs |-> 0] /\ commit = [s \in Segs |-> 0]
  /\ count = [s \in Segs |-> 0]
  /\ readReady = 1 /\ writeReady = 1
  /\ writeStart = 0 /\ writeFinish = 0
  /\ mpc = "writing"
  /\ cursor = 1 /\ wpc = "idle" /\ seenWrite = 0
  /\ uncounted = {}
  /\ use = [e \in Entries |-> "no"]

-----------------------------------------------------------------------------
(* The CPU (queue.h at the other end) claims entries in order and gives    *)
(* them over in any order.                                                 *)

HostClaim ==
  /\ host[hostCur] = "done"
  /\ Cardinality({e \in Entries : host[e] # "done"}) < Outstanding
  /\ Cardinality({e \in Entries : host[e] = "claimed"}) < HostClaims
  /\ host' = [host EXCEPT ![hostCur] = "claimed"]
  /\ hostCur' = Advance(hostCur, 1)
  /\ UNCHANGED <<local, status, todo, segVars, count, ringVars, orderVars, mpc,
                 workerVars, uncounted, use>>

HostGive(e) ==
  /\ host[e] = "claimed"
  /\ host' = [host EXCEPT ![e] = "ready"]
  /\ UNCHANGED <<hostCur, local, status, todo, segVars, count, ringVars,
                 orderVars, mpc, workerVars, uncounted, use>>

-----------------------------------------------------------------------------
(* The DMA engine copies the entries of a transfer one by one.             *)

DmaRead(s) ==
  /\ status[s] = "READING"
  /\ \E e \in todo[s] :
        /\ local' = [local EXCEPT ![e] = IF host[e] = "claimed" THEN "busy" ELSE host[e]]
        /\ todo' = [todo EXCEPT ![s] = @ \ {e}]
  /\ UNCHANGED <<hostVars, status, segVars, count, ringVars, orderVars, mpc,
                 workerVars, uncounted, use>>

DmaWrite(s) ==
  /\ status[s] = "WRITING"
  /\ \E e \in todo[s] :
        /\ host' = [host EXCEPT ![e] = local[e]]
        /\ todo' = [todo EXCEPT ![s] = @ \ {e}]
        /\ use' = [use EXCEPT ![e] = IF @ = "done" THEN "no" ELSE @]
  /\ UNCHANGED <<hostCur, local, status, segVars, count, ringVars, orderVars, mpc,
                 workerVars, uncounted>>

-----------------------------------------------------------------------------
(* The cores that use the queue: smart_dma_read and the caller's marking.  *)

\* The interval [write_ready, read_ready) of the ring; empty if they are equal.
\* Mutant: the entry at read_ready is taken for a ready one.
MutReadyInclusive(a, w, r) ==
  IF w < r THEN w <= a /\ a <= r
           ELSE w # r /\ ((a >= r /\ a >= w) \/ (a <= r /\ a < w))

IsReadReady(a, w, r) ==
  IF w < r THEN w <= a /\ a < r
           ELSE w # r /\ ((a >= r /\ a >= w) \/ (a < r /\ a < w))

Held == {e \in Entries : use[e] = "nic"}

Idle == wpc = "idle" /\ Cardinality(Held \cup uncounted) < Cores

\* The loads of write_ready and of read_ready are not one step.
ReadStart ==
  /\ TornReads /\ Idle
  /\ seenWrite' = writeReady /\ wpc' = "check"
  /\ UNCHANGED <<hostVars, local, status, todo, segVars, count, ringVars,
                 orderVars, mpc, cursor, uncounted, use>>

Checks(ready) ==
  LET seen == IF TornReads THEN seenWrite ELSE writeReady IN
  /\ IF TornReads THEN wpc = "check" ELSE Idle
  /\ IsReadReady(cursor, seen, readReady) = ready
  /\ seenWrite' = 0

\* Ready: the entry is the core's; an Enqueue sets FLAG_INUSE.
ReadHit ==
  /\ Checks(TRUE)
  /\ use' = [use EXCEPT ![cursor] = "nic"]
  /\ local' = IF ToNic THEN local ELSE [local EXCEPT ![cursor] = "busy"]
  /\ cursor' = Advance(cursor, 1) /\ wpc' = "idle"
  /\ UNCHANGED <<hostVars, status, todo, segVars, count, ringVars, orderVars,
                 mpc, uncounted>>

\* Not ready, and the last CAS, which may come later.
ReadMiss ==
  /\ TornReads /\ Checks(FALSE)
  /\ wpc' = "miss"
  /\ UNCHANGED <<hostVars, local, status, todo, segVars, count, ringVars,
                 orderVars, mpc, cursor, uncounted, use>>

ReadInvalidate ==
  /\ IF TornReads THEN wpc = "miss" /\ UNCHANGED seenWrite ELSE Checks(FALSE)
  /\ wpc' = "idle"
  /\ status' = [status EXCEPT ![SegOf(cursor)] = IF @ = "VALID" THEN "INVALID" ELSE @]
  /\ UNCHANGED <<hostVars, local, todo, segVars, count, ringVars, orderVars,
                 mpc, cursor, uncounted, use>>

\* enqueue_submit or dequeue_release sets the flag, then smart_dma_write counts
\* the entry.
SetDone(e) ==
  /\ e \in Held
  /\ use' = [use EXCEPT ![e] = "done"]
  /\ local' = [local EXCEPT ![e] = "done"]
  /\ IF LateCounts
     THEN uncounted' = uncounted \cup {e} /\ UNCHANGED count
     ELSE count' = [count EXCEPT ![SegOf(e)] = @ + 1] /\ UNCHANGED uncounted
  /\ UNCHANGED <<hostVars, status, todo, segVars, ringVars, orderVars, mpc,
                 workerVars>>

\* Mutant: the segment q->offset is in has one more.
MutCountAtOffset(e) ==
  /\ e \in uncounted
  /\ count' = [count EXCEPT ![SegOf(cursor)] = @ + 1]
  /\ uncounted' = uncounted \ {e}
  /\ UNCHANGED <<hostVars, local, status, todo, segVars, ringVars, orderVars,
                 mpc, workerVars, use>>

\* smart_dma_write of an entry counted late.
CountDone(e) ==
  /\ e \in uncounted
  /\ count' = [count EXCEPT ![SegOf(e)] = @ + 1]
  /\ uncounted' = uncounted \ {e}
  /\ UNCHANGED <<hostVars, local, status, todo, segVars, ringVars, orderVars,
                 mpc, workerVars, use>>

-----------------------------------------------------------------------------
(* The manager core: smart_dma_manage for the queue, round and round.      *)

DmaComplete(s) == todo[s] = {}

\* handle_writing of write_finish_seg.  A whole segment is free to be read
\* again, and the next one is looked at; of a part, the rest is still to come.
\* Mutant: write_finish_seg stays.
MutWrittenStays ==
  LET s == writeFinish IN
  /\ mpc = "writing" /\ status[s] = "WRITING" /\ DmaComplete(s)
  /\ commit[s] >= AddrMax(s)
  /\ smin' = [smin EXCEPT ![s] = IF SegOf(writeReady) = s THEN writeReady ELSE 0]
  /\ smax' = [smax EXCEPT ![s] = 0] /\ commit' = [commit EXCEPT ![s] = 0]
  /\ count' = [count EXCEPT ![s] = 0]
  /\ status' = [status EXCEPT ![s] = "INVALID"]
  /\ writeFinish' = s
  /\ UNCHANGED <<hostVars, local, todo, ringVars, writeStart, mpc, workerVars,
                 uncounted, use>>

WrittenAll ==
  LET s == writeFinish IN
  /\ mpc = "writing" /\ status[s] = "WRITING" /\ DmaComplete(s)
  /\ commit[s] >= AddrMax(s)
  /\ smin' = [smin EXCEPT ![s] = IF SegOf(writeReady) = s THEN writeReady ELSE 0]
  /\ smax' = [smax EXCEPT ![s] = 0] /\ commit' = [commit EXCEPT ![s] = 0]
  /\ count' = [count EXCEPT ![s] = 0]
  /\ status' = [status EXCEPT ![s] = "INVALID"]
  /\ writeFinish' = NextSeg(s)
  /\ UNCHANGED <<hostVars, local, todo, ringVars, writeStart, mpc, workerVars,
                 uncounted, use>>

WrittenPart ==
  LET s == writeFinish IN
  /\ mpc = "writing" /\ status[s] = "WRITING" /\ DmaComplete(s)
  /\ commit[s] < AddrMax(s)
  /\ smin' = [smin EXCEPT ![s] = commit[s]]
  /\ status' = [status EXCEPT ![s] = "INVALID"]
  /\ mpc' = "reading"
  /\ UNCHANGED <<hostVars, local, todo, smax, commit, count, ringVars, orderVars,
                 workerVars, uncounted, use>>

WrittenNone ==
  /\ mpc = "writing" /\ mpc' = "reading"
  /\ ~(status[writeFinish] = "WRITING" /\ DmaComplete(writeFinish))
  /\ UNCHANGED <<hostVars, local, status, todo, segVars, count, ringVars,
                 orderVars, workerVars, uncounted, use>>

\* update_read_ready goes over the ready entries, up to a segment that is being
\* read and to two segments before write_ready's.
StopSeg == (SegOf(writeReady) - 2) % S

\* Mutant: the scan does not stop two segments before write_ready's.
MutPassStop(a, s) == local[a] = "ready" /\ (SegOf(a) = s \/ status[SegOf(a)] # "READING")

CanPass(a, s) == /\ local[a] = "ready" /\ SegOf(a) # StopSeg
                 /\ SegOf(a) = s \/ status[SegOf(a)] # "READING"

ReadyRun(s) == Max({n \in 0 .. N - 1 :
                      \A i \in 0 .. n - 1 : CanPass(Advance(readReady, i), s)})

\* handle_reading of read_ready_seg: if all of it is ready it is valid and the
\* next one is looked at, else it has to be read again.
ReadAll ==
  LET s == SegOf(readReady) IN
  /\ mpc = "reading" /\ status[s] = "READING" /\ DmaComplete(s)
  /\ readReady' = Advance(readReady, ReadyRun(s))
  /\ SegOf(readReady') # s
  /\ status' = [status EXCEPT ![s] = "VALID"]
  /\ UNCHANGED <<hostVars, local, todo, segVars, count, writeReady, orderVars,
                 mpc, workerVars, uncounted, use>>

ReadPart ==
  LET s == SegOf(readReady) IN
  /\ mpc = "reading" /\ status[s] = "READING" /\ DmaComplete(s)
  /\ readReady' = Advance(readReady, ReadyRun(s))
  /\ SegOf(readReady') = s
  /\ status' = [status EXCEPT ![s] = "INVALID"]
  /\ mpc' = "prefetch"
  /\ UNCHANGED <<hostVars, local, todo, segVars, count, writeReady, orderVars,
                 workerVars, uncounted, use>>

ReadNone ==
  LET s == SegOf(readReady) IN
  /\ mpc = "reading" /\ mpc' = "prefetch"
  /\ ~(status[s] = "READING" /\ DmaComplete(s))
  /\ UNCHANGED <<hostVars, local, status, todo, segVars, count, ringVars,
                 orderVars, workerVars, uncounted, use>>

\* no_read: read_ready would come too near to write_ready, from behind.
NoRead == LET gap == SegOf(writeReady) - SegOf(readReady)
          IN IF readReady < writeReady THEN gap <= 2 ELSE S + gap <= 2

Needed(s) == /\ status[s] = "INVALID" /\ ~NoRead
             /\ smax[s] = 0 \/ (SegOf(readReady) = s /\ smax[s] <= readReady)

\* prefetch_segment of read_ready_seg (at "prefetch") and of the one after it.
\* The first is read from read_ready on.
PrefetchSeg == IF mpc = "prefetch" THEN SegOf(readReady)
                                   ELSE NextSeg(SegOf(readReady))

ReadFrom(s) == IF SegOf(readReady) = s THEN readReady ELSE Addr(s)

PrefetchNext == IF mpc = "prefetch" THEN "prefetch2" ELSE "update"

Prefetch ==
  LET s == PrefetchSeg IN
  /\ mpc \in {"prefetch", "prefetch2"} /\ mpc' = PrefetchNext
  /\ Needed(s)
  /\ status' = [status EXCEPT ![s] = "READING"]
  /\ todo' = [todo EXCEPT ![s] = ReadFrom(s) .. AddrMax(s) - 1]
  /\ UNCHANGED <<hostVars, local, segVars, count, ringVars, orderVars, workerVars,
                 uncounted, use>>

PrefetchNone ==
  /\ mpc \in {"prefetch", "prefetch2"} /\ mpc' = PrefetchNext
  /\ ~Needed(PrefetchSeg)
  /\ UNCHANGED <<hostVars, local, status, todo, segVars, count, ringVars,
                 orderVars, workerVars, uncounted, use>>

\* initiate_write.  update_write_ready_fast moves write_ready over a segment
\* all of whose entries are counted.
\* Mutant: one entry too few is enough.
MutCountedEarly == LET s == SegOf(writeReady) IN
                   SegOf(readReady) # s /\ count[s] >= SegSize(s) - 1

AllCounted == LET s == SegOf(writeReady) IN
              SegOf(readReady) # s /\ count[s] = SegSize(s)

\* write_ready goes on to the next segment, whose part to write starts there.
LeaveSeg(s) ==
  /\ writeReady' = Addr(NextSeg(s))
  /\ count' = [count EXCEPT ![s] = 0]
  /\ smax' = [smax EXCEPT ![s] = AddrMax(s)]
  /\ smin' = [smin EXCEPT ![NextSeg(s)] = Addr(NextSeg(s))]
  /\ mpc' = "update2"

UpdateFast ==
  /\ mpc \in {"update", "update2"} /\ AllCounted
  /\ LeaveSeg(SegOf(writeReady))
  /\ UNCHANGED <<hostVars, local, status, todo, commit, readReady, orderVars,
                 workerVars, uncounted, use>>

UpdateNone ==
  /\ mpc \in {"update", "update2"} /\ ~AllCounted
  /\ mpc' = "exe"
  /\ UNCHANGED <<hostVars, local, status, todo, segVars, count, ringVars,
                 orderVars, workerVars, uncounted, use>>

\* update_write_ready, when the last two calls of smart_dma_write are far
\* apart and no segment was complete: over the entries whose flag is done, up
\* to the end of the segment or to read_ready.
DoneRun ==
  LET end == IF SegOf(readReady) = SegOf(writeReady) /\ writeReady <= readReady
             THEN readReady ELSE AddrMax(SegOf(writeReady))
  IN Max({a \in writeReady .. end : \A b \in writeReady .. a - 1 : local[b] = "done"})

UpdateSlow ==
  LET s == SegOf(writeReady) IN
  /\ SlowWrites /\ mpc = "update" /\ ~AllCounted
  /\ DoneRun > writeReady
  /\ IF DoneRun = AddrMax(s)
     THEN LeaveSeg(s)
     ELSE /\ writeReady' = DoneRun
          /\ smax' = [smax EXCEPT ![s] = DoneRun]
          /\ mpc' = "exe"
          /\ UNCHANGED <<smin, count>>
  /\ UNCHANGED <<hostVars, local, status, todo, commit, readReady, orderVars,
                 workerVars, uncounted, use>>

\* exe_write and do_write of write_start_seg; when a segment is written to its
\* end, of the next one too.
MayWrite(s) == /\ status[s] \in {"VALID", "INVALID"}
               /\ commit[s] < smax[s] /\ smin[s] < smax[s]

DoWrite ==
  LET s == writeStart IN
  /\ mpc = "exe" /\ MayWrite(s)
  /\ status' = [status EXCEPT ![s] = "WRITING"]
  /\ todo' = [todo EXCEPT ![s] = smin[s] .. smax[s] - 1]
  /\ commit' = [commit EXCEPT ![s] = smax[s]]
  /\ IF smax[s] = AddrMax(s) THEN writeStart' = NextSeg(s) /\ UNCHANGED mpc
                             ELSE mpc' = "writing" /\ UNCHANGED writeStart
  /\ UNCHANGED <<hostVars, local, smin, smax, count, ringVars, writeFinish,
                 workerVars, uncounted, use>>

ExeNone ==
  /\ mpc = "exe" /\ mpc' = "writing"
  /\ ~MayWrite(writeStart)
  /\ UNCHANGED <<hostVars, local, status, todo, segVars, count, ringVars,
                 orderVars, workerVars, uncounted, use>>

-----------------------------------------------------------------------------
ManagerStep == \/ WrittenAll \/ WrittenPart \/ WrittenNone
               \/ ReadAll \/ ReadPart \/ ReadNone
               \/ Prefetch \/ PrefetchNone
               \/ UpdateFast \/ UpdateSlow \/ UpdateNone
               \/ DoWrite \/ ExeNone

ReadStep == ReadStart \/ ReadHit \/ ReadMiss \/ ReadInvalidate

Next == /\ \/ HostClaim \/ \E e \in Entries : HostGive(e)
           \/ \E s \in Segs : DmaRead(s) \/ DmaWrite(s)
           \/ ReadStep \/ \E e \in Entries : SetDone(e) \/ CountDone(e)
           \/ ManagerStep
        /\ UNCHANGED mode

Spec == Init /\ [][Next]_vars

\* The entries (and, from 0, the segments) of the largest queue.
AllEntries == 0 .. Max({m.n : m \in Modes})

\* The manager core loops for ever, the engine completes what it is given and
\* the cores of the NIC poll, and finish what they hold.  The CPU keeps on
\* giving entries.
FairSpec ==
  /\ Spec
  /\ WF_vars(ManagerStep /\ UNCHANGED mode) /\ WF_vars(ReadStep /\ UNCHANGED mode)
  /\ \A s \in AllEntries : /\ WF_vars(s \in Segs /\ DmaRead(s) /\ UNCHANGED mode)
                           /\ WF_vars(s \in Segs /\ DmaWrite(s) /\ UNCHANGED mode)
  /\ \A e \in AllEntries : /\ WF_vars(e \in Entries /\ SetDone(e) /\ UNCHANGED mode)
                           /\ WF_vars(e \in Entries /\ CountDone(e) /\ UNCHANGED mode)
                           /\ WF_vars(e \in Entries /\ HostGive(e) /\ UNCHANGED mode)
  /\ WF_vars(HostClaim /\ UNCHANGED mode)

-----------------------------------------------------------------------------
TypeOK ==
  /\ mode \in Modes
  /\ host \in [Entries -> {"ready", "claimed", "done", "busy"}]
  /\ local \in [Entries -> {"ready", "busy", "done"}]
  /\ status \in [Segs -> {"VALID", "INVALID", "READING", "WRITING"}]
  /\ \A s \in Segs :
       /\ todo[s] \subseteq Addr(s) .. AddrMax(s) - 1
       /\ smin[s] \in {0} \cup Addr(s) .. AddrMax(s)
       /\ smax[s] \in {0} \cup Addr(s) .. AddrMax(s)
       /\ commit[s] \in {0} \cup Addr(s) .. AddrMax(s)
       /\ count[s] \in Nat
  /\ readReady \in Entries /\ writeReady \in Entries
  /\ hostCur \in Entries /\ cursor \in Entries /\ seenWrite \in {0} \cup Entries
  /\ writeStart \in Segs /\ writeFinish \in Segs
  /\ mpc \in {"writing", "reading", "prefetch", "prefetch2", "update", "update2", "exe"}
  /\ wpc \in {"idle", "check", "miss"}
  /\ uncounted \subseteq Entries
  /\ use \in [Entries -> {"no", "nic", "done"}]

\* What a core of the NIC did to an entry stays in the local copy until it is
\* written back: no DMA read overwrites it, whatever the CPU has given since.
LocalWorkIsKept ==
  \A e \in Entries :
     /\ use[e] = "nic" => local[e] = IF ToNic THEN "ready" ELSE "busy"
     /\ use[e] = "done" => local[e] = "done"

\* No segment has more entries counted than it has (the CHECK build warns).
CountsWithinSegment == \A s \in Segs : count[s] <= SegSize(s)

\* Segments are written in parts only where entries are counted in time and so few
\* are out that write_ready cannot come round to a segment half of which is still to
\* be written.  (An Enqueue on the NIC begins with the whole ring out.)
PartsApart == SlowWrites => ~LateCounts /\ ToNic /\ Outstanding <= N - K

\* Only entries a core is done with are written back, none of them twice.  In parts
\* and with more entries out, the code breaks this: ClaimedIsKept.
OnlyDoneIsWritten ==
  PartsApart => \A s \in Segs : status[s] = "WRITING" => \A e \in todo[s] : use[e] = "done"

\* queue.h L256, dequeue_release on the CPU: check_flag_val asserts that the entry the
\* CPU has taken still has its flag.  No DMA write of the NIC may reach that entry.
ClaimedIsKept ==
  [][\A e \in Entries : host[e] = "claimed" => host'[e] \in {"claimed", "ready"}]_vars

Phase == [e \in Entries |->
            CASE use[e] = "nic" -> "nic" [] use[e] = "done" -> "done"
              [] use[e] = "no" -> IF host[e] = "ready" THEN "offered" ELSE "host"]

Ring == INSTANCE EntryRing WITH Sizes <- {m.n : m \in Modes}, phase <- Phase
ImplementsRing == Ring!Spec

\* An entry the CPU has given comes back.
GivenComesBack ==
  \A e \in AllEntries : (e \in Entries /\ host[e] = "ready") ~> (e \in Entries /\ host[e] = "done")
=============================================================================
