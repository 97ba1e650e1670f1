# A TLA+ model of Floem

Floem (`src/`) is a Python DSL and compiler for network applications that are
split between a CPU and a Cavium LiquidIO NIC. A program is a graph of elements
written in C; the compiler cuts it into segments, gives each a thread, and
generates the queues, caches and per-packet states the segments exchange packets
through, on top of a small C runtime for either side. This directory models
three things:

* the runtime and the code generated around it, as concurrent algorithms:
  entries handed from thread to thread by one flag byte, CAS loops on offsets that
  may be a lap old, DMA copies of a ring that both sides write, bucket locks that
  travel with a packet;
* the compiler, as operators on element graphs: which fields of a packet's state
  are live where, what a queue's entry carries, what is restored behind it, and
  how the smart cache is wired into a program;
* the applications in `src/apps`, element by element, compiled by that compiler
  and run: twenty-six programs in which a buffer freed on one side of a queue, or
  a field the compiler leaves out of an entry, is needed on the other side.

Contents: [the system](#the-system), [what is modelled](#what-is-modelled),
[runs](#runs), [fairness](#fairness), [proofs](#proofs), [findings](#findings),
[not modelled](#not-modelled), [plan](#plan).

To check a run: `tlc -workers 2 -config <cfg> <MC module>`; to check the proofs
of a module: `tlapm <module>Proofs.tla`. Modules are read with the TLA+
community modules on the path (FiniteSetsExt, SequencesExt).

## The system

### Queues

**Default queue, CPU to CPU** (`floem/queue.py` L115-345, `include/queue.h`).
*State:* a ring of slots in shared memory, each with a flag byte (`FLAG_OWN`,
`FLAG_INUSE`, `FLAG_CLEAN`), a pad byte and a payload; on either side a
`circular_queue` with its own `offset` (and `clean` on the enqueuing side) and,
if the side is shared by threads, a lock. *Operations:* `enqueue_alloc`,
`enqueue_submit`, `enqueue_clean`, `dequeue_get`, `dequeue_release`, inside the
elements EnqueueReserve, EnqueueSubmit, DequeueGet, DequeueRelease, which take
the lock and, if blocking, try again. *Interaction:* the sides share nothing but
flag and pad. *Hard:* the lock is dropped before the entry is filled or read, so
submits and releases come in any order; flag and pad are two stores; a slot
released to be cleaned waits for the enqueuer to come by. *Correct when:* a slot
is one thread's at a time, the queue is a bounded FIFO, cleaning keeps up, and
blocking calls end.

**Custom queue** (`floem/queue.py` L346-812). *State:* entries with a status
byte, an offset for each side, no lock. *Operations:* enqueue and dequeue, each
generated in four variants (blocking or not, atomic or not). *Hard:* the atomic
variants use CAS on two words, and the offset read first may be stale by the
time the status is changed. *Correct when:* as above; in which variants the
order is kept is a question in itself.

**Smart queue** (`queue_smart.py`, `smart_queue_compile.py`). A compiler pass
that turns a queue of typed messages into a default queue; it decides the entry
size, which live fields travel, whether entries are cleaned, and the gap that
enqueuers must leave to a thread that feeds the queue it empties.

**NIC queue calls and the queue synchronisation layer**
(`include_cavium/floem-queue.c`, `floem-queue-manage.c`, `doc/runtime.md`).
*State:* the ring in host memory, a copy of it on the NIC cut into segments with
`status`, `min`, `max`, `commit_max` and `count`; `read_ready`, `write_ready`,
the two segments where writing starts and finishes. *Operations:*
`smart_dma_read` ("is this entry ready?") and `smart_dma_write` ("I am done with
it") by any core, `smart_dma_manage` by a manager core: complete writes,
complete reads, prefetch, advance `write_ready`, start writes. *Interaction:*
through DMA with the host, whose CPU runs the default queue on the same ring.
*Hard:* the manager and the cores share all of this without a lock; a segment is
counted, scanned and written in parts; DMA transfers overlap with all of it.
*Correct when:* each entry crosses to the NIC and back, each time once.

**DMA wrappers** (`floem-dma.c`): completion words, batched reads, a count of
users for each word.

### Caches

`include/cache.h` (CPU), `include_cavium/floem-cache.c` (NIC), the elements of
`floem/cache.py`. *State:* buckets of `BUCKET_NITEMS` item pointers with a
replacement index and a lock; in the packet, `state->cache_item`. *Operations:*
`cache_get`, `cache_put`, `cache_put_or_get`, `cache_delete`, `cache_release`;
the composite elements for a get and for a set, write-back or write-through,
allocating on a miss or not. *Interaction:* the elements sit around the
program's own queries of its store. *Hard:* a get that hits and an eviction keep
the bucket locked beyond the call, until the item is released at the end of the
packet's path; a miss drops the lock for the query; the NIC gives up on a lock
after ten tries. *Correct when:* each lock taken is given back once, a bucket
has one item for a key, no item leaks, and cache and store together are one map.

**Smart cache** (`cache_smart.py`, `cache_smart_compile.py`). A program marks
where the query of a get and of a set begin and end; the pass puts the composites
there, bypasses the queue between NIC and CPU for hits, writes evicted items back
through a channel of its own, and releases items at the end of each path.
*Hard:* the order of the connections it makes decides what runs first, and all of
it works on one per-packet state.

### Applications

**Storm** (`apps/storm`). A DCCP-like congestion control between workers
(`main_dccp.py`): *state* for each worker `cwnd`, `pipe`, `seq`, `lastack`, and
one retransmission timer for all; *operations* DccpCheckCongestion and
DccpSeqTime on the way out, DccpSendAck and DccpRecvAck on the way in. *Hard:*
several tx and rx threads, one CAS and otherwise plain loads and stores; packets
and acks that are lost and reordered; numbers that wrap. *Correct when:* the
window bounds what is in flight, never closes for good, and every ack is
processed to its end. The tasks themselves (spout, count, rank) are one thread
each.

**Memcached**, ten programs: on the CPU alone (`memcached_cpu_only`: `main.py`,
`main_cache.py`, `main_no_steering.py`, `main_no_steering_cache.py`), split between
CPU and NIC (`memcached_split`: `main.py`, `main_optimized.py` and its `_nosteer` and
`_nosmart` variants), on the NIC alone (`memcached_nic_only`) and with a
cache (`memcached_cached`). *State of a request:* the buffer it came in, a
buffer for the answer, a reference to an item of the log, an entry of a queue.
*Hard:* each of these is taken in one segment and given back in another, the
thread on the other side of a queue runs meanwhile, and an element is written
without knowing what the compiler sends along. *Correct when:* everything read
was written for this request, nothing is used after it was given back, nothing
is left over, and a request gets one answer. Some variants have an item log of
segments with reference counts (`ialloc.c`).

**Storm programs**, five: the tasks on the CPU, with the network on the CPU or the
NIC, with and without a bypass for local tuples, and with the counter task on the
NIC. **Parameter server** (`server.py`, `request.py`) and **benchmarks**
(`benchmarks*`): smaller programs of the same kind.

### Compiler

`dsl.py`, `graph.py`, `graph_ir.py`, `desugaring.py`, `codegen*.py`,
`pipeline_state*.py`, `smart_queue_compile.py`, `join_handling.py`,
`thread_allocation.py`: passes over the element graph, sequential and without state
that outlives the compilation. *Operations:* connections become forks in the order
they were made; definitions and uses of each element's code are collected; liveness
is propagated backwards, across queues; a field within a field that travels anyway
is dropped; an entry gets what is left; a program is refused if a field is live
where a packet's state is made. *Hard:* a field assigned on some paths counts as
defined, one read in an output block does not count as used, a branch of a fork
writes into the state of the next. *Correct when:* a compiled program behaves as
its author can read it from the graph. Thread allocation also generates a
one-place buffer with an `avail` flag between two threads, and joins wait for
several inputs; no application has either.

## What is modelled

| code | module | promises (abstract specification) | instances | theorems |
|---|---|---|---|---|
| `include/queue.h`, queue_default in `queue.py` | CpuQueue | FifoQueue | MCCpuQueue | CpuQueueProofs, RingFacts |
| queue_custom in `queue.py` | CustomQueue | FifoQueue, BagQueue | MCCustomQueue | CustomQueueProofs, RingFacts |
| `floem-queue-manage.c`, its users in `floem-queue.c` | SmartDma | EntryRing | MCSmartDma | SmartDmaProofs |
| `cache.h`, `floem-cache.c`, `cache.py` | Cache | KeyValue | MCCache | CacheProofs, CacheMapProofs |
| `apps/storm/main_dccp*.py`, congestion control | Dccp | | MCDccp | DccpProofs |
| elements and net.py as data | Elements | | | |
| `desugaring.py`, `pipeline_state.py`, `smart_queue_compile.py` | FlowCompiler | | | |
| `cache_smart.py`, `cache_smart_compile.py` | SmartCache | | | |
| the generated functions, one request through a program | FlowRun | | MCFlowRun | FlowProofs |
| what a compiled graph says about its runs | FlowLabels | | MCFlowRun | FlowProofs |
| the Memcached programs | MemcachedCpuOnly, MemcachedNoSteering, MemcachedSplit, MemcachedOptimized, MemcachedNosteer, MemcachedNosmart, MemcachedNicOnly, MemcachedCached, MemcachedSmartCache, MemcachedSmartCacheNic | | MCFlowRun | |
| the Storm programs | Storm, StormNic, StormCpuBypass, StormNicBypass, StormNicCounter | | MCFlowRun | |
| the parameter server, the benchmarks | ParameterServer, Benchmarks | | MCFlowRun | |
Each of the concurrent modules holds the state, one action per step of the code that other threads
can tell apart, the specification, and the properties. The ways a component can
be set up (blocking, atomic, policy, number of threads) are a constant set
(`Modes`, `Policies`) from which `Init` picks one for the rest of the behaviour:
that is how the code is generated, once per program. Definitions named `Mut...`
are plausible bugs; no action uses them, and each is there to show that a
property would notice it.
**CpuQueue.** Offsets in bytes are slot numbers. `flag`, `pad`, `data` are the
slots; `enqOff`, `cleanOff`, `deqOff` the offsets; `epc`/`dpc` where a thread is
in EnqueueReserve..EnqueueSubmit or DequeueGet..DequeueRelease, `ebuf`/`dbuf`
its `q_buffer`. Stores another thread can see are separate steps
(`SubmitFlag` before `SubmitPad`, `Unpad` before `Free`), and so are the loads of
what the other side stores (`LoadPad` before `DeqReady`, the two halves of
`flag |= FLAG_INUSE`); stores to a side's own offset, made under its lock, go
with the flag they belong to. A dequeuer that polls a slot another one still holds
loads the pad byte of the slot's last use, and takes the next entry at its
`FLAG_OWN`; the pad and checksum stores of `enqueue_submit` (`SubmitPad`,
`SubmitSum`) then land while the entry is read, or later, in a slot that is free or
someone else's. So an entry counts as submitted by its flag alone (`Submitted`),
and is its enqueuer's until then (`Unsubmitted`). The checksum has no effect on
anything a CPU reads. `CheckSlot` is the code's `while(offset > len)`; the byte one past the
storage is read as free or as occupied, either way. A looping thread
(`Recirculate`) enqueues before it releases what it has dequeued.
**CustomQueue.** Each label of `epc`/`dpc` is a point between two atomic
operations of the generated C; the CAS of the offset that is repeated until it
succeeds is its one successful try. An entry is given a name that no slot has,
so that a duplicate or a loss shows.
**SmartDma.** Entries are addressed 1..N, the last segment may be shorter.
An entry is `ready`, `done` or `busy` as seen from the NIC, so that one module
serves a Dequeue on the NIC and an Enqueue on it. The manager's loop is `mpc`:
writing, reading, prefetch (two segments), update, exe, each with one action for
each branch of the C function. Cores read `write_ready` and `read_ready` in two
steps (`torn_reads`), count an entry after they have set its flag
(`late_counts`), and the scan of flags may run (`slow_writes`). The DMA engine
moves entries one by one in any order, interleaved with everything. The CPU at
the other end claims in order and gives in any order, as CpuQueue does. `use` is
a history variable for the refinement.
**Cache.** `pc` is the element the packet is at. A cache call is one step: it
runs under the bucket lock it takes. What the model keeps apart is what happens
between the calls, which is where the lock travels: `lock` holds the process
that has it, `cache_item` is `state->cache_item`, `evicted` the item's bits
(1 dirty, 2 evicted). `GiveUp` is the NIC's ten failed tries, with what the
request had by then. `live` counts allocations. `seen` is auxiliary, for the
refinement.
**Dccp.** Each store to a shared field is a step of its own, and so is each load
whose value another thread may have changed since the last one. `seq`, `pipe`
and the halving of `cwnd` are atomic in the code. `RecvAck` loads `lastack` and
`pipe` once for the tests at its head, as the compiler may: no store or atomic
operation comes between them, and the subtraction that follows uses the value
tested. Time is replaced by `expired`: every write of
`retrans_timeout` puts it in the future, and `Expire` lets it pass. How long the
timeout is (`link_rtt`, its doubling) is left out: each DccpSeqTime sets it back,
and no property is about its length. A lost packet is one that is never
received; acks carry the number of their packet and arrive in any order.
`SeqMod` stands for 2^24 and `InitCwnd` for 4. `mode.nic` picks the versions for the
NIC, where `pipe` is read again after the subtraction, the loop over `cwnd` reads it
in each round, and the increase of `cwnd` is atomic.
**Elements, and the program modules.** A program is data: its elements, the
per-packet state, its queues and the chains its `impl()` connects. An element is a
record of what its C code does to the state and to the buffers it is handed (fields
read, fields read where the compiler does not look, fields assigned on each way out,
what it acquires, gives back, overwrites, passes on), and which kinds of request can
take each way out. The bytes of a message and what is computed from them are left out.
A variant of a program is written as the program it varies, with the elements and
chains that differ.
**FlowCompiler.** The passes as operators: `Targets` (forks in the order of the
connections), `Defs` and `Uses` (what `collect_defs_uses` sees, including what it gets
wrong), `LiveAt` (liveness through the queues), `FilterLive`, `EntryFields`, and
`Accepted` (the assertion of `pipeline_state.py` L557). `Compile` tabulates them
for a program. They are recursive functions over the acyclic graph.
**SmartCache.** `WithCache` is `cache_pass`: it takes a program with its marks and
returns the one with the composites of `cache.py` wired in, the queue cut out of a
hit's way, and the channels and releases the pass adds. What the composites do in
detail, and with other requests at the same time, is Cache.
**FlowRun.** `prog` and `code` are the program and what the compiler makes of it;
`kind` is what the request is. A flow is a thread at work on one per-packet state,
with the calls it has yet to make (`todo`, depth first, as generated C functions call
each other, then what `run_order` adds). `by` is who wrote each field, `to` where a
pointer leads. `Run` is one element; `Enqueue` copies the live fields into an entry,
following a pointer with a size and sharing one without; `Dequeue` makes a flow of
an entry, with the fields restored; `Return` releases the entry when the flow is done;
`Scan` is what cleans an entry on the enqueuer's side. Flows interleave at each
element. `held` counts what the request has acquired, `wiped` says that a buffer now
holds the answer.
**FlowLabels.** No code of its own: conditions on the graph of a compiled program, each
between an instance and those it calls, for every path at once. `SuppliesNeeds` is about
what has to be written before an instance is called, which is the liveness of
`pipeline_state.py` with the reads it does not see and with what an entry really carries;
`OrdersWrites` about the instances a field may have been written by; `CountsAnswers`
about the answers sent by an instance and all it leads to. `IsClosed` says that calls
lead to instances. `Needs`, `Additions`, `Findings` and `Answers` compute the least
labels of a given program.
### Refinement
* `FifoQueue`: reserve in order, fill in any order, take from the front, release
  in any order, with a capacity. CpuQueue maps the slots from `deqOff` up to
  `enqOff` to cells; CustomQueue does the same with the fronts corrected for a
  thread that has a slot which its offset does not show yet.
* `BagQueue`: the same without the order.
* `EntryRing`: host, offered, nic, done, host again, with the cursor of the NIC.
  SmartDma implements it without copies, segments or DMA.
* `KeyValue`: one map; a set takes effect once between its arrival and its
  answer, a get answers with a value its key had meanwhile. Cache maps it to the
  item where there is one, the victim in a request's hand, else the store.
## Runs
All instances are small enough to be explored completely, each in at most four
minutes with two workers.
| run | module, cfg | what it shows | bounds |
|---|---|---|---|
| CpuQueue | MCCpuQueue, `CpuQueue.cfg` | IInv, ExclusiveEntries, FlagAssertions, CleanFindsSlot, ImplementsFifo, EntriesAreDequeued, BlockedEnqueueProgresses | 2 slots, 2 enqueuers, 2 dequeuers, 2 payloads; non-blocking with cleaning, blocking, blocking with a looping thread and a gap of 1 |
| CpuQueueLoop | MCCpuQueue, `CpuQueueLoop.cfg` | LoopedEntriesAreEnqueued is violated | 3 slots, one looping thread, one outside |
| CustomQueue | MCCustomQueue, `CustomQueue.cfg` | IInv, ExclusiveEntries, ImplementsFifo, ImplementsBag, WaitingEnqueueProgresses, EntriesAreTaken | 2 entries, all 16 pairs of variants, 2 threads on an atomic side, 3 names for entries |
| SmartDma | MCSmartDma, `SmartDma.cfg` | TypeOK, LocalWorkIsKept, OnlyDoneIsWritten, CountsWithinSegment, ImplementsRing | four modes: 4 segments of 1 entry, 2 cores, torn reads and late counts, a Dequeue and an Enqueue on the NIC; 9 entries in segments of 2 (the last of 1), 2 cores, at most 2 entries given at a time, late counts or partial writes |
| SmartDmaLive | MCSmartDma, `SmartDmaLive.cfg` | GivenComesBack | 4 segments of 1 entry, 1 core |
| SmartDmaLate | MCSmartDma, `SmartDmaLate.cfg` | CountsWithinSegment is violated | 4 segments of 1 entry, late counts and partial writes together |
| SmartDmaLap | MCSmartDma, `SmartDmaLap.cfg` | ClaimedIsKept is violated | 8 entries in segments of 2, written in parts, an Enqueue on the NIC (all of the ring out at first) |
| Cache | MCCache, `Cache.cfg` | TypeOK, LockGoesWithItem, OneItemPerKey, NothingLeaks, CleanIsStored, IsOneMap | 2 requests at a time, 3 keys in one bucket of 2 items, 2 values, five policies: steered requests with write-back (CPU, NIC) and write-through (with and without allocation), and two requests racing for two keys |
| CacheStale | MCCache, `CacheStale.cfg` | SetsAreKept is violated | 2 requests, 2 keys in one bucket of 1 item |
| Dccp | MCDccp, `Dccp.cfg` | TypeOK, PipeWithinWindow, NegativeIsClamped, SendsGoOn, AcksEnd | six modes: 2 tx threads; 2 rx threads; both again in the NIC's version; a wrap of the numbers; two workers under one timer; 2 to 4 packets to a worker |
| Programs | MCFlowRun, `Programs.cfg` | TypeOK, FieldsAreWritten, NothingIsDangling, RequestIsIntact, AllIsGivenBack, IsAnswered, NoBranchInterferes; of the graphs, GraphSuppliesNeeds and GraphCountsAnswers | 26 programs, one request of each kind the program can be sent |
| Eviction | MCFlowRun, `Eviction.cfg` | NoBranchInterferes is violated | the two programs with a smart cache, a get that puts a dirty item out |
Why these bounds are enough for the questions asked:
* *Queues.* With as many threads as slots, or more, each slot is contended, the
  ring fills, empties and wraps, and a thread can be a full lap behind: that is
  every relation the CASes and flags distinguish, late pad bytes in free, refilled and
  taken slots included. Three names over two slots leave
  one for the entry that comes next to those inside the queue.
* *SmartDma.* Four segments is the least `create_dma_circular_queue` accepts and
  the tightest for the two-segments-behind rules. Segments of one entry make
  every pointer move cross a border; segments of two with a shorter last one
  make parts, and `outstanding` (for a Dequeue, how many entries are given and not
  returned) keeps that instance finite in practice without keeping any pointer from
  going round. The code always has late counts and the scan; here they are on together
  only in SmartDmaLate, because together they break the count, and parts are written
  with more than a ring less one segment out only in SmartDmaLap, because then entries
  are written twice (findings). So what SmartDma says of segments written in parts it
  says of few entries out, two of nine, and of counts in time; `PartsApart` is that
  condition, part of `OnlyDoneIsWritten`.
  SmartDmaLive has segments of one entry, written whole, without the scan.
* *Cache.* Two items and three keys in a bucket give hits, evictions and
  refills; there is one bucket, since requests of two buckets do not meet, and the
  proofs are for any number. Two
  requests are the least for every race the code has between a lock and its
  release. Values and two of the keys are symmetric.
* *Dccp.* `max_sent` bounds the packets and with it `seq`; three or four is past
  two windows of `InitCwnd = 1`. `SeqMod = 3` makes the numbers wrap within them.
* *Programs.* A request is followed alone, with every interleaving of the flows it
  is split into and every outcome its elements have (no buffer, no item, a queue that
  is full). Requests share the runtime's structures, which the other modules are
  about, and nothing of the per-packet state. A Storm program has one
  executor of each sort rather than all of them, and the parameter server allocates
  for two of its eight workers. `GraphSuppliesNeeds` and `GraphCountsAnswers` look at a
  program's graph, before its first step: they are the hypotheses of the theorems about
  FlowRun, checked for the programs there are. The first leaves out the two with a smart
  cache (`PathDependent`). Their graphs have paths that no packet takes, on which fields
  are missing, and a branch that saves fields and brings them back, so that it takes the
  runs to tell.

Programs leaves out, in MCFlowRun, what would end in a disagreement already known,
so that everything else is checked: a packet to drop in Storm and in the
parameter worker, a set in `main_optimized_nosmart.py`, a failed set on the host in
`memcached_cached`, and a dirty eviction or an empty value in the smart cache. Each
is explained under [findings](#findings).

Deadlock is checked in every run but Programs and Eviction, whose behaviours end when
the request has been served; that it has been served well is `AllIsGivenBack` and
`IsAnswered`. The bounds are `MaxItems`, `LiveCap`,
`outstanding` and `max_sent`.

What restricts two of the cache properties: `CleanIsStored` and `IsOneMap` hold
where a key's requests do not run at the same time (the programs steer packets
to cores by key: `keys` in a policy), or where every key has room. Outside that,
CacheStale shows what goes wrong; `LockGoesWithItem`, `OneItemPerKey`,
`NothingLeaks` need no such restriction. The theorems
([proofs](#proofs)) ask for the same, for room only with write-back.

What CustomQueue shows about order: with a blocking atomic side, two threads a
lap apart may wait for the same entry and overtake each other, so such a queue
is a bag and not a FIFO (`InOrder` says which variants are FIFOs).

## Fairness

* CpuQueue: weak fairness of each thread's steps after an element has handed it
  something. Nothing makes elements produce entries. Segments are threads that
  loop for ever, so each is scheduled; the operating system's mutex is only
  required to be taken by someone (`FairSpec`), so the promise to blocked
  enqueuers is that one of them gets an entry. `FairLockSpec`, used by
  CpuQueueLoop alone, adds strong fairness for the lock: the counterexample
  there must not rest on an unfair lock.
* CustomQueue: weak fairness of each thread; without locks, a thread that spins
  may lose every race, and the progress property again asks for one winner.
* SmartDma: the manager core loops for ever, the engine completes what it is
  given, the cores poll and finish what they hold, the CPU goes on giving
  entries. The last is an assumption on the program, needed because a tail that
  fills no segment is only written back when the scan runs.
* Cache, CacheStale: none. A request that waits for a lock is not promised to get
  it. That whoever has it comes to its release follows from `LockGoesWithItem`: the
  holder is at one of five places of its path, none of which waits for anything, and
  a lock that was kept would end in the deadlock TLC looks for.
* Programs, Eviction: none; nothing there is about what must happen in the end
  other than when everything has returned.
* Dccp: time goes on (`Expire`), an rx thread that has taken an ack goes on with
  it, some tx thread goes on, and of the tuples that pass the window some get a
  buffer and a number in the end (strong fairness of `DccpSeqTime`, since
  `NoBuffer` may drop any one of them). Nothing is assumed about the network: no
  packet and no ack ever has to arrive. Under this, `SendsGoOn` says that some
  worker is sent all it is to be sent; with one timer for all workers, the
  packets to one push the timeout of the other ahead, so nothing is promised for
  each.

## Proofs

The theorems hold for every value of the constants that the named assumptions
in the modules allow; these assumptions say no more than that sizes are
positive, that `NULL`-like values are not members of the sets they stand apart
from, that a side without a lock (or without CAS) has one thread, that write-back
goes with write-allocate and a smart DMA ring has at least four segments (both are
checked in the code), and that the bounds `MaxItems` and `LiveCap` are above what
there can be. TLC evaluates them in each run.

Of the properties of the passing runs, all that are about safety are theorems, apart
from four of FlowRun (`TypeOK`, `NothingIsDangling`, `RequestIsIntact`,
`AllIsGivenBack`), the two conditions on the graphs of the given programs, and, for
SmartDma, the modes that write segments in parts.
A refinement is proved with the mapping TLC checks it with: the first state maps to a
first state, every step to a step or a stutter.

**CpuQueueProofs.** `QueueInvariant == Spec => []IInv` for every ring size, any
sets of enqueuers and dequeuers (looping threads are in both) and every mode.
`ExclusiveEntries` and `FlagAssertions` are not inductive: that nobody else has
the slot an enqueuer takes follows from its flag, so the invariant ties each
place of each thread to the flag of the slot in its hand
(`EnqueuersHold`, `DequeuersHold`) and to who has the locks (`Locked`, which makes
the test of a flag and the store after it one thread's). None of this rests on the
pad bytes, which may be stale when read and late when stored; of them the invariant
says only that a submitted entry without its pad byte has a submitter about to store
one (`PadsFollow`), or no dequeuer would ever take it. `EntriesAreExclusive`,
`AssertionsHold`, `QueueTypes` and `PadBytesFollow` follow. `CleaningKeepsUp` (`CleanFindsSlot`)
needs one more conjunct, `FreeRun`: with cleaning, the free slots are exactly
those from `enqOff` up to `cleanOff` round the ring (all or none if the two are
equal), and without cleaning no slot is ever marked to be cleaned.

`QueueIsFifo` (`ImplementsFifo`) adds where the entries are. The entries between the
sides are those of a run of slots from `deqOff` up to `enqOff` (`PendingRun`), and
one that is not submitted yet has an enqueuer that will submit it
(`PendingHaveWriters`): it is filled, for FifoQueue, when `FLAG_OWN` is stored. RingFacts carries this from slots to sequences: a run of `k`
slots from `o` on (`Run`) is all different slots while `k <= n`, what is read from it
(`Reads`) loses its head when `o` moves by one and gains a last when `k` does. Each
step is then a FifoQueue step or none: the allocation appends, `DequeueGet` takes the
head, a release takes an entry out of a hand.

**CustomQueueProofs.** `CustomInvariant == Spec => []IInv` and
`CustomEntriesAreExclusive`, for all sixteen pairs of variants. The invariant
says what status an entry has while a thread has marked, copies into or reads it
(`Marks`); offsets appear only in `TypeOK`, which is the point: exclusion rests
on the status alone, however old the offset a CAS works with.

`CustomIsABag` (`ImplementsBag`) follows from that invariant in all variants: which
slots are inside and in whose hands is read off the status and the places of the
threads. `CustomIsFifo` (`ImplementsFifo`) is for the variants of `InOrder` and needs
the order of the slots. The fronts the mapping corrects are the slots the two sides will
really use next; the pending slots are a run between them (`PendingRun`), and an
offset a CAS has read is either still the current one, so that the CAS wins, or has
moved on for good (`OffsetsKept`). RingFacts serves here too.

**CacheProofs.** `CacheInvariant == Spec => []LockInv`, with `LockInv` the types,
`OneItemPerKey` and `LockGoesWithItem`, for every number of requests, keys,
buckets and items to a bucket, and every policy, including any steering of keys.
The two need each other: that an eviction's victim is in no bucket is
`OneItemPerKey` a step before, and that a release unlocks its own bucket is
`LockGoesWithItem` for the whole path of a packet. `CacheLockGoesWithItem` and
`CacheOneItemPerKey` follow. Proofs go element by element, as `Step` does.
`CacheTypes` and `CacheNothingLeaks` add the count of
allocations. `LeakInv` says that in every policy what can be reached, filled slots and
victims in a hand, is at most `live`, so no item is freed twice; where no policy
lets go of items the two are equal. That `live` stays below its bound rests on
`CacheLiveCap`: slots and requests are finitely many, and `LiveCap` is no less than
they can hold.

`CacheCleanIsStored`, `CacheIsOneMap` and `CacheKeepsSets` hold under one of two
conditions, which are on the policy alone. `Steered`: the requests of one key go to
one process. `Roomy`: with write-back, no bucket is asked for more keys than it has
items, whoever asks. For `Steered` the strengthening `Fresh` is about the way of a
request in between calls: from a miss to the fill the key is in no bucket and no
request has it as a victim, and the value found is still the store's; in a
write-through set the key is in no bucket from the delete to the put, and from the
write on the set has the store's value. For `Roomy` it is `NoneIsEvicted`: a bucket
has only keys that are asked for, so one that a key of its own is missing from has an
empty slot (by the pigeonhole principle), no request ever has a victim, and the store never changes.

`CacheIsOneMap` (in CacheMapProofs) is the refinement of KeyValue. Besides, a get has seen
the value its key has (`SeenInv`), a dirty victim that has been written to the store is
there (`VictimStored`), and with room a get that found nothing has seen the store's
value (`SeenStored`). Then a hit, a fill and an answer are the steps of the map they
should be, and an eviction, a write of a victim and a free leave the map as it is. The
five policies of run Cache all meet one of the two conditions. `CacheKeepsSets` is
the property that CacheStale finds violated: under either condition it holds, so what
CacheStale shows takes both requests that race for a key and an eviction.

**SmartDmaProofs.** `SmartDmaTypes` is for every mode; with `TypeOK` it keeps that a
part to write has a start and an end in its segment (`Starts`). The rest is for rings
whose segments are written back whole (`Whole`, the scan does not run), Dequeue or Enqueue,
for every number of entries, segment size and number of cores, with torn reads
and late counts. `write_ready` is then always at the beginning of a segment, and seen
from there the ring is a line of whole segments (`Rotated`). By their distance from it
(`Dist`) entries are taken by a core, ready for one, or away, in this order. `EntryOK` says
what each copy of an entry is in each of the three, and while its segment is read or
written; `SegOK` what a segment's state, bounds and place say of each other; `PlacesOK`
that `q->offset` is between the two pointers and `read_ready` out of the segment before
`write_ready`; `CountsOK` that a segment's count is the number of its entries taken,
done and not about to be counted. These together are `WholeInv` (`WholeInvariant`). Then
`SmartDmaKeepsWork`: a read is only of a segment that is away. `SmartDmaWritesDone`: only
a segment counted to its full is given to be written. `SmartDmaCounts`: the count is
of a subset of the segment. `SmartDmaIsRing` (`ImplementsRing`) takes a step of the
manager for a stutter, a core's and the CPU's for the steps of EntryRing.

**DccpProofs.** `DccpInvariant == Spec => []DccpInv`, with `DccpInv` the types,
`Held` (what each thread carries between two steps) and `Room`.
`PipeWithinWindow` is not kept by `CountAndSend` on its own, since a thread adds
to `pipe` without looking at it. `Room` counts the threads that will still add
one without looking (`Through`) for each bound `b` no less than the widest window
so far: `pipe` and those threads together stay within `b + tx - 1`. It is kept
because a thread joins `Through` only when the `pipe` it saw was below the window.
From it `DccpWindow` follows for any number of tx and rx threads, workers and
packets, and any loss and order, in the versions for the CPU and for the NIC. `DccpTypes` says that `cwnd` never falls below
one whatever races with its halving; `DccpClamped` that `pipe` is negative only while a
thread is about to set it to zero.

**FlowProofs.** Programs looks at twenty-six given programs, one at a time. The theorems
are for every program: they take a condition on the graph of the
compiled program and conclude something of every run of it, with flows that
interleave at each element, entries taken in any order or dropped, and elements that
leave by any way open to them. No step looks at a whole path; what a path has behind it or
ahead of it is in the label of the instance it has come to. All three
rest on `Placed`: whatever is to be called, queued or cleaned is an instance or a channel of
the program.

* `SuppliedFieldsAreWritten` (`FieldsAreWritten`), from `SuppliesNeeds`. The
  invariant `FieldsSupplied` says that the state of a flow has, for each call it has yet
  to make, the fields its label asks for, or one they are within, and an entry
  those of the instances behind its queue. A step may add fields and drop those
  within a field it assigns, but then that field covers them.
* `OrderedBranchesDoNotInterfere` (`NoBranchInterferes`), from `OrdersWrites`. The
  invariant `WritesOrdered` bounds who may have written what there is. What a call may find is
  what its caller leaves and what the calls before it in `todo` may add, so the
  invariant is about each call of a flow together with all those before it.
* `CountedIsAnswered` (`IsAnswered`), from `CountsAnswers`. The invariant
  `AnswersBalance` says that the answers sent and those still owed by the calls of all
  flows, by the entries in the queues and by the used entries that wait to be cleaned
  add up to what the program has for the request, or to less once it gave up for want of a
  buffer or of room. `Total` is a recursive function, and what it gives
  for a sequence that is longer, shorter or changed in one place is shown by induction over
  the natural numbers (`NatSets`, from the library's well-foundedness of `<`).

Run Programs shows that the programs, as MCFlowRun takes them, meet the hypotheses: all
26 those of the last, 24 those of the first two. For `memcached_smart_cpu` and `memcached_smart_nic`
fields and branches are only model-checked; Eviction finds an interference just
there.

Only model-checked:

* *Liveness*: all of it; fairness and ENABLED are beyond the prover.
* *SmartDma with segments written in parts* (`slow_writes`), but for its types. In
  its generality it does not hold: with late counts `CountsWithinSegment` is violated
  (SmartDmaLate), and when nearly all of a ring is out, entries are written again that
  have been given back (SmartDmaLap). What would be proved is a theorem under the bound of
  `PartsApart`, which nothing in the code states; SmartDma checks it below that bound.
* *FlowRun's pointers* (`NothingIsDangling`, `RequestIsIntact`, `AllIsGivenBack`).
  What a pointer leads to, and whether it is null, goes with the path taken; a label per
  instance would have to merge paths that differ in this and say too little. `TypeOK` has
  bounds that are those of the given programs.
* *The labels of a given program* (`GraphSuppliesNeeds`, `GraphCountsAnswers`): what
  FlowCompiler and FlowLabels compute is recursion over its graph. That the compiler's
  passes find labels for every program they accept cannot be a theorem: the assertion at
  `pipeline_state.py` L557 lets through what the findings below tell of Storm.

## Findings

Five runs end in a violation. Each checks something the code, its comments, its
tests or the documentation say of the program.

* **CpuQueueLoop** (`include/queue.h` L173). `while(offset > len)` lets
  `offset + gap = len` stand, and the gap test reads the flag byte one slot past
  the storage. If that byte reads as free, the slot meant for the looping thread
  is given away and it waits for ever for the entries it would have to dequeue
  itself. With `>=` the run finds nothing.
* **SmartDmaLate** (`floem-queue-manage.c` L342). A core sets an entry's flag
  before it counts the entry; the scan goes by flags, may complete the segment
  and zero its count in between, and the late increment is then counted towards
  the next lap. The segment is handed back one entry early there, and the code's
  own check `seg->count > entries` fires.
* **SmartDmaLap** (`floem-queue-manage.c` L314). When `write_ready` enters a segment
  its `min` is set to the segment's start, also when a part of that segment was written
  and given back in the lap before and the rest has yet to be written. The write of the
  rest then carries the returned part too, over entries that the CPU has taken: the
  assertion of `dequeue_release` (`queue.h` L256) that their flag is still what
  `dequeue_get` made it would fail. It takes all of the ring but that part to be out;
  a queue that the NIC fills begins so. A CPU that gives at most a ring less one segment
  (`PartsApart`) does not meet it.
* **CacheStale** (`cache.py` L728). A get that misses queries the store without
  the lock and fills the cache with the answer, also when a set of the key, and
  the eviction of its item, have come in between: later gets return the value
  from before the set.
* **Eviction** (`cache.py` L506). When a get's fill puts a dirty item out, Evict
  assigns the victim's key, value and hash to the packet's state before EvictSave reads
  them: what it keeps as "original key, val" (the comment at L546) is the victim's, and
  that is what EvictRevert brings back. The get is then answered with the victim's key
  and value.

What the programs taught beyond that. Each of these is a place where one of the
properties of Programs would not hold; MCFlowRun keeps the request from going there:

* *Storm, all five programs.* A packet that Classifier drops goes to the element that
  frees `state->rx_pkt`, which nothing has assigned on that way. The compiler's
  assertion (`pipeline_state.py` L557) does not see it, since an assignment on one
  way out counts as a definition.
* *Parameter worker* (`parameter_server/request.py` L280). The filtered packet goes to
  a drop without FromNetFree, against the rule of `doc/library-of-elements.md` L487: its
  buffer is never freed.
* *`main_optimized_nosmart.py`.* On the way of a set that fails the request is read in
  its buffer after the answer has been written there (`RequestIsIntact`).
* *`memcached_cached`.* Where a set fails on the host, the reference dropped is
  that of a field nobody wrote.
* *Smart cache.* A set with an empty value makes CacheSet fail, and the request is
  dropped without an answer.

And what the models leave to be seen, without a property that speaks of it:
`kills.intersect` (`pipeline_state.py` L528) is no method of a Python set, and is
called where an element before a join has several ways out; `if id:` (`cache_smart_compile.py` L25) takes channel 0 for none; two programs
under `benchmarks_param_update` (`main_nic.py`, `main_nic2.py`) are refused by the
assertion of L557; Storm acknowledges a tuple before an enqueue that may drop it, and
does not send again a tuple that the congestion check dropped; the parameter server
adds every parameter of a message to the first (`server.py` L158). In CpuQueue a late
`pad` or `checksum` store of `enqueue_submit` (`queue.h` L210-219) may land in a slot
that another thread has by then, and leave a pad byte set in a free slot. For queues
between CPU threads nothing comes of it: no CPU reads the checksum, and a pad byte without
`FLAG_OWN` is not enough for `dequeue_ready_var`.

Dccp has one more that no line of the repository speaks of: the loop at
`main_dccp.py` L311-317 retries its compare-and-swap with the value of `cwnd`
from before the loop (`main_dccp_nic.py` reads it again). The thread spins until
`cwnd` happens to have that value; two rx threads can keep each other there for
good. `AcksEnd` promises the end of an ack with exactly this exception.

## Not modelled

* *NIC variants of the custom queue* (`queue.py`, the branches for Cavium with
  and without DMA_CACHE) and the variants of `floem-queue.c` that read host memory
  themselves. What they do to a packet's state is in the Storm programs.
* *DMA wrappers.* SmartDma takes a DMA for a transfer that completes, entry by
  entry. That is all the manager relies on, and it is the wrappers' to provide.
* *The scheduling of several queues* on a manager core and its statistics; each
  queue is managed on its own.
* *Entries that straddle two segments.* A segment's size is made a multiple of
  `overlap`, the size of the largest entry, and the entries of the model have one
  size; the branches for an entry across two segments are not modelled.
* *Chains behind a bucket's last slot* on the NIC: nothing fills them.
* *Joins and buffers between threads* (`join_handling.py`, `thread_allocation.py`
  L290-423): no application has one.
* *Smart cache with write-through, or with keys and values as arguments of the
  elements*: other branches of the pass, which no application takes. The elements
  they would wire in are in Cache.
* *Code generation and the headers of the network and of shared memory*: printing, and
  calls into DPDK, sockets and POSIX.
* *The item log and the hash table of Memcached*, beyond the references a request
  takes and drops.
* *Storm's tasks, the rounds of the parameter server, the load generators*
  (`benchmarks*/request.py`)*, the mock-ups*: single-threaded computations, test
  drivers, sketches.
* *Several requests at a time in one program.* FlowRun follows one; what requests
  share is in the other modules.
* *Weak memory.* Steps are sequentially consistent, in program order. The CPU
  side is x86, where stores are not reordered with stores; the NIC side has
  fences (`__SYNC` in `floem-queue-manage.c`) where it publishes.

## Plan

Done, in this order: CpuQueue with FifoQueue; CustomQueue with BagQueue; SmartDma
with EntryRing; Cache with KeyValue; Dccp in both versions; their
invariants and the refinements of the four that have one proved; the compiler with
the smart cache; the programs of Memcached, Storm, the parameter server and the
benchmarks; the labels of a graph and what they promise of the runs.

Next, models:

1. *Item log* (`ialloc.c`): segments, the free list, `freed` counted by several
   cores, a segment that `ia->cleaning` still points to after it has been freed and
   given to another core. Property: a segment is freed once, when nothing in it is
   referenced.
2. *Rounds of the parameter server*: groups of parameters that are lost and sent
   again, the bitmap of Aggregate. Property: each worker counts once in a round.
3. *DMA wrappers* (`floem-dma.c`): completion words found by search, batched
   reads that share one and release it by count. Property: a word is one batch's
   at a time and comes back. Then SmartDma's engine becomes its client.
4. *Buffers between threads* (`thread_allocation.py` L290-423): `avail` flags, a
   reader that waits for all its buffers, a writer that waits for its own. Property: no
   value is lost or read twice; which graphs stop.
5. *NIC variants of CustomQueue*, as further modes, with the two-step claim that
   the generated code marks as a TODO.

Next, proofs, in order of what they would add:

1. SmartDma with segments written in parts, under the bound on the entries out that
   keeps a lap from coming round (see above), with counts in time: `PlacesOK` has to
   let `write_ready` be inside a segment.
2. FlowRun's resources for any program: labels that say who has a buffer, an item or an
   entry to give back, one for each set of paths that agree on it, so that
   `AllIsGivenBack` and `NothingIsDangling` become theorems as the fields have.
3. The models above, as they come.
