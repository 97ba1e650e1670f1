--------------------------- MODULE SmartDmaProofs ---------------------------
(***************************************************************************)
(* A queue of the NIC whose segments are written back whole never loses    *)
(* work, writes back only finished entries and passes each entry across    *)
(* and back once, for every ring and segment size and number of cores.     *)
(***************************************************************************)
EXTENDS SmartDma, FiniteSetTheorems, WellFoundedInduction, TLAPS

-----------------------------------------------------------------------------
(* Segments.                                                               *)

\* Multiples of k are k apart.
LEMMA MultiplesApart ==
  ASSUME NEW k \in Nat \ {0}, NEW a \in Nat, NEW b \in Nat, a < b
  PROVE  a * k + k <= b * k
<1>1. PICK c \in Nat : b = a + 1 + c
  <2>1. b - a - 1 \in Nat /\ b = a + 1 + (b - a - 1)
    OBVIOUS
  <2> QED BY <2>1
<1>2. b * k = a * k + k + c * k
  BY <1>1
<1>3. c * k \in Nat /\ a * k \in Nat
  OBVIOUS
<1> QED BY <1>2, <1>3

\* Dividing by k is finding the multiple of k below.
LEMMA Quotient ==
  ASSUME NEW k \in Nat \ {0}, NEW x \in Nat
  PROVE  /\ x \div k \in Nat
         /\ (x \div k) * k <= x /\ x < (x \div k) * k + k
         /\ \A q \in Nat : q * k <= x /\ x < q * k + k => x \div k = q
<1>1. x \div k \in Nat /\ (x \div k) * k <= x /\ x < (x \div k) * k + k
  OBVIOUS
<1>2. ASSUME NEW q \in Nat, q * k <= x, x < q * k + k PROVE x \div k = q
  <2> DEFINE p == x \div k
  <2>1. p \in Nat /\ p * k <= x /\ x < p * k + k
    BY <1>1
  <2> HIDE DEF p
  <2>2. p * k \in Nat /\ q * k \in Nat
    BY <2>1
  <2>3. ~(p < q)
    BY <1>2, <2>1, <2>2, MultiplesApart
  <2>4. ~(q < p)
    BY <1>2, <2>1, <2>2, MultiplesApart
  <2>5. p = q
    BY <2>1, <2>3, <2>4
  <2> QED BY <2>5 DEF p
<1> QED BY <1>1, <1>2

\* How many segments of k entries, the last one maybe of fewer, n entries make.
LEMMA SegmentCount ==
  ASSUME NEW n \in Nat, NEW k \in Nat \ {0}, n >= 4 * k
  PROVE  /\ (n - 1) \div k \in Nat /\ (n - 1) \div k >= 3
         /\ \A s \in 0 .. (n - 1) \div k : s * k \in 0 .. n - 1
         /\ \A e \in 1 .. n : (e - 1) \div k \in 0 .. (n - 1) \div k
<1> DEFINE q == (n - 1) \div k
<1>1. n - 1 \in Nat /\ 3 * k <= n - 1
  OBVIOUS
<1>2. q \in Nat /\ q * k <= n - 1 /\ n - 1 < q * k + k
  BY <1>1, Quotient
<1> HIDE DEF q
<1>3. ASSUME NEW s \in Nat, s * k <= n - 1 PROVE s <= q
  <2>1. SUFFICES ASSUME q < s PROVE FALSE
    BY <1>2
  <2>2. q * k + k <= s * k
    BY <1>2, <2>1, MultiplesApart
  <2>3. q * k \in Nat /\ s * k \in Nat
    BY <1>2
  <2> QED BY <1>1, <1>2, <1>3, <2>2, <2>3
<1>4. q >= 3
  BY <1>1, <1>3
<1>5. ASSUME NEW s \in 0 .. q PROVE s * k \in 0 .. n - 1
  <2>1. s \in Nat /\ s * k \in Nat /\ q * k \in Nat
    BY <1>2
  <2>2. s < q => s * k + k <= q * k
    BY <1>2, <2>1, MultiplesApart
  <2>3. s = q => s * k = q * k
    OBVIOUS
  <2>4. s * k <= n - 1
    BY <1>1, <1>2, <2>1, <2>2, <2>3
  <2> QED BY <1>1, <2>1, <2>4
<1>6. ASSUME NEW e \in 1 .. n PROVE (e - 1) \div k \in 0 .. q
  <2> DEFINE r == (e - 1) \div k
  <2>1. e - 1 \in Nat /\ r \in Nat /\ r * k <= e - 1
    BY Quotient
  <2> HIDE DEF r
  <2>2. r * k <= n - 1
    <3>1. r * k \in Nat
      BY <2>1
    <3> QED BY <1>1, <2>1, <3>1
  <2>3. r \in 0 .. q
    BY <1>2, <1>3, <2>1, <2>2
  <2> QED BY <2>3 DEF r
<1> QED BY <1>2, <1>4, <1>5, <1>6 DEF q

\* The ring is cut into segments: an entry is of the segment that begins at or
\* before it and ends after it.
SegmentFacts ==
  /\ N \in Nat /\ N >= 4 /\ K \in Nat \ {0} /\ S \in Nat /\ S >= 4
  /\ Addr(0) = 1
  /\ \A s \in Segs : /\ Addr(s) \in Entries /\ SegOf(Addr(s)) = s
                     /\ Addr(s) < AddrMax(s) /\ AddrMax(s) \in 2 .. N + 1
                     /\ NextSeg(s) = IF s = S - 1 THEN 0 ELSE s + 1
                     /\ AddrMax(s) = IF s = S - 1 THEN N + 1 ELSE Addr(s + 1)
  /\ \A e \in Entries : /\ SegOf(e) \in Segs
                        /\ Addr(SegOf(e)) <= e /\ e < AddrMax(SegOf(e))
  /\ \A e \in Entries, s \in Segs : Addr(s) <= e /\ e < AddrMax(s) => SegOf(e) = s
  /\ \A e, f \in Entries : e <= f => SegOf(e) <= SegOf(f)

SegmentsOfModes == mode \in Modes => SegmentFacts

\* The division of the addresses makes such segments, whatever n and k.
LEMMA SegmentsAre == SegmentsOfModes
<1> SUFFICES ASSUME mode \in Modes PROVE SegmentFacts
  BY DEF SegmentsOfModes
<1>1. PICK n, k : n = N /\ k = K
  OBVIOUS
<1>2. n \in Nat /\ k \in Nat \ {0} /\ n >= 4 * k /\ n >= 4
  BY <1>1, DmaModes DEF N, K
<1>3. PICK q : q = (n - 1) \div k
  OBVIOUS
<1>4. /\ q \in Nat /\ q >= 3
      /\ \A s \in 0 .. q : s * k \in 0 .. n - 1
      /\ \A e \in 1 .. n : (e - 1) \div k \in 0 .. q
  BY <1>2, <1>3, SegmentCount
<1>5. S = q + 1 /\ Segs = 0 .. q /\ Entries = 1 .. n /\ S - 1 = q
  BY <1>1, <1>3, <1>4 DEF S, Segs, Entries
<1>6. \A s \in 0 .. q : Addr(s) = 1 + s * k /\ Addr(s) \in 1 .. n
  <2> SUFFICES ASSUME NEW s \in 0 .. q PROVE Addr(s) = 1 + s * k /\ Addr(s) \in 1 .. n
    OBVIOUS
  <2>1. Addr(s) = 1 + s * k
    BY <1>1 DEF Addr
  <2>2. s * k \in 0 .. n - 1
    BY <1>4
  <2> QED BY <1>2, <2>1, <2>2
<1>7. \A e \in 1 .. n : SegOf(e) = (e - 1) \div k /\ SegOf(e) \in 0 .. q
  BY <1>1, <1>4 DEF SegOf
<1>8. \A s \in 0 .. q : /\ AddrMax(s) = IF s = q THEN n + 1 ELSE Addr(s + 1)
                        /\ NextSeg(s) = IF s = q THEN 0 ELSE s + 1
  <2> SUFFICES ASSUME NEW s \in 0 .. q
               PROVE  /\ AddrMax(s) = IF s = q THEN n + 1 ELSE Addr(s + 1)
                      /\ NextSeg(s) = IF s = q THEN 0 ELSE s + 1
    OBVIOUS
  <2>1. AddrMax(s) = IF s = q THEN n + 1 ELSE Addr(s + 1)
    BY <1>1, <1>5 DEF AddrMax
  <2>2. NextSeg(s) = (s + 1) % (q + 1)
    BY <1>5 DEF NextSeg
  <2>3. (s + 1) % (q + 1) = IF s = q THEN 0 ELSE s + 1
    BY <1>4
  <2> QED BY <2>1, <2>2, <2>3
\* The end of a segment is k entries on, or the end of the ring.
<1>9. \A s \in 0 .. q : \A e \in 1 .. n :
        (1 + s * k <= e /\ e < AddrMax(s)) <=> (s * k <= e - 1 /\ e - 1 < s * k + k)
  <2> SUFFICES ASSUME NEW s \in 0 .. q, NEW e \in 1 .. n
               PROVE  (1 + s * k <= e /\ e < AddrMax(s))
                        <=> (s * k <= e - 1 /\ e - 1 < s * k + k)
    OBVIOUS
  <2>0. s * k \in Nat
    BY <1>2
  <2>1. CASE s = q
    <3>1. n - 1 < q * k + k /\ q * k \in Nat
      BY <1>2, <1>3, <1>4, Quotient
    <3>2. AddrMax(s) = n + 1
      BY <1>8, <2>1
    <3> QED BY <1>2, <2>0, <2>1, <3>1, <3>2
  <2>2. CASE s # q
    <3>1. s + 1 \in 0 .. q /\ AddrMax(s) = Addr(s + 1)
      BY <1>4, <1>8, <2>2
    <3>2. AddrMax(s) = 1 + (s + 1) * k
      BY <1>6, <3>1
    <3>3. (s + 1) * k = s * k + k
      BY <1>2
    <3> QED BY <1>2, <2>0, <3>2, <3>3
  <2> QED BY <2>1, <2>2
<1>10. \A e \in 1 .. n : \A s \in 0 .. q :
         SegOf(e) = s <=> Addr(s) <= e /\ e < AddrMax(s)
  <2> SUFFICES ASSUME NEW e \in 1 .. n, NEW s \in 0 .. q
               PROVE  SegOf(e) = s <=> Addr(s) <= e /\ e < AddrMax(s)
    OBVIOUS
  <2>1. e - 1 \in Nat /\ s \in Nat
    OBVIOUS
  <2>2. (e - 1) \div k = s <=> s * k <= e - 1 /\ e - 1 < s * k + k
    BY <1>2, <2>1, Quotient
  <2>3. SegOf(e) = (e - 1) \div k /\ Addr(s) = 1 + s * k
    BY <1>6, <1>7
  <2> QED BY <1>9, <2>2, <2>3
<1>11. \A s \in 0 .. q : SegOf(Addr(s)) = s /\ Addr(s) < AddrMax(s)
  <2> SUFFICES ASSUME NEW s \in 0 .. q PROVE SegOf(Addr(s)) = s /\ Addr(s) < AddrMax(s)
    OBVIOUS
  <2>1. Addr(s) \in 1 .. n /\ Addr(s) = 1 + s * k /\ s * k \in Nat
    BY <1>2, <1>6
  <2>2. Addr(s) < AddrMax(s)
    BY <1>2, <1>9, <2>1
  <2> QED BY <1>10, <2>1, <2>2
<1>12. \A s \in 0 .. q : AddrMax(s) \in 2 .. n + 1
  <2> SUFFICES ASSUME NEW s \in 0 .. q PROVE AddrMax(s) \in 2 .. n + 1
    OBVIOUS
  <2>1. s # q => s + 1 \in 0 .. q
    BY <1>4
  <2>2. Addr(s) \in 1 .. n /\ Addr(s) < AddrMax(s)
    BY <1>6, <1>11
  <2> QED BY <1>2, <1>6, <1>8, <2>1, <2>2
<1>13. ASSUME NEW e \in 1 .. n, NEW f \in 1 .. n, e <= f PROVE SegOf(e) <= SegOf(f)
  <2> DEFINE a == (e - 1) \div k
             b == (f - 1) \div k
  <2>0. e - 1 \in Nat /\ f - 1 \in Nat
    OBVIOUS
  <2>1. /\ a \in Nat /\ a * k <= e - 1
        /\ b \in Nat /\ f - 1 < b * k + k
    BY <1>2, <2>0, Quotient
  <2> HIDE DEF a, b
  <2>2. a * k \in Nat /\ b * k \in Nat
    BY <1>2, <2>1
  <2>3. ~(b < a)
    BY <1>2, <1>13, <2>1, <2>2, MultiplesApart
  <2>4. a <= b
    BY <2>1, <2>3
  <2> QED BY <1>7, <2>4 DEF a, b
<1>14. Addr(0) = 1
  <2>1. Addr(0) = 1 + 0 * k /\ 0 * k = 0
    BY <1>2, <1>4, <1>6
  <2> QED BY <2>1
<1>15. /\ N \in Nat /\ N >= 4 /\ K \in Nat \ {0} /\ S \in Nat /\ S >= 4
       /\ Addr(0) = 1
  BY <1>1, <1>2, <1>4, <1>5, <1>14
<1>16. \A s \in Segs : /\ Addr(s) \in Entries /\ SegOf(Addr(s)) = s
                       /\ Addr(s) < AddrMax(s) /\ AddrMax(s) \in 2 .. N + 1
                       /\ NextSeg(s) = IF s = S - 1 THEN 0 ELSE s + 1
                       /\ AddrMax(s) = IF s = S - 1 THEN N + 1 ELSE Addr(s + 1)
  BY <1>1, <1>5, <1>6, <1>8, <1>11, <1>12
<1>17. /\ \A e \in Entries : /\ SegOf(e) \in Segs
                             /\ Addr(SegOf(e)) <= e /\ e < AddrMax(SegOf(e))
       /\ \A e \in Entries, s \in Segs : Addr(s) <= e /\ e < AddrMax(s) => SegOf(e) = s
  BY <1>5, <1>7, <1>10
<1>18. \A e, f \in Entries : e <= f => SegOf(e) <= SegOf(f)
  BY <1>5, <1>13
<1> QED BY <1>15, <1>16, <1>17, <1>18, Zenon DEF SegmentFacts

-----------------------------------------------------------------------------
(* Numbers.                                                                *)

\* A set of naturals with a bound has a largest element.
LEMMA MaxIs ==
  ASSUME NEW T \in SUBSET Nat, NEW x \in T, NEW b \in Nat, \A y \in T : y <= b
  PROVE  Max(T) \in T /\ \A y \in T : Max(T) >= y
<1> DEFINE Above == {c \in Nat : \A y \in T : y <= c}
<1>1. Above # {} /\ Above \subseteq Nat
  OBVIOUS
<1> HIDE DEF Above
<1>2. PICK c \in Above : \A d \in Above : ~ (<<d, c>> \in OpToRel(<, Nat))
  BY <1>1, NatLessThanWellFounded, WFMin
<1>3. c \in Nat /\ \A y \in T : y <= c
  BY <1>2 DEF Above
<1>4. c \in T
  <2>1. SUFFICES ASSUME c \notin T PROVE FALSE
    OBVIOUS
  <2>2. \A y \in T : y \in Nat /\ y < c
    BY <1>3, <2>1
  <2>3. c - 1 \in Nat /\ \A y \in T : y <= c - 1
    BY <1>3, <2>2
  <2>4. c - 1 \in Above
    BY <2>3 DEF Above
  <2>5. <<c - 1, c>> \in OpToRel(<, Nat)
    BY <1>3, <2>3 DEF OpToRel
  <2> QED BY <1>2, <2>4, <2>5
<1> QED BY <1>3, <1>4 DEF Max

\* Going round the ring once at most, the address wraps once.
LEMMA AdvanceWraps ==
  ASSUME NEW n \in Nat \ {0}, NEW a \in 1 .. n, NEW i \in 0 .. n
  PROVE  1 + ((a - 1 + i) % n) = IF a + i <= n THEN a + i ELSE a + i - n
<1>1. CASE a + i <= n
  <2>1. a - 1 + i \in 0 .. n - 1
    BY <1>1
  <2> QED BY <1>1, <2>1
<1>2. CASE a + i > n
  <2>1. a - 1 + i \in n .. 2 * n - 1
    BY <1>2
  <2> QED BY <1>2, <2>1
<1> QED BY <1>1, <1>2

-----------------------------------------------------------------------------
(* Types.                                                                  *)

\* The mode is fixed, and with it the ring and its segments.
LEMMA ModeFixed ==
  ASSUME UNCHANGED mode
  PROVE  /\ N' = N /\ S' = S /\ Entries' = Entries /\ Segs' = Segs
         /\ ToNic' = ToNic /\ LateCounts' = LateCounts /\ SlowWrites' = SlowWrites
         /\ \A s : /\ Addr(s)' = Addr(s) /\ AddrMax(s)' = AddrMax(s)
                   /\ SegSize(s)' = SegSize(s) /\ NextSeg(s)' = NextSeg(s)
                   /\ SegOf(s)' = SegOf(s)
  BY DEF N, K, S, Entries, Segs, ToNic, LateCounts, SlowWrites, Addr, AddrMax,
         SegSize, NextSeg, SegOf

\* A part to write has a start: of a segment with an end, of one whose write is
\* under way and of the segment that is written next.
Starts ==
  /\ todo \in [Segs -> SUBSET Entries] /\ count \in [Segs -> Nat]
  /\ smin \in [Segs -> Nat] /\ smax \in [Segs -> Nat] /\ commit \in [Segs -> Nat]
  /\ smin[SegOf(writeReady)] # 0
  /\ \A s \in Segs : smax[s] # 0 => smin[s] # 0
  /\ \A s \in Segs : status[s] = "WRITING" => commit[s] # 0

TypeInv == TypeOK /\ Starts

\* The queue as create_dma_circular_queue makes it has the types.
LEMMA TypeInit == Init => TypeInv
<1> SUFFICES ASSUME Init PROVE TypeInv
  OBVIOUS
<1> USE DEF Init
<1>1. SegmentFacts
  BY SegmentsAre DEF SegmentsOfModes
<1>2. 0 \in Segs /\ 1 \in Entries /\ SegOf(1) = 0 /\ Addr(0) = 1
  BY <1>1 DEF SegmentFacts, Segs, Entries
<1>3. \A s \in Segs : smin[s] \in {0} \cup Addr(s) .. AddrMax(s)
  BY <1>1, <1>2 DEF SegmentFacts
<1>4. TypeOK
  BY <1>2, <1>3 DEF TypeOK
<1>5. Starts
  BY <1>2 DEF Starts
<1> QED BY <1>4, <1>5 DEF TypeInv


\* Where the scans of update_read_ready and update_write_ready end.
LEMMA RunsAre ==
  ASSUME TypeInv
  PROVE  /\ \A a \in Entries, i \in 0 .. N :
              /\ Advance(a, i) = IF a + i <= N THEN a + i ELSE a + i - N
              /\ Advance(a, i) \in Entries
         /\ \A s : /\ ReadyRun(s) \in 0 .. N - 1
                   /\ \A i \in 0 .. ReadyRun(s) - 1 : CanPass(Advance(readReady, i), s)
         /\ DoneRun \in writeReady .. AddrMax(SegOf(writeReady))
<1>1. SegmentFacts /\ TypeOK
  BY SegmentsAre DEF TypeInv, TypeOK, SegmentsOfModes
<1>2. \A a \in Entries, i \in 0 .. N :
        /\ Advance(a, i) = IF a + i <= N THEN a + i ELSE a + i - N
        /\ Advance(a, i) \in Entries
  BY <1>1, AdvanceWraps DEF Advance, SegmentFacts, Entries
<1>3. ASSUME NEW s PROVE /\ ReadyRun(s) \in 0 .. N - 1
                         /\ \A i \in 0 .. ReadyRun(s) - 1 : CanPass(Advance(readReady, i), s)
  <2> DEFINE T == {n \in 0 .. N - 1 :
                     \A i \in 0 .. n - 1 : CanPass(Advance(readReady, i), s)}
  <2>1. N \in Nat /\ N >= 4
    BY <1>1 DEF SegmentFacts
  <2>2. 0 \in T /\ T \in SUBSET Nat /\ \A y \in T : y <= N
    BY <2>1
  <2>3. ReadyRun(s) = Max(T)
    BY DEF ReadyRun
  <2>4. Max(T) \in T
    <3> HIDE DEF T
    <3> QED BY <2>1, <2>2, MaxIs
  <2> QED BY <2>3, <2>4
<1>4. DoneRun \in writeReady .. AddrMax(SegOf(writeReady))
  <2> DEFINE end == IF SegOf(readReady) = SegOf(writeReady) /\ writeReady <= readReady
                    THEN readReady ELSE AddrMax(SegOf(writeReady))
             T == {a \in writeReady .. end : \A b \in writeReady .. a - 1 : local[b] = "done"}
  <2>0. /\ writeReady \in Nat /\ readReady \in Nat
        /\ AddrMax(SegOf(writeReady)) \in Nat /\ writeReady < AddrMax(SegOf(writeReady))
        /\ readReady < AddrMax(SegOf(readReady))
    <3>1. writeReady \in Entries /\ readReady \in Entries /\ N \in Nat
      BY <1>1 DEF TypeOK, SegmentFacts
    <3>2. SegOf(writeReady) \in Segs
      BY <1>1, <3>1 DEF SegmentFacts
    <3>3. AddrMax(SegOf(writeReady)) \in 2 .. N + 1
      BY <1>1, <3>2 DEF SegmentFacts
    <3>4. writeReady < AddrMax(SegOf(writeReady)) /\ readReady < AddrMax(SegOf(readReady))
      BY <1>1, <3>1 DEF SegmentFacts
    <3> QED BY <3>1, <3>3, <3>4 DEF Entries
  <2>1. PICK w, m : w = writeReady /\ m = AddrMax(SegOf(writeReady))
    OBVIOUS
  <2>2. PICK d : d = end
    OBVIOUS
  <2>3. w \in Nat /\ m \in Nat /\ d \in w .. m
    BY <2>0, <2>1, <2>2
  <2>4. w \in T /\ T \in SUBSET Nat /\ \A y \in T : y <= d
    <3>1. T = {a \in w .. d : \A b \in w .. a - 1 : local[b] = "done"}
      BY <2>1, <2>2
    <3> QED BY <2>3, <3>1
  <2>5. DoneRun = Max(T)
    BY DEF DoneRun
  <2>6. Max(T) \in T
    <3>1. d \in Nat
      BY <2>3
    <3> HIDE DEF T, end
    <3> QED BY <3>1, <2>4, MaxIs
  <2>7. Max(T) \in w .. d
    BY <2>1, <2>2, <2>6
  <2> HIDE DEF T, end
  <2> QED BY <2>1, <2>3, <2>5, <2>7
<1> QED BY <1>2, <1>3, <1>4

\* The cores, the CPU and the engine keep the types.
LEMMA TypeOthers ==
  ASSUME TypeInv, UNCHANGED mode,
         \/ HostClaim \/ \E e \in Entries : HostGive(e)
         \/ \E s \in Segs : DmaRead(s) \/ DmaWrite(s)
         \/ ReadStep \/ \E e \in Entries : SetDone(e) \/ CountDone(e)
  PROVE  TypeInv'
<1>1. SegmentFacts /\ TypeOK /\ Starts
  BY SegmentsAre DEF TypeInv, TypeOK, SegmentsOfModes
<1>2. /\ Entries' = Entries /\ Segs' = Segs
      /\ \A s : Addr(s)' = Addr(s) /\ AddrMax(s)' = AddrMax(s) /\ SegOf(s)' = SegOf(s)
  BY ModeFixed
<1>3. \A a \in Entries : Advance(a, 1) \in Entries
  BY <1>1, RunsAre DEF SegmentFacts
<1>4. \A e \in Entries : SegOf(e) \in Segs
  BY <1>1 DEF SegmentFacts
<1>5. CASE HostClaim
  BY <1>1, <1>2, <1>3, <1>5 DEF HostClaim, TypeInv, TypeOK, Starts, segVars, ringVars,
     orderVars, workerVars
<1>6. CASE \E e \in Entries : HostGive(e)
  BY <1>1, <1>2, <1>6 DEF HostGive, TypeInv, TypeOK, Starts, segVars, ringVars,
     orderVars, workerVars
<1>7. CASE \E s \in Segs : DmaRead(s)
  BY <1>1, <1>2, <1>7 DEF DmaRead, TypeInv, TypeOK, Starts, hostVars, segVars, ringVars,
     orderVars, workerVars
<1>8. CASE \E s \in Segs : DmaWrite(s)
  BY <1>1, <1>2, <1>8 DEF DmaWrite, TypeInv, TypeOK, Starts, hostVars, segVars, ringVars,
     orderVars, workerVars
<1>9. CASE ReadStart
  BY <1>1, <1>2, <1>9 DEF ReadStart, TypeInv, TypeOK, Starts, hostVars, segVars,
     ringVars, orderVars
<1>10. CASE ReadHit
  BY <1>1, <1>2, <1>3, <1>10 DEF ReadHit, Checks, TypeInv, TypeOK, Starts, hostVars,
     segVars, ringVars, orderVars
<1>11. CASE ReadMiss
  BY <1>1, <1>2, <1>11 DEF ReadMiss, Checks, TypeInv, TypeOK, Starts, hostVars, segVars,
     ringVars, orderVars
<1>12. CASE ReadInvalidate
  BY <1>1, <1>2, <1>4, <1>12 DEF ReadInvalidate, Checks, TypeInv, TypeOK, Starts,
     hostVars, segVars, ringVars, orderVars
<1>13. CASE \E e \in Entries : SetDone(e)
  BY <1>1, <1>2, <1>4, <1>13 DEF SetDone, TypeInv, TypeOK, Starts, hostVars, segVars,
     ringVars, orderVars, workerVars
<1>14. CASE \E e \in Entries : CountDone(e)
  BY <1>1, <1>2, <1>4, <1>14 DEF CountDone, TypeInv, TypeOK, Starts, hostVars, segVars,
     ringVars, orderVars, workerVars
<1> QED BY <1>5, <1>6, <1>7, <1>8, <1>9, <1>10, <1>11, <1>12, <1>13, <1>14 DEF ReadStep


\* The manager core keeps the types.
LEMMA TypeManager ==
  ASSUME TypeInv, UNCHANGED mode, ManagerStep
  PROVE  TypeInv'
<1>1. SegmentFacts /\ TypeOK /\ Starts
  BY SegmentsAre DEF TypeInv, TypeOK, SegmentsOfModes
<1>2. /\ Entries' = Entries /\ Segs' = Segs
      /\ \A s : Addr(s)' = Addr(s) /\ AddrMax(s)' = AddrMax(s) /\ SegOf(s)' = SegOf(s)
  BY ModeFixed
<1>3. \A e \in Entries : SegOf(e) \in Segs
  BY <1>1 DEF SegmentFacts
<1>4. \A s \in Segs : NextSeg(s) \in Segs /\ NextSeg(s) # s
  <2>1. S \in Nat /\ S >= 4
    BY <1>1 DEF SegmentFacts
  <2>2. \A s \in Segs : NextSeg(s) = IF s = S - 1 THEN 0 ELSE s + 1
    BY <1>1 DEF SegmentFacts
  <2> QED BY <2>1, <2>2 DEF Segs
<1>5. \A s : Advance(readReady, ReadyRun(s)) \in Entries
  <2>1. \A s : ReadyRun(s) \in 0 .. N
    BY <1>1, RunsAre DEF SegmentFacts
  <2> QED BY <1>1, <2>1, RunsAre DEF TypeOK
<1>6. \A s \in Segs : /\ Addr(s) \in Entries /\ Addr(s) \in Addr(s) .. AddrMax(s)
                      /\ AddrMax(s) \in Addr(s) .. AddrMax(s) /\ AddrMax(s) # 0
                      /\ Addr(s) \in Nat \ {0} /\ AddrMax(s) \in Nat
                      /\ Addr(s) .. AddrMax(s) - 1 \subseteq Entries
                      /\ SegOf(Addr(s)) = s
  BY <1>1 DEF SegmentFacts, Entries
<1>7. /\ writeReady \in Addr(SegOf(writeReady)) .. AddrMax(SegOf(writeReady))
      /\ readReady \in Addr(SegOf(readReady)) .. AddrMax(SegOf(readReady))
      /\ writeReady \in Nat \ {0} /\ readReady \in Nat \ {0}
  <2>1. writeReady \in Entries /\ readReady \in Entries
    BY <1>1 DEF TypeOK
  <2>2. \A e \in Entries : Addr(SegOf(e)) <= e /\ e < AddrMax(SegOf(e))
    BY <1>1 DEF SegmentFacts
  <2> QED BY <1>3, <1>6, <2>1, <2>2 DEF Entries
<1>8. CASE WrittenAll
  <2>1. TypeOK'
    BY <1>1, <1>2, <1>4, <1>7, <1>8 DEF WrittenAll, TypeOK, Starts, hostVars, ringVars,
       workerVars
  <2>2. Starts'
    BY <1>1, <1>2, <1>7, <1>8 DEF WrittenAll, TypeOK, Starts, ringVars, workerVars
  <2> QED BY <2>1, <2>2 DEF TypeInv
<1>9. CASE WrittenPart
  <2>1. TypeOK'
    BY <1>1, <1>2, <1>9 DEF WrittenPart, TypeOK, Starts, hostVars, ringVars, orderVars,
       workerVars
  <2>2. Starts'
    BY <1>1, <1>2, <1>9 DEF WrittenPart, TypeOK, Starts, ringVars, workerVars
  <2> QED BY <2>1, <2>2 DEF TypeInv
<1>10. CASE WrittenNone \/ ReadNone \/ PrefetchNone \/ UpdateNone \/ ExeNone
  BY <1>1, <1>2, <1>10 DEF WrittenNone, ReadNone, PrefetchNone, PrefetchNext, UpdateNone,
     ExeNone, TypeInv, TypeOK, Starts, hostVars, segVars, ringVars, orderVars, workerVars
<1>11. CASE ReadAll
  BY <1>1, <1>2, <1>5, <1>11 DEF ReadAll, TypeInv, TypeOK, Starts, hostVars, segVars,
     orderVars, workerVars
<1>12. CASE ReadPart
  BY <1>1, <1>2, <1>5, <1>12 DEF ReadPart, TypeInv, TypeOK, Starts, hostVars, segVars,
     orderVars, workerVars
<1>13. CASE Prefetch
  <2>1. PrefetchSeg \in Segs
    BY <1>1, <1>3, <1>4 DEF PrefetchSeg, TypeOK
  <2>2. \A s \in Segs : ReadFrom(s) .. AddrMax(s) - 1 \subseteq Addr(s) .. AddrMax(s) - 1
    BY <1>6, <1>7 DEF ReadFrom
  <2>3. todo' \in [Segs -> SUBSET Entries]
    BY <1>1, <1>6, <1>13, <2>1, <2>2 DEF Prefetch, Starts
  <2>4. TypeOK'
    BY <1>1, <1>2, <1>13, <2>1, <2>2 DEF Prefetch, PrefetchNext, TypeOK, Starts, hostVars,
       segVars, ringVars, orderVars, workerVars
  <2> QED BY <1>1, <1>2, <1>13, <2>3, <2>4 DEF Prefetch, TypeInv, TypeOK, Starts, segVars,
       ringVars
<1>14. ASSUME NEW s \in Segs, s = SegOf(writeReady), LeaveSeg(s),
              UNCHANGED <<hostVars, local, status, todo, commit, readReady, orderVars,
                          workerVars, uncounted, use>>
       PROVE  TypeInv'
  <2>1. TypeOK'
    BY <1>1, <1>2, <1>4, <1>6, <1>14 DEF LeaveSeg, TypeOK, Starts, hostVars, orderVars,
       workerVars
  <2>2. Starts'
    BY <1>1, <1>2, <1>4, <1>6, <1>14 DEF LeaveSeg, TypeOK, Starts
  <2> QED BY <2>1, <2>2 DEF TypeInv
<1>15. CASE UpdateFast
  BY <1>1, <1>3, <1>14, <1>15 DEF UpdateFast, TypeOK
<1>16. CASE UpdateSlow
  <2> DEFINE s == SegOf(writeReady)
  <2>0. s \in Segs
    BY <1>1, <1>3 DEF TypeOK
  <2>1. CASE DoneRun = AddrMax(s)
    BY <1>14, <1>16, <2>0, <2>1 DEF UpdateSlow
  <2>2. CASE DoneRun # AddrMax(s)
    <3>1. /\ writeReady' = DoneRun /\ smax' = [smax EXCEPT ![s] = DoneRun] /\ mpc' = "exe"
          /\ UNCHANGED <<smin, count, hostVars, local, status, todo, commit, readReady,
                         orderVars, workerVars, uncounted, use>>
      BY <1>16, <2>2 DEF UpdateSlow
    <3>2. PICK d : d = DoneRun
      OBVIOUS
    <3>3. d \in writeReady .. AddrMax(s)
      BY <3>2, RunsAre
    <3>4. d \in Addr(s) .. AddrMax(s) - 1 /\ d # 0
      BY <1>6, <1>7, <2>0, <2>2, <3>2, <3>3
    <3>5. d \in Entries /\ SegOf(d) = s
      BY <1>1, <1>6, <2>0, <3>4 DEF SegmentFacts
    <3>6. writeReady' = d /\ smax' = [smax EXCEPT ![s] = d] /\ d \in Addr(s) .. AddrMax(s)
      BY <1>6, <2>0, <3>1, <3>2, <3>4
    <3> HIDE DEF s
    <3>7. TypeOK'
      BY <1>1, <1>2, <2>0, <3>1, <3>5, <3>6 DEF TypeOK, Starts, hostVars, orderVars,
         workerVars
    <3>8. smin'[SegOf(writeReady)'] # 0
      BY <1>1, <1>2, <3>1, <3>5, <3>6 DEF Starts, s
    <3>9. smin[s] # 0 /\ d \in Nat
      BY <1>1, <1>6, <2>0, <3>4 DEF Starts, s
    <3>10. /\ smax' \in [Segs -> Nat]
           /\ \A t \in Segs : smax'[t] # 0 => smin'[t] # 0
      BY <1>1, <2>0, <3>1, <3>6, <3>9 DEF Starts
    <3>11. Starts'
      BY <1>1, <1>2, <3>1, <3>8, <3>10 DEF Starts
    <3> QED BY <3>7, <3>11 DEF TypeInv
  <2> QED BY <2>1, <2>2
<1>17. CASE DoWrite
  <2> DEFINE s == writeStart
  <2>1. /\ s \in Segs /\ commit[s] < smax[s] /\ smin[s] < smax[s]
    BY <1>1, <1>17 DEF DoWrite, MayWrite, TypeOK
  <2>2. /\ smax[s] # 0 /\ smin[s] # 0
    BY <1>1, <2>1 DEF Starts
  <2>3. smin[s] .. smax[s] - 1 \subseteq Addr(s) .. AddrMax(s) - 1
    BY <1>1, <1>6, <2>1, <2>2 DEF TypeOK
  <2>4. todo' \in [Segs -> SUBSET Entries]
    BY <1>1, <1>6, <1>17, <2>1, <2>3 DEF DoWrite, Starts
  <2>5. TypeOK'
    BY <1>1, <1>2, <1>4, <1>17, <2>1, <2>3 DEF DoWrite, TypeOK, Starts, hostVars,
       ringVars, workerVars
  <2>6. Starts'
    BY <1>1, <1>2, <1>17, <2>1, <2>2, <2>4 DEF DoWrite, TypeOK, Starts, ringVars
  <2> QED BY <2>5, <2>6 DEF TypeInv
<1> QED BY <1>8, <1>9, <1>10, <1>11, <1>12, <1>13, <1>15, <1>16, <1>17 DEF ManagerStep

\* Every step keeps the types.
LEMMA TypeStep == ASSUME TypeInv, [Next]_vars PROVE TypeInv'
<1>1. CASE Next
  BY <1>1, TypeOthers, TypeManager DEF Next
<1>2. CASE UNCHANGED vars
  <2>1. UNCHANGED mode
    BY <1>2 DEF vars
  <2>2. /\ Entries' = Entries /\ Segs' = Segs
        /\ \A s : Addr(s)' = Addr(s) /\ AddrMax(s)' = AddrMax(s) /\ SegOf(s)' = SegOf(s)
    BY <2>1, ModeFixed
  <2> QED BY <1>2, <2>2 DEF TypeInv, TypeOK, Starts, vars, hostVars, segVars, ringVars,
       orderVars, workerVars
<1> QED BY <1>1, <1>2

\* Every field stays in its range, in every mode of the queue: no address of a
\* part to write or of write_ready and read_ready leaves its segment, whatever
\* the order of the manager's, the engine's and the cores' steps.
THEOREM SmartDmaTypes == Spec => []TypeOK
<1>1. TypeInv => TypeOK
  BY DEF TypeInv
<1> QED BY <1>1, TypeInit, TypeStep, PTL DEF Spec

-----------------------------------------------------------------------------
(* Segments that are written back whole: SlowWrites = FALSE.  write_ready  *)
(* is then always the beginning of a segment, and seen from there the ring *)
(* has three parts: the entries the cores have taken, up to q->offset, the *)
(* ones that are ready for them, up to read_ready, and the others, away.   *)

Dist(e)  == IF writeReady <= e THEN e - writeReady ELSE e - writeReady + N
Taken(e) == Dist(e) < Dist(cursor)
Ready(e) == Dist(cursor) <= Dist(e) /\ Dist(e) < Dist(readReady)
Away(e)  == Dist(readReady) <= Dist(e)

AtSegment == writeReady = Addr(SegOf(writeReady))

\* From the beginning of a segment on, the ring is a line of whole segments.
Rotated ==
  /\ \A e \in Entries : Dist(e) \in Nat /\ Dist(e) < N
  /\ \A e, f \in Entries : Dist(e) = Dist(f) => e = f
  /\ \A e \in Entries, i \in 0 .. N : Dist(e) + i < N =>
        Advance(e, i) \in Entries /\ Dist(Advance(e, i)) = Dist(e) + i
  /\ \A s \in Segs : /\ SegSize(s) \in Nat \ {0}
                     /\ Dist(Addr(s)) + SegSize(s) <= N
                     /\ IF NextSeg(s) = SegOf(writeReady)
                        THEN Dist(Addr(s)) + SegSize(s) = N
                        ELSE Dist(Addr(NextSeg(s))) = Dist(Addr(s)) + SegSize(s)
  /\ \A e \in Entries : Dist(e) = Dist(Addr(SegOf(e))) + (e - Addr(SegOf(e)))
  /\ \A e \in Entries, s \in Segs :
        SegOf(e) = s <=> Dist(Addr(s)) <= Dist(e) /\ Dist(e) < Dist(Addr(s)) + SegSize(s)

\* When write_ready is at the start of a segment, the ring is such a line.
LEMMA RotatedIs == ASSUME TypeInv, AtSegment PROVE Rotated
<1>1. SegmentFacts /\ TypeOK
  BY SegmentsAre DEF TypeInv, TypeOK, SegmentsOfModes
<1>2. PICK w, W, n, t : w = writeReady /\ W = SegOf(writeReady) /\ n = N /\ t = S
  OBVIOUS
<1>0. Segs = 0 .. t - 1 /\ Entries = 1 .. n
  BY <1>2 DEF Segs, Entries
<1>3. /\ n \in Nat /\ n >= 4 /\ t \in Nat /\ t >= 4
      /\ w \in 1 .. n /\ W \in 0 .. t - 1 /\ w = Addr(W)
  BY <1>0, <1>1, <1>2 DEF SegmentFacts, TypeOK, AtSegment
<1>4. \A e : Dist(e) = IF w <= e THEN e - w ELSE e - w + n
  BY <1>2 DEF Dist
<1>5. /\ Addr(0) = 1
      /\ \A s \in 0 .. t - 1 :
            /\ Addr(s) \in 1 .. n /\ SegOf(Addr(s)) = s
            /\ Addr(s) < AddrMax(s) /\ AddrMax(s) \in 2 .. n + 1
            /\ NextSeg(s) = IF s = t - 1 THEN 0 ELSE s + 1
            /\ AddrMax(s) = IF s = t - 1 THEN n + 1 ELSE Addr(s + 1)
            /\ SegSize(s) = AddrMax(s) - Addr(s)
      /\ \A e \in 1 .. n : /\ SegOf(e) \in 0 .. t - 1
                           /\ Addr(SegOf(e)) <= e /\ e < AddrMax(SegOf(e))
      /\ \A e \in 1 .. n, s \in 0 .. t - 1 :
            Addr(s) <= e /\ e < AddrMax(s) => SegOf(e) = s
      /\ \A e, f \in 1 .. n : e <= f => SegOf(e) <= SegOf(f)
  BY <1>0, <1>1, <1>2, <1>3 DEF SegmentFacts, SegSize
\* A segment lies before or after write_ready as a whole.
<1>6. \A s \in 0 .. t - 1 : IF s < W THEN AddrMax(s) <= w ELSE w <= Addr(s)
  <2> SUFFICES ASSUME NEW s \in 0 .. t - 1
               PROVE  IF s < W THEN AddrMax(s) <= w ELSE w <= Addr(s)
    OBVIOUS
  <2>1. \A r, u \in 0 .. t - 1 : r < u => Addr(r) < Addr(u)
    <3> SUFFICES ASSUME NEW r \in 0 .. t - 1, NEW u \in 0 .. t - 1, r < u, ~(Addr(r) < Addr(u))
                 PROVE  FALSE
      OBVIOUS
    <3>1. Addr(r) \in 1 .. n /\ Addr(u) \in 1 .. n /\ Addr(u) <= Addr(r)
      BY <1>5
    <3>2. u <= r
      BY <1>5, <3>1
    <3> QED BY <3>2
  <2>2. CASE s < W
    <3>1. s # t - 1 /\ s + 1 \in 0 .. t - 1
      BY <1>3, <2>2
    <3>2. AddrMax(s) = Addr(s + 1)
      BY <1>5, <3>1
    <3>3. s + 1 = W \/ s + 1 < W
      BY <1>3, <2>2
    <3>4. Addr(s + 1) = w \/ Addr(s + 1) < w
      BY <1>3, <2>1, <3>1, <3>3
    <3>5. Addr(s + 1) \in 1 .. n
      BY <1>5, <3>1
    <3> QED BY <1>3, <2>2, <3>2, <3>4, <3>5
  <2>3. CASE s = W
    BY <1>3, <2>3
  <2>4. CASE s > W
    <3>1. Addr(W) < Addr(s)
      BY <1>3, <2>1, <2>4
    <3> QED BY <1>3, <1>5, <2>4, <3>1
  <2> QED BY <1>3, <2>2, <2>3, <2>4
<1>7. /\ \A e \in Entries : Dist(e) \in Nat /\ Dist(e) < N
      /\ \A e, f \in Entries : Dist(e) = Dist(f) => e = f
  <2>1. ASSUME NEW e \in 1 .. n PROVE Dist(e) \in Nat /\ Dist(e) < n
    <3>1. Dist(e) = IF w <= e THEN e - w ELSE e - w + n
      BY <1>4
    <3> QED BY <1>3, <3>1
  <2>2. ASSUME NEW e \in 1 .. n, NEW f \in 1 .. n, Dist(e) = Dist(f) PROVE e = f
    <3>1. /\ Dist(e) = IF w <= e THEN e - w ELSE e - w + n
          /\ Dist(f) = IF w <= f THEN f - w ELSE f - w + n
      BY <1>4
    <3>2. (IF w <= e THEN e - w ELSE e - w + n) = (IF w <= f THEN f - w ELSE f - w + n)
      BY <2>2, <3>1
    <3> QED BY <1>3, <3>2
  <2>3. \A e \in 1 .. n : Dist(e) \in Nat /\ Dist(e) < N
    BY <1>2, <2>1
  <2>4. \A e, f \in 1 .. n : Dist(e) = Dist(f) => e = f
    BY <2>2
  <2> QED BY <1>0, <2>3, <2>4
<1>8. ASSUME NEW e \in Entries, NEW i \in Nat, Dist(e) + i < N
      PROVE  Advance(e, i) \in Entries /\ Dist(Advance(e, i)) = Dist(e) + i
  <2>1. i \in 0 .. N /\ e \in 1 .. n
    <3>1. Dist(e) \in Nat /\ N \in Nat
      BY <1>2, <1>3, <1>7
    <3> QED BY <1>0, <1>8, <3>1
  <2>2. PICK a : a = Advance(e, i)
    OBVIOUS
  <2>3. a = IF e + i <= n THEN e + i ELSE e + i - n
    BY <1>2, <2>1, <2>2, RunsAre
  <2>4. a \in Entries
    BY <2>1, <2>2, RunsAre
  <2>5. Dist(e) = IF w <= e THEN e - w ELSE e - w + n
    BY <1>4
  <2>6. Dist(a) = IF w <= a THEN a - w ELSE a - w + n
    BY <1>4
  <2>7. Dist(e) + i < n
    BY <1>2, <1>8
  <2>8. a \in 1 .. n
    BY <1>0, <2>4
  <2>9. Dist(a) = Dist(e) + i
    BY <1>3, <2>1, <2>3, <2>5, <2>6, <2>7, <2>8
  <2> QED BY <2>2, <2>4, <2>9
<1>9. ASSUME NEW s \in Segs
      PROVE  /\ SegSize(s) \in Nat \ {0}
             /\ Dist(Addr(s)) + SegSize(s) <= N
             /\ IF NextSeg(s) = SegOf(writeReady)
                THEN Dist(Addr(s)) + SegSize(s) = N
                ELSE Dist(Addr(NextSeg(s))) = Dist(Addr(s)) + SegSize(s)
  <2>1. /\ s \in 0 .. t - 1 /\ Addr(s) \in 1 .. n /\ AddrMax(s) \in 2 .. n + 1
        /\ Addr(s) < AddrMax(s) /\ SegSize(s) = AddrMax(s) - Addr(s)
        /\ NextSeg(s) = IF s = t - 1 THEN 0 ELSE s + 1
        /\ AddrMax(s) = IF s = t - 1 THEN n + 1 ELSE Addr(s + 1)
        /\ IF s < W THEN AddrMax(s) <= w ELSE w <= Addr(s)
    BY <1>0, <1>5, <1>6
  <2>2. Dist(Addr(s)) = IF s < W THEN Addr(s) - w + n ELSE Addr(s) - w
    BY <1>3, <1>4, <2>1
  <2>3. SegSize(s) \in Nat \ {0} /\ Dist(Addr(s)) + SegSize(s) <= n
    BY <1>3, <2>1, <2>2
  <2>4. CASE s = t - 1
    <3>1. W # 0 => Dist(Addr(0)) = 1 - w + n
      <4>1. W # 0 => 0 < W /\ 0 \in 0 .. t - 1
        BY <1>3
      <4>2. W # 0 => 2 <= AddrMax(0) /\ AddrMax(0) <= w
        BY <1>3, <1>5, <1>6, <4>1
      <4> QED BY <1>3, <1>4, <1>5, <4>2
    <3>2. W = 0 => w = 1
      BY <1>3, <1>5
    <3>3. NextSeg(s) = 0 /\ AddrMax(s) = n + 1 /\ w <= Addr(s)
      BY <1>3, <2>1, <2>4
    <3>4. Dist(Addr(s)) = Addr(s) - w /\ SegSize(s) = n + 1 - Addr(s)
      BY <1>3, <2>1, <2>2, <2>4, <3>3
    <3>5. Dist(Addr(s)) + SegSize(s) = n + 1 - w
      BY <1>3, <2>1, <3>4
    <3>6. IF W = 0 THEN Dist(Addr(s)) + SegSize(s) = n
          ELSE Dist(Addr(0)) = Dist(Addr(s)) + SegSize(s)
      BY <1>3, <3>1, <3>2, <3>5
    <3> QED BY <1>2, <2>3, <3>3, <3>6
  <2>5. CASE s # t - 1
    <3>1. s + 1 \in 0 .. t - 1 /\ AddrMax(s) = Addr(s + 1) /\ NextSeg(s) = s + 1
      BY <1>3, <2>1, <2>5
    <3>2. /\ Addr(s + 1) \in 1 .. n /\ AddrMax(s + 1) \in 2 .. n + 1
          /\ Addr(s + 1) < AddrMax(s + 1)
          /\ IF s + 1 < W THEN AddrMax(s + 1) <= w ELSE w <= Addr(s + 1)
      BY <1>5, <1>6, <3>1
    <3>3. Dist(Addr(s + 1)) = IF s + 1 < W THEN Addr(s + 1) - w + n ELSE Addr(s + 1) - w
      BY <1>3, <1>4, <3>2
    <3>4. s + 1 = W => Addr(s + 1) = w
      BY <1>3
    <3>5. Dist(Addr(s)) + SegSize(s) = IF s < W THEN Addr(s + 1) - w + n ELSE Addr(s + 1) - w
      BY <1>3, <2>1, <2>2, <3>1, <3>2
    <3>6. IF s + 1 = W THEN Dist(Addr(s)) + SegSize(s) = n
          ELSE Dist(Addr(s + 1)) = Dist(Addr(s)) + SegSize(s)
      BY <1>3, <2>1, <3>2, <3>3, <3>4, <3>5
    <3> QED BY <1>2, <2>3, <3>1, <3>6
  <2> QED BY <2>4, <2>5
<1>10. ASSUME NEW e \in Entries
       PROVE  Dist(e) = Dist(Addr(SegOf(e))) + (e - Addr(SegOf(e)))
  <2>1. PICK s \in 0 .. t - 1 : s = SegOf(e)
    BY <1>0, <1>5
  <2>2. /\ e \in 1 .. n /\ Addr(s) \in 1 .. n /\ AddrMax(s) \in 2 .. n + 1
        /\ Addr(s) <= e /\ e < AddrMax(s)
        /\ IF s < W THEN AddrMax(s) <= w ELSE w <= Addr(s)
    BY <1>0, <1>5, <1>6, <2>1
  <2>3. Dist(e) = Dist(Addr(s)) + (e - Addr(s))
    BY <1>3, <1>4, <2>2
  <2> QED BY <2>1, <2>3
<1>11. ASSUME NEW e \in Entries, NEW s \in Segs
       PROVE  SegOf(e) = s <=> Dist(Addr(s)) <= Dist(e) /\ Dist(e) < Dist(Addr(s)) + SegSize(s)
  <2>1. /\ s \in 0 .. t - 1 /\ Addr(s) \in 1 .. n /\ AddrMax(s) \in 2 .. n + 1
        /\ Addr(s) < AddrMax(s) /\ SegSize(s) = AddrMax(s) - Addr(s)
        /\ IF s < W THEN AddrMax(s) <= w ELSE w <= Addr(s)
    BY <1>0, <1>5, <1>6
  <2>2. e \in 1 .. n /\ Dist(e) = IF w <= e THEN e - w ELSE e - w + n
    BY <1>0, <1>4
  <2>3. Dist(Addr(s)) = IF s < W THEN Addr(s) - w + n ELSE Addr(s) - w
    BY <1>3, <1>4, <2>1
  <2>4. SegOf(e) = s <=> Addr(s) <= e /\ e < AddrMax(s)
    BY <1>5, <2>1, <2>2
  <2>5. (Addr(s) <= e /\ e < AddrMax(s))
          <=> Dist(Addr(s)) <= Dist(e) /\ Dist(e) < Dist(Addr(s)) + SegSize(s)
    BY <1>3, <2>1, <2>2, <2>3
  <2> QED BY <2>4, <2>5
<1> QED BY <1>7, <1>8, <1>9, <1>10, <1>11 DEF Rotated


\* q->offset lies between write_ready and read_ready, and read_ready stays out
\* of the segment before write_ready.
PlacesOK ==
  /\ AtSegment
  /\ Dist(cursor) <= Dist(readReady)
  /\ NextSeg(SegOf(readReady)) # SegOf(writeReady)
  /\ smin[SegOf(writeReady)] = writeReady

\* An entry a core has taken is its work until it is written back; one that is
\* ready is so in both copies of the ring; one with work to write back, or still
\* to be read, is away.
EntryOK(e) ==
  /\ Taken(e) => use[e] # "no"
  /\ Ready(e) => local[e] = "ready" /\ use[e] = "no"
  /\ Away(e) /\ use[e] # "no" => use[e] = "done" /\ smax[SegOf(e)] # 0
  /\ local[e] = "ready" => host[e] = "ready"
  /\ use[e] # "no" => host[e] = "ready"
  /\ use[e] = "nic" => local[e] = IF ToNic THEN "ready" ELSE "busy"
  /\ use[e] = "done" => local[e] = "done"
  /\ smax[SegOf(e)] # 0 => /\ Away(e) /\ local[e] = "done"
                           /\ status[SegOf(e)] # "WRITING" => use[e] = "done"
  /\ status[SegOf(e)] = "WRITING" =>
        use[e] = IF e \in todo[SegOf(e)] THEN "done" ELSE "no"
  /\ status[SegOf(e)] = "READING" /\ e \in todo[SegOf(e)] => Away(e)

\* A segment is written back whole, and only the two from read_ready on are read.
SegOK(s) ==
  /\ smax[s] \in {0, AddrMax(s)}
  /\ smax[s] # 0 => smin[s] = Addr(s) /\ status[s] # "READING"
  /\ status[s] = "WRITING" => smax[s] # 0 /\ commit[s] = AddrMax(s)
  /\ status[s] = "READING" => s \in {SegOf(readReady), NextSeg(SegOf(readReady))}

\* What smart_dma_write has counted of a segment.
Counted(s) == {e \in Entries : SegOf(e) = s /\ Taken(e) /\ use[e] = "done" /\ e \notin uncounted}

CountsOK == /\ \A s \in Segs : count[s] = Cardinality(Counted(s))
            /\ \A e \in uncounted : Taken(e) /\ use[e] = "done"

\* The invariant of a queue whose segments are written back whole.
WholeInv ==
  /\ TypeInv /\ PlacesOK /\ CountsOK
  /\ \A e \in Entries : EntryOK(e)
  /\ \A s \in Segs : SegOK(s)

\* The new queue, with all segments to be read, has the invariant.
LEMMA WholeInit == Init => WholeInv
<1> SUFFICES ASSUME Init PROVE WholeInv
  OBVIOUS
<1>1. TypeInv /\ SegmentFacts
  BY TypeInit, SegmentsAre DEF SegmentsOfModes, Init
<1>2. /\ writeReady = 1 /\ readReady = 1 /\ cursor = 1 /\ N \in Nat /\ 1 \in Entries
      /\ 0 \in Segs /\ SegOf(1) = 0 /\ Addr(0) = 1 /\ NextSeg(0) # 0
  <2>1. N \in Nat /\ N >= 4 /\ S \in Nat /\ S >= 4 /\ Addr(0) = 1
    BY <1>1 DEF SegmentFacts
  <2>2. 0 \in Segs /\ 1 \in Entries
    BY <2>1 DEF Segs, Entries
  <2>3. SegOf(Addr(0)) = 0 /\ NextSeg(0) = IF 0 = S - 1 THEN 0 ELSE 0 + 1
    BY <1>1, <2>2 DEF SegmentFacts
  <2> QED BY <2>1, <2>2, <2>3 DEF Init
<1>3. \A e \in Entries : Dist(e) = e - 1 /\ Away(e) /\ ~Taken(e) /\ ~Ready(e)
  BY <1>2 DEF Dist, Away, Taken, Ready, Entries
<1>4. PlacesOK
  BY <1>2 DEF PlacesOK, AtSegment, Init, Dist
<1>5. CountsOK
  <2>1. \A s : Counted(s) = {}
    BY <1>3 DEF Counted
  <2> QED BY <2>1, FS_EmptySet DEF CountsOK, Init
<1>6. \A e \in Entries : SegOf(e) \in Segs
  BY <1>1 DEF SegmentFacts
<1>7. \A e \in Entries : EntryOK(e)
  BY <1>3, <1>6 DEF EntryOK, Init
<1>8. \A s \in Segs : SegOK(s)
  BY DEF SegOK, Init
<1> QED BY <1>1, <1>4, <1>5, <1>7, <1>8 DEF WholeInv

\* What the invariant says of types, segments and the three parts of the ring.
LEMMA WholeFacts ==
  ASSUME WholeInv
  PROVE  /\ SegmentFacts /\ TypeOK /\ Starts /\ Rotated
         /\ \A e \in Entries : SegOf(e) \in Segs /\ EntryOK(e)
         /\ \A s \in Segs : Addr(s) \in Entries /\ SegOf(Addr(s)) = s
         /\ \A e \in Entries : /\ Taken(e) \/ Ready(e) \/ Away(e)
                               /\ ~(Taken(e) /\ Ready(e)) /\ ~(Taken(e) /\ Away(e))
                               /\ ~(Ready(e) /\ Away(e))
<1>1. TypeInv /\ AtSegment /\ TypeOK /\ Starts
  BY DEF WholeInv, PlacesOK, TypeInv
<1>2. SegmentFacts /\ Rotated
  BY <1>1, SegmentsAre, RotatedIs DEF TypeOK, SegmentsOfModes
<1>3. Dist(cursor) \in Nat /\ Dist(readReady) \in Nat /\ Dist(cursor) <= Dist(readReady)
  BY <1>1, <1>2 DEF Rotated, TypeOK, WholeInv, PlacesOK
<1>4. ASSUME NEW e \in Entries
      PROVE  /\ Taken(e) \/ Ready(e) \/ Away(e)
             /\ ~(Taken(e) /\ Ready(e)) /\ ~(Taken(e) /\ Away(e)) /\ ~(Ready(e) /\ Away(e))
  <2>1. Dist(e) \in Nat
    BY <1>2 DEF Rotated
  <2> QED BY <1>3, <2>1 DEF Taken, Ready, Away
<1>5. \A e \in Entries : SegOf(e) \in Segs /\ EntryOK(e)
  BY <1>2 DEF SegmentFacts, WholeInv
<1>6. \A s \in Segs : Addr(s) \in Entries /\ SegOf(Addr(s)) = s
  BY <1>2 DEF SegmentFacts
<1> QED BY <1>1, <1>2, <1>4, <1>5, <1>6

\* A step that moves none of the three pointers moves no part of the ring.
LEMMA PartsFixed ==
  ASSUME UNCHANGED <<mode, writeReady, readReady, cursor>>
  PROVE  \A e : /\ Dist(e)' = Dist(e)
                /\ Taken(e)' = Taken(e) /\ Ready(e)' = Ready(e) /\ Away(e)' = Away(e)
  BY DEF Dist, Taken, Ready, Away, N

\* Nor does it move the places of the pointers.
LEMMA PlacesFixed ==
  ASSUME PlacesOK, UNCHANGED <<mode, writeReady, readReady, cursor>>,
         smin'[SegOf(writeReady)] = smin[SegOf(writeReady)]
  PROVE  PlacesOK'
<1>1. \A s : Addr(s)' = Addr(s) /\ NextSeg(s)' = NextSeg(s) /\ SegOf(s)' = SegOf(s)
  BY ModeFixed
<1>2. AtSegment' /\ Dist(cursor)' <= Dist(readReady)'
  BY <1>1 DEF PlacesOK, AtSegment, Dist, N
<1>3. NextSeg(SegOf(readReady))' # SegOf(writeReady)'
  BY <1>1 DEF PlacesOK
<1>4. smin'[SegOf(writeReady)'] = writeReady'
  BY <1>1 DEF PlacesOK
<1> QED BY <1>2, <1>3, <1>4 DEF PlacesOK

\* One that finishes and takes back no entry of the cores' leaves the counts.
LEMMA CountsFixed ==
  ASSUME CountsOK, UNCHANGED <<mode, writeReady, readReady, cursor, count, uncounted>>,
         uncounted \subseteq Entries,
         \A e \in Entries : Taken(e) => (use'[e] = "done" <=> use[e] = "done")
  PROVE  CountsOK'
<1>1. Entries' = Entries /\ Segs' = Segs /\ \A e : SegOf(e)' = SegOf(e)
  BY ModeFixed
<1>2. \A e : Taken(e)' = Taken(e)
  BY PartsFixed
<1>3. \A s : Counted(s)' = Counted(s)
  BY <1>1, <1>2 DEF Counted
<1> QED BY <1>1, <1>2, <1>3 DEF CountsOK


\* The CPU takes back entries with no work of the NIC left, and gives others.
LEMMA WholeHost ==
  ASSUME WholeInv, TypeInv', UNCHANGED mode,
         HostClaim \/ \E e \in Entries : HostGive(e)
  PROVE  WholeInv'
<1>1. /\ TypeOK /\ PlacesOK /\ CountsOK /\ (\A e \in Entries : EntryOK(e))
      /\ (\A s \in Segs : SegOK(s))
  BY DEF WholeInv, TypeInv
<1>2. /\ UNCHANGED <<mode, local, status, todo, smin, smax, commit, count, readReady,
                     writeReady, cursor, uncounted, use>>
      /\ host' \in [Entries -> {"ready", "claimed", "done", "busy"}]
      /\ \A e \in Entries : host[e] = "ready" => host'[e] = "ready"
  BY <1>1 DEF HostClaim, HostGive, TypeOK, segVars, ringVars, workerVars
<1>3. /\ Entries' = Entries /\ Segs' = Segs /\ ToNic' = ToNic
      /\ \A s : Addr(s)' = Addr(s) /\ AddrMax(s)' = AddrMax(s) /\ SegOf(s)' = SegOf(s)
      /\ \A s : NextSeg(s)' = NextSeg(s)
  BY <1>2, ModeFixed
<1>4. \A e : Taken(e)' = Taken(e) /\ Ready(e)' = Ready(e) /\ Away(e)' = Away(e)
  BY <1>2, PartsFixed
<1>5. PlacesOK'
  BY <1>1, <1>2, PlacesFixed
<1>6. CountsOK'
  BY <1>1, <1>2, CountsFixed DEF TypeOK
<1>7. \A e \in Entries : EntryOK(e)'
  BY <1>1, <1>2, <1>3, <1>4 DEF EntryOK
<1>8. \A s \in Segs : SegOK(s)'
  BY <1>1, <1>2, <1>3 DEF SegOK
<1> QED BY <1>3, <1>5, <1>6, <1>7, <1>8 DEF WholeInv

\* A DMA read copies entries that are away, of a segment with no work in it.
LEMMA WholeDmaRead ==
  ASSUME WholeInv, TypeInv', UNCHANGED mode, NEW s \in Segs, DmaRead(s)
  PROVE  WholeInv'
<1>1. /\ TypeOK /\ Starts /\ PlacesOK /\ CountsOK /\ (\A e \in Entries : EntryOK(e))
      /\ (\A t \in Segs : SegOK(t))
  BY DEF WholeInv, TypeInv
<1>2. PICK f \in todo[s] :
        /\ local' = [local EXCEPT ![f] = IF host[f] = "claimed" THEN "busy" ELSE host[f]]
        /\ todo' = [todo EXCEPT ![s] = @ \ {f}]
  BY DEF DmaRead
<1>3. /\ UNCHANGED <<mode, host, status, smin, smax, commit, count, readReady,
                     writeReady, cursor, uncounted, use>>
      /\ status[s] = "READING"
  BY DEF DmaRead, hostVars, segVars, ringVars, workerVars
<1>4. /\ Entries' = Entries /\ Segs' = Segs /\ ToNic' = ToNic
      /\ \A t : Addr(t)' = Addr(t) /\ AddrMax(t)' = AddrMax(t) /\ SegOf(t)' = SegOf(t)
      /\ \A t : NextSeg(t)' = NextSeg(t)
  BY <1>3, ModeFixed
<1>5. \A e : Taken(e)' = Taken(e) /\ Ready(e)' = Ready(e) /\ Away(e)' = Away(e)
  BY <1>3, PartsFixed
<1>6. PlacesOK'
  BY <1>1, <1>3, PlacesFixed
<1>7. CountsOK'
  BY <1>1, <1>3, CountsFixed DEF TypeOK
<1>8. f \in Entries /\ SegOf(f) = s
  <2>1. f \in Entries /\ f \in Addr(s) .. AddrMax(s) - 1
    BY <1>1 DEF TypeOK, Starts
  <2> QED BY <2>1, WholeFacts DEF SegmentFacts
<1>9. /\ Away(f) /\ ~Taken(f) /\ ~Ready(f)
      /\ smax[s] = 0
  BY <1>1, <1>3, <1>8, WholeFacts DEF EntryOK, SegOK
<1>10. use[f] = "no"
  BY <1>1, <1>8, <1>9 DEF EntryOK
<1>11. \A e \in Entries : EntryOK(e)'
  <2> SUFFICES ASSUME NEW e \in Entries PROVE EntryOK(e)'
    OBVIOUS
  <2>0. EntryOK(e) /\ SegOf(e) \in Segs
    BY <1>1, WholeFacts
  <2>1. CASE e = f
    <3>1. local'[f] = "ready" => host[f] = "ready"
      BY <1>1, <1>2, <1>8 DEF TypeOK
    <3> QED BY <1>3, <1>4, <1>5, <1>8, <1>9, <1>10, <2>1, <3>1 DEF EntryOK
  <2>2. CASE e # f
    <3>1. local'[e] = local[e]
      BY <1>1, <1>2, <2>2 DEF TypeOK
    <3>2. e \in todo'[SegOf(e)] <=> e \in todo[SegOf(e)]
      BY <1>1, <1>2, <2>0, <2>2 DEF Starts
    <3> QED BY <1>3, <1>4, <1>5, <2>0, <3>1, <3>2 DEF EntryOK
  <2> QED BY <2>1, <2>2
<1>12. \A t \in Segs : SegOK(t)'
  BY <1>1, <1>3, <1>4 DEF SegOK
<1> QED BY <1>4, <1>6, <1>7, <1>11, <1>12 DEF WholeInv

\* A DMA write brings back work that is done, and leaves nothing of it.
LEMMA WholeDmaWrite ==
  ASSUME WholeInv, TypeInv', UNCHANGED mode, NEW s \in Segs, DmaWrite(s)
  PROVE  WholeInv'
<1>1. /\ TypeOK /\ Starts /\ PlacesOK /\ CountsOK /\ (\A e \in Entries : EntryOK(e))
      /\ (\A t \in Segs : SegOK(t))
  BY DEF WholeInv, TypeInv
<1>2. PICK f \in todo[s] :
        /\ host' = [host EXCEPT ![f] = local[f]]
        /\ todo' = [todo EXCEPT ![s] = @ \ {f}]
        /\ use' = [use EXCEPT ![f] = IF @ = "done" THEN "no" ELSE @]
  BY DEF DmaWrite
<1>3. /\ UNCHANGED <<mode, local, status, smin, smax, commit, count, readReady,
                     writeReady, cursor, uncounted>>
      /\ status[s] = "WRITING"
  BY DEF DmaWrite, segVars, ringVars, workerVars
<1>4. /\ Entries' = Entries /\ Segs' = Segs /\ ToNic' = ToNic
      /\ \A t : Addr(t)' = Addr(t) /\ AddrMax(t)' = AddrMax(t) /\ SegOf(t)' = SegOf(t)
      /\ \A t : NextSeg(t)' = NextSeg(t)
  BY <1>3, ModeFixed
<1>5. \A e : Taken(e)' = Taken(e) /\ Ready(e)' = Ready(e) /\ Away(e)' = Away(e)
  BY <1>3, PartsFixed
<1>6. PlacesOK'
  BY <1>1, <1>3, PlacesFixed
<1>7. f \in Entries /\ SegOf(f) = s
  <2>1. f \in Entries /\ f \in Addr(s) .. AddrMax(s) - 1
    BY <1>1 DEF TypeOK, Starts
  <2> QED BY <2>1, WholeFacts DEF SegmentFacts
<1>8. smax[s] # 0 /\ use[f] = "done" /\ local[f] = "done" /\ Away(f)
  BY <1>1, <1>3, <1>7 DEF EntryOK, SegOK
<1>9. ~Taken(f) /\ ~Ready(f)
  BY <1>7, <1>8, WholeFacts
<1>10. /\ use'[f] = "no" /\ f \notin todo'[s]
       /\ \A e \in Entries : e # f => /\ use'[e] = use[e] /\ host'[e] = host[e]
                                      /\ e \in todo'[SegOf(e)] <=> e \in todo[SegOf(e)]
  BY <1>1, <1>2, <1>7, <1>8, WholeFacts DEF TypeOK, Starts
<1>11. CountsOK'
  BY <1>1, <1>3, <1>9, <1>10, CountsFixed DEF TypeOK
<1>12. \A e \in Entries : EntryOK(e)'
  <2> SUFFICES ASSUME NEW e \in Entries PROVE EntryOK(e)'
    OBVIOUS
  <2>0. EntryOK(e) /\ SegOf(e) \in Segs
    BY <1>1, WholeFacts
  <2>1. CASE e = f
    BY <1>3, <1>4, <1>5, <1>7, <1>8, <1>9, <1>10, <2>1 DEF EntryOK
  <2>2. CASE e # f
    BY <1>3, <1>4, <1>5, <1>10, <2>0, <2>2 DEF EntryOK
  <2> QED BY <2>1, <2>2
<1>13. \A t \in Segs : SegOK(t)'
  BY <1>1, <1>3, <1>4 DEF SegOK
<1> QED BY <1>4, <1>6, <1>11, <1>12, <1>13 DEF WholeInv


\* smart_dma_read looks at the pointers, or marks a segment to be read again.
LEMMA WholeLook ==
  ASSUME WholeInv, TypeInv', UNCHANGED mode, ReadStart \/ ReadMiss \/ ReadInvalidate
  PROVE  WholeInv'
<1>1. /\ TypeOK /\ PlacesOK /\ CountsOK /\ (\A e \in Entries : EntryOK(e))
      /\ (\A s \in Segs : SegOK(s))
  BY DEF WholeInv, TypeInv
<1>2. /\ UNCHANGED <<mode, host, local, todo, smin, smax, commit, count, readReady,
                     writeReady, cursor, uncounted, use>>
      /\ \A s \in Segs : \/ status'[s] = status[s]
                         \/ status[s] = "VALID" /\ status'[s] = "INVALID"
  BY <1>1 DEF ReadStart, ReadMiss, ReadInvalidate, TypeOK, hostVars, segVars, ringVars
<1>3. /\ Entries' = Entries /\ Segs' = Segs /\ ToNic' = ToNic
      /\ \A s : Addr(s)' = Addr(s) /\ AddrMax(s)' = AddrMax(s) /\ SegOf(s)' = SegOf(s)
      /\ \A s : NextSeg(s)' = NextSeg(s)
  BY <1>2, ModeFixed
<1>4. \A e : Taken(e)' = Taken(e) /\ Ready(e)' = Ready(e) /\ Away(e)' = Away(e)
  BY <1>2, PartsFixed
<1>5. PlacesOK'
  BY <1>1, <1>2, PlacesFixed
<1>6. CountsOK'
  BY <1>1, <1>2, CountsFixed DEF TypeOK
<1>7. \A e \in Entries : EntryOK(e)'
  <2> SUFFICES ASSUME NEW e \in Entries PROVE EntryOK(e)'
    OBVIOUS
  <2>1. EntryOK(e) /\ SegOf(e) \in Segs
    BY WholeFacts
  <2> QED BY <1>2, <1>3, <1>4, <2>1 DEF EntryOK
<1>8. \A s \in Segs : SegOK(s)'
  BY <1>1, <1>2, <1>3 DEF SegOK
<1> QED BY <1>3, <1>5, <1>6, <1>7, <1>8 DEF WholeInv

\* smart_dma_read gives out the entry at q->offset: it is ready, whatever
\* write_ready was when it was looked at.
LEMMA WholeHit ==
  ASSUME WholeInv, TypeInv', UNCHANGED mode, ReadHit
  PROVE  WholeInv' /\ cursor \in Entries /\ Ready(cursor) /\ ~Taken(cursor)
<1>1. /\ TypeOK /\ PlacesOK /\ CountsOK /\ (\A e \in Entries : EntryOK(e))
      /\ (\A s \in Segs : SegOK(s)) /\ Rotated
  BY WholeFacts DEF WholeInv, TypeInv
<1>2. /\ UNCHANGED <<mode, host, status, todo, smin, smax, commit, count, readReady,
                     writeReady, uncounted>>
      /\ use' = [use EXCEPT ![cursor] = "nic"]
      /\ local' = IF ToNic THEN local ELSE [local EXCEPT ![cursor] = "busy"]
      /\ cursor' = Advance(cursor, 1)
  BY DEF ReadHit, hostVars, segVars, ringVars
<1>3. /\ Entries' = Entries /\ Segs' = Segs /\ ToNic' = ToNic
      /\ \A s : Addr(s)' = Addr(s) /\ AddrMax(s)' = AddrMax(s) /\ SegOf(s)' = SegOf(s)
      /\ \A s : NextSeg(s)' = NextSeg(s)
  BY <1>2, ModeFixed
<1>4. cursor \in Entries /\ readReady \in Entries /\ cursor # readReady
  <2>1. PICK seen : seen \in {0} \cup Entries /\ IsReadReady(cursor, seen, readReady)
    BY <1>1 DEF ReadHit, Checks, TypeOK
  <2>2. cursor \in Entries /\ readReady \in Entries
    BY <1>1 DEF TypeOK
  <2>3. cursor \in Nat /\ readReady \in Nat /\ seen \in Nat
    BY <2>1, <2>2 DEF Entries
  <2> QED BY <2>1, <2>2, <2>3 DEF IsReadReady
\* It is before read_ready, so that q->offset does not pass it.
<1>5. PICK c, r, n : c = Dist(cursor) /\ r = Dist(readReady) /\ n = N
  OBVIOUS
<1>6. c \in Nat /\ r \in Nat /\ n \in Nat /\ c < r /\ r < n
  <2>1. c # r /\ c \in Nat /\ r \in Nat /\ r < n /\ n \in Nat
    BY <1>1, <1>4, <1>5, WholeFacts DEF Rotated, SegmentFacts
  <2>2. c <= r
    BY <1>1, <1>5 DEF PlacesOK
  <2> QED BY <2>1, <2>2
<1>7. /\ Dist(cursor') = c + 1
      /\ \A e : Dist(e)' = Dist(e)
  <2>1. 1 \in 0 .. N /\ Dist(cursor) + 1 < N
    BY <1>5, <1>6
  <2>2. Dist(Advance(cursor, 1)) = Dist(cursor) + 1
    BY <1>1, <1>4, <2>1 DEF Rotated
  <2> QED BY <1>2, <1>5, <2>2 DEF Dist, N
<1>8. Dist(cursor)' = c + 1 /\ Dist(readReady)' = r
  <2>1. Dist(cursor)' = Dist(cursor')
    BY <1>2 DEF Dist, N
  <2>2. Dist(readReady)' = Dist(readReady)
    BY <1>2 DEF Dist, N
  <2> QED BY <1>5, <1>7, <2>1, <2>2
<1>9. \A e \in Entries : /\ Taken(e)' <=> Taken(e) \/ e = cursor
                         /\ Ready(e)' <=> Ready(e) /\ e # cursor
                         /\ Away(e)' <=> Away(e)
  <2> SUFFICES ASSUME NEW e \in Entries
               PROVE  /\ Taken(e)' <=> Taken(e) \/ e = cursor
                      /\ Ready(e)' <=> Ready(e) /\ e # cursor
                      /\ Away(e)' <=> Away(e)
    OBVIOUS
  <2>1. Dist(e) \in Nat /\ (Dist(e) = c <=> e = cursor)
    BY <1>1, <1>4, <1>5 DEF Rotated
  <2> QED BY <1>5, <1>6, <1>7, <1>8, <2>1 DEF Taken, Ready, Away
<1>10. Ready(cursor) /\ ~Taken(cursor) /\ ~Away(cursor)
  BY <1>5, <1>6 DEF Ready, Taken, Away
<1>11. local[cursor] = "ready" /\ use[cursor] = "no" /\ host[cursor] = "ready"
  BY <1>1, <1>4, <1>10 DEF EntryOK
<1>12. PlacesOK'
  <2>1. AtSegment' /\ NextSeg(SegOf(readReady))' # SegOf(writeReady)'
    BY <1>1, <1>2, <1>3 DEF PlacesOK, AtSegment
  <2>2. smin'[SegOf(writeReady)'] = writeReady'
    BY <1>1, <1>2, <1>3 DEF PlacesOK
  <2>3. Dist(cursor)' <= Dist(readReady)'
    BY <1>6, <1>8
  <2> QED BY <2>1, <2>2, <2>3 DEF PlacesOK
<1>13. CountsOK'
  <2>1. \A e \in Entries : (Taken(e)' /\ use'[e] = "done") <=> (Taken(e) /\ use[e] = "done")
    BY <1>1, <1>2, <1>4, <1>9, <1>11 DEF TypeOK
  <2>2. \A s : Counted(s)' = Counted(s)
    BY <1>2, <1>3, <2>1 DEF Counted
  <2>3. \A e \in uncounted : Taken(e)' /\ use'[e] = "done"
    BY <1>1, <2>1 DEF CountsOK, TypeOK
  <2> QED BY <1>1, <1>2, <1>3, <2>2, <2>3 DEF CountsOK
<1>14. \A e \in Entries : EntryOK(e)'
  <2> SUFFICES ASSUME NEW e \in Entries PROVE EntryOK(e)'
    OBVIOUS
  <2>0. EntryOK(e) /\ SegOf(e) \in Segs
    BY WholeFacts
  <2>1. CASE e = cursor
    <3>1. use'[e] = "nic" /\ local'[e] = IF ToNic THEN "ready" ELSE "busy"
      BY <1>1, <1>2, <1>4, <1>11, <2>1 DEF TypeOK
    <3>2. smax[SegOf(e)] = 0 /\ status[SegOf(e)] # "WRITING"
      BY <1>1, <1>10, <2>0, <2>1 DEF EntryOK, SegOK
    <3> QED BY <1>2, <1>3, <1>9, <1>10, <1>11, <2>0, <2>1, <3>1, <3>2 DEF EntryOK
  <2>2. CASE e # cursor
    <3>1. use'[e] = use[e] /\ local'[e] = local[e]
      BY <1>1, <1>2, <2>2 DEF TypeOK
    <3> QED BY <1>2, <1>3, <1>9, <2>0, <2>2, <3>1 DEF EntryOK
  <2> QED BY <2>1, <2>2
<1>15. \A s \in Segs : SegOK(s)'
  BY <1>1, <1>2, <1>3 DEF SegOK
<1> QED BY <1>3, <1>4, <1>10, <1>12, <1>13, <1>14, <1>15 DEF WholeInv


\* The counted entries of a segment are finitely many; of one more, the segment
\* counts one more.
LEMMA CountedGrows ==
  ASSUME WholeInv, NEW f \in Entries, f \notin Counted(SegOf(f)),
         count' = [count EXCEPT ![SegOf(f)] = @ + 1],
         \A s \in Segs : Counted(s)' = Counted(s) \cup (IF SegOf(f) = s THEN {f} ELSE {})
  PROVE  \A s \in Segs : count'[s] = Cardinality(Counted(s)')
<1>1. Starts /\ CountsOK
  BY DEF WholeInv, TypeInv
<1>2. ASSUME NEW s PROVE IsFiniteSet(Counted(s))
  <2>1. N \in Nat
    BY WholeFacts DEF SegmentFacts
  <2>2. IsFiniteSet(Entries)
    BY <2>1, FS_Interval DEF Entries
  <2> QED BY <2>2, FS_Subset DEF Counted
<1>3. ASSUME NEW s \in Segs PROVE count'[s] = Cardinality(Counted(s)')
  <2>1. count[s] = Cardinality(Counted(s)) /\ count[s] \in Nat
    BY <1>1 DEF CountsOK, Starts
  <2>2. CASE SegOf(f) = s
    <3>1. Cardinality(Counted(s) \cup {f}) = Cardinality(Counted(s)) + 1
      BY <1>2, <2>2, FS_AddElement
    <3>2. count'[s] = count[s] + 1
      BY <1>1, <2>2 DEF Starts
    <3> QED BY <2>1, <2>2, <3>1, <3>2
  <2>3. CASE SegOf(f) # s
    <3>1. count'[s] = count[s] /\ Counted(s)' = Counted(s)
      BY <1>1, <2>3 DEF Starts
    <3> QED BY <2>1, <3>1
  <2> QED BY <2>2, <2>3
<1> QED BY <1>3

\* The caller of smart_dma_read marks the entry it holds.
LEMMA WholeDone ==
  ASSUME WholeInv, TypeInv', UNCHANGED mode, NEW f \in Entries, SetDone(f)
  PROVE  WholeInv'
<1>1. /\ TypeOK /\ PlacesOK /\ CountsOK /\ (\A e \in Entries : EntryOK(e))
      /\ (\A s \in Segs : SegOK(s))
  BY DEF WholeInv, TypeInv
<1>2. /\ UNCHANGED <<mode, host, status, todo, smin, smax, commit, readReady,
                     writeReady, cursor>>
      /\ use[f] = "nic"
      /\ use' = [use EXCEPT ![f] = "done"]
      /\ local' = [local EXCEPT ![f] = "done"]
  BY DEF SetDone, Held, hostVars, segVars, ringVars, workerVars
<1>3. /\ Entries' = Entries /\ Segs' = Segs /\ ToNic' = ToNic
      /\ \A s : Addr(s)' = Addr(s) /\ AddrMax(s)' = AddrMax(s) /\ SegOf(s)' = SegOf(s)
      /\ \A s : NextSeg(s)' = NextSeg(s)
  BY <1>2, ModeFixed
<1>4. \A e : Taken(e)' = Taken(e) /\ Ready(e)' = Ready(e) /\ Away(e)' = Away(e)
  BY <1>2, PartsFixed
<1>5. PlacesOK'
  BY <1>1, <1>2, PlacesFixed
<1>6. Taken(f) /\ ~Ready(f) /\ ~Away(f) /\ host[f] = "ready"
  BY <1>1, <1>2, WholeFacts DEF EntryOK
<1>7. smax[SegOf(f)] = 0 /\ status[SegOf(f)] # "WRITING"
  <2>1. SegOf(f) \in Segs
    BY WholeFacts
  <2> QED BY <1>1, <1>6, <2>1 DEF EntryOK, SegOK
<1>8. /\ use'[f] = "done" /\ local'[f] = "done"
      /\ \A e \in Entries : e # f => use'[e] = use[e] /\ local'[e] = local[e]
  BY <1>1, <1>2 DEF TypeOK
<1>9. f \notin uncounted /\ f \notin Counted(SegOf(f))
  BY <1>1, <1>2 DEF CountsOK, Counted
<1>10. CountsOK'
  <2>1. CASE LateCounts
    <3>1. uncounted' = uncounted \cup {f} /\ count' = count
      BY <2>1 DEF SetDone
    <3>2. \A s : Counted(s)' = Counted(s)
      BY <1>2, <1>3, <1>4, <1>8, <3>1 DEF Counted
    <3>3. \A e \in uncounted' : Taken(e)' /\ use'[e] = "done"
      BY <1>1, <1>4, <1>6, <1>8, <3>1 DEF CountsOK, TypeOK
    <3> QED BY <1>1, <1>3, <3>1, <3>2, <3>3 DEF CountsOK
  <2>2. CASE ~LateCounts
    <3>1. uncounted' = uncounted /\ count' = [count EXCEPT ![SegOf(f)] = @ + 1]
      BY <2>2 DEF SetDone
    <3>2. \A s \in Segs : Counted(s)' = Counted(s) \cup (IF SegOf(f) = s THEN {f} ELSE {})
      BY <1>2, <1>3, <1>4, <1>6, <1>8, <1>9, <3>1 DEF Counted
    <3>3. \A s \in Segs : count'[s] = Cardinality(Counted(s)')
      BY <1>9, <3>1, <3>2, CountedGrows
    <3>4. \A e \in uncounted' : Taken(e)' /\ use'[e] = "done"
      BY <1>1, <1>4, <1>8, <3>1 DEF CountsOK, TypeOK
    <3> QED BY <1>3, <3>3, <3>4 DEF CountsOK
  <2> QED BY <2>1, <2>2
<1>11. \A e \in Entries : EntryOK(e)'
  <2> SUFFICES ASSUME NEW e \in Entries PROVE EntryOK(e)'
    OBVIOUS
  <2>0. EntryOK(e) /\ SegOf(e) \in Segs
    BY WholeFacts
  <2>1. CASE e = f
    BY <1>2, <1>3, <1>4, <1>6, <1>7, <1>8, <2>0, <2>1 DEF EntryOK
  <2>2. CASE e # f
    BY <1>2, <1>3, <1>4, <1>8, <2>0, <2>2 DEF EntryOK
  <2> QED BY <2>1, <2>2
<1>12. \A s \in Segs : SegOK(s)'
  BY <1>1, <1>2, <1>3 DEF SegOK
<1> QED BY <1>3, <1>5, <1>10, <1>11, <1>12 DEF WholeInv

\* smart_dma_write counts an entry that is done.
LEMMA WholeCount ==
  ASSUME WholeInv, TypeInv', UNCHANGED mode, NEW f \in Entries, CountDone(f)
  PROVE  WholeInv'
<1>1. /\ TypeOK /\ PlacesOK /\ CountsOK /\ (\A e \in Entries : EntryOK(e))
      /\ (\A s \in Segs : SegOK(s))
  BY DEF WholeInv, TypeInv
<1>2. /\ UNCHANGED <<mode, host, local, status, todo, smin, smax, commit, readReady,
                     writeReady, cursor, use>>
      /\ f \in uncounted /\ uncounted' = uncounted \ {f}
      /\ count' = [count EXCEPT ![SegOf(f)] = @ + 1]
  BY DEF CountDone, hostVars, segVars, ringVars, workerVars
<1>3. /\ Entries' = Entries /\ Segs' = Segs /\ ToNic' = ToNic
      /\ \A s : Addr(s)' = Addr(s) /\ AddrMax(s)' = AddrMax(s) /\ SegOf(s)' = SegOf(s)
      /\ \A s : NextSeg(s)' = NextSeg(s)
  BY <1>2, ModeFixed
<1>4. \A e : Taken(e)' = Taken(e) /\ Ready(e)' = Ready(e) /\ Away(e)' = Away(e)
  BY <1>2, PartsFixed
<1>5. PlacesOK'
  BY <1>1, <1>2, PlacesFixed
<1>6. CountsOK'
  <2>1. Taken(f) /\ use[f] = "done" /\ f \notin Counted(SegOf(f))
    BY <1>1, <1>2 DEF CountsOK, Counted
  <2>2. \A s \in Segs : Counted(s)' = Counted(s) \cup (IF SegOf(f) = s THEN {f} ELSE {})
    BY <1>2, <1>3, <1>4, <2>1 DEF Counted
  <2>3. \A s \in Segs : count'[s] = Cardinality(Counted(s)')
    BY <1>2, <2>1, <2>2, CountedGrows
  <2>4. \A e \in uncounted' : Taken(e)' /\ use'[e] = "done"
    BY <1>1, <1>2, <1>4 DEF CountsOK
  <2> QED BY <1>3, <2>3, <2>4 DEF CountsOK
<1>7. \A e \in Entries : EntryOK(e)'
  BY <1>1, <1>2, <1>3, <1>4 DEF EntryOK
<1>8. \A s \in Segs : SegOK(s)'
  BY <1>1, <1>2, <1>3 DEF SegOK
<1> QED BY <1>3, <1>5, <1>6, <1>7, <1>8 DEF WholeInv


\* The manager finds nothing to do, or starts to write back a segment: whole,
\* and when all of it is done.
LEMMA WholeStart ==
  ASSUME WholeInv, TypeInv', UNCHANGED mode,
         \/ WrittenNone \/ ReadNone \/ PrefetchNone \/ UpdateNone \/ ExeNone
         \/ DoWrite
  PROVE  WholeInv'
<1>1. /\ TypeOK /\ Starts /\ PlacesOK /\ CountsOK /\ (\A e \in Entries : EntryOK(e))
      /\ (\A s \in Segs : SegOK(s))
  BY DEF WholeInv, TypeInv
<1>2. UNCHANGED <<mode, host, local, smin, smax, count, readReady, writeReady, cursor,
                  uncounted, use>>
  BY DEF WrittenNone, ReadNone, PrefetchNone, UpdateNone, ExeNone, DoWrite, hostVars,
     segVars, ringVars, workerVars
<1>3. /\ Entries' = Entries /\ Segs' = Segs /\ ToNic' = ToNic
      /\ \A s : Addr(s)' = Addr(s) /\ AddrMax(s)' = AddrMax(s) /\ SegOf(s)' = SegOf(s)
      /\ \A s : NextSeg(s)' = NextSeg(s)
  BY <1>2, ModeFixed
<1>4. \A e : Taken(e)' = Taken(e) /\ Ready(e)' = Ready(e) /\ Away(e)' = Away(e)
  BY <1>2, PartsFixed
<1>5. PlacesOK'
  BY <1>1, <1>2, PlacesFixed
<1>6. CountsOK'
  BY <1>1, <1>2, CountsFixed DEF TypeOK
<1>7. CASE UNCHANGED <<status, todo, commit>>
  <2>1. \A e \in Entries : EntryOK(e)'
    BY <1>1, <1>2, <1>3, <1>4, <1>7 DEF EntryOK
  <2>2. \A s \in Segs : SegOK(s)'
    BY <1>1, <1>2, <1>3, <1>7 DEF SegOK
  <2> QED BY <1>3, <1>5, <1>6, <2>1, <2>2 DEF WholeInv
<1>8. CASE DoWrite
  <2>1. PICK w \in Segs : w = writeStart
    BY <1>1 DEF TypeOK
  <2>2. /\ status[w] \in {"VALID", "INVALID"} /\ commit[w] < smax[w]
        /\ status' = [status EXCEPT ![w] = "WRITING"]
        /\ todo' = [todo EXCEPT ![w] = smin[w] .. smax[w] - 1]
        /\ commit' = [commit EXCEPT ![w] = smax[w]]
    BY <1>8, <2>1 DEF DoWrite, MayWrite
  <2>3. smax[w] = AddrMax(w) /\ smin[w] = Addr(w) /\ smax[w] # 0
    BY <1>1, <2>1, <2>2 DEF SegOK, Starts
  <2>4. \A e \in Entries : e \in smin[w] .. smax[w] - 1 <=> SegOf(e) = w
    <3> SUFFICES ASSUME NEW e \in Entries
                 PROVE  e \in smin[w] .. smax[w] - 1 <=> SegOf(e) = w
      OBVIOUS
    <3>1. SegOf(e) = w <=> Addr(w) <= e /\ e < AddrMax(w)
      BY WholeFacts DEF SegmentFacts
    <3>2. e \in Nat /\ Addr(w) \in Nat /\ AddrMax(w) \in Nat
      BY WholeFacts DEF SegmentFacts, Entries
    <3> QED BY <2>3, <3>1, <3>2
  <2>5. /\ status'[w] = "WRITING" /\ commit'[w] = AddrMax(w)
        /\ \A e \in Entries : e \in todo'[w] <=> SegOf(e) = w
        /\ \A s \in Segs : s # w => /\ status'[s] = status[s] /\ commit'[s] = commit[s]
                                    /\ todo'[s] = todo[s]
    <3>1. todo'[w] = smin[w] .. smax[w] - 1
      BY <1>1, <2>2 DEF Starts
    <3> QED BY <1>1, <2>2, <2>3, <2>4, <3>1 DEF TypeOK, Starts
  <2>6. \A e \in Entries : EntryOK(e)'
    <3> SUFFICES ASSUME NEW e \in Entries PROVE EntryOK(e)'
      OBVIOUS
    <3>1. EntryOK(e) /\ SegOf(e) \in Segs
      BY WholeFacts
    <3>2. CASE SegOf(e) = w
      BY <1>2, <1>3, <1>4, <2>2, <2>3, <2>5, <3>1, <3>2 DEF EntryOK
    <3>3. CASE SegOf(e) # w
      BY <1>2, <1>3, <1>4, <2>5, <3>1, <3>3 DEF EntryOK
    <3> QED BY <3>2, <3>3
  <2>7. \A s \in Segs : SegOK(s)'
    <3> SUFFICES ASSUME NEW s \in Segs PROVE SegOK(s)'
      OBVIOUS
    <3>1. SegOK(s)
      BY <1>1
    <3>2. CASE s = w
      BY <1>2, <1>3, <2>3, <2>5, <3>1, <3>2 DEF SegOK
    <3>3. CASE s # w
      BY <1>2, <1>3, <2>5, <3>1, <3>3 DEF SegOK
    <3> QED BY <3>2, <3>3
  <2> QED BY <1>3, <1>5, <1>6, <2>6, <2>7 DEF WholeInv
<1> QED BY <1>7, <1>8 DEF WrittenNone, ReadNone, PrefetchNone, UpdateNone, ExeNone, segVars

\* handle_writing: the segment has been written whole and is empty again.
LEMMA WholeWritten ==
  ASSUME WholeInv, TypeInv', UNCHANGED mode, WrittenAll \/ WrittenPart
  PROVE  WholeInv'
<1>1. /\ TypeOK /\ Starts /\ PlacesOK /\ CountsOK /\ (\A e \in Entries : EntryOK(e))
      /\ (\A s \in Segs : SegOK(s))
  BY DEF WholeInv, TypeInv
<1>2. PICK w \in Segs : w = writeFinish
  BY <1>1 DEF TypeOK
<1>3. status[w] = "WRITING" /\ todo[w] = {} /\ commit[w] = AddrMax(w) /\ smax[w] # 0
  BY <1>1, <1>2 DEF WrittenAll, WrittenPart, DmaComplete, SegOK
<1>4. AddrMax(w) \in Nat
  BY WholeFacts DEF SegmentFacts
<1>5. WrittenAll
  BY <1>2, <1>3, <1>4 DEF WrittenPart
<1>6. /\ UNCHANGED <<mode, host, local, todo, readReady, writeReady, cursor, uncounted,
                     use>>
      /\ smin' = [smin EXCEPT ![w] = IF SegOf(writeReady) = w THEN writeReady ELSE 0]
      /\ smax' = [smax EXCEPT ![w] = 0] /\ commit' = [commit EXCEPT ![w] = 0]
      /\ count' = [count EXCEPT ![w] = 0]
      /\ status' = [status EXCEPT ![w] = "INVALID"]
  BY <1>2, <1>5 DEF WrittenAll, hostVars, ringVars, workerVars
<1>7. /\ Entries' = Entries /\ Segs' = Segs /\ ToNic' = ToNic
      /\ \A s : Addr(s)' = Addr(s) /\ AddrMax(s)' = AddrMax(s) /\ SegOf(s)' = SegOf(s)
      /\ \A s : NextSeg(s)' = NextSeg(s)
  BY <1>6, ModeFixed
<1>8. \A e : Taken(e)' = Taken(e) /\ Ready(e)' = Ready(e) /\ Away(e)' = Away(e)
  BY <1>6, PartsFixed
<1>9. /\ smax'[w] = 0 /\ status'[w] = "INVALID" /\ count'[w] = 0
      /\ \A s \in Segs : s # w => /\ status'[s] = status[s] /\ commit'[s] = commit[s]
                                  /\ smin'[s] = smin[s] /\ smax'[s] = smax[s]
                                  /\ count'[s] = count[s]
  BY <1>1, <1>6 DEF TypeOK, Starts
<1>10. \A e \in Entries : SegOf(e) = w => use[e] = "no" /\ Away(e) /\ local[e] = "done"
  BY <1>1, <1>3 DEF EntryOK
<1>11. PlacesOK'
  <2>1. smin'[SegOf(writeReady)] = smin[SegOf(writeReady)]
    <3>1. SegOf(writeReady) \in Segs
      BY <1>1, WholeFacts DEF TypeOK
    <3>2. CASE SegOf(writeReady) = w
      BY <1>1, <1>6, <3>2 DEF Starts, PlacesOK
    <3>3. CASE SegOf(writeReady) # w
      BY <1>9, <3>1, <3>3
    <3> QED BY <3>2, <3>3
  <2> QED BY <1>1, <1>6, <2>1, PlacesFixed
<1>12. CountsOK'
  <2>1. \A s : Counted(s)' = Counted(s)
    BY <1>6, <1>7, <1>8 DEF Counted
  <2>2. Counted(w) = {}
    BY <1>10 DEF Counted
  <2>3. \A s \in Segs : count'[s] = Cardinality(Counted(s))
    BY <1>1, <1>9, <2>2, FS_EmptySet DEF CountsOK
  <2> QED BY <1>1, <1>6, <1>7, <1>8, <2>1, <2>3 DEF CountsOK
<1>13. \A e \in Entries : EntryOK(e)'
  <2> SUFFICES ASSUME NEW e \in Entries PROVE EntryOK(e)'
    OBVIOUS
  <2>1. EntryOK(e) /\ SegOf(e) \in Segs
    BY WholeFacts
  <2>2. CASE SegOf(e) = w
    <3>1. ~Taken(e) /\ ~Ready(e)
      BY <1>10, <2>2, WholeFacts
    <3> QED BY <1>6, <1>7, <1>8, <1>9, <1>10, <2>1, <2>2, <3>1 DEF EntryOK
  <2>3. CASE SegOf(e) # w
    BY <1>6, <1>7, <1>8, <1>9, <2>1, <2>3 DEF EntryOK
  <2> QED BY <2>2, <2>3
<1>14. \A s \in Segs : SegOK(s)'
  <2> SUFFICES ASSUME NEW s \in Segs PROVE SegOK(s)'
    OBVIOUS
  <2>1. SegOK(s)
    BY <1>1
  <2>2. CASE s = w
    BY <1>7, <1>9, <2>2 DEF SegOK
  <2>3. CASE s # w
    BY <1>6, <1>7, <1>9, <2>1, <2>3 DEF SegOK
  <2> QED BY <2>2, <2>3
<1> QED BY <1>7, <1>11, <1>12, <1>13, <1>14 DEF WholeInv


\* prefetch_segment: what is read lies behind read_ready, and has no work in it.
LEMMA WholePrefetch ==
  ASSUME WholeInv, TypeInv', UNCHANGED mode, Prefetch
  PROVE  WholeInv'
<1>1. /\ TypeOK /\ Starts /\ PlacesOK /\ CountsOK /\ (\A e \in Entries : EntryOK(e))
      /\ (\A s \in Segs : SegOK(s)) /\ SegmentFacts /\ Rotated
  BY WholeFacts DEF WholeInv, TypeInv
<1>2. UNCHANGED <<mode, host, local, smin, smax, commit, count, readReady, writeReady,
                  cursor, uncounted, use>>
  BY DEF Prefetch, hostVars, segVars, ringVars, workerVars
<1>3. /\ Entries' = Entries /\ Segs' = Segs /\ ToNic' = ToNic
      /\ \A s : Addr(s)' = Addr(s) /\ AddrMax(s)' = AddrMax(s) /\ SegOf(s)' = SegOf(s)
      /\ \A s : NextSeg(s)' = NextSeg(s)
  BY <1>2, ModeFixed
<1>4. \A e : Taken(e)' = Taken(e) /\ Ready(e)' = Ready(e) /\ Away(e)' = Away(e)
  BY <1>2, PartsFixed
<1>5. PICK R \in Segs : R = SegOf(readReady)
  BY <1>1, WholeFacts DEF TypeOK
<1>6. NextSeg(R) \in Segs /\ NextSeg(R) # R
  <2>1. S \in Nat /\ S >= 4 /\ NextSeg(R) = IF R = S - 1 THEN 0 ELSE R + 1
    BY <1>1 DEF SegmentFacts
  <2> QED BY <2>1 DEF Segs
<1>7. PICK p \in Segs : p = PrefetchSeg
  BY <1>5, <1>6 DEF PrefetchSeg
<1>8. /\ p = R \/ p = NextSeg(R)
      /\ status[p] = "INVALID" /\ (smax[p] = 0 \/ (p = R /\ smax[p] <= readReady))
      /\ status' = [status EXCEPT ![p] = "READING"]
      /\ todo' = [todo EXCEPT ![p] = ReadFrom(p) .. AddrMax(p) - 1]
  BY <1>5, <1>7 DEF Prefetch, Needed, PrefetchSeg
<1>9. readReady \in Entries /\ Addr(R) <= readReady /\ readReady < AddrMax(R)
  BY <1>1, <1>5 DEF TypeOK, SegmentFacts
<1>10. \A s \in Segs : Addr(s) \in Nat /\ AddrMax(s) \in Nat /\ Addr(s) < AddrMax(s)
  BY <1>1 DEF SegmentFacts, Entries
<1>11. smax[p] = 0
  <2>1. p = R => ~(AddrMax(p) <= readReady)
    BY <1>9, <1>10 DEF Entries
  <2> QED BY <1>1, <1>8, <2>1 DEF SegOK
<1>12. \A e \in Entries : e \in ReadFrom(p) .. AddrMax(p) - 1 => SegOf(e) = p /\ Away(e)
  <2> SUFFICES ASSUME NEW e \in Entries, e \in ReadFrom(p) .. AddrMax(p) - 1
               PROVE  SegOf(e) = p /\ Away(e)
    OBVIOUS
  <2>1. e \in Nat /\ readReady \in Nat
    BY <1>9 DEF Entries
  <2>2. ReadFrom(p) = IF p = R THEN readReady ELSE Addr(p)
    BY <1>5 DEF ReadFrom
  <2>3. /\ ReadFrom(p) <= e /\ e < AddrMax(p)
        /\ Addr(p) <= e
    BY <1>9, <1>10, <2>1, <2>2
  <2>4. SegOf(e) = p
    BY <1>1, <2>3 DEF SegmentFacts
  <2>5. PICK d, r, dp, dr : d = Dist(e) /\ r = Dist(readReady) /\ dp = Dist(Addr(p))
                            /\ dr = Dist(Addr(R))
    OBVIOUS
  <2>6. d \in Nat /\ r \in Nat /\ dp \in Nat /\ dr \in Nat
    BY <1>1, <1>9, <2>5, WholeFacts DEF Rotated
  <2>7. d = dp + (e - Addr(p)) /\ r = dr + (readReady - Addr(R))
    BY <1>1, <1>5, <1>9, <2>4, <2>5 DEF Rotated
  <2>8. r <= d
    <3>1. CASE p = R
      <4>1. dp = dr /\ readReady <= e
        BY <2>2, <2>3, <2>5, <3>1
      <4> QED BY <1>10, <2>1, <2>6, <2>7, <3>1, <4>1
    <3>2. CASE p = NextSeg(R)
      <4>1. p # SegOf(writeReady)
        BY <1>1, <1>5, <3>2 DEF PlacesOK
      <4>2. dp = dr + SegSize(R) /\ SegSize(R) \in Nat
        BY <1>1, <2>5, <3>2, <4>1 DEF Rotated
      <4>3. r < dr + SegSize(R)
        BY <1>1, <1>5, <1>9, <2>5 DEF Rotated
      <4>4. e - Addr(p) >= 0
        BY <1>10, <2>1, <2>3
      <4>5. e - Addr(p) \in Int
        BY <1>10, <2>1
      <4> QED BY <2>6, <2>7, <4>2, <4>3, <4>4, <4>5
    <3> QED BY <1>8, <3>1, <3>2
  <2> QED BY <2>4, <2>5, <2>8 DEF Away
<1>13. /\ status'[p] = "READING" /\ todo'[p] = ReadFrom(p) .. AddrMax(p) - 1
       /\ \A s \in Segs : s # p => status'[s] = status[s] /\ todo'[s] = todo[s]
  BY <1>1, <1>8 DEF TypeOK, Starts
<1>14. PlacesOK'
  BY <1>1, <1>2, PlacesFixed
<1>15. CountsOK'
  BY <1>1, <1>2, CountsFixed DEF TypeOK
<1>16. \A e \in Entries : EntryOK(e)'
  <2> SUFFICES ASSUME NEW e \in Entries PROVE EntryOK(e)'
    OBVIOUS
  <2>1. EntryOK(e) /\ SegOf(e) \in Segs
    BY WholeFacts
  <2>2. CASE SegOf(e) = p
    BY <1>2, <1>3, <1>4, <1>11, <1>12, <1>13, <2>1, <2>2 DEF EntryOK
  <2>3. CASE SegOf(e) # p
    BY <1>2, <1>3, <1>4, <1>13, <2>1, <2>3 DEF EntryOK
  <2> QED BY <2>2, <2>3
<1>17. \A s \in Segs : SegOK(s)'
  <2> SUFFICES ASSUME NEW s \in Segs PROVE SegOK(s)'
    OBVIOUS
  <2>1. SegOK(s)
    BY <1>1
  <2>2. CASE s = p
    BY <1>2, <1>3, <1>5, <1>8, <1>11, <1>13, <2>1, <2>2 DEF SegOK
  <2>3. CASE s # p
    BY <1>2, <1>3, <1>13, <2>1, <2>3 DEF SegOK
  <2> QED BY <2>2, <2>3
<1> QED BY <1>3, <1>14, <1>15, <1>16, <1>17 DEF WholeInv


\* The segment at which update_read_ready stops is the second before
\* write_ready's.
LEMMA StopSegIs ==
  ASSUME SegmentFacts, SegOf(writeReady) \in Segs
  PROVE  /\ StopSeg \in Segs /\ NextSeg(StopSeg) \in Segs
         /\ NextSeg(StopSeg) # SegOf(writeReady)
         /\ NextSeg(NextSeg(StopSeg)) = SegOf(writeReady)
         /\ \A s, t \in Segs : NextSeg(s) = NextSeg(t) => s = t
<1>1. PICK W, t : W = SegOf(writeReady) /\ t = S
  OBVIOUS
<1>2. t \in Nat /\ t >= 4 /\ W \in 0 .. t - 1 /\ Segs = 0 .. t - 1
  BY <1>1 DEF SegmentFacts, Segs
<1>3. (W - 2) % t = IF W >= 2 THEN W - 2 ELSE W - 2 + t
  <2>1. CASE W >= 2
    <3>1. W - 2 \in 0 .. t - 1
      BY <1>2, <2>1
    <3> QED BY <1>2, <2>1, <3>1
  <2>2. CASE W < 2
    BY <1>2, <2>2
  <2> QED BY <1>2, <2>1, <2>2
<1>4. \A s \in 0 .. t - 1 : NextSeg(s) = IF s = t - 1 THEN 0 ELSE s + 1
  BY <1>1, <1>2 DEF SegmentFacts
<1>5. StopSeg = IF W >= 2 THEN W - 2 ELSE W - 2 + t
  BY <1>1, <1>3 DEF StopSeg
<1>6. StopSeg \in 0 .. t - 1
  BY <1>2, <1>5
<1>7. NextSeg(StopSeg) = IF W >= 1 THEN W - 1 ELSE t - 1
  BY <1>2, <1>4, <1>5, <1>6
<1>8. NextSeg(NextSeg(StopSeg)) = W /\ NextSeg(StopSeg) \in 0 .. t - 1
  BY <1>2, <1>4, <1>7
<1>9. NextSeg(StopSeg) # W
  BY <1>2, <1>7
<1>10. \A x, y \in 0 .. t - 1 : NextSeg(x) = NextSeg(y) => x = y
  BY <1>2, <1>4
<1> QED BY <1>1, <1>2, <1>6, <1>8, <1>9, <1>10

\* update_read_ready goes over entries it may pass, and does not reach the
\* segment before write_ready's, let alone go round.
LEMMA ScanIs ==
  ASSUME WholeInv, NEW s, NEW n, n = ReadyRun(s), NEW r, r = Dist(readReady)
  PROVE  /\ n \in Nat /\ r \in Nat
         /\ Advance(readReady, n) \in Entries /\ Dist(Advance(readReady, n)) = r + n
         /\ NextSeg(SegOf(Advance(readReady, n))) # SegOf(writeReady)
         /\ \A e \in Entries : r <= Dist(e) /\ Dist(e) < r + n => CanPass(e, s)
<1>1. /\ TypeInv /\ TypeOK /\ SegmentFacts /\ Rotated /\ readReady \in Entries
      /\ SegOf(writeReady) \in Segs /\ SegOf(readReady) \in Segs
      /\ NextSeg(SegOf(readReady)) # SegOf(writeReady)
  BY WholeFacts DEF WholeInv, PlacesOK, TypeOK
<1>2. PICK m : m = N
  OBVIOUS
<1>3. /\ m \in Nat /\ m >= 4 /\ n \in 0 .. m - 1 /\ r \in Nat /\ r < m
      /\ \A i \in 0 .. n - 1 : CanPass(Advance(readReady, i), s)
  BY <1>1, <1>2, RunsAre DEF SegmentFacts, Rotated
\* Over the ring as a line: the entry r + i.
<1>4. \A i \in 0 .. m : r + i < m =>
        Advance(readReady, i) \in Entries /\ Dist(Advance(readReady, i)) = r + i
  BY <1>1, <1>2 DEF Rotated
<1>5. PICK p \in Segs : p = StopSeg
  BY <1>1, StopSegIs
<1>6. PICK a, b : a = Dist(Addr(p)) /\ b = SegSize(p)
  OBVIOUS
<1>7. /\ a \in Nat /\ b \in Nat \ {0} /\ Addr(p) \in Entries /\ SegOf(Addr(p)) = p
      /\ NextSeg(p) \in Segs /\ a + b = Dist(Addr(NextSeg(p)))
      /\ Dist(Addr(NextSeg(p))) + SegSize(NextSeg(p)) = m
      /\ SegSize(NextSeg(p)) \in Nat \ {0}
  BY <1>1, <1>2, <1>5, <1>6, StopSegIs, WholeFacts DEF Rotated
<1>8. a + b < m
  BY <1>3, <1>7
<1>9. \A e \in Entries : /\ Dist(e) \in Nat /\ Dist(e) < m
                         /\ SegOf(e) = p <=> a <= Dist(e) /\ Dist(e) < a + b
                         /\ SegOf(e) = NextSeg(p) <=> a + b <= Dist(e) /\ Dist(e) < m
  <2>1. \A e \in Entries : Dist(e) \in Nat /\ Dist(e) < m
    BY <1>1, <1>2 DEF Rotated
  <2>2. \A e \in Entries : SegOf(e) = p <=> a <= Dist(e) /\ Dist(e) < a + b
    BY <1>1, <1>6 DEF Rotated
  <2>3. \A e \in Entries : SegOf(e) = NextSeg(p) <=> a + b <= Dist(e) /\ Dist(e) < m
    BY <1>1, <1>7 DEF Rotated
  <2> QED BY <2>1, <2>2, <2>3
<1>10. r < a + b
  <2>1. SegOf(readReady) # NextSeg(p)
    BY <1>1, <1>5, StopSegIs
  <2> QED BY <1>1, <1>3, <1>7, <1>9, <2>1
<1>11. r + n < a + b
  <2>1. CASE a <= r
    <3>1. SegOf(readReady) = p
      BY <1>1, <1>9, <1>10, <2>1
    <3>2. Advance(readReady, 0) = readReady
      <4>1. Dist(Advance(readReady, 0)) = Dist(readReady) /\ Advance(readReady, 0) \in Entries
        <5>1. 0 \in 0 .. m /\ r + 0 < m /\ r + 0 = r
          BY <1>3
        <5> QED BY <1>4, <5>1
      <4> QED BY <1>1, <4>1 DEF Rotated
    <3>3. ~CanPass(Advance(readReady, 0), s)
      BY <1>5, <3>1, <3>2 DEF CanPass
    <3>4. n = 0
      BY <1>3, <3>3
    <3> QED BY <1>3, <1>10, <3>4
  <2>2. CASE r < a
    <3>1. SUFFICES ASSUME r + n > a PROVE FALSE
      BY <1>3, <1>7
    <3>2. PICK i : i = a - r
      OBVIOUS
    <3>3. i \in 0 .. n - 1 /\ i \in 0 .. m /\ r + i < m /\ r + i = a
      BY <1>3, <1>7, <1>8, <2>2, <3>1, <3>2
    <3>4. Advance(readReady, i) \in Entries /\ Dist(Advance(readReady, i)) = a
      BY <1>4, <3>3
    <3>5. SegOf(Advance(readReady, i)) = p
      <4>1. a <= a /\ a < a + b
        BY <1>7
      <4> QED BY <1>9, <3>4, <4>1
    <3> QED BY <1>3, <1>5, <3>3, <3>5 DEF CanPass
  <2> QED BY <1>3, <1>7, <2>1, <2>2
<1>12. Advance(readReady, n) \in Entries /\ Dist(Advance(readReady, n)) = r + n
  <2>1. n \in 0 .. m /\ r + n < m
    BY <1>3, <1>7, <1>8, <1>11
  <2> QED BY <1>4, <2>1
<1>13. NextSeg(SegOf(Advance(readReady, n))) # SegOf(writeReady)
  <2>1. SegOf(Advance(readReady, n)) # NextSeg(p)
    <3>1. ~(a + b <= r + n)
      BY <1>3, <1>7, <1>11
    <3> QED BY <1>9, <1>12, <3>1
  <2>2. SegOf(Advance(readReady, n)) \in Segs
    BY <1>12, WholeFacts
  <2> QED BY <1>1, <1>5, <1>7, <2>1, <2>2, StopSegIs
<1>14. ASSUME NEW e \in Entries, r <= Dist(e), Dist(e) < r + n PROVE CanPass(e, s)
  <2>1. PICK d, i : d = Dist(e) /\ i = d - r
    OBVIOUS
  <2>2. d \in Nat /\ d < m
    BY <1>9, <2>1
  <2>3. i \in 0 .. n - 1 /\ i \in 0 .. m /\ r + i < m /\ r + i = d
    BY <1>3, <1>14, <2>1, <2>2
  <2>4. Advance(readReady, i) \in Entries /\ Dist(Advance(readReady, i)) = Dist(e)
    BY <1>4, <2>1, <2>3
  <2>5. Advance(readReady, i) = e
    BY <1>1, <2>4 DEF Rotated
  <2> QED BY <1>3, <2>3, <2>5
<1> QED BY <1>3, <1>12, <1>13, <1>14


\* handle_reading: read_ready goes on over ready entries only, none of them with
\* work of the NIC, and over no segment whose read is under way.
LEMMA WholeRead ==
  ASSUME WholeInv, TypeInv', UNCHANGED mode, ReadAll \/ ReadPart
  PROVE  WholeInv'
<1>1. /\ TypeOK /\ Starts /\ PlacesOK /\ CountsOK /\ (\A e \in Entries : EntryOK(e))
      /\ (\A t \in Segs : SegOK(t)) /\ Rotated /\ SegmentFacts
  BY WholeFacts DEF WholeInv, TypeInv
<1>2. PICK s \in Segs : s = SegOf(readReady)
  BY <1>1, WholeFacts DEF TypeOK
<1>3. PICK n, r, new : n = ReadyRun(s) /\ r = Dist(readReady) /\ new = Advance(readReady, n)
  OBVIOUS
<1>4. /\ UNCHANGED <<mode, host, local, todo, smin, smax, commit, count, writeReady,
                     cursor, uncounted, use>>
      /\ readReady' = new /\ status[s] = "READING"
      /\ status' \in {[status EXCEPT ![s] = "VALID"], [status EXCEPT ![s] = "INVALID"]}
  BY <1>2, <1>3 DEF ReadAll, ReadPart, hostVars, segVars, workerVars
<1>5. /\ Entries' = Entries /\ Segs' = Segs /\ ToNic' = ToNic
      /\ \A t : Addr(t)' = Addr(t) /\ AddrMax(t)' = AddrMax(t) /\ SegOf(t)' = SegOf(t)
      /\ \A t : NextSeg(t)' = NextSeg(t)
  BY <1>4, ModeFixed
<1>6. /\ n \in Nat /\ r \in Nat /\ new \in Entries /\ Dist(new) = r + n
      /\ NextSeg(SegOf(new)) # SegOf(writeReady)
      /\ \A e \in Entries : r <= Dist(e) /\ Dist(e) < r + n => CanPass(e, s)
  BY <1>3, ScanIs
<1>7. /\ \A e : Dist(e)' = Dist(e)
      /\ Dist(cursor)' = Dist(cursor) /\ Dist(readReady)' = r + n
  <2>1. \A e : Dist(e)' = Dist(e)
    BY <1>4 DEF Dist, N
  <2>2. Dist(cursor)' = Dist(cursor) /\ Dist(readReady)' = Dist(readReady')
    BY <1>4 DEF Dist, N
  <2> QED BY <1>4, <1>6, <2>1, <2>2
<1> DEFINE Passed(e) == Away(e) /\ Dist(e) < r + n
<1>8. ASSUME NEW e \in Entries
      PROVE  /\ Taken(e)' <=> Taken(e)
             /\ Ready(e)' <=> Ready(e) \/ Passed(e)
             /\ Away(e)' <=> Away(e) /\ ~Passed(e)
  <2>1. Dist(e) \in Nat /\ Dist(cursor) \in Nat /\ Dist(cursor) <= r
    BY <1>1, <1>3 DEF Rotated, TypeOK, PlacesOK
  <2> QED BY <1>3, <1>6, <1>7, <2>1 DEF Taken, Ready, Away
<1>9. ASSUME NEW e \in Entries, Passed(e)
      PROVE  /\ local[e] = "ready" /\ use[e] = "no" /\ ~Taken(e) /\ ~Ready(e) /\ Away(e)
             /\ SegOf(e) = s \/ status[SegOf(e)] # "READING"
             /\ smax[SegOf(e)] = 0 /\ status[SegOf(e)] # "WRITING"
  <2>1. local[e] = "ready" /\ (SegOf(e) = s \/ status[SegOf(e)] # "READING") /\ Away(e)
    BY <1>3, <1>6, <1>9 DEF Away, CanPass
  <2>2. EntryOK(e) /\ SegOf(e) \in Segs /\ ~Taken(e) /\ ~Ready(e)
    BY <2>1, WholeFacts
  <2>3. use[e] = "no" /\ smax[SegOf(e)] = 0
    BY <1>1, <2>1, <2>2 DEF EntryOK, TypeOK
  <2> QED BY <1>1, <2>1, <2>2, <2>3 DEF SegOK
<1> HIDE DEF Passed
<1>10. /\ status'[s] \in {"VALID", "INVALID"}
       /\ \A t \in Segs : t # s => status'[t] = status[t]
  BY <1>1, <1>4 DEF TypeOK
<1>11. PlacesOK'
  <2>1. AtSegment' /\ NextSeg(SegOf(readReady))' # SegOf(writeReady)'
    BY <1>1, <1>4, <1>5, <1>6 DEF PlacesOK, AtSegment
  <2>2. smin'[SegOf(writeReady)'] = writeReady'
    BY <1>1, <1>4, <1>5 DEF PlacesOK
  <2>3. Dist(cursor)' <= Dist(readReady)'
    <3>1. Dist(cursor) \in Nat /\ Dist(cursor) <= r
      BY <1>1, <1>3 DEF PlacesOK, Rotated, TypeOK
    <3> QED BY <1>6, <1>7, <3>1
  <2> QED BY <2>1, <2>2, <2>3 DEF PlacesOK
<1>12. CountsOK'
  <2>1. \A t : Counted(t)' = Counted(t)
    BY <1>4, <1>5, <1>8 DEF Counted
  <2>2. \A e \in uncounted : Taken(e)' /\ use'[e] = "done"
    BY <1>1, <1>4, <1>8 DEF CountsOK, TypeOK
  <2> QED BY <1>1, <1>4, <1>5, <2>1, <2>2 DEF CountsOK
<1>13. \A e \in Entries : EntryOK(e)'
  <2> SUFFICES ASSUME NEW e \in Entries PROVE EntryOK(e)'
    OBVIOUS
  <2>1. EntryOK(e) /\ SegOf(e) \in Segs
    BY WholeFacts
  <2>2. status'[SegOf(e)] = "WRITING" => status[SegOf(e)] = "WRITING"
    BY <1>10, <2>1
  <2>3. /\ status[SegOf(e)] = "WRITING" => status'[SegOf(e)] = "WRITING"
        /\ status'[SegOf(e)] = "READING" => status[SegOf(e)] = "READING" /\ SegOf(e) # s
    BY <1>4, <1>10, <2>1
  <2>4. CASE Passed(e)
    <3>1. /\ local[e] = "ready" /\ use[e] = "no" /\ ~Taken(e)
          /\ SegOf(e) = s \/ status[SegOf(e)] # "READING"
          /\ smax[SegOf(e)] = 0 /\ status[SegOf(e)] # "WRITING"
      BY <1>9, <2>4
    <3>2. ~Taken(e)' /\ Ready(e)' /\ ~Away(e)'
      BY <1>8, <2>4, <3>1
    <3> QED BY <1>4, <1>5, <2>1, <2>2, <2>3, <3>1, <3>2 DEF EntryOK
  <2>5. CASE ~Passed(e)
    <3>1. (Taken(e)' <=> Taken(e)) /\ (Ready(e)' <=> Ready(e)) /\ (Away(e)' <=> Away(e))
      BY <1>8, <2>5
    <3> QED BY <1>4, <1>5, <2>1, <2>2, <2>3, <3>1 DEF EntryOK
  <2> QED BY <2>4, <2>5
<1>14. \A t \in Segs : SegOK(t)'
  <2> SUFFICES ASSUME NEW t \in Segs PROVE SegOK(t)'
    OBVIOUS
  <2>1. SegOK(t)
    BY <1>1
  <2>2. CASE t = s
    BY <1>4, <1>5, <1>10, <2>1, <2>2 DEF SegOK
  <2>3. CASE t # s /\ status[t] # "READING"
    BY <1>4, <1>5, <1>10, <2>1, <2>3 DEF SegOK
  <2>4. CASE t # s /\ status[t] = "READING"
    <3>1. t = NextSeg(s) /\ t # SegOf(writeReady)
      BY <1>1, <1>2, <2>1, <2>4 DEF SegOK, PlacesOK
    <3>2. PICK a, b, z : a = Dist(Addr(s)) /\ b = SegSize(s) /\ z = Dist(Addr(t))
      OBVIOUS
    <3>3. a \in Nat /\ b \in Nat \ {0} /\ z = a + b
      BY <1>1, <3>1, <3>2, WholeFacts DEF Rotated
    <3>4. a <= r /\ r < a + b
      BY <1>1, <1>2, <1>3, <3>2 DEF Rotated, TypeOK
    <3>5. Addr(t) \in Entries /\ SegOf(Addr(t)) = t
      BY WholeFacts
    <3>6. ~Passed(Addr(t))
      BY <1>9, <2>4, <3>5
    <3>7. Away(Addr(t))
      BY <1>3, <1>6, <3>2, <3>3, <3>4 DEF Away
    <3>8. ~(z < r + n)
      BY <3>2, <3>6, <3>7 DEF Passed
    <3>9. SegOf(new) = s \/ new = Addr(t)
      <4>1. CASE r + n < z
        <5>1. a <= r + n /\ r + n < a + b
          BY <1>6, <3>3, <3>4, <4>1
        <5> QED BY <1>1, <1>6, <3>2, <5>1 DEF Rotated
      <4>2. CASE r + n = z
        BY <1>1, <1>6, <3>2, <3>5, <4>2 DEF Rotated
      <4> QED BY <1>6, <3>3, <3>8, <4>1, <4>2
    <3>10. t \in {SegOf(new), NextSeg(SegOf(new))}
      BY <3>1, <3>5, <3>9
    <3> QED BY <1>4, <1>5, <1>10, <2>1, <2>4, <3>10 DEF SegOK
  <2> QED BY <2>2, <2>3, <2>4
<1> QED BY <1>5, <1>11, <1>12, <1>13, <1>14 DEF WholeInv


\* A segment has as many entries as its size says.
LEMMA OfSegment ==
  ASSUME SegmentFacts, NEW s \in Segs
  PROVE  /\ IsFiniteSet({e \in Entries : SegOf(e) = s})
         /\ Cardinality({e \in Entries : SegOf(e) = s}) = SegSize(s)
<1> DEFINE Of == {e \in Entries : SegOf(e) = s}
<1>1. PICK a, b : a = Addr(s) /\ b = AddrMax(s)
  OBVIOUS
<1>2. a \in Nat \ {0} /\ b \in Nat /\ a < b /\ b <= N + 1 /\ N \in Nat
  BY <1>1 DEF SegmentFacts, Entries
<1>3. Of = a .. b - 1
  <2>1. \A e \in Entries : SegOf(e) = s <=> a <= e /\ e < b
    BY <1>1 DEF SegmentFacts
  <2>2. \A e : e \in Entries /\ a <= e /\ e < b <=> e \in a .. b - 1
    BY <1>2 DEF Entries
  <2> QED BY <2>1, <2>2
<1>4. IsFiniteSet(a .. b - 1) /\ Cardinality(a .. b - 1) = b - a
  <2>1. a \in Int /\ b - 1 \in Int /\ ~(a > b - 1) /\ (b - 1) - a + 1 = b - a
    BY <1>2
  <2> QED BY <2>1, FS_Interval
<1> QED BY <1>1, <1>3, <1>4 DEF SegSize

\* When seg->count is the size of write_ready's segment, all of it has been taken
\* and is done, and nothing of it is on its way to or from the host.
LEMMA AllCountedIs ==
  ASSUME WholeInv, AllCounted, NEW W \in Segs, W = SegOf(writeReady)
  PROVE  /\ \A e \in Entries : SegOf(e) = W =>
              Taken(e) /\ use[e] = "done" /\ local[e] = "done" /\ e \notin uncounted
         /\ SegOf(readReady) # W /\ smax[W] = 0 /\ status[W] \notin {"READING", "WRITING"}
<1>1. /\ TypeOK /\ PlacesOK /\ CountsOK /\ SegmentFacts
      /\ (\A e \in Entries : EntryOK(e)) /\ (\A s \in Segs : SegOK(s))
  BY WholeFacts DEF WholeInv
<1> DEFINE Of == {e \in Entries : SegOf(e) = W}
<1>2. IsFiniteSet(Of) /\ Cardinality(Of) = SegSize(W)
  BY <1>1, OfSegment
<1>3. Counted(W) = Of
  <2>1. Cardinality(Counted(W)) = Cardinality(Of)
    BY <1>1, <1>2 DEF CountsOK, AllCounted
  <2>2. Counted(W) \in SUBSET Of
    BY DEF Counted
  <2> HIDE DEF Of
  <2> QED BY <1>2, <2>1, <2>2, FS_Subset
<1>4. ASSUME NEW e \in Entries, SegOf(e) = W
      PROVE  Taken(e) /\ use[e] = "done" /\ local[e] = "done" /\ e \notin uncounted /\ ~Away(e)
  <2>1. e \in Counted(W)
    BY <1>3, <1>4
  <2> QED BY <1>1, <2>1, WholeFacts DEF Counted, EntryOK
<1>5. SegOf(readReady) # W
  BY DEF AllCounted
<1>6. smax[W] = 0
  <2>1. Addr(W) \in Entries /\ SegOf(Addr(W)) = W
    BY WholeFacts
  <2> QED BY <1>1, <1>4, <2>1 DEF EntryOK
<1>7. status[W] \notin {"READING", "WRITING"}
  BY <1>1, <1>5, <1>6 DEF SegOK, PlacesOK
<1> QED BY <1>4, <1>5, <1>6, <1>7

\* update_write_ready_fast: the segment at write_ready goes round to the end of
\* the ring, with its work.
LEMMA WholeUpdate ==
  ASSUME WholeInv, TypeInv', UNCHANGED mode, UpdateFast
  PROVE  WholeInv'
<1>1. /\ TypeOK /\ Starts /\ PlacesOK /\ CountsOK /\ (\A e \in Entries : EntryOK(e))
      /\ (\A t \in Segs : SegOK(t)) /\ Rotated /\ SegmentFacts
  BY WholeFacts DEF WholeInv, TypeInv
<1>2. PICK W \in Segs : W = SegOf(writeReady)
  BY <1>1, WholeFacts DEF TypeOK
<1>3. PICK X : X = NextSeg(W)
  OBVIOUS
<1>4. /\ X \in Segs /\ X # W
      /\ \A s, t \in Segs : NextSeg(s) = NextSeg(t) => s = t
  <2>1. S \in Nat /\ S >= 4 /\ X = IF W = S - 1 THEN 0 ELSE W + 1
    BY <1>1, <1>3 DEF SegmentFacts
  <2>2. X \in Segs /\ X # W
    BY <2>1 DEF Segs
  <2> QED BY <1>1, <1>2, <2>2, StopSegIs
<1>5. /\ UNCHANGED <<mode, host, local, status, todo, commit, readReady, cursor,
                     uncounted, use>>
      /\ writeReady' = Addr(X)
      /\ count' = [count EXCEPT ![W] = 0]
      /\ smax' = [smax EXCEPT ![W] = AddrMax(W)]
      /\ smin' = [smin EXCEPT ![X] = Addr(X)]
  BY <1>2, <1>3 DEF UpdateFast, LeaveSeg, hostVars, workerVars
<1>6. /\ Entries' = Entries /\ Segs' = Segs /\ ToNic' = ToNic
      /\ \A t : Addr(t)' = Addr(t) /\ AddrMax(t)' = AddrMax(t) /\ SegOf(t)' = SegOf(t)
      /\ \A t : NextSeg(t)' = NextSeg(t)
  BY <1>5, ModeFixed
<1>7. /\ \A e \in Entries : SegOf(e) = W =>
           Taken(e) /\ use[e] = "done" /\ local[e] = "done" /\ e \notin uncounted
      /\ SegOf(readReady) # W /\ smax[W] = 0 /\ status[W] \notin {"READING", "WRITING"}
  BY <1>2, AllCountedIs DEF UpdateFast
<1>8. PICK n, z, c, r : n = N /\ z = SegSize(W) /\ c = Dist(cursor) /\ r = Dist(readReady)
  OBVIOUS
\* The distances from write_ready, and the segment there is the nearest.
<1>9. /\ n \in Nat /\ n >= 4 /\ z \in Nat \ {0} /\ c \in Nat /\ r \in Nat /\ c <= r /\ r < n
      /\ \A e \in Entries : Dist(e) \in Nat /\ Dist(e) < n
      /\ writeReady \in Entries /\ writeReady = Addr(W) /\ Dist(writeReady) = 0
  <2>1. writeReady \in Entries /\ writeReady = Addr(W) /\ n \in Nat /\ n >= 4
    BY <1>1, <1>2, <1>8 DEF TypeOK, PlacesOK, AtSegment, SegmentFacts
  <2>2. Dist(writeReady) = 0
    BY <2>1 DEF Dist, Entries
  <2>3. \A e \in Entries : Dist(e) \in Nat /\ Dist(e) < n
    BY <1>1, <1>8 DEF Rotated
  <2>4. c \in Nat /\ r \in Nat /\ c <= r /\ r < n /\ z \in Nat \ {0}
    BY <1>1, <1>8, <2>3 DEF TypeOK, PlacesOK, Rotated
  <2> QED BY <2>1, <2>2, <2>3, <2>4
<1>10. /\ \A e \in Entries : SegOf(e) = W <=> Dist(e) < z
       /\ Dist(Addr(X)) = z /\ z < n /\ Addr(X) \in Entries /\ SegOf(Addr(X)) = X
  <2>1. \A e \in Entries : SegOf(e) = W <=> 0 <= Dist(e) /\ Dist(e) < 0 + z
    BY <1>1, <1>8, <1>9 DEF Rotated
  <2>2. Dist(Addr(X)) = 0 + z
    BY <1>1, <1>2, <1>3, <1>4, <1>8, <1>9 DEF Rotated
  <2>3. Addr(X) \in Entries /\ SegOf(Addr(X)) = X
    BY <1>4, WholeFacts
  <2>4. Dist(Addr(X)) < n
    BY <1>9, <2>3
  <2> QED BY <1>9, <2>1, <2>2, <2>3, <2>4
<1>11. z <= c /\ z <= r
  <2>1. Advance(writeReady, z - 1) \in Entries /\ Dist(Advance(writeReady, z - 1)) = z - 1
    <3>1. z - 1 \in 0 .. N /\ Dist(writeReady) + (z - 1) < N /\ 0 + (z - 1) = z - 1
      BY <1>8, <1>9, <1>10
    <3> QED BY <1>1, <1>9, <3>1 DEF Rotated
  <2>2. Taken(Advance(writeReady, z - 1))
    <3>1. z - 1 < z
      BY <1>9
    <3> QED BY <1>7, <1>10, <2>1, <3>1
  <2>3. z - 1 < c
    BY <1>8, <2>1, <2>2 DEF Taken
  <2> QED BY <1>9, <2>3
\* All other entries come nearer by its size, and those of the segment are last.
<1>12. \A e \in Entries : Dist(e)' = IF SegOf(e) = W THEN Dist(e) + n - z ELSE Dist(e) - z
  <2> SUFFICES ASSUME NEW e \in Entries
               PROVE  Dist(e)' = IF Dist(e) < z THEN Dist(e) + n - z ELSE Dist(e) - z
    BY <1>10
  <2>1. PICK w, x : w = writeReady /\ x = Addr(X)
    OBVIOUS
  <2>2. w \in 1 .. n /\ x \in 1 .. n /\ e \in 1 .. n
    BY <1>8, <1>9, <1>10, <2>1 DEF Entries
  <2>3. /\ Dist(e)' = IF x <= e THEN e - x ELSE e - x + n
        /\ Dist(e) = IF w <= e THEN e - w ELSE e - w + n
        /\ z = IF w <= x THEN x - w ELSE x - w + n
    BY <1>5, <1>8, <1>10, <2>1 DEF Dist, N
  <2> QED BY <1>9, <2>2, <2>3
<1>13. Dist(cursor)' = c - z /\ Dist(readReady)' = r - z
  <2>1. cursor \in Entries /\ readReady \in Entries
    BY <1>1 DEF TypeOK
  <2>2. SegOf(cursor) # W /\ SegOf(readReady) # W
    BY <1>8, <1>9, <1>10, <1>11, <2>1
  <2>3. PICK f, g : f = cursor /\ g = readReady
    OBVIOUS
  <2>4. Dist(f)' = c - z /\ Dist(g)' = r - z
    BY <1>8, <1>12, <2>1, <2>2, <2>3
  <2>5. Dist(cursor)' = Dist(f)' /\ Dist(readReady)' = Dist(g)'
    BY <1>5, <2>3 DEF Dist, N
  <2> QED BY <2>4, <2>5
<1>14. ASSUME NEW e \in Entries
       PROVE  /\ Taken(e)' <=> Taken(e) /\ SegOf(e) # W
              /\ Ready(e)' <=> Ready(e)
              /\ Away(e)' <=> Away(e) \/ SegOf(e) = W
  <2>1. PICK d, d2 : d = Dist(e) /\ d2 = Dist(e)'
    BY <1>12
  <2>2. d \in Nat /\ d < n /\ (SegOf(e) = W <=> d < z)
    BY <1>9, <1>10, <2>1
  <2>3. d2 = IF d < z THEN d + n - z ELSE d - z
    BY <1>10, <1>12, <2>1
  <2>4. /\ Taken(e) <=> d < c
        /\ Ready(e) <=> c <= d /\ d < r
        /\ Away(e) <=> r <= d
    BY <1>8, <2>1 DEF Taken, Ready, Away
  <2>5. /\ Taken(e)' <=> d2 < c - z
        /\ Ready(e)' <=> c - z <= d2 /\ d2 < r - z
        /\ Away(e)' <=> r - z <= d2
    BY <1>13, <2>1 DEF Taken, Ready, Away
  <2> QED BY <1>9, <1>10, <1>11, <2>2, <2>3, <2>4, <2>5
<1>15. /\ smax'[W] = AddrMax(W) /\ smin'[W] = Addr(W) /\ smin'[X] = Addr(X) /\ count'[W] = 0
       /\ \A s \in Segs : /\ s # W => smax'[s] = smax[s] /\ count'[s] = count[s]
                          /\ s # X => smin'[s] = smin[s]
  BY <1>1, <1>2, <1>4, <1>5 DEF Starts, PlacesOK, AtSegment
<1>16. PlacesOK'
  <2>1. SegOf(writeReady)' = X /\ AtSegment'
    BY <1>5, <1>6, <1>10 DEF AtSegment
  <2>2. Dist(cursor)' <= Dist(readReady)'
    BY <1>9, <1>13
  <2>3. NextSeg(SegOf(readReady))' # SegOf(writeReady)'
    <3>1. SegOf(readReady) \in Segs
      BY <1>1, WholeFacts DEF TypeOK
    <3>2. NextSeg(SegOf(readReady)) # X
      BY <1>3, <1>4, <1>7, <3>1
    <3> QED BY <1>5, <1>6, <2>1, <3>2
  <2>4. smin'[SegOf(writeReady)'] = writeReady'
    BY <1>5, <1>15, <2>1
  <2> QED BY <2>1, <2>2, <2>3, <2>4 DEF PlacesOK
<1>17. CountsOK'
  <2>1. Counted(W)' = {}
    BY <1>6, <1>14 DEF Counted
  <2>2. \A s \in Segs : s # W => Counted(s)' = Counted(s)
    BY <1>5, <1>6, <1>14 DEF Counted
  <2>3. \A s \in Segs : count'[s] = Cardinality(Counted(s)')
    BY <1>1, <1>15, <2>1, <2>2, FS_EmptySet DEF CountsOK
  <2>4. \A e \in uncounted : Taken(e)' /\ use'[e] = "done"
    BY <1>1, <1>5, <1>7, <1>14 DEF CountsOK, TypeOK
  <2> QED BY <1>5, <1>6, <2>3, <2>4 DEF CountsOK
<1>18. \A e \in Entries : EntryOK(e)'
  <2> SUFFICES ASSUME NEW e \in Entries PROVE EntryOK(e)'
    OBVIOUS
  <2>1. EntryOK(e) /\ SegOf(e) \in Segs
    BY WholeFacts
  <2>2. CASE SegOf(e) = W
    <3>1. Taken(e) /\ ~Ready(e) /\ ~Away(e) /\ use[e] = "done" /\ local[e] = "done"
      BY <1>7, <2>2, WholeFacts
    <3>2. ~Taken(e)' /\ ~Ready(e)' /\ Away(e)'
      BY <1>14, <2>2, <3>1
    <3>3. smax'[W] # 0
      BY <1>1, <1>15 DEF SegmentFacts
    <3> QED BY <1>5, <1>6, <1>7, <2>1, <2>2, <3>1, <3>2, <3>3 DEF EntryOK
  <2>3. CASE SegOf(e) # W
    <3>1. (Taken(e)' <=> Taken(e)) /\ (Ready(e)' <=> Ready(e)) /\ (Away(e)' <=> Away(e))
      BY <1>14, <2>3
    <3>2. smax'[SegOf(e)] = smax[SegOf(e)]
      BY <1>15, <2>1, <2>3
    <3> QED BY <1>5, <1>6, <2>1, <3>1, <3>2 DEF EntryOK
  <2> QED BY <2>2, <2>3
<1>19. \A s \in Segs : SegOK(s)'
  <2> SUFFICES ASSUME NEW s \in Segs PROVE SegOK(s)'
    OBVIOUS
  <2>1. SegOK(s)
    BY <1>1
  <2>2. CASE s = W
    BY <1>5, <1>6, <1>7, <1>15, <2>1, <2>2 DEF SegOK
  <2>3. CASE s # W
    BY <1>5, <1>6, <1>15, <2>1, <2>3 DEF SegOK
  <2> QED BY <2>2, <2>3
<1> QED BY <1>6, <1>16, <1>17, <1>18, <1>19 DEF WholeInv


\* write_gap never exceeds WRITE_WAIT: update_write_ready is not called.
Whole == ~SlowWrites

\* Every step keeps the invariant.
LEMMA WholeStep == ASSUME WholeInv, Whole, [Next]_vars PROVE WholeInv' /\ Whole'
<1>1. UNCHANGED mode
  BY DEF Next, vars
<1>2. Whole'
  BY <1>1, ModeFixed DEF Whole
<1>3. TypeInv'
  BY TypeStep DEF WholeInv
<1>4. CASE UNCHANGED vars
  <2>1. UNCHANGED <<mode, host, local, status, todo, smin, smax, commit, count, readReady,
                    writeReady, cursor, uncounted, use>>
    BY <1>4 DEF vars, hostVars, segVars, ringVars, workerVars
  <2>2. /\ Entries' = Entries /\ Segs' = Segs /\ ToNic' = ToNic
        /\ \A s : Addr(s)' = Addr(s) /\ AddrMax(s)' = AddrMax(s) /\ SegOf(s)' = SegOf(s)
        /\ \A s : NextSeg(s)' = NextSeg(s)
    BY <2>1, ModeFixed
  <2>3. \A e : Taken(e)' = Taken(e) /\ Ready(e)' = Ready(e) /\ Away(e)' = Away(e)
    BY <2>1, PartsFixed
  <2>4. PlacesOK' /\ CountsOK'
    BY <2>1, WholeFacts, PlacesFixed, CountsFixed DEF WholeInv, TypeOK
  <2>5. \A e \in Entries : EntryOK(e)'
    BY <2>1, <2>2, <2>3 DEF WholeInv, EntryOK
  <2>6. \A s \in Segs : SegOK(s)'
    BY <2>1, <2>2 DEF WholeInv, SegOK
  <2> QED BY <1>2, <1>3, <2>2, <2>4, <2>5, <2>6 DEF WholeInv
<1>5. CASE Next
  <2>1. ~UpdateSlow
    BY DEF UpdateSlow, Whole
  <2>2. SUFFICES WholeInv'
    BY <1>2
  <2>3. CASE HostClaim \/ \E e \in Entries : HostGive(e)
    BY <1>1, <1>3, <2>3, WholeHost
  <2>4. CASE \E s \in Segs : DmaRead(s) \/ DmaWrite(s)
    BY <1>1, <1>3, <2>4, WholeDmaRead, WholeDmaWrite
  <2>5. CASE ReadStep
    BY <1>1, <1>3, <2>5, WholeLook, WholeHit DEF ReadStep
  <2>6. CASE \E e \in Entries : SetDone(e) \/ CountDone(e)
    BY <1>1, <1>3, <2>6, WholeDone, WholeCount
  <2>7. CASE ManagerStep
    BY <1>1, <1>3, <2>1, <2>7, WholeWritten, WholeStart, WholeRead, WholePrefetch,
       WholeUpdate DEF ManagerStep
  <2> QED BY <1>5, <2>3, <2>4, <2>5, <2>6, <2>7 DEF Next
<1> QED BY <1>4, <1>5

\* The invariant holds of every ring written back in whole segments.
THEOREM WholeInvariant == Spec /\ Whole => []WholeInv
<1>1. WholeInv /\ Whole /\ [Next]_vars => WholeInv' /\ Whole'
  BY WholeStep
<1> QED BY <1>1, WholeInit, PTL DEF Spec

\* No DMA read overwrites what a core of the NIC did to an entry before it is
\* written back, whatever the CPU gives meanwhile and however far the two loads of
\* smart_dma_read and the counting in smart_dma_write are apart.
THEOREM SmartDmaKeepsWork == Spec /\ Whole => []LocalWorkIsKept
<1>1. WholeInv => LocalWorkIsKept
  BY DEF WholeInv, EntryOK, LocalWorkIsKept
<1> QED BY <1>1, WholeInvariant, PTL

\* do_write writes back only entries that a core has finished.
THEOREM SmartDmaWritesDone == Spec /\ Whole => []OnlyDoneIsWritten
<1>1. WholeInv => OnlyDoneIsWritten
  <2> SUFFICES ASSUME WholeInv, NEW s \in Segs, status[s] = "WRITING", NEW e \in todo[s]
               PROVE  use[e] = "done"
    BY DEF OnlyDoneIsWritten
  <2>1. e \in Entries /\ e \in Addr(s) .. AddrMax(s) - 1
    BY WholeFacts DEF TypeOK, Starts
  <2>2. SegOf(e) = s
    BY <2>1, WholeFacts DEF SegmentFacts
  <2> QED BY <2>1, <2>2, WholeFacts DEF EntryOK
<1> QED BY <1>1, WholeInvariant, PTL

\* A segment never has more entries counted than it has: what SmartDmaLate shows
\* of entries counted late takes segments that are written in parts.
THEOREM SmartDmaCounts == Spec /\ Whole => []CountsWithinSegment
<1>1. WholeInv => CountsWithinSegment
  <2> SUFFICES ASSUME WholeInv, NEW s \in Segs PROVE count[s] <= SegSize(s)
    BY DEF CountsWithinSegment
  <2> DEFINE Of == {e \in Entries : SegOf(e) = s}
  <2>1. IsFiniteSet(Of) /\ Cardinality(Of) = SegSize(s)
    BY WholeFacts, OfSegment
  <2>2. Counted(s) \in SUBSET Of
    BY DEF Counted
  <2>3. Cardinality(Counted(s)) <= Cardinality(Of)
    <3> HIDE DEF Of
    <3> QED BY <2>1, <2>2, FS_Subset
  <2> QED BY <2>1, <2>3 DEF WholeInv, CountsOK
<1> QED BY <1>1, WholeInvariant, PTL

-----------------------------------------------------------------------------
(* The ring passes each entry across and back once.                        *)

\* What the abstract ring sees of an entry, and a step that changes one entry.
LEMMA PhaseIs ==
  ASSUME TypeOK
  PROVE  Phase = [e \in Entries |-> IF use[e] = "no"
                                    THEN IF host[e] = "ready" THEN "offered" ELSE "host"
                                    ELSE use[e]]
<1>1. \A e \in Entries : use[e] \in {"no", "nic", "done"}
  BY DEF TypeOK
<1> QED BY <1>1 DEF Phase

\* A step that changes one entry changes its phase alone.
LEMMA PhaseMoves ==
  ASSUME TypeOK, TypeOK', UNCHANGED mode, NEW f \in Entries,
         \A e \in Entries : e # f => /\ use'[e] = use[e]
                                     /\ host'[e] = "ready" <=> host[e] = "ready"
  PROVE  Phase' = [Phase EXCEPT ![f] = IF use'[f] = "no"
                                       THEN IF host'[f] = "ready" THEN "offered" ELSE "host"
                                       ELSE use'[f]]
<1>1. Phase = [e \in Entries |-> IF use[e] = "no"
                                 THEN IF host[e] = "ready" THEN "offered" ELSE "host"
                                 ELSE use[e]]
  BY PhaseIs
<1>2. Phase' = [e \in Entries |-> IF use'[e] = "no"
                                  THEN IF host'[e] = "ready" THEN "offered" ELSE "host"
                                  ELSE use'[e]]
  <2>1. TypeOK => Phase = [e \in Entries |-> IF use[e] = "no"
                                    THEN IF host[e] = "ready" THEN "offered" ELSE "host"
                                    ELSE use[e]]
    BY PhaseIs
  <2>2. Entries' = Entries
    BY ModeFixed
  <2>3. \A e \in Entries : use'[e] \in {"no", "nic", "done"}
    BY <2>2 DEF TypeOK
  <2> QED BY <2>2, <2>3 DEF Phase
<1> QED BY <1>1, <1>2

\* A step that leaves the CPU's copy, the cores' work and q->offset is none.
LEMMA PhaseStays ==
  ASSUME UNCHANGED <<mode, host, use, cursor>>
  PROVE  UNCHANGED Ring!vars
<1>1. Entries' = Entries
  BY ModeFixed
<1>2. Phase' = Phase
  BY <1>1 DEF Phase
<1> QED BY <1>2 DEF Ring!vars

\* Each step of the manager, the cores, the engine or the CPU is one of the ring or none.
LEMMA StepRing ==
  ASSUME WholeInv, WholeInv', Whole, [Next]_vars
  PROVE  [Ring!Next]_(Ring!vars)
<1>1. UNCHANGED mode /\ Entries' = Entries
  BY ModeFixed DEF Next, vars
<1>2. TypeOK /\ TypeOK' /\ \A e \in Entries : EntryOK(e) /\ EntryOK(e)'
  BY <1>1 DEF WholeInv, TypeInv
<1>3. Ring!Entries = Entries
  BY <1>2, PhaseIs DEF Ring!Entries
<1>4. \A e \in Entries : Phase[e] = IF use[e] = "no"
                                    THEN IF host[e] = "ready" THEN "offered" ELSE "host"
                                    ELSE use[e]
  BY <1>2, PhaseIs
<1>5. CASE HostClaim
  <2>1. \A e \in Entries : host'[e] = "ready" <=> host[e] = "ready"
    BY <1>2, <1>5 DEF HostClaim, TypeOK
  <2>2. use' = use /\ cursor' = cursor
    BY <1>5 DEF HostClaim, workerVars
  <2>3. Phase' = Phase
    BY <1>1, <2>1, <2>2 DEF Phase
  <2> QED BY <2>2, <2>3 DEF Ring!vars
<1>6. ASSUME NEW f \in Entries, HostGive(f) PROVE Ring!Offer(f)
  <2>1. /\ host[f] = "claimed" /\ host' = [host EXCEPT ![f] = "ready"]
        /\ use' = use /\ cursor' = cursor
    BY <1>6 DEF HostGive, workerVars
  <2>2. use[f] = "no" /\ host'[f] = "ready"
    BY <1>2, <2>1 DEF EntryOK, TypeOK
  <2>3. \A e \in Entries : e # f => host'[e] = host[e]
    BY <1>2, <2>1 DEF TypeOK
  <2>4. Phase' = [Phase EXCEPT ![f] = "offered"]
    BY <1>1, <1>2, <2>1, <2>2, <2>3, PhaseMoves
  <2> QED BY <1>4, <2>1, <2>2, <2>4 DEF Ring!Offer, Ring!Move
<1>7. ASSUME NEW s \in Segs, DmaWrite(s) PROVE \E f \in Entries : Ring!Return(f)
  <2>1. PICK f \in todo[s] :
          /\ host' = [host EXCEPT ![f] = local[f]]
          /\ use' = [use EXCEPT ![f] = IF @ = "done" THEN "no" ELSE @]
    BY <1>7 DEF DmaWrite
  <2>2. cursor' = cursor /\ status[s] = "WRITING"
    BY <1>7 DEF DmaWrite, workerVars
  <2>3. f \in Entries /\ SegOf(f) = s
    <3>1. f \in Entries /\ f \in Addr(s) .. AddrMax(s) - 1
      BY WholeFacts DEF TypeOK, Starts
    <3> QED BY <3>1, WholeFacts DEF SegmentFacts
  <2>4. use[f] = "done" /\ local[f] = "done"
    BY <1>2, <2>2, <2>3 DEF EntryOK
  <2>5. /\ use'[f] = "no" /\ host'[f] = "done"
        /\ \A e \in Entries : e # f => use'[e] = use[e] /\ host'[e] = host[e]
    BY <1>2, <2>1, <2>3, <2>4 DEF TypeOK
  <2>6. Phase' = [Phase EXCEPT ![f] = "host"]
    BY <1>1, <1>2, <2>3, <2>5, PhaseMoves
  <2> QED BY <1>4, <2>2, <2>3, <2>4, <2>6 DEF Ring!Return, Ring!Move
<1>8. CASE ReadHit
  <2>1. PICK f : f = cursor
    OBVIOUS
  <2>2. f \in Entries /\ Ready(f)
    BY <1>1, <1>2, <1>8, <2>1, WholeHit DEF WholeInv
  <2>3. use[f] = "no" /\ host[f] = "ready"
    BY <1>2, <2>2 DEF EntryOK
  <2>4. host' = host /\ use' = [use EXCEPT ![f] = "nic"] /\ cursor' = Advance(f, 1)
    BY <1>8, <2>1 DEF ReadHit, hostVars
  <2>5. Phase' = [Phase EXCEPT ![f] = "nic"]
    <3>1. use'[f] = "nic" /\ \A e \in Entries : e # f => use'[e] = use[e]
      BY <1>2, <2>2, <2>4 DEF TypeOK
    <3> QED BY <1>1, <1>2, <2>2, <2>4, <3>1, PhaseMoves
  <2>6. Advance(f, 1) = (f % Cardinality(Entries)) + 1
    <3>1. N \in Nat /\ N >= 4
      BY WholeFacts DEF SegmentFacts
    <3>2. Cardinality(Entries) = N
      BY <3>1, FS_Interval DEF Entries
    <3>3. f - 1 + 1 = f
      BY <2>2 DEF Entries
    <3>4. f % N \in Int
      BY <2>2, <3>1 DEF Entries
    <3> QED BY <3>2, <3>3, <3>4 DEF Advance
  <2>7. Phase[cursor] = "offered" /\ Phase' = [Phase EXCEPT ![cursor] = "nic"]
    BY <1>4, <2>1, <2>2, <2>3, <2>5
  <2>8. cursor' = (cursor % Cardinality(Ring!Entries)) + 1
    BY <1>3, <2>1, <2>4, <2>6
  <2>9. Ring!Access
    <3>1. Ring!Cardinality(Ring!Entries) = Cardinality(Ring!Entries)
      BY DEF Ring!Cardinality, Cardinality
    <3> QED BY <2>7, <2>8, <3>1 DEF Ring!Access, Ring!Move
  <2> QED BY <2>9 DEF Ring!Next
<1>9. ASSUME NEW f \in Entries, SetDone(f) PROVE Ring!Done(f)
  <2>1. /\ host' = host /\ cursor' = cursor /\ use[f] = "nic"
        /\ use' = [use EXCEPT ![f] = "done"]
    BY <1>9 DEF SetDone, Held, hostVars, workerVars
  <2>2. use'[f] = "done" /\ \A e \in Entries : e # f => use'[e] = use[e]
    BY <1>2, <2>1 DEF TypeOK
  <2>3. Phase' = [Phase EXCEPT ![f] = "done"]
    BY <1>1, <1>2, <2>1, <2>2, PhaseMoves
  <2> QED BY <1>4, <2>1, <2>3 DEF Ring!Done, Ring!Move
<1>10. CASE \/ \E s \in Segs : DmaRead(s)
            \/ ReadStart \/ ReadMiss \/ ReadInvalidate
            \/ \E e \in Entries : CountDone(e)
            \/ ManagerStep
  <2>1. UNCHANGED <<host, use, cursor>>
    BY <1>10 DEF DmaRead, ReadStart, ReadMiss, ReadInvalidate, CountDone, ManagerStep,
       WrittenAll, WrittenPart, WrittenNone, ReadAll, ReadPart, ReadNone, Prefetch,
       PrefetchNone, UpdateFast, UpdateSlow, UpdateNone, DoWrite, ExeNone, hostVars,
       workerVars
  <2> QED BY <1>1, <2>1, PhaseStays
<1>11. CASE UNCHANGED vars
  <2>1. UNCHANGED <<host, use, cursor>>
    BY <1>11 DEF vars, hostVars, workerVars
  <2> QED BY <1>1, <2>1, PhaseStays
<1>12. CASE Next
  <2>1. \A f \in Entries : Ring!Offer(f) \/ Ring!Done(f) \/ Ring!Return(f) => Ring!Next
    BY <1>3 DEF Ring!Next
  <2> QED BY <1>5, <1>6, <1>7, <1>8, <1>9, <1>10, <1>12, <2>1 DEF Next, ReadStep
<1> QED BY <1>11, <1>12

\* A queue of the NIC written back in whole segments is EntryRing, for every size
\* of the ring and its segments: each entry the CPU gives is used by one core, in
\* order, and comes back once, after it is done.
THEOREM SmartDmaIsRing == Spec /\ Whole => ImplementsRing
<1>1. Init => Ring!Init
  <2> SUFFICES ASSUME Init PROVE Ring!Init
    OBVIOUS
  <2>1. TypeOK
    BY TypeInit DEF TypeInv
  <2>2. N \in {m.n : m \in Modes} /\ Entries = 1 .. N
    BY DEF Init, N, Entries
  <2>3. PICK p \in {"host", "offered"} : p = IF ToNic THEN "host" ELSE "offered"
    OBVIOUS
  <2>4. Phase = [e \in 1 .. N |-> p]
    BY <2>1, <2>2, <2>3, PhaseIs DEF Init
  <2> QED BY <2>2, <2>3, <2>4 DEF Ring!Init, Init
<1>2. WholeInv /\ WholeInv' /\ Whole /\ [Next]_vars => [Ring!Next]_(Ring!vars)
  BY StepRing
<1>3. WholeInv /\ Whole /\ [Next]_vars => Whole'
  BY WholeStep
<1> QED BY <1>1, <1>2, <1>3, WholeInvariant, PTL DEF Spec, ImplementsRing, Ring!Spec
=============================================================================
