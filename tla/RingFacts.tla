----------------------------- MODULE RingFacts -----------------------------
(***************************************************************************)
(* A ring of n slots, 0 .. n-1, of which k in a row are in use from slot o *)
(* on: which slots these are, and what is read from them in order.  Both   *)
(* queues of the runtime are such rings; these facts carry their proofs    *)
(* from the slots to the sequence of entries that a FIFO queue speaks of.  *)
(***************************************************************************)
EXTENDS Integers, SequenceTheorems, FiniteSetTheorems, TLAPS

\* The i-th slot from slot o on.
At(n, o, i) == (o + i - 1) % n

\* k slots from slot o on, and what C has in them.
Run(n, o, k)      == {At(n, o, i) : i \in 1 .. k}
Reads(n, C, o, k) == [i \in 1 .. k |-> C[At(n, o, i)]]

\* What C has in its slots is in S.
Within(n, C, S) == \A s \in 0 .. n - 1 : C[s] \in S

\* C and D have the same in the slots of R, x aside.
SameBut(x, R, C, D) == \A s \in R : s # x => D[s] = C[s]

\* Going round the ring once at most, % is a subtraction.
LEMMA AtWraps ==
  ASSUME NEW n \in Nat \ {0}, NEW o \in 0 .. n - 1, NEW i \in 1 .. n + 1
  PROVE  At(n, o, i) = IF o + i <= n THEN o + i - 1 ELSE o + i - 1 - n
<1>1. CASE o + i <= n
  <2>1. o + i - 1 \in 0 .. n - 1
    BY <1>1
  <2> QED BY <1>1, <2>1 DEF At
<1>2. CASE o + i > n
  <2>1. o + i - 1 \in n .. 2 * n - 1
    BY <1>2
  <2> QED BY <1>2, <2>1 DEF At
<1> QED BY <1>1, <1>2

\* The slots from o on are all the slots, each once, and then o again.
LEMMA AtFacts ==
  ASSUME NEW n \in Nat \ {0}, NEW o \in 0 .. n - 1
  PROVE  /\ \A i \in 1 .. n + 1 : At(n, o, i) \in 0 .. n - 1
         /\ \A i, j \in 1 .. n : At(n, o, i) = At(n, o, j) => i = j
         /\ At(n, o, 1) = o /\ At(n, o, n + 1) = o
         /\ \A i \in 1 .. n : At(n, At(n, o, 2), i) = At(n, o, i + 1)
<1>1. \A i \in 1 .. n + 1 :
        At(n, o, i) = IF o + i <= n THEN o + i - 1 ELSE o + i - 1 - n
  BY AtWraps
<1>2. At(n, o, 2) = IF o + 2 <= n THEN o + 1 ELSE 0
  BY <1>1
<1>3. At(n, o, 2) \in 0 .. n - 1
  BY <1>2
<1>4. \A i \in 1 .. n :
        At(n, At(n, o, 2), i) = IF At(n, o, 2) + i <= n THEN At(n, o, 2) + i - 1
                                ELSE At(n, o, 2) + i - 1 - n
  BY <1>3, AtWraps
<1>5. ASSUME NEW i \in 1 .. n PROVE At(n, At(n, o, 2), i) = At(n, o, i + 1)
  <2>1. i + 1 \in 1 .. n + 1
    OBVIOUS
  <2>2. At(n, o, i + 1) = IF o + i + 1 <= n THEN o + i ELSE o + i - n
    BY <1>1, <2>1
  <2> QED BY <1>2, <1>4, <2>2
<1>6. \A i \in 1 .. n + 1 : At(n, o, i) \in 0 .. n - 1
  BY <1>1
<1>7. \A i, j \in 1 .. n : At(n, o, i) = At(n, o, j) => i = j
  BY <1>1
<1>8. At(n, o, 1) = o /\ At(n, o, n + 1) = o
  BY <1>1
<1> QED BY <1>5, <1>6, <1>7, <1>8

\* The distance from one slot to another, except between 0 and n.
LEMMA AtDistance ==
  ASSUME NEW n \in Nat \ {0}, NEW o \in 0 .. n - 1, NEW k \in 0 .. n
  PROVE  IF At(n, o, k + 1) = o THEN k = 0 \/ k = n
         ELSE (At(n, o, k + 1) - o) % n = k
<1>1. At(n, o, k + 1) = IF o + k + 1 <= n THEN o + k ELSE o + k - n
  BY AtWraps
<1>2. CASE k = 0 \/ k = n
  BY <1>1, <1>2
<1>3. CASE k \in 1 .. n - 1 /\ o + k + 1 <= n
  BY <1>1, <1>3
<1>4. CASE k \in 1 .. n - 1 /\ o + k + 1 > n
  <2>1. At(n, o, k + 1) - o = k - n /\ k - n \in -n .. -1
    BY <1>1, <1>4
  <2>2. (k - n) % n = k
    BY <1>4, <2>1
  <2> QED BY <1>4, <2>1, <2>2
<1> QED BY <1>2, <1>3, <1>4

\* A run takes in the slot behind it.
LEMMA RunGrows ==
  ASSUME NEW n \in Nat \ {0}, NEW o \in 0 .. n - 1, NEW k \in 0 .. n, k < n
  PROVE  Run(n, o, k + 1) = Run(n, o, k) \cup {At(n, o, k + 1)}
<1>1. 1 .. k + 1 = (1 .. k) \cup {k + 1}
  OBVIOUS
<1> QED BY <1>1 DEF Run

\* A run gives off the slot it begins with.
LEMMA RunShrinks ==
  ASSUME NEW n \in Nat \ {0}, NEW o \in 0 .. n - 1, NEW k \in 0 .. n, k > 0
  PROVE  Run(n, At(n, o, 2), k - 1) = Run(n, o, k) \ {o}
<1>0. /\ At(n, o, 1) = o
      /\ \A i, j \in 1 .. n : At(n, o, i) = At(n, o, j) => i = j
      /\ \A i \in 1 .. n : At(n, At(n, o, 2), i) = At(n, o, i + 1)
  BY AtFacts
<1>1. \A i \in 1 .. k - 1 : /\ At(n, At(n, o, 2), i) = At(n, o, i + 1)
                            /\ i + 1 \in 2 .. k
  BY <1>0
<1>2. Run(n, At(n, o, 2), k - 1) = {At(n, o, j) : j \in 2 .. k}
  <2>1. \A j \in 2 .. k : j - 1 \in 1 .. k - 1 /\ j - 1 + 1 = j
    OBVIOUS
  <2>2. \A j \in 2 .. k : At(n, o, j) \in Run(n, At(n, o, 2), k - 1)
    BY <1>1, <2>1 DEF Run
  <2> QED BY <1>1, <2>2 DEF Run
<1>3. Run(n, o, k) = {At(n, o, j) : j \in 2 .. k} \cup {o}
  <2>1. 1 .. k = (2 .. k) \cup {1}
    OBVIOUS
  <2> QED BY <1>0, <2>1 DEF Run
<1>4. o \notin {At(n, o, j) : j \in 2 .. k}
  BY <1>0
<1> QED BY <1>2, <1>3, <1>4

\* The slot behind a run is not in it and the first one is, unless the run is all
\* slots or none; and a run has as many slots as it is long.
LEMMA RunFacts ==
  ASSUME NEW n \in Nat \ {0}, NEW o \in 0 .. n - 1, NEW k \in 0 .. n
  PROVE  /\ Run(n, o, k) \in SUBSET (0 .. n - 1)
         /\ Run(n, o, 0) = {}
         /\ k = n => o \in Run(n, o, k)
         /\ k < n => /\ At(n, o, k + 1) \notin Run(n, o, k)
                     /\ At(n, At(n, o, k + 1), 2) = At(n, o, k + 2)
         /\ k > 0 => /\ o \in Run(n, o, k)
                     /\ At(n, At(n, o, 2), k) = At(n, o, k + 1)
         /\ IsFiniteSet(Run(n, o, k)) /\ Cardinality(Run(n, o, k)) = k
<1>1. /\ \A i \in 1 .. n + 1 : At(n, o, i) \in 0 .. n - 1
      /\ \A i, j \in 1 .. n : At(n, o, i) = At(n, o, j) => i = j
      /\ At(n, o, 1) = o /\ At(n, o, n + 1) = o
      /\ \A i \in 1 .. n : At(n, At(n, o, 2), i) = At(n, o, i + 1)
  BY AtFacts
<1>2. Run(n, o, k) \in SUBSET (0 .. n - 1) /\ Run(n, o, 0) = {}
  BY <1>1 DEF Run
<1>3. ASSUME k > 0 PROVE o \in Run(n, o, k)
  BY <1>1, <1>3 DEF Run
<1>4. ASSUME k < n PROVE At(n, o, k + 1) \notin Run(n, o, k)
  BY <1>1, <1>4 DEF Run
<1>5. IsFiniteSet(Run(n, o, k)) /\ Cardinality(Run(n, o, k)) = k
  <2> DEFINE f == [i \in 1 .. k |-> At(n, o, i)]
  <2>1. f \in Bijection(1 .. k, Run(n, o, k))
    BY <1>1 DEF Run, Bijection, Injection, Surjection, IsInjective
  <2>2. IsFiniteSet(1 .. k) /\ Cardinality(1 .. k) = k
    BY FS_Interval
  <2> QED BY <2>1, <2>2, FS_Bijection DEF ExistsBijection
<1>6. ASSUME k < n PROVE At(n, At(n, o, k + 1), 2) = At(n, o, k + 2)
  <2>1. At(n, o, k + 1) = IF o + k + 1 <= n THEN o + k ELSE o + k - n
    BY AtWraps
  <2>2. At(n, o, k + 2) = IF o + k + 2 <= n THEN o + k + 1 ELSE o + k + 1 - n
    BY <1>6, AtWraps
  <2>3. At(n, o, k + 1) \in 0 .. n - 1
    BY <1>1
  <2>4. At(n, At(n, o, k + 1), 2)
          = IF At(n, o, k + 1) + 2 <= n THEN At(n, o, k + 1) + 1
            ELSE At(n, o, k + 1) + 1 - n
    BY <2>3, AtWraps
  <2> QED BY <1>6, <2>1, <2>2, <2>4
<1> QED BY <1>1, <1>2, <1>3, <1>4, <1>5, <1>6

-----------------------------------------------------------------------------
(* What a run holds, as a sequence.                                        *)

\* It is as long as the run, and its i-th element is what the i-th slot holds.
LEMMA ReadsIsSeq ==
  ASSUME NEW n \in Nat \ {0}, NEW o \in 0 .. n - 1, NEW k \in 0 .. n,
         NEW C, NEW S, Within(n, C, S)
  PROVE  /\ Reads(n, C, o, k) \in Seq(S)
         /\ Len(Reads(n, C, o, k)) = k
         /\ DOMAIN Reads(n, C, o, k) = 1 .. k
         /\ \A i \in 1 .. k : Reads(n, C, o, k)[i] = C[At(n, o, i)]
<1>1. \A i \in 1 .. k : At(n, o, i) \in 0 .. n - 1
  BY AtFacts
<1>2. Reads(n, C, o, k) \in [1 .. k -> S] /\ k \in Nat
  BY <1>1 DEF Reads, Within
<1>3. Reads(n, C, o, k) \in Seq(S)
  BY <1>2, SeqDef
<1> QED BY <1>2, <1>3, LenProperties DEF Reads

\* Its elements are among what the slots hold.
LEMMA ReadsAreIn ==
  ASSUME NEW n \in Nat \ {0}, NEW o \in 0 .. n - 1, NEW k \in 0 .. n,
         NEW C, NEW S, Within(n, C, S)
  PROVE  Reads(n, C, o, k) \in Seq(S)
  BY ReadsIsSeq

\* The same whatever C is.
LEMMA ReadsLength ==
  ASSUME NEW n \in Nat \ {0}, NEW o \in 0 .. n - 1, NEW k \in 0 .. n, NEW C
  PROVE  /\ Len(Reads(n, C, o, k)) = k
         /\ DOMAIN Reads(n, C, o, k) = 1 .. k
         /\ \A i \in 1 .. k : Reads(n, C, o, k)[i] = C[At(n, o, i)]
<1> DEFINE S == {C[s] : s \in 0 .. n - 1}
<1>1. Within(n, C, S)
  BY DEF Within
<1> HIDE DEF S
<1>2. Reads(n, C, o, k) \in Seq(S) /\ Len(Reads(n, C, o, k)) = k
  BY <1>1, ReadsIsSeq
<1> QED BY <1>2 DEF Reads

\* Nothing of the run changes: the sequence stays.
LEMMA ReadsSame ==
  ASSUME NEW n \in Nat \ {0}, NEW o \in 0 .. n - 1, NEW k \in 0 .. n, NEW C, NEW D,
         \A s \in Run(n, o, k) : D[s] = C[s]
  PROVE  Reads(n, D, o, k) = Reads(n, C, o, k)
<1>1. \A i \in 1 .. k : D[At(n, o, i)] = C[At(n, o, i)]
  BY DEF Run
<1> QED BY <1>1 DEF Reads

\* One more slot at the end: an Append.
LEMMA ReadsAppend ==
  ASSUME NEW n \in Nat \ {0}, NEW o \in 0 .. n - 1, NEW k \in 0 .. n, k < n,
         NEW C, NEW D,
         \A s \in Run(n, o, k) : D[s] = C[s]
  PROVE  Reads(n, D, o, k + 1) = Append(Reads(n, C, o, k), D[At(n, o, k + 1)])
<1> DEFINE S == {C[s] : s \in 0 .. n - 1} \cup {D[s] : s \in 0 .. n - 1}
<1>a. Within(n, C, S)
  BY DEF Within
<1>b. Within(n, D, S)
  BY DEF Within
<1> HIDE DEF S
<1> DEFINE c == Reads(n, C, o, k)
           d == Reads(n, D, o, k + 1)
           v == D[At(n, o, k + 1)]
<1>0. k \in 0 .. n /\ k + 1 \in 0 .. n
  OBVIOUS
<1>1. /\ c \in Seq(S) /\ Len(c) = k
      /\ \A i \in 1 .. k : c[i] = C[At(n, o, i)]
  <2>1. c \in Seq(S)
    BY <1>0, <1>a, ReadsAreIn
  <2>2. Len(c) = k /\ \A i \in 1 .. k : c[i] = C[At(n, o, i)]
    BY <1>0, ReadsLength
  <2> QED BY <2>1, <2>2
<1>2. /\ d \in Seq(S) /\ Len(d) = k + 1
      /\ \A i \in 1 .. k + 1 : d[i] = D[At(n, o, i)]
  <2>1. PICK m \in 0 .. n : m = k + 1
    BY <1>0
  <2>2. Reads(n, D, o, m) \in Seq(S)
    BY <1>b, ReadsAreIn
  <2>3. /\ Len(Reads(n, D, o, m)) = m
        /\ \A i \in 1 .. m : Reads(n, D, o, m)[i] = D[At(n, o, i)]
    BY ReadsLength
  <2> QED BY <2>1, <2>2, <2>3
<1>3. v \in S
  <2>1. At(n, o, k + 1) \in 0 .. n - 1
    BY <1>0, AtFacts
  <2> QED BY <1>b, <2>1 DEF Within
<1>4. \A i \in 1 .. k : d[i] = c[i]
  <2>1. \A i \in 1 .. k : At(n, o, i) \in Run(n, o, k)
    BY DEF Run
  <2> HIDE DEF c, d
  <2> QED BY <1>1, <1>2, <2>1
<1>5. d[k + 1] = v
  BY <1>2
<1> HIDE DEF c, d, v
<1>6. /\ Append(c, v) \in Seq(S) /\ Len(Append(c, v)) = k + 1
      /\ \A i \in 1 .. k : Append(c, v)[i] = c[i]
      /\ Append(c, v)[k + 1] = v
  BY <1>1, <1>3, AppendProperties
<1>7. \A i \in 1 .. Len(d) : d[i] = Append(c, v)[i]
  BY <1>2, <1>4, <1>5, <1>6
<1>8. d = Append(c, v)
  BY <1>2, <1>6, <1>7, SeqEqual
<1> QED BY <1>8 DEF c, d, v

\* The first slot holds the Head.
LEMMA ReadsHead ==
  ASSUME NEW n \in Nat \ {0}, NEW o \in 0 .. n - 1, NEW k \in 0 .. n, k > 0, NEW C
  PROVE  Reads(n, C, o, k) # << >> /\ Head(Reads(n, C, o, k)) = C[o]
<1>1. Len(Reads(n, C, o, k)) = k /\ Reads(n, C, o, k)[1] = C[At(n, o, 1)]
  BY ReadsLength
<1>2. At(n, o, 1) = o
  BY AtFacts
<1>3. Len(<< >>) = 0
  OBVIOUS
<1>4. Head(Reads(n, C, o, k)) = Reads(n, C, o, k)[1]
  OBVIOUS
<1> QED BY <1>1, <1>2, <1>3, <1>4

\* One slot less at the front: the Tail.
LEMMA ReadsTail ==
  ASSUME NEW n \in Nat \ {0}, NEW o \in 0 .. n - 1, NEW k \in 0 .. n, k > 0,
         NEW C, NEW D,
         SameBut(o, Run(n, o, k), C, D)
  PROVE  Tail(Reads(n, C, o, k)) = Reads(n, D, At(n, o, 2), k - 1)
<1> DEFINE S == {C[s] : s \in 0 .. n - 1} \cup {D[s] : s \in 0 .. n - 1}
<1>a. Within(n, C, S)
  BY DEF Within
<1>b. Within(n, D, S)
  BY DEF Within
<1> HIDE DEF S
<1> DEFINE c == Reads(n, C, o, k)
           d == Reads(n, D, At(n, o, 2), k - 1)
<1>0. k \in 0 .. n /\ k - 1 \in 0 .. n
  OBVIOUS
<1>1. /\ c \in Seq(S) /\ Len(c) = k
      /\ \A i \in 1 .. k : c[i] = C[At(n, o, i)]
  <2>1. c \in Seq(S)
    BY <1>0, <1>a, ReadsAreIn
  <2>2. Len(c) = k /\ \A i \in 1 .. k : c[i] = C[At(n, o, i)]
    BY <1>0, ReadsLength
  <2> QED BY <2>1, <2>2
<1>2. At(n, o, 2) \in 0 .. n - 1
  BY AtFacts
<1>3. /\ d \in Seq(S) /\ Len(d) = k - 1
      /\ \A i \in 1 .. k - 1 : d[i] = D[At(n, At(n, o, 2), i)]
  <2>1. PICK p \in 0 .. n - 1 : p = At(n, o, 2)
    BY <1>2
  <2>2. PICK m \in 0 .. n : m = k - 1
    BY <1>0
  <2>3. Reads(n, D, p, m) \in Seq(S)
    BY <1>b, ReadsAreIn
  <2>4. /\ Len(Reads(n, D, p, m)) = m
        /\ \A i \in 1 .. m : Reads(n, D, p, m)[i] = D[At(n, p, i)]
    BY ReadsLength
  <2> QED BY <2>1, <2>2, <2>3, <2>4
<1>4. \A i \in 1 .. k - 1 : d[i] = c[i + 1]
  <2> SUFFICES ASSUME NEW i \in 1 .. k - 1 PROVE d[i] = c[i + 1]
    OBVIOUS
  <2>1. At(n, At(n, o, 2), i) = At(n, o, i + 1) /\ i + 1 \in 1 .. k
    BY AtFacts
  <2>2. At(n, o, i + 1) # o
    BY AtFacts
  <2>3. At(n, o, i + 1) \in Run(n, o, k) \ {o}
    BY <2>1, <2>2 DEF Run
  <2> QED BY <1>1, <1>3, <2>1, <2>3 DEF SameBut
<1> HIDE DEF c, d
<1>6. c # << >>
  BY <1>1, EmptySeq
<1>7. /\ Tail(c) \in Seq(S) /\ Len(Tail(c)) = k - 1
      /\ \A i \in 1 .. Len(Tail(c)) : Tail(c)[i] = c[i + 1]
  BY <1>1, <1>6, HeadTailProperties
<1>8. d = Tail(c)
  BY <1>3, <1>4, <1>7, SeqEqual
<1> QED BY <1>8 DEF c, d

\* One slot of the run changes: so does one element.
LEMMA ReadsExcept ==
  ASSUME NEW n \in Nat \ {0}, NEW o \in 0 .. n - 1, NEW k \in 0 .. n, NEW C, NEW D,
         NEW j \in 1 .. k, SameBut(At(n, o, j), Run(n, o, k), C, D)
  PROVE  Reads(n, D, o, k) = [Reads(n, C, o, k) EXCEPT ![j] = D[At(n, o, j)]]
<1>1. \A i \in (1 .. k) \ {j} : D[At(n, o, i)] = C[At(n, o, i)]
  <2> SUFFICES ASSUME NEW i \in (1 .. k) \ {j}
               PROVE  D[At(n, o, i)] = C[At(n, o, i)]
    OBVIOUS
  <2>1. At(n, o, i) # At(n, o, j) /\ At(n, o, i) \in Run(n, o, k)
    BY AtFacts DEF Run
  <2> QED BY <2>1 DEF SameBut
<1> QED BY <1>1 DEF Reads
=============================================================================
