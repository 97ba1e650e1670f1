----------------------------- MODULE FlowProofs -----------------------------
(***************************************************************************)
(* Theorems about the runs of a compiled program: what the labels of its   *)
(* graph (module FlowLabels) promise is so in every run, for every program *)
(* with such labels and however its flows interleave.                      *)
(***************************************************************************)
EXTENDS FlowRun, FlowLabels, SequenceTheorems, WellFoundedInduction, TLAPS

-----------------------------------------------------------------------------
(* Induction on the natural numbers, for sets.                             *)

\* A set of numbers that has 0 and with a number the next has them all.
LEMMA NatSets ==
  ASSUME NEW S, 0 \in S, \A n \in Nat : n \in S => n + 1 \in S
  PROVE  Nat \subseteq S
<1> DEFINE T == Nat \ S
<1>1. SUFFICES ASSUME T # {} PROVE FALSE
  OBVIOUS
<1>2. T \subseteq Nat
  OBVIOUS
<1> HIDE DEF T
<1>3. PICK x \in T : \A y \in T : ~ (<<y, x>> \in OpToRel(<, Nat))
  BY <1>1, <1>2, NatLessThanWellFounded, WFMin
<1>4. x \in Nat /\ x \notin S
  BY <1>3 DEF T
<1>5. x - 1 \in Nat
  BY <1>4
<1>6. <<x - 1, x>> \in OpToRel(<, Nat)
  BY <1>4, <1>5 DEF OpToRel
<1>7. x - 1 \in S
  BY <1>3, <1>5, <1>6 DEF T
<1> QED BY <1>4, <1>5, <1>7

-----------------------------------------------------------------------------
(* Sequences of anything.                                                  *)

IsSeq(s) == s \in Seq(Range(s))

\* A sequence over a set is a sequence of its own elements.
LEMMA SeqIs ==
  ASSUME NEW S, NEW s \in Seq(S)
  PROVE  IsSeq(s) /\ Len(s) \in Nat /\ DOMAIN s = 1 .. Len(s)
<1>1. s \in [1 .. Len(s) -> Range(s)] /\ Len(s) \in Nat
  BY LenProperties DEF Range
<1> QED BY <1>1, SeqDef DEF IsSeq

\* The domain, the length and the elements of a sequence.
LEMMA SeqFacts ==
  ASSUME NEW s, IsSeq(s)
  PROVE  Len(s) \in Nat /\ DOMAIN s = 1 .. Len(s) /\ s = [n \in 1 .. Len(s) |-> s[n]]
  BY LenProperties DEF IsSeq

\* A function on an initial segment of the numbers is a sequence.
LEMMA SeqFunction ==
  ASSUME NEW n \in Nat, NEW S, NEW s \in [1 .. n -> S]
  PROVE  IsSeq(s) /\ Len(s) = n
<1>1. s \in Seq(S)
  BY SeqDef
<1>2. DOMAIN s = 1 .. Len(s) /\ Len(s) \in Nat
  BY <1>1, LenProperties
<1>3. \A k \in Int : k \in 1 .. n <=> k \in 1 .. Len(s)
  BY <1>2
<1>4. n >= 1 => n \in 1 .. Len(s)
  BY <1>3
<1>5. Len(s) >= 1 => Len(s) \in 1 .. n
  BY <1>3, <1>2
<1>6. Len(s) = n
  BY <1>2, <1>4, <1>5
<1>7. IsSeq(s)
  BY <1>1, SeqIs
<1> QED BY <1>6, <1>7

\* The empty sequence.
LEMMA SeqNone == IsSeq(<<>>) /\ Len(<<>>) = 0
  BY EmptySeq, SeqIs

\* An empty sequence is the one without elements.
LEMMA SeqEmpty ==
  ASSUME NEW s, IsSeq(s)
  PROVE  s = <<>> <=> Len(s) = 0
  BY EmptySeq DEF IsSeq

\* Two sequences, one after the other.
LEMMA SeqJoin ==
  ASSUME NEW s, NEW t, IsSeq(s), IsSeq(t)
  PROVE  /\ IsSeq(s \o t)
         /\ Len(s \o t) = Len(s) + Len(t)
         /\ \A n \in 1 .. Len(s) + Len(t) :
              (s \o t)[n] = IF n <= Len(s) THEN s[n] ELSE t[n - Len(s)]
<1> DEFINE S == Range(s) \cup Range(t)
<1>1. s \in Seq(S) /\ t \in Seq(S)
  <2>1. s \in [1 .. Len(s) -> S] /\ Len(s) \in Nat
    BY SeqFacts DEF Range
  <2>2. t \in [1 .. Len(t) -> S] /\ Len(t) \in Nat
    BY SeqFacts DEF Range
  <2> QED BY <2>1, <2>2, SeqDef
<1> HIDE DEF S
<1> QED BY <1>1, ConcatProperties, SeqIs

\* A sequence with an element added at its end.
LEMMA SeqAppend ==
  ASSUME NEW s, NEW e, IsSeq(s)
  PROVE  /\ IsSeq(Append(s, e))
         /\ Len(Append(s, e)) = Len(s) + 1
         /\ \A n \in 1 .. Len(s) + 1 : Append(s, e)[n] = IF n <= Len(s) THEN s[n] ELSE e
<1> DEFINE S == Range(s) \cup {e}
<1>1. s \in Seq(S) /\ e \in S
  <2>1. s \in [1 .. Len(s) -> S] /\ Len(s) \in Nat
    BY SeqFacts DEF Range
  <2> QED BY <2>1, SeqDef
<1> HIDE DEF S
<1>2. IsSeq(Append(s, e))
  BY <1>1, AppendProperties, SeqIs
<1>3. Len(s) \in Nat
  BY SeqFacts
<1>4. /\ Len(Append(s, e)) = Len(s) + 1
      /\ \A n \in 1 .. Len(s) : Append(s, e)[n] = s[n]
      /\ Append(s, e)[Len(s) + 1] = e
  BY <1>1, AppendProperties
<1> QED BY <1>2, <1>3, <1>4

\* A sequence without its first element.
LEMMA SeqTail ==
  ASSUME NEW s, IsSeq(s), s # <<>>
  PROVE  /\ IsSeq(Tail(s)) /\ Len(s) >= 1
         /\ Head(s) = s[1]
         /\ Len(Tail(s)) = Len(s) - 1
         /\ \A n \in 1 .. Len(s) - 1 : Tail(s)[n] = s[n + 1]
<1>1. s \in Seq(Range(s))
  BY DEF IsSeq
<1>2. Len(s) \in Nat /\ Len(s) >= 1
  BY <1>1, EmptySeq
<1>3. /\ Tail(s) \in Seq(Range(s)) /\ Head(s) = s[1]
      /\ Len(Tail(s)) = Len(s) - 1
      /\ \A n \in 1 .. Len(Tail(s)) : Tail(s)[n] = s[n + 1]
  BY <1>1, HeadTailProperties
<1> QED BY <1>2, <1>3, SeqIs

\* A sequence without its k-th element.
LEMMA SeqRemove ==
  ASSUME NEW s, IsSeq(s), NEW k \in 1 .. Len(s)
  PROVE  /\ IsSeq(RemoveAt(s, k))
         /\ Len(RemoveAt(s, k)) = Len(s) - 1
         /\ \A n \in 1 .. Len(s) - 1 : RemoveAt(s, k)[n] = IF n < k THEN s[n] ELSE s[n + 1]
<1> DEFINE a == SubSeq(s, 1, k - 1)
           b == SubSeq(s, k + 1, Len(s))
<1>1. s \in Seq(Range(s)) /\ Len(s) \in Nat
  BY SeqFacts DEF IsSeq
<1>2. \A n \in 1 .. Len(s) : s[n] \in Range(s)
  BY <1>1, ElementOfSeq
<1>3. /\ a \in Seq(Range(s)) /\ Len(a) = k - 1
      /\ \A n \in 1 .. k - 1 : a[n] = s[n]
  <2>1. \A n \in 1 .. k - 1 : s[n] \in Range(s)
    BY <1>1, <1>2
  <2>2. /\ a \in Seq(Range(s)) /\ Len(a) = IF 1 <= k - 1 THEN k - 1 - 1 + 1 ELSE 0
        /\ \A n \in 1 .. k - 1 - 1 + 1 : a[n] = s[1 + n - 1]
    BY <2>1, SubSeqProperties
  <2> QED BY <2>2
<1>4. /\ b \in Seq(Range(s)) /\ Len(b) = Len(s) - k
      /\ \A n \in 1 .. Len(s) - k : b[n] = s[n + k]
  <2>1. \A n \in k + 1 .. Len(s) : s[n] \in Range(s)
    BY <1>1, <1>2
  <2>2. /\ b \in Seq(Range(s))
        /\ Len(b) = IF k + 1 <= Len(s) THEN Len(s) - (k + 1) + 1 ELSE 0
        /\ \A n \in 1 .. Len(s) - (k + 1) + 1 : b[n] = s[k + 1 + n - 1]
    BY <1>1, <2>1, SubSeqProperties
  <2> QED BY <1>1, <2>2
<1>5. IsSeq(a) /\ IsSeq(b)
  BY <1>3, <1>4, SeqIs
<1>6. RemoveAt(s, k) = a \o b
  BY DEF RemoveAt
<1> HIDE DEF a, b
<1>7. /\ IsSeq(a \o b) /\ Len(a \o b) = Len(a) + Len(b)
      /\ \A n \in 1 .. Len(a) + Len(b) :
           (a \o b)[n] = IF n <= Len(a) THEN a[n] ELSE b[n - Len(a)]
  BY <1>5, SeqJoin
<1>8. \A n \in 1 .. Len(s) - 1 : (a \o b)[n] = IF n < k THEN s[n] ELSE s[n + 1]
  <2> TAKE n \in 1 .. Len(s) - 1
  <2>1. CASE n < k
    <3>1. n \in 1 .. k - 1 /\ n <= Len(a) /\ n \in 1 .. Len(a) + Len(b)
      BY <1>1, <1>3, <1>4, <2>1
    <3> QED BY <1>3, <1>7, <2>1, <3>1
  <2>2. CASE ~ (n < k)
    <3>1. /\ ~ (n <= Len(a)) /\ n \in 1 .. Len(a) + Len(b)
          /\ n - Len(a) \in 1 .. Len(s) - k /\ n - Len(a) + k = n + 1
      BY <1>1, <1>3, <1>4, <2>2
    <3> QED BY <1>4, <1>7, <2>2, <3>1
  <2> QED BY <2>1, <2>2
<1>9. Len(a) + Len(b) = Len(s) - 1
  BY <1>1, <1>3, <1>4
<1> QED BY <1>6, <1>7, <1>8, <1>9

-----------------------------------------------------------------------------
(* Sums.                                                                   *)

\* g[n] is the sum of the first n of w, up to l; of numbers, from one on.
Sums(w, l, g) == g[0] = 0 /\ \A n \in 1 .. l : g[n] = g[n - 1] + w[n]

Adds(w, l, g) == g[0] \in Int /\ \A n \in 1 .. l : w[n] \in Int /\ g[n] = g[n - 1] + w[n]

\* A sequence has partial sums, and the last of them is its total.
LEMMA TotalSums ==
  ASSUME NEW w, Len(w) \in Nat
  PROVE  \E g : Sums(w, Len(w), g) /\ Total(w) = g[Len(w)]
<1> DEFINE Step(g, n) == IF n = 0 THEN 0 ELSE g[n - 1] + w[n]
           S == {m \in Nat : \E g : g = [n \in 0 .. m |-> Step(g, n)]}
<1>1. 0 \in S
  <2>1. [n \in 0 .. 0 |-> 0] = [n \in 0 .. 0 |-> Step([k \in 0 .. 0 |-> 0], n)]
    OBVIOUS
  <2> QED BY <2>1
<1>2. \A m \in Nat : m \in S => m + 1 \in S
  <2> TAKE m \in Nat
  <2> HAVE m \in S
  <2>1. PICK g : g = [n \in 0 .. m |-> Step(g, n)]
    OBVIOUS
  <2> DEFINE h == [n \in 0 .. m + 1 |-> IF n <= m THEN g[n] ELSE g[m] + w[n]]
  <2>2. \A n \in 0 .. m + 1 : h[n] = Step(h, n)
    <3> TAKE n \in 0 .. m + 1
    <3>1. CASE n = 0
      BY <2>1, <3>1
    <3>2. CASE n \in 1 .. m
      <4>1. g[n] = g[n - 1] + w[n] /\ n - 1 \in 0 .. m /\ n \in 0 .. m /\ n # 0
        BY <2>1, <3>2
      <4> QED BY <3>2, <4>1
    <3>3. CASE n = m + 1
      BY <3>3
    <3> QED BY <3>1, <3>2, <3>3
  <2>3. h = [n \in 0 .. m + 1 |-> Step(h, n)]
    BY <2>2
  <2>4. \E e : e = [n \in 0 .. m + 1 |-> Step(e, n)]
    <3> HIDE DEF h, Step
    <3> QED BY <2>3, Zenon
  <2>5. m + 1 \in Nat
    OBVIOUS
  <2> HIDE DEF Step, h
  <2> QED BY <2>4, <2>5, Zenon
<1>3. Len(w) \in S
  <2> HIDE DEF S
  <2> QED BY <1>1, <1>2, NatSets
<1> DEFINE upto == CHOOSE g : g = [n \in 0 .. Len(w) |-> Step(g, n)]
<1>4. upto = [n \in 0 .. Len(w) |-> Step(upto, n)]
  BY <1>3
<1>5. Total(w) = upto[Len(w)]
  BY DEF Total
<1> HIDE DEF upto
<1>6. Sums(w, Len(w), upto)
  BY <1>4 DEF Sums
<1> QED BY <1>5, <1>6

\* Sums with the same summands grow by the same.
LEMMA SameSummands ==
  ASSUME NEW g, NEW h, NEW x, NEW l \in Nat, Adds(x, l, g), Adds(x, l, h)
  PROVE  g[l] \in Int /\ h[l] \in Int /\ g[l] - g[0] = h[l] - h[0]
<1> DEFINE Same(i) == g[i] \in Int /\ h[i] \in Int /\ g[i] - g[0] = h[i] - h[0]
           S == {i \in Nat : i <= l => Same(i)}
<1>1. g[0] \in Int /\ h[0] \in Int
  BY DEF Adds
<1>2. 0 \in S
  BY <1>1
<1>3. \A i \in Nat : i \in S => i + 1 \in S
  <2> TAKE i \in Nat
  <2> HAVE i \in S
  <2>1. CASE i + 1 <= l
    <3>1. i + 1 \in 1 .. l /\ (i + 1) - 1 = i
      BY <2>1
    <3>2. g[i + 1] = g[i] + x[i + 1] /\ h[i + 1] = h[i] + x[i + 1] /\ x[i + 1] \in Int
      BY <3>1 DEF Adds
    <3>3. Same(i)
      BY <2>1
    <3>4. Same(i + 1)
      BY <1>1, <3>2, <3>3
    <3> HIDE DEF Same
    <3> QED BY <3>4
  <2>2. CASE ~ (i + 1 <= l)
    BY <2>2
  <2> QED BY <2>1, <2>2
<1>4. l \in S
  <2> HIDE DEF S
  <2> QED BY <1>2, <1>3, NatSets
<1> QED BY <1>4

\* The l summands of v after its a-th are those of w after its b-th.
Shared(v, m, a, w, n, b, l) ==
  \A i \in 1 .. l : /\ a + i \in 1 .. m /\ b + i \in 1 .. n
                    /\ v[a + i] \in Int /\ w[b + i] = v[a + i]

\* Where l summands of two sequences are the same, so is what they add.
LEMMA SumsWindow ==
  ASSUME NEW v, NEW w, NEW g, NEW h, NEW m \in Nat, NEW n \in Nat, Sums(v, m, g), Sums(w, n, h),
         NEW a \in Nat, NEW b \in Nat, NEW l \in Nat, Shared(v, m, a, w, n, b, l),
         g[a] \in Int, h[b] \in Int
  PROVE  g[a + l] \in Int /\ h[b + l] \in Int /\ g[a + l] - g[a] = h[b + l] - h[b]
<1> DEFINE G == [i \in 0 .. l |-> g[a + i]]
           H == [i \in 0 .. l |-> h[b + i]]
           X == [i \in 1 .. l |-> v[a + i]]
<1>1. \A i \in 1 .. l : g[a + i] = g[a + i - 1] + v[a + i] /\ h[b + i] = h[b + i - 1] + v[a + i]
  BY DEF Sums, Shared
<1>2. \A i \in 1 .. l : /\ X[i] \in Int
                        /\ G[i] = G[i - 1] + X[i] /\ H[i] = H[i - 1] + X[i]
  <2> TAKE i \in 1 .. l
  <2>1. i \in 0 .. l /\ i - 1 \in 0 .. l /\ a + (i - 1) = a + i - 1 /\ b + (i - 1) = b + i - 1
    OBVIOUS
  <2>2. /\ G[i] = g[a + i] /\ G[i - 1] = g[a + i - 1] /\ X[i] = v[a + i]
        /\ H[i] = h[b + i] /\ H[i - 1] = h[b + i - 1] /\ v[a + i] \in Int
    BY <2>1 DEF Shared
  <2> HIDE DEF G, H, X
  <2> QED BY <1>1, <2>2
<1>3. G[0] = g[a] /\ H[0] = h[b] /\ G[l] = g[a + l] /\ H[l] = h[b + l]
  <2>1. a + 0 = a /\ b + 0 = b /\ 0 \in 0 .. l /\ l \in 0 .. l
    OBVIOUS
  <2> QED BY <2>1
<1> HIDE DEF G, H, X
<1>4. Adds(X, l, G) /\ Adds(X, l, H)
  BY <1>2, <1>3 DEF Adds
<1>5. G[l] \in Int /\ H[l] \in Int /\ G[l] - G[0] = H[l] - H[0]
  BY <1>4, SameSummands
<1> QED BY <1>3, <1>5

IsWeights(w) == IsSeq(w) /\ \A n \in 1 .. Len(w) : w[n] \in Nat

\* The partial sums of weights are numbers.
LEMMA TotalPartial ==
  ASSUME NEW w, IsWeights(w)
  PROVE  \E g : /\ Sums(w, Len(w), g) /\ Total(w) = g[Len(w)]
                /\ \A n \in 0 .. Len(w) : g[n] \in Nat
<1> DEFINE l == Len(w)
<1>1. l \in Nat /\ \A n \in 1 .. l : w[n] \in Nat
  BY SeqFacts DEF IsWeights
<1>2. PICK g : Sums(w, l, g) /\ Total(w) = g[l]
  BY <1>1, TotalSums
<1> HIDE DEF l
<1> DEFINE S == {n \in Nat : n <= l => g[n] \in Nat}
<1>3. 0 \in S
  BY <1>2 DEF Sums
<1>4. \A n \in Nat : n \in S => n + 1 \in S
  <2> TAKE n \in Nat
  <2> HAVE n \in S
  <2>1. CASE n + 1 <= l
    <3>1. n + 1 \in 1 .. l /\ (n + 1) - 1 = n /\ g[n] \in Nat
      BY <1>1, <2>1
    <3>2. g[n + 1] = g[n] + w[n + 1] /\ w[n + 1] \in Nat
      BY <1>1, <1>2, <3>1 DEF Sums
    <3> QED BY <3>1, <3>2
  <2>2. CASE ~ (n + 1 <= l)
    BY <2>2
  <2> QED BY <2>1, <2>2
<1>5. Nat \subseteq S
  <2> HIDE DEF S
  <2> QED BY <1>3, <1>4, NatSets
<1>6. \A n \in 0 .. l : g[n] \in Nat
  BY <1>1, <1>5
<1> QED BY <1>2, <1>6 DEF l

\* The total of weights is a number.
LEMMA TotalNat ==
  ASSUME NEW w, IsWeights(w)
  PROVE  Total(w) \in Nat
<1>1. Len(w) \in Nat
  BY SeqFacts DEF IsWeights
<1> QED BY <1>1, TotalPartial

\* Nothing weighs nothing.
LEMMA TotalEmpty == Total(<<>>) = 0
<1>1. Len(<<>>) = 0
  BY SeqNone
<1>2. PICK g : Sums(<<>>, Len(<<>>), g) /\ Total(<<>>) = g[Len(<<>>)]
  BY <1>1, TotalSums
<1> QED BY <1>1, <1>2 DEF Sums

\* u is v and then w.
Joins(u, v, w) ==
  /\ Len(u) = Len(v) + Len(w)
  /\ \A n \in 1 .. Len(u) : u[n] = IF n <= Len(v) THEN v[n] ELSE w[n - Len(v)]

\* The total of two sequences, one after the other.
LEMMA TotalJoin ==
  ASSUME NEW u, NEW v, NEW w, IsWeights(u), IsWeights(v), IsWeights(w), Joins(u, v, w)
  PROVE  Total(u) = Total(v) + Total(w)
<1>1. PICK m, k : m = Len(v) /\ k = Len(w)
  OBVIOUS
<1>2. m \in Nat /\ k \in Nat /\ Len(u) = m + k
  BY <1>1, SeqFacts DEF IsWeights, Joins
<1>3. PICK f : /\ Sums(u, m + k, f) /\ Total(u) = f[m + k]
               /\ \A n \in 0 .. m + k : f[n] \in Nat
  BY <1>2, TotalPartial
<1>4. PICK g : Sums(v, m, g) /\ Total(v) = g[m] /\ \A n \in 0 .. m : g[n] \in Nat
  BY <1>1, TotalPartial
<1>5. PICK h : Sums(w, k, h) /\ Total(w) = h[k] /\ \A n \in 0 .. k : h[n] \in Nat
  BY <1>1, TotalPartial
<1>6. \A n \in 1 .. m : v[n] \in Nat /\ u[n] = v[n]
  BY <1>1, <1>2 DEF IsWeights, Joins
<1>7. \A n \in 1 .. k : w[n] \in Nat /\ u[m + n] = w[n]
  BY <1>1, <1>2 DEF IsWeights, Joins
<1>8. f[m] - f[0] = g[m] - g[0]
  <2>1. Shared(v, m, 0, u, m + k, 0, m)
    BY <1>2, <1>6 DEF Shared
  <2>2. g[0] \in Int /\ f[0] \in Int
    BY <1>3, <1>4 DEF Sums
  <2>3. f[0 + m] - f[0] = g[0 + m] - g[0]
    <3>1. m + k \in Nat
      BY <1>2
    <3> QED BY <1>2, <1>3, <1>4, <2>1, <2>2, <3>1, SumsWindow
  <2> QED BY <1>2, <2>3
<1>9. f[m + k] - f[m] = h[k] - h[0]
  <2>1. Shared(w, k, 0, u, m + k, m, k)
    BY <1>2, <1>7 DEF Shared
  <2>2. h[0] \in Int /\ f[m] \in Int
    BY <1>2, <1>3, <1>5 DEF Sums
  <2>3. f[m + k] - f[m] = h[0 + k] - h[0]
    <3>1. m + k \in Nat
      BY <1>2
    <3> QED BY <1>2, <1>3, <1>5, <2>1, <2>2, <3>1, SumsWindow
  <2> QED BY <1>2, <2>3
<1>10. /\ f[0] = 0 /\ g[0] = 0 /\ h[0] = 0 /\ f[m] \in Nat /\ f[m + k] \in Nat
       /\ g[m] \in Nat /\ h[k] \in Nat
  BY <1>2, <1>3, <1>4, <1>5 DEF Sums
<1> QED BY <1>3, <1>4, <1>5, <1>8, <1>9, <1>10

\* A function from an initial segment to the naturals is a sequence of weights.
LEMMA WeightsAre ==
  ASSUME NEW l \in Nat, NEW w \in [1 .. l -> Nat]
  PROVE  IsWeights(w) /\ Len(w) = l
<1>1. IsSeq(w) /\ Len(w) = l
  BY SeqFunction
<1> QED BY <1>1 DEF IsWeights

\* The total of one weight is that weight.
LEMMA TotalOne ==
  ASSUME NEW w, IsWeights(w), Len(w) = 1
  PROVE  Total(w) = w[1]
<1>1. PICK g : /\ Sums(w, 1, g) /\ Total(w) = g[1]
               /\ \A n \in 0 .. 1 : g[n] \in Nat
  BY TotalPartial
<1>2. g[1] = g[1 - 1] + w[1] /\ g[0] = 0 /\ 1 - 1 = 0 /\ w[1] \in Nat
  BY <1>1 DEF Sums, IsWeights
<1> QED BY <1>1, <1>2

\* What is before and behind the place k of w.
Parts(w, k, a, b) ==
  /\ IsWeights(a) /\ IsWeights(b)
  /\ Len(a) = k - 1 /\ Len(b) = Len(w) - k
  /\ \A n \in 1 .. k - 1 : a[n] = w[n]
  /\ \A n \in 1 .. Len(w) - k : b[n] = w[n + k]

\* A total is that of what is before a place, of what is behind it, and what is
\* there.
LEMMA TotalSplit ==
  ASSUME NEW w, NEW a, NEW b, IsWeights(w), NEW k \in 1 .. Len(w), Parts(w, k, a, b)
  PROVE  Total(w) = Total(a) + w[k] + Total(b)
<1>1. PICK l : l = Len(w)
  OBVIOUS
<1>2. l \in Nat /\ k \in 1 .. l /\ \A n \in 1 .. l : w[n] \in Nat
  BY <1>1, SeqFacts DEF IsWeights
<1> DEFINE one == [n \in 1 .. 1 |-> w[k]]
           u   == [n \in 1 .. l - k + 1 |-> w[k - 1 + n]]
<1>3. IsWeights(one) /\ Len(one) = 1
  BY <1>2, WeightsAre
<1>4. IsWeights(u) /\ Len(u) = l - k + 1
  <2>1. u \in [1 .. l - k + 1 -> Nat] /\ l - k + 1 \in Nat
    BY <1>2
  <2> QED BY <2>1, WeightsAre
<1>5. Total(one) = w[k]
  BY <1>3, TotalOne
<1>6. Total(w) = Total(a) + Total(u)
  <2>1. Len(w) = Len(a) + Len(u)
    BY <1>1, <1>2, <1>4 DEF Parts
  <2>2. \A n \in 1 .. Len(w) : w[n] = IF n <= Len(a) THEN a[n] ELSE u[n - Len(a)]
    BY <1>1, <1>2 DEF Parts
  <2>3. Joins(w, a, u)
    BY <2>1, <2>2 DEF Joins
  <2> HIDE DEF u
  <2> QED BY <1>4, <2>3, TotalJoin DEF Parts
<1>7. Total(u) = Total(one) + Total(b)
  <2>1. Len(u) = Len(one) + Len(b)
    BY <1>1, <1>2, <1>3, <1>4 DEF Parts
  <2>2. \A n \in 1 .. l - k + 1 : u[n] = IF n <= 1 THEN one[n] ELSE b[n - 1]
    <3> TAKE n \in 1 .. l - k + 1
    <3>1. CASE n = 1
      BY <1>2, <3>1
    <3>2. CASE n # 1
      <4>1. n - 1 \in 1 .. l - k /\ ~ (n <= 1) /\ (n - 1) + k = k - 1 + n
        BY <1>2, <3>2
      <4> QED BY <1>1, <4>1 DEF Parts
    <3> QED BY <3>1, <3>2
  <2>3. \A n \in 1 .. Len(u) : u[n] = IF n <= Len(one) THEN one[n] ELSE b[n - Len(one)]
    BY <1>3, <1>4, <2>2
  <2>4. Joins(u, one, b)
    BY <2>1, <2>3 DEF Joins
  <2> HIDE DEF u, one
  <2> QED BY <1>3, <1>4, <2>4, TotalJoin DEF Parts
<1>8. Total(a) \in Nat /\ Total(b) \in Nat /\ w[k] \in Nat
  BY <1>2, TotalNat DEF Parts
<1> HIDE DEF u, one
<1> QED BY <1>5, <1>6, <1>7, <1>8

\* The parts of a sequence of weights are such.
LEMMA WeightsSplit ==
  ASSUME NEW w, IsWeights(w), NEW k \in 1 .. Len(w)
  PROVE  \E a, b : Parts(w, k, a, b)
<1>1. PICK l : l = Len(w)
  OBVIOUS
<1>2. l \in Nat /\ k \in 1 .. l /\ \A n \in 1 .. l : w[n] \in Nat
  BY <1>1, SeqFacts DEF IsWeights
<1> DEFINE a == [n \in 1 .. k - 1 |-> w[n]]
           b == [n \in 1 .. l - k |-> w[n + k]]
<1>3. IsWeights(a) /\ Len(a) = k - 1
  BY <1>2, WeightsAre
<1>4. IsWeights(b) /\ Len(b) = l - k
  <2>1. b \in [1 .. l - k -> Nat] /\ l - k \in Nat
    BY <1>2
  <2> QED BY <2>1, WeightsAre
<1>5. /\ \A n \in 1 .. k - 1 : a[n] = w[n]
      /\ \A n \in 1 .. l - k : b[n] = w[n + k]
  OBVIOUS
<1> HIDE DEF a, b
<1>6. Parts(w, k, a, b)
  BY <1>1, <1>3, <1>4, <1>5 DEF Parts
<1> QED BY <1>6

\* A weight changes.
LEMMA TotalUpdate ==
  ASSUME NEW v, NEW w, IsWeights(v), IsWeights(w), Len(v) = Len(w), NEW k \in 1 .. Len(w),
         \A n \in 1 .. Len(w) : n # k => v[n] = w[n]
  PROVE  Total(v) = (Total(w) - w[k]) + v[k]
<1>1. PICK a, b : Parts(w, k, a, b)
  BY WeightsSplit
<1>2. Total(w) = Total(a) + w[k] + Total(b)
  BY <1>1, TotalSplit
<1>3. Len(w) \in Nat
  BY SeqFacts DEF IsWeights
<1>4. \A n \in 1 .. k - 1 : a[n] = v[n]
  BY <1>1, <1>3 DEF Parts
<1>5. \A n \in 1 .. Len(v) - k : b[n] = v[n + k]
  BY <1>1, <1>3 DEF Parts
<1>6. Parts(v, k, a, b)
  BY <1>1, <1>4, <1>5 DEF Parts
<1>7. Total(v) = Total(a) + v[k] + Total(b)
  BY <1>6, TotalSplit
<1>8. Total(a) \in Nat /\ Total(b) \in Nat /\ v[k] \in Nat /\ w[k] \in Nat
  BY <1>1, TotalNat DEF IsWeights, Parts
<1> QED BY <1>2, <1>7, <1>8

\* v is w without its k-th weight.
Drops(v, w, k) ==
  /\ Len(v) = Len(w) - 1
  /\ \A n \in 1 .. Len(w) - 1 : v[n] = IF n < k THEN w[n] ELSE w[n + 1]

\* A weight is taken out.
LEMMA TotalRemove ==
  ASSUME NEW v, NEW w, IsWeights(v), IsWeights(w), NEW k \in 1 .. Len(w), Drops(v, w, k)
  PROVE  Total(v) = Total(w) - w[k]
<1>1. PICK a, b : Parts(w, k, a, b)
  BY WeightsSplit
<1>2. Total(w) = Total(a) + w[k] + Total(b)
  BY <1>1, TotalSplit
<1>3. PICK l : l = Len(w) /\ l \in Nat /\ k \in 1 .. l
  BY SeqFacts DEF IsWeights
<1>4. \A n \in 1 .. Len(v) : v[n] = IF n <= Len(a) THEN a[n] ELSE b[n - Len(a)]
  <2> SUFFICES ASSUME NEW n \in 1 .. l - 1
               PROVE  v[n] = IF n <= k - 1 THEN a[n] ELSE b[n - (k - 1)]
    BY <1>1, <1>3 DEF Parts, Drops
  <2>1. CASE n < k
    <3>1. n \in 1 .. k - 1 /\ n <= k - 1
      BY <1>3, <2>1
    <3> QED BY <1>1, <1>3, <2>1, <3>1 DEF Parts, Drops
  <2>2. CASE ~ (n < k)
    <3>1. /\ n - (k - 1) \in 1 .. l - k /\ ~ (n <= k - 1)
          /\ (n - (k - 1)) + k = n + 1
      BY <1>3, <2>2
    <3> QED BY <1>1, <1>3, <2>2, <3>1 DEF Parts, Drops
  <2> QED BY <2>1, <2>2
<1>5. Len(v) = Len(a) + Len(b)
  BY <1>1, <1>3 DEF Parts, Drops
<1>6. Joins(v, a, b)
  BY <1>4, <1>5 DEF Joins
<1>7. Total(v) = Total(a) + Total(b)
  BY <1>1, <1>6, TotalJoin DEF Parts
<1>8. Total(a) \in Nat /\ Total(b) \in Nat /\ w[k] \in Nat
  BY <1>1, TotalNat DEF IsWeights, Parts
<1> QED BY <1>2, <1>7, <1>8

\* A weight is added at the end.
LEMMA TotalAppend ==
  ASSUME NEW v, NEW w, IsWeights(v), IsWeights(w), Len(v) = Len(w) + 1,
         \A n \in 1 .. Len(w) : v[n] = w[n]
  PROVE  Total(v) = Total(w) + v[Len(v)]
<1>1. PICK l : l = Len(v) /\ l \in Nat /\ l \in 1 .. l /\ Len(w) = l - 1
  BY SeqFacts DEF IsWeights
<1>2. Total(w) = Total(v) - v[l]
  <2>1. Drops(w, v, l)
    BY <1>1 DEF Drops
  <2> QED BY <1>1, <2>1, TotalRemove
<1>3. Total(v) \in Nat /\ Total(w) \in Nat /\ v[l] \in Nat
  BY <1>1, TotalNat DEF IsWeights
<1> QED BY <1>1, <1>2, <1>3

-----------------------------------------------------------------------------
(* What is in a sequence.                                                  *)

\* What is in a sequence is at one of its places.
LEMMA SeqRange ==
  ASSUME NEW s, IsSeq(s)
  PROVE  \A e : e \in Range(s) <=> \E n \in 1 .. Len(s) : s[n] = e
  BY SeqFacts DEF Range

\* An element that is added is all that is new.
LEMMA RangeAppend ==
  ASSUME NEW s, NEW e, IsSeq(s)
  PROVE  IsSeq(Append(s, e)) /\ Range(Append(s, e)) \subseteq Range(s) \cup {e}
<1>1. /\ IsSeq(Append(s, e)) /\ Len(Append(s, e)) = Len(s) + 1 /\ Len(s) \in Nat
      /\ \A n \in 1 .. Len(s) + 1 : Append(s, e)[n] = IF n <= Len(s) THEN s[n] ELSE e
  BY SeqAppend, SeqFacts
<1>2. ASSUME NEW x \in Range(Append(s, e)), x # e
      PROVE  x \in Range(s)
  <2>1. PICK n \in 1 .. Len(s) + 1 : Append(s, e)[n] = x
    BY <1>1, <1>2, SeqRange
  <2>2. n \in 1 .. Len(s) /\ s[n] = x
    BY <1>1, <1>2, <2>1
  <2> QED BY <2>2, SeqRange
<1> QED BY <1>1, <1>2

\* Nothing new is in a sequence without its first element.
LEMMA RangeTail ==
  ASSUME NEW s, IsSeq(s), s # <<>>
  PROVE  IsSeq(Tail(s)) /\ Range(Tail(s)) \subseteq Range(s) /\ Head(s) \in Range(s)
<1>1. PICK t, h : t = Tail(s) /\ h = Head(s)
  OBVIOUS
<1>2. /\ IsSeq(t) /\ Len(s) >= 1 /\ Len(s) \in Nat /\ h = s[1]
      /\ Len(t) = Len(s) - 1 /\ \A n \in 1 .. Len(s) - 1 : t[n] = s[n + 1]
  BY <1>1, SeqTail, SeqFacts
<1>3. ASSUME NEW x \in Range(t)
      PROVE  x \in Range(s)
  <2>1. PICK n \in 1 .. Len(s) - 1 : t[n] = x
    BY <1>2, SeqRange
  <2>2. n + 1 \in 1 .. Len(s) /\ s[n + 1] = x
    BY <1>2, <2>1
  <2> QED BY <2>2, SeqRange
<1>4. 1 \in 1 .. Len(s)
  BY <1>2
<1> QED BY <1>1, <1>2, <1>3, <1>4, SeqRange

\* Nothing new is in a sequence without its k-th element.
LEMMA RangeRemove ==
  ASSUME NEW s, IsSeq(s), NEW k \in 1 .. Len(s)
  PROVE  IsSeq(RemoveAt(s, k)) /\ Range(RemoveAt(s, k)) \subseteq Range(s)
<1>1. /\ IsSeq(RemoveAt(s, k)) /\ Len(s) \in Nat /\ Len(RemoveAt(s, k)) = Len(s) - 1
      /\ \A n \in 1 .. Len(s) - 1 : RemoveAt(s, k)[n] = IF n < k THEN s[n] ELSE s[n + 1]
  BY SeqRemove, SeqFacts
<1>2. ASSUME NEW x \in Range(RemoveAt(s, k))
      PROVE  x \in Range(s)
  <2>1. PICK n \in 1 .. Len(s) - 1 : RemoveAt(s, k)[n] = x
    BY <1>1, SeqRange
  <2>2. n \in 1 .. Len(s) /\ n + 1 \in 1 .. Len(s) /\ (s[n] = x \/ s[n + 1] = x)
    BY <1>1, <2>1
  <2> QED BY <2>2, SeqRange
<1> QED BY <1>1, <1>2

\* What is in two sequences, one after the other, is in one of them.
LEMMA RangeJoin ==
  ASSUME NEW s, NEW t, IsSeq(s), IsSeq(t)
  PROVE  IsSeq(s \o t) /\ Range(s \o t) \subseteq Range(s) \cup Range(t)
<1>1. /\ IsSeq(s \o t) /\ Len(s \o t) = Len(s) + Len(t) /\ Len(s) \in Nat /\ Len(t) \in Nat
      /\ \A n \in 1 .. Len(s) + Len(t) :
           (s \o t)[n] = IF n <= Len(s) THEN s[n] ELSE t[n - Len(s)]
  BY SeqJoin, SeqFacts
<1>2. PICK l, m : l = Len(s) /\ m = Len(t) /\ l \in Nat /\ m \in Nat
  BY <1>1
<1>3. ASSUME NEW x \in Range(s \o t), x \notin Range(s)
      PROVE  x \in Range(t)
  <2>1. PICK n \in 1 .. l + m : (s \o t)[n] = x
    BY ZenonT(30), <1>1, <1>2, SeqRange
  <2>2. ~ (n \in 1 .. l /\ s[n] = x)
    BY <1>2, <1>3, SeqRange
  <2>3. n - l \in 1 .. m /\ t[n - l] = x
    BY <1>1, <1>2, <2>1, <2>2
  <2> QED BY <1>2, <2>3, SeqRange
<1> QED BY <1>1, <1>3

\* A sequence of one element.
LEMMA RangeOne ==
  ASSUME NEW e
  PROVE  IsSeq(<<e>>) /\ Len(<<e>>) = 1 /\ <<e>>[1] = e /\ Range(<<e>>) = {e}
<1>1. /\ IsSeq(Append(<<>>, e)) /\ Len(Append(<<>>, e)) = 0 + 1
      /\ \A n \in 1 .. 0 + 1 : Append(<<>>, e)[n] = IF n <= 0 THEN <<>>[n] ELSE e
  BY SeqNone, SeqAppend
<1>2. Append(<<>>, e) = <<e>>
  OBVIOUS
<1>3. IsSeq(<<e>>) /\ Len(<<e>>) = 1 /\ <<e>>[1] = e
  BY <1>1, <1>2
<1> QED BY <1>3, SeqRange

\* A sequence of none.
LEMMA RangeNone == IsSeq(<<>>) /\ Range(<<>>) = {}
  BY SeqNone, SeqRange

\* A sequence with an element that has changed.
Put(s, k, e) == [s EXCEPT ![k] = e]

\* A changed sequence is as long as before, and the same at its other places.
LEMMA SeqChange ==
  ASSUME NEW s, IsSeq(s), NEW k \in 1 .. Len(s), NEW e
  PROVE  /\ IsSeq(Put(s, k, e)) /\ Len(Put(s, k, e)) = Len(s) /\ Put(s, k, e)[k] = e
         /\ \A n \in 1 .. Len(s) : n # k => Put(s, k, e)[n] = s[n]
<1> DEFINE t == [s EXCEPT ![k] = e]
<1>1. Len(s) \in Nat /\ DOMAIN s = 1 .. Len(s)
  BY SeqFacts
<1>2. t \in [1 .. Len(s) -> Range(s) \cup {e}]
  BY <1>1, SeqFacts DEF Range
<1>3. IsSeq(t) /\ Len(t) = Len(s)
  BY <1>1, <1>2, SeqFunction
<1>4. t[k] = e /\ \A n \in 1 .. Len(s) : n # k => t[n] = s[n]
  BY <1>1
<1>5. Put(s, k, e) = t
  BY DEF Put
<1> HIDE DEF t
<1> QED BY <1>3, <1>4, <1>5

\* In a changed sequence the element it has now is all that is new.
LEMMA RangeChange ==
  ASSUME NEW s, IsSeq(s), NEW k \in 1 .. Len(s), NEW e
  PROVE  IsSeq(Put(s, k, e)) /\ Range(Put(s, k, e)) \subseteq Range(s) \cup {e}
<1>1. PICK t : t = Put(s, k, e)
  OBVIOUS
<1>2. /\ IsSeq(t) /\ Len(t) = Len(s) /\ t[k] = e
      /\ \A n \in 1 .. Len(s) : n # k => t[n] = s[n]
  BY <1>1, SeqChange
<1>3. ASSUME NEW x \in Range(t), x # e
      PROVE  x \in Range(s)
  <2>1. PICK n \in 1 .. Len(s) : t[n] = x
    BY <1>2, SeqRange
  <2>2. s[n] = x
    BY <1>2, <1>3, <2>1
  <2> QED BY <2>2, SeqRange
<1> QED BY <1>1, <1>2, <1>3

-----------------------------------------------------------------------------
(* The flows of a run, and the calls they have to do.                      *)

\* What is behind the queue of an entry is in the program.
EntryIn(c, entry) ==
  LET q == c.source.queues[entry.q]
  IN  /\ q.deq[entry.c] \in DOMAIN c.ele
      /\ Scanned(c, entry.q) => q.scan[entry.c] \in DOMAIN c.ele

TodoIn(c, todo) == IsSeq(todo) /\ \A n \in 1 .. Len(todo) : todo[n].at \in DOMAIN c.ele

FlowIn(c, flow) ==
  /\ flow = [pkt |-> flow.pkt, todo |-> flow.todo, entry |-> flow.entry]
  /\ TodoIn(c, flow.todo)
  /\ flow.entry = <<>> \/ \E entry : flow.entry = <<entry>> /\ EntryIn(c, entry)

EntriesIn(c, entries) == IsSeq(entries) /\ \A entry \in Range(entries) : EntryIn(c, entry)

UsedIn(c, entries) == EntriesIn(c, entries) /\ \A entry \in Range(entries) : Scanned(c, entry.q)

FlowsIn(c, fs) == IsSeq(fs) /\ \A flow \in Range(fs) : FlowIn(c, flow)

\* Flows call instances of the program, and entries lead to such.
Placed ==
  /\ IsClosed(code, kind)
  /\ FlowsIn(code, flows) /\ EntriesIn(code, slots) /\ UsedIn(code, used)
  /\ ~started => flows = <<>> /\ slots = <<>> /\ used = <<>>

\* A flow that runs changes in what it has to do and in its state.
Goes(fs, k, todo) == [fs EXCEPT ![k].todo = todo]
Changes(fs, k, todo, pkt) == [fs EXCEPT ![k].todo = todo, ![k].pkt = pkt]
To(fs, k, todo, pkt) == Put(fs, k, [pkt |-> pkt, todo |-> todo, entry |-> fs[k].entry])

\* A change by EXCEPT puts a new flow in the place of the old one.
LEMMA FlowsChange ==
  ASSUME NEW c, NEW fs, FlowsIn(c, fs), NEW k \in 1 .. Len(fs), NEW todo, NEW pkt
  PROVE  /\ Changes(fs, k, todo, pkt) = To(fs, k, todo, pkt)
         /\ Goes(fs, k, todo) = To(fs, k, todo, fs[k].pkt)
<1>1. fs[k] = [pkt |-> fs[k].pkt, todo |-> fs[k].todo, entry |-> fs[k].entry]
  BY SeqRange DEF FlowsIn, FlowIn
<1>2. DOMAIN fs = 1 .. Len(fs) /\ fs = [n \in 1 .. Len(fs) |-> fs[n]]
  BY SeqFacts DEF FlowsIn
<1> DEFINE t == [pkt |-> fs[k].pkt, todo |-> todo, entry |-> fs[k].entry]
           p == [pkt |-> pkt, todo |-> todo, entry |-> fs[k].entry]
<1>3. [fs[k] EXCEPT !.todo = todo] = t
  BY <1>1
<1>4. [fs EXCEPT ![k].todo = todo] = [fs EXCEPT ![k] = t]
  BY <1>3
<1>5. [t EXCEPT !.pkt = pkt] = p
  OBVIOUS
<1>6. [fs EXCEPT ![k].todo = todo, ![k].pkt = pkt] = [[fs EXCEPT ![k] = t] EXCEPT ![k].pkt = pkt]
  BY <1>4
<1> HIDE DEF t
<1>7. [[fs EXCEPT ![k] = t] EXCEPT ![k].pkt = pkt] = [fs EXCEPT ![k] = [t EXCEPT !.pkt = pkt]]
  BY <1>2
<1> QED BY <1>4, <1>5, <1>6, <1>7 DEF t, Changes, Goes, To, Put

\* The calls of a way out: those of the ports it fires, then those of run_order.
AreCalls(c, calls, called, after, args) ==
  /\ IsSeq(called) /\ IsSeq(after) /\ Len(called) \in Nat /\ Len(after) \in Nat
  /\ IsSeq(calls) /\ Len(calls) = Len(called) + Len(after)
  /\ \A n \in 1 .. Len(calls) :
       /\ calls[n].at = IF n <= Len(called) THEN called[n] ELSE after[n - Len(called)]
       /\ calls[n].at \in DOMAIN c.ele
       /\ calls[n].args = args \/ calls[n].args = Fresh

\* The calls that Calls makes are those of the way out.
LEMMA CallsAre ==
  ASSUME IsClosed(code, kind), NEW i \in DOMAIN code.ele, NEW port \in Ways(code, kind, i),
         NEW buffer, NEW args
  PROVE  AreCalls(code, Calls(i, Fired(code.ele[i].ports[port], port), buffer, args),
                  CalledOn(code, i, port), After(code, i), args)
<1> DEFINE calls  == Calls(i, Fired(code.ele[i].ports[port], port), buffer, args)
           called == CalledOn(code, i, port)
           after  == After(code, i)
           first  == [n \in DOMAIN called |->
                        Call(called[n], IF code.ele[called[n]].takes THEN buffer ELSE "none", args)]
           second == [n \in DOMAIN after |-> Call(after[n], "none", Fresh)]
<1>1. called \in Seq(DOMAIN code.ele) /\ after \in Seq(DOMAIN code.ele)
  BY DEF IsClosed
<1>2. calls = first \o second
  BY DEF Calls, CalledOn
<1> HIDE DEF calls, called, after
<1>3. /\ IsSeq(called) /\ Len(called) \in Nat /\ DOMAIN called = 1 .. Len(called)
      /\ \A n \in 1 .. Len(called) : called[n] \in DOMAIN code.ele
  BY <1>1, SeqIs, ElementOfSeq
<1>4. /\ IsSeq(after) /\ Len(after) \in Nat /\ DOMAIN after = 1 .. Len(after)
      /\ \A n \in 1 .. Len(after) : after[n] \in DOMAIN code.ele
  BY <1>1, SeqIs, ElementOfSeq
<1>5. /\ IsSeq(first) /\ Len(first) = Len(called)
      /\ \A n \in 1 .. Len(called) : first[n].at = called[n] /\ first[n].args = args
  <2>1. first \in [1 .. Len(called) -> Range(first)]
    BY <1>3 DEF Range
  <2>2. \A n \in 1 .. Len(called) : first[n].at = called[n] /\ first[n].args = args
    BY <1>3 DEF Call
  <2> HIDE DEF first
  <2> QED BY <1>3, <2>1, <2>2, SeqFunction
<1>6. /\ IsSeq(second) /\ Len(second) = Len(after)
      /\ \A n \in 1 .. Len(after) : second[n].at = after[n] /\ second[n].args = Fresh
  <2>1. second \in [1 .. Len(after) -> Range(second)]
    BY <1>4 DEF Range
  <2>2. \A n \in 1 .. Len(after) : second[n].at = after[n] /\ second[n].args = Fresh
    BY <1>4 DEF Call
  <2> HIDE DEF second
  <2> QED BY <1>4, <2>1, <2>2, SeqFunction
<1> HIDE DEF first, second
<1>7. /\ IsSeq(calls) /\ Len(calls) = Len(called) + Len(after)
      /\ \A n \in 1 .. Len(called) + Len(after) :
           calls[n] = IF n <= Len(called) THEN first[n] ELSE second[n - Len(called)]
  <2>1. /\ IsSeq(first \o second) /\ Len(first \o second) = Len(first) + Len(second)
        /\ \A n \in 1 .. Len(first) + Len(second) :
             (first \o second)[n] = IF n <= Len(first) THEN first[n] ELSE second[n - Len(first)]
    BY <1>5, <1>6, SeqJoin
  <2> QED BY <1>2, <1>5, <1>6, <2>1
<1>8. ASSUME NEW n \in 1 .. Len(called) + Len(after)
      PROVE  /\ calls[n].at = IF n <= Len(called) THEN called[n] ELSE after[n - Len(called)]
             /\ calls[n].at \in DOMAIN code.ele
             /\ calls[n].args = args \/ calls[n].args = Fresh
  <2>1. CASE n <= Len(called)
    <3>1. n \in 1 .. Len(called)
      BY <1>3, <2>1
    <3> QED BY <1>3, <1>5, <1>7, <2>1, <3>1
  <2>2. CASE ~ (n <= Len(called))
    <3>1. n - Len(called) \in 1 .. Len(after)
      BY <1>3, <1>4, <2>2
    <3> QED BY <1>4, <1>6, <1>7, <2>2, <3>1
  <2> QED BY <2>1, <2>2
<1>9. \A n \in 1 .. Len(calls) :
        /\ calls[n].at = IF n <= Len(called) THEN called[n] ELSE after[n - Len(called)]
        /\ calls[n].at \in DOMAIN code.ele
        /\ calls[n].args = args \/ calls[n].args = Fresh
  BY <1>7, <1>8
<1> QED BY <1>3, <1>4, <1>7, <1>9 DEF calls, called, after, AreCalls

\* What a flow has left to do once it has made a call.
LEMMA TodoNext ==
  ASSUME NEW c, NEW todo, TodoIn(c, todo), todo # <<>>, NEW calls, TodoIn(c, calls)
  PROVE  /\ TodoIn(c, calls \o Tail(todo)) /\ Len(todo) \in Nat /\ Len(todo) >= 1
         /\ Len(calls) \in Nat /\ Head(todo) = todo[1] /\ todo[1].at \in DOMAIN c.ele
         /\ Len(calls \o Tail(todo)) = Len(calls) + (Len(todo) - 1)
         /\ \A n \in 1 .. Len(calls) + (Len(todo) - 1) :
              (calls \o Tail(todo))[n] = IF n <= Len(calls) THEN calls[n]
                                         ELSE todo[(n - Len(calls)) + 1]
<1>1. /\ IsSeq(Tail(todo)) /\ Len(todo) \in Nat /\ Len(todo) >= 1 /\ Head(todo) = todo[1]
      /\ Len(Tail(todo)) = Len(todo) - 1
      /\ \A n \in 1 .. Len(todo) - 1 : Tail(todo)[n] = todo[n + 1]
  BY SeqTail, SeqFacts DEF TodoIn
<1>2. IsSeq(calls) /\ Len(calls) \in Nat
  BY SeqFacts DEF TodoIn
<1>3. PICK l, m : l = Len(calls) /\ m = Len(todo) - 1 /\ l \in Nat /\ m \in Nat
  BY <1>1, <1>2
<1> DEFINE t == calls \o Tail(todo)
<1>4. /\ IsSeq(t) /\ Len(t) = l + m
      /\ \A n \in 1 .. l + m : t[n] = IF n <= l THEN calls[n] ELSE Tail(todo)[n - l]
  BY <1>1, <1>2, <1>3, SeqJoin
<1> HIDE DEF t
<1>5. ASSUME NEW n \in 1 .. l + m
      PROVE  /\ t[n] = IF n <= l THEN calls[n] ELSE todo[(n - l) + 1]
             /\ t[n].at \in DOMAIN c.ele
  <2>1. CASE n <= l
    <3>1. n \in 1 .. l
      BY <1>3, <2>1
    <3> QED BY <1>3, <1>4, <2>1, <3>1 DEF TodoIn
  <2>2. CASE ~ (n <= l)
    <3>1. n - l \in 1 .. m /\ (n - l) + 1 \in 1 .. Len(todo)
      BY <1>1, <1>3, <2>2
    <3>2. Tail(todo)[n - l] = todo[(n - l) + 1]
      BY <1>1, <1>3, <3>1
    <3> QED BY <1>4, <2>2, <3>1, <3>2 DEF TodoIn
  <2> QED BY <2>1, <2>2
<1>6. TodoIn(c, t)
  BY <1>4, <1>5 DEF TodoIn
<1>7. todo[1].at \in DOMAIN c.ele
  BY <1>1 DEF TodoIn
<1> QED BY <1>1, <1>2, <1>3, <1>4, <1>5, <1>6, <1>7 DEF t

\* A flow that can run, and the instance it has to call.
LEMMA TopIs ==
  ASSUME Placed, NEW k \in Busy
  PROVE  /\ k \in 1 .. Len(flows) /\ FlowIn(code, flows[k])
         /\ TodoIn(code, flows[k].todo) /\ flows[k].todo # <<>>
         /\ Len(flows[k].todo) \in Nat /\ Len(flows[k].todo) >= 1
         /\ Top(k) = flows[k].todo[1] /\ Top(k).at \in DOMAIN code.ele
<1>1. IsSeq(flows) /\ DOMAIN flows = 1 .. Len(flows)
  BY SeqFacts DEF Placed, FlowsIn
<1>2. k \in 1 .. Len(flows) /\ FlowIn(code, flows[k]) /\ flows[k].todo # <<>>
  BY <1>1, SeqRange DEF Busy, Placed, FlowsIn
<1>3. TodoIn(code, flows[k].todo)
  BY <1>2 DEF FlowIn
<1>4. /\ Len(flows[k].todo) \in Nat /\ Len(flows[k].todo) >= 1
      /\ Head(flows[k].todo) = flows[k].todo[1]
  BY <1>2, <1>3, SeqTail, SeqFacts DEF TodoIn
<1>5. flows[k].todo[1].at \in DOMAIN code.ele
  BY <1>3, <1>4 DEF TodoIn
<1> QED BY <1>2, <1>3, <1>4, <1>5 DEF Top

\* What becomes of a flow when an element runs.
RunTo(k, port) ==
  LET i    == Top(k).at
      e    == code.ele[i]
      r    == e.ports[port]
      next == Assign(flows[k].pkt, e.sets \cup r.sets, r.nulls, Aims(k, r), i)
  IN  [pkt   |-> IF e.restores THEN PutBack(next, Top(k).args) ELSE next,
       todo  |-> Calls(i, Fired(r, port), Passed(k, r), Part(flows[k].pkt, e.saves))
                 \o Tail(flows[k].todo),
       entry |-> flows[k].entry]

\* What Run does to the flows, and what it leaves alone.
LEMMA RunDoes ==
  ASSUME Placed, NEW k \in Busy, Run(k)
  PROVE  /\ code.enq[Top(k).at] = {}
         /\ \E port \in Ways(code, kind, Top(k).at) :
              /\ flows' = Put(flows, k, RunTo(k, port))
              /\ answers' = IF code.ele[Top(k).at].sends THEN answers + 1 ELSE answers
              /\ lost' = (lost \/ code.ele[Top(k).at].ports[port].lost)
         /\ UNCHANGED <<prog, code, kind, started, slots, used>>
<1> DEFINE i == Top(k).at
           e == code.ele[i]
           pkt == flows[k].pkt
           Next1(r) == Assign(pkt, e.sets \cup r.sets, r.nulls, Aims(k, r), i)
           Pkt1(r) == IF e.restores THEN PutBack(Next1(r), Top(k).args) ELSE Next1(r)
           Todo1(r, port) == Calls(i, Fired(r, port), Passed(k, r), Part(pkt, e.saves))
                             \o Tail(flows[k].todo)
<1>1. PICK port \in Open(k) :
        /\ flows' = [flows EXCEPT ![k].todo = Todo1(e.ports[port], port),
                                  ![k].pkt = Pkt1(e.ports[port])]
        /\ answers' = IF e.sends THEN answers + 1 ELSE answers
        /\ lost' = (lost \/ e.ports[port].lost)
  BY TopIs DEF Run
<1>2. port \in Ways(code, kind, i)
  BY DEF Open, Ways
<1>3. flows' = Put(flows, k, RunTo(k, port))
  <2>1. k \in 1 .. Len(flows) /\ FlowsIn(code, flows)
    BY TopIs DEF Placed
  <2>2. PICK todo, after : todo = Todo1(e.ports[port], port) /\ after = Pkt1(e.ports[port])
    OBVIOUS
  <2>3. flows' = Changes(flows, k, todo, after)
    BY <1>1, <2>2 DEF Changes
  <2>4. flows' = To(flows, k, todo, after)
    BY <2>1, <2>3, FlowsChange
  <2>5. RunTo(k, port) = [pkt |-> after, todo |-> todo, entry |-> flows[k].entry]
    BY <2>2 DEF RunTo
  <2> QED BY <2>4, <2>5 DEF To
<1> QED BY <1>1, <1>2, <1>3 DEF Run

\* What an enqueue leaves in the queue, and what it calls.
EntryFrom(k, ch) == [q |-> ch[1], c |-> ch[2], pkt |-> Carried(flows[k].pkt, ch[1], ch[2])]

EnqueueTo(k, ch) ==
  [pkt   |-> flows[k].pkt,
   todo  |-> <<Call(P.queues[ch[1]].done, "none", Fresh)>> \o Tail(flows[k].todo),
   entry |-> flows[k].entry]

\* What Enqueue does to the flows and the queue, and what it leaves alone.
LEMMA EnqueueDoes ==
  ASSUME Placed, NEW k \in Busy, Enqueue(k)
  PROVE  /\ \E ch \in code.enq[Top(k).at] :
              /\ flows' = Put(flows, k, EnqueueTo(k, ch))
              /\ \/ slots' = Append(slots, EntryFrom(k, ch)) /\ lost' = lost
                 \/ slots' = slots /\ lost' = TRUE
         /\ UNCHANGED <<prog, code, kind, started, used, answers>>
<1>1. PICK ch \in code.enq[Top(k).at] :
        /\ flows' = [flows EXCEPT ![k].todo =
                        <<Call(P.queues[ch[1]].done, "none", Fresh)>> \o Tail(@)]
        /\ \/ slots' = Append(slots, EntryFrom(k, ch)) /\ lost' = lost
           \/ slots' = slots /\ lost' = TRUE
  BY DEF Enqueue, EntryFrom
<1>2. k \in 1 .. Len(flows) /\ FlowsIn(code, flows)
  BY TopIs DEF Placed
<1>3. PICK todo : todo = <<Call(P.queues[ch[1]].done, "none", Fresh)>> \o Tail(flows[k].todo)
  OBVIOUS
<1>4. flows' = Goes(flows, k, todo)
  BY <1>1, <1>3 DEF Goes
<1>5. flows' = To(flows, k, todo, flows[k].pkt)
  BY <1>2, <1>4, FlowsChange
<1>6. EnqueueTo(k, ch) = [pkt |-> flows[k].pkt, todo |-> todo, entry |-> flows[k].entry]
  BY <1>3 DEF EnqueueTo
<1>7. flows' = Put(flows, k, EnqueueTo(k, ch))
  BY <1>5, <1>6 DEF To
<1> QED BY <1>1, <1>7 DEF Enqueue

\* A single call.
LEMMA OneCall ==
  ASSUME NEW c, NEW i \in DOMAIN c.ele, NEW todo, todo = <<Call(i, "none", Fresh)>>
  PROVE  /\ TodoIn(c, todo) /\ Len(todo) = 1 /\ todo[1].at = i /\ todo[1].args = Fresh
<1>1. IsSeq(todo) /\ Len(todo) = 1 /\ todo[1] = Call(i, "none", Fresh)
  BY RangeOne
<1>2. todo[1].at = i /\ todo[1].args = Fresh
  BY <1>1 DEF Call
<1> QED BY <1>1, <1>2 DEF TodoIn

\* A flow that has just begun.
LEMMA NewFlow ==
  ASSUME NEW c, NEW i \in DOMAIN c.ele, NEW pkt, NEW entry,
         entry = <<>> \/ \E e : entry = <<e>> /\ EntryIn(c, e)
  PROVE  /\ FlowIn(c, Flow(pkt, i, entry)) /\ Flow(pkt, i, entry).pkt = pkt
         /\ Flow(pkt, i, entry).entry = entry
         /\ Flow(pkt, i, entry).todo = <<Call(i, "none", Fresh)>>
<1>1. PICK todo : todo = <<Call(i, "none", Fresh)>>
  OBVIOUS
<1>2. Flow(pkt, i, entry) = [pkt |-> pkt, todo |-> todo, entry |-> entry]
  BY <1>1 DEF Flow
<1> QED BY <1>1, <1>2, OneCall DEF FlowIn

\* A flow that has made a call has calls in the program to do.
LEMMA RunIn ==
  ASSUME Placed, NEW k \in Busy, NEW port \in Ways(code, kind, Top(k).at)
  PROVE  FlowIn(code, RunTo(k, port))
<1> DEFINE i     == Top(k).at
           r     == code.ele[i].ports[port]
           calls == Calls(i, Fired(r, port), Passed(k, r), Part(flows[k].pkt, code.ele[i].saves))
<1>1. TodoIn(code, calls)
  BY TopIs, CallsAre DEF TodoIn, Placed, AreCalls
<1> HIDE DEF calls
<1>2. TodoIn(code, calls \o Tail(flows[k].todo))
  BY <1>1, TopIs, TodoNext
<1>3. /\ RunTo(k, port) = [pkt |-> RunTo(k, port).pkt, todo |-> RunTo(k, port).todo,
                           entry |-> RunTo(k, port).entry]
      /\ RunTo(k, port).todo = calls \o Tail(flows[k].todo)
      /\ RunTo(k, port).entry = flows[k].entry
  BY DEF RunTo, calls
<1> QED BY <1>2, <1>3, TopIs DEF FlowIn

\* So has a flow that has enqueued, and its entry leads into the program.
LEMMA EnqueueIn ==
  ASSUME Placed, NEW k \in Busy, NEW ch \in code.enq[Top(k).at]
  PROVE  FlowIn(code, EnqueueTo(k, ch)) /\ EntryIn(code, EntryFrom(k, ch))
<1> DEFINE q == code.source.queues[ch[1]]
<1>1. /\ q.done \in DOMAIN code.ele /\ q.deq[ch[2]] \in DOMAIN code.ele
      /\ Scanned(code, ch[1]) => q.scan[ch[2]] \in DOMAIN code.ele
  BY TopIs DEF Placed, IsClosed
<1>2. EntryFrom(k, ch).q = ch[1] /\ EntryFrom(k, ch).c = ch[2]
  BY DEF EntryFrom
<1>3. EntryIn(code, EntryFrom(k, ch))
  BY <1>1, <1>2 DEF EntryIn
<1>4. PICK call : call = <<Call(q.done, "none", Fresh)>>
  OBVIOUS
<1>5. TodoIn(code, call)
  BY <1>1, <1>4, OneCall
<1>6. TodoIn(code, call \o Tail(flows[k].todo))
  BY <1>5, TopIs, TodoNext
<1>7. /\ EnqueueTo(k, ch) = [pkt |-> EnqueueTo(k, ch).pkt, todo |-> EnqueueTo(k, ch).todo,
                            entry |-> EnqueueTo(k, ch).entry]
      /\ EnqueueTo(k, ch).todo = call \o Tail(flows[k].todo)
      /\ EnqueueTo(k, ch).entry = flows[k].entry
  BY <1>4 DEF EnqueueTo, P
<1>8. FlowIn(code, EnqueueTo(k, ch))
  BY <1>6, <1>7, TopIs DEF FlowIn
<1> QED BY <1>3, <1>8

\* The flow of an entry that is taken from its queue, and of one that is scanned.
TakenPkt(entry) ==
  IF code.qid[entry.q][entry.c]
  THEN Assign(entry.pkt, {"qid"}, {}, <<>>, P.queues[entry.q].enq[entry.c])
  ELSE entry.pkt

Taken(entry) == Flow(TakenPkt(entry), P.queues[entry.q].deq[entry.c], <<entry>>)

Cleaning(entry) == Flow(entry.pkt, P.queues[entry.q].scan[entry.c], <<>>)

\* What Dequeue does: an entry becomes a flow.
LEMMA DequeueDoes ==
  ASSUME Placed, NEW s \in DOMAIN slots, Dequeue(s)
  PROVE  /\ s \in 1 .. Len(slots) /\ EntryIn(code, slots[s]) /\ slots[s] \in Range(slots)
         /\ slots' = RemoveAt(slots, s) /\ flows' = Append(flows, Taken(slots[s]))
         /\ FlowIn(code, Taken(slots[s])) /\ Taken(slots[s]).pkt = TakenPkt(slots[s])
         /\ Taken(slots[s]).entry = <<slots[s]>>
         /\ Taken(slots[s]).todo = <<Call(P.queues[slots[s].q].deq[slots[s].c], "none", Fresh)>>
         /\ UNCHANGED <<prog, code, kind, started, used, answers, lost>>
<1>1. s \in 1 .. Len(slots) /\ slots[s] \in Range(slots)
  BY SeqFacts, SeqRange DEF Placed, EntriesIn
<1>2. EntryIn(code, slots[s])
  BY <1>1 DEF Placed, EntriesIn
<1>3. slots' = RemoveAt(slots, s) /\ flows' = Append(flows, Taken(slots[s]))
  BY DEF Dequeue, Taken, TakenPkt
<1>4. PICK i : i = P.queues[slots[s].q].deq[slots[s].c] /\ i \in DOMAIN code.ele
  BY <1>2 DEF EntryIn, P
<1>5. PICK pkt, entry : pkt = TakenPkt(slots[s]) /\ entry = <<slots[s]>>
  OBVIOUS
<1>6. Taken(slots[s]) = Flow(pkt, i, entry)
  BY <1>4, <1>5 DEF Taken
<1>7. /\ FlowIn(code, Flow(pkt, i, entry)) /\ Flow(pkt, i, entry).pkt = pkt
      /\ Flow(pkt, i, entry).entry = entry
      /\ Flow(pkt, i, entry).todo = <<Call(i, "none", Fresh)>>
  <2>1. entry = <<>> \/ \E e : entry = <<e>> /\ EntryIn(code, e)
    BY <1>2, <1>5, Zenon
  <2>2. FlowIn(code, Flow(pkt, i, entry))
    BY <1>4, <2>1, NewFlow
  <2> QED BY <2>2 DEF Flow
<1>8. UNCHANGED <<prog, code, kind, started, used, answers, lost>>
  BY DEF Dequeue
<1> QED BY <1>1, <1>2, <1>3, <1>4, <1>5, <1>6, <1>7, <1>8

\* What Return does: a flow goes, and its entry may wait for the scan.
LEMMA ReturnDoes ==
  ASSUME Placed, NEW k \in DOMAIN flows, Return(k)
  PROVE  /\ k \in 1 .. Len(flows) /\ FlowIn(code, flows[k]) /\ flows[k] \in Range(flows)
         /\ flows[k].todo = <<>> /\ flows' = RemoveAt(flows, k)
         /\ \/ flows[k].entry = <<>> /\ used' = used
            \/ \E entry : /\ flows[k].entry = <<entry>> /\ EntryIn(code, entry)
                         /\ IF Scanned(code, entry.q) THEN used' = Append(used, entry)
                            ELSE used' = used
         /\ UNCHANGED <<prog, code, kind, started, slots, answers, lost>>
<1>1. k \in 1 .. Len(flows) /\ flows[k] \in Range(flows)
  BY SeqFacts, SeqRange DEF Placed, FlowsIn
<1>2. FlowIn(code, flows[k])
  BY <1>1 DEF Placed, FlowsIn
<1>3. CASE flows[k].entry = <<>>
  BY <1>1, <1>2, <1>3 DEF Return
<1>4. CASE \E entry : flows[k].entry = <<entry>> /\ EntryIn(code, entry)
  <2>1. PICK entry : flows[k].entry = <<entry>> /\ EntryIn(code, entry)
    BY <1>4
  <2>2. flows[k].entry # <<>> /\ flows[k].entry[1] = entry
    BY <2>1
  <2>3. used \o <<entry>> = Append(used, entry)
    OBVIOUS
  <2>4. IF Scanned(code, entry.q) THEN used' = Append(used, entry) ELSE used' = used
    BY <2>1, <2>2, <2>3 DEF Return, Scanned, P
  <2> QED BY <1>1, <1>2, <2>1, <2>4 DEF Return
<1> QED BY <1>2, <1>3, <1>4 DEF FlowIn

\* What Scan does: an entry that waits becomes a flow.
LEMMA ScanDoes ==
  ASSUME Placed, Scan
  PROVE  /\ used # <<>> /\ Head(used) \in Range(used) /\ used' = Tail(used)
         /\ EntryIn(code, Head(used)) /\ Scanned(code, Head(used).q)
         /\ flows' = Append(flows, Cleaning(Head(used)))
         /\ FlowIn(code, Cleaning(Head(used))) /\ Cleaning(Head(used)).pkt = Head(used).pkt
         /\ Cleaning(Head(used)).entry = <<>>
         /\ Cleaning(Head(used)).todo
              = <<Call(P.queues[Head(used).q].scan[Head(used).c], "none", Fresh)>>
         /\ UNCHANGED <<prog, code, kind, started, slots, answers, lost>>
<1>1. used # <<>> /\ Head(used) \in Range(used) /\ used' = Tail(used)
  BY RangeTail DEF Scan, Placed, UsedIn, EntriesIn
<1>2. EntryIn(code, Head(used)) /\ Scanned(code, Head(used).q)
  BY <1>1 DEF Placed, UsedIn, EntriesIn
<1>3. flows' = Append(flows, Cleaning(Head(used)))
  BY DEF Scan, Cleaning
<1>4. PICK i : i = P.queues[Head(used).q].scan[Head(used).c] /\ i \in DOMAIN code.ele
  BY <1>2 DEF EntryIn, P
<1>5. Cleaning(Head(used)) = Flow(Head(used).pkt, i, <<>>)
  BY <1>4 DEF Cleaning
<1> QED BY SMTT(30), <1>1, <1>2, <1>3, <1>4, <1>5, NewFlow DEF Scan

First == Flow(Fresh, P.starts[kind], <<>>)

\* What Start does: the request's flow begins.
LEMMA StartDoes ==
  ASSUME Placed, Start
  PROVE  /\ ~started /\ started' /\ flows = <<>> /\ slots = <<>> /\ used = <<>>
         /\ flows' = <<First>> /\ FlowIn(code, First) /\ First.pkt = Fresh
         /\ First.entry = <<>> /\ First.todo = <<Call(P.starts[kind], "none", Fresh)>>
         /\ UNCHANGED <<prog, code, kind, slots, used, answers, lost>>
<1>1. P.starts[kind] \in DOMAIN code.ele
  BY DEF Placed, IsClosed, P
<1> QED BY <1>1, NewFlow DEF Start, First, Placed

\* Flows and entries stay in the program.
LEMMA FlowsStay ==
  ASSUME NEW c, NEW fs, FlowsIn(c, fs)
  PROVE  /\ \A flow : FlowIn(c, flow) => FlowsIn(c, Append(fs, flow))
         /\ \A k \in 1 .. Len(fs) : FlowsIn(c, RemoveAt(fs, k))
         /\ \A flow : FlowIn(c, flow) => \A k \in 1 .. Len(fs) : FlowsIn(c, Put(fs, k, flow))
  BY RangeAppend, RangeRemove, RangeChange DEF FlowsIn

\* Entries in a queue stay in the program.
LEMMA EntriesStay ==
  ASSUME NEW c, NEW es, EntriesIn(c, es)
  PROVE  /\ \A entry : EntryIn(c, entry) => EntriesIn(c, Append(es, entry))
         /\ \A k \in 1 .. Len(es) : EntriesIn(c, RemoveAt(es, k))
         /\ es # <<>> => EntriesIn(c, Tail(es))
  BY RangeAppend, RangeRemove, RangeTail DEF EntriesIn

\* Entries that wait for the scan stay in the program.
LEMMA UsedStay ==
  ASSUME NEW c, NEW es, UsedIn(c, es)
  PROVE  /\ \A entry : EntryIn(c, entry) /\ Scanned(c, entry.q) => UsedIn(c, Append(es, entry))
         /\ es # <<>> => UsedIn(c, Tail(es))
  BY EntriesStay, RangeAppend, RangeTail DEF UsedIn, EntriesIn

\* At first nothing is at work.
LEMMA PlacedInit ==
  ASSUME Init, IsClosed(code, kind)
  PROVE  Placed
  BY RangeNone DEF Init, Placed, FlowsIn, EntriesIn, UsedIn

\* No step leads a flow or an entry out of the program, and none changes the
\* program.
LEMMA PlacedNext ==
  ASSUME Placed, [Next]_vars
  PROVE  Placed' /\ code' = code /\ kind' = kind
<1>1. /\ IsClosed(code, kind) /\ FlowsIn(code, flows) /\ EntriesIn(code, slots)
      /\ UsedIn(code, used) /\ (~started => flows = <<>> /\ slots = <<>> /\ used = <<>>)
  BY DEF Placed
<1>2. CASE Start
  <2>1. IsSeq(<<First>>) /\ Range(<<First>>) = {First}
    BY RangeOne
  <2>2. FlowsIn(code, <<First>>)
    BY <1>2, <2>1, StartDoes DEF FlowsIn
  <2> QED BY <1>1, <1>2, <2>2, StartDoes DEF Placed
<1>3. ASSUME NEW k \in Busy, Run(k)
      PROVE  Placed' /\ code' = code /\ kind' = kind
  <2>1. PICK port \in Ways(code, kind, Top(k).at) : flows' = Put(flows, k, RunTo(k, port))
    BY <1>3, RunDoes
  <2>2. FlowsIn(code, flows')
    BY <1>1, <2>1, TopIs, RunIn, FlowsStay
  <2>3. started
    BY <1>1, TopIs, SeqNone
  <2> QED BY <1>1, <1>3, <2>2, <2>3, RunDoes DEF Placed
<1>4. ASSUME NEW k \in Busy, Enqueue(k)
      PROVE  Placed' /\ code' = code /\ kind' = kind
  <2>1. PICK ch \in code.enq[Top(k).at] :
          /\ flows' = Put(flows, k, EnqueueTo(k, ch))
          /\ slots' = Append(slots, EntryFrom(k, ch)) \/ slots' = slots
    BY <1>4, EnqueueDoes
  <2>2. FlowsIn(code, flows')
    BY <1>1, <2>1, TopIs, EnqueueIn, FlowsStay
  <2>3. EntriesIn(code, slots')
    BY <1>1, <2>1, EnqueueIn, EntriesStay
  <2>4. started
    BY <1>1, TopIs, SeqNone
  <2> QED BY <1>1, <1>4, <2>2, <2>3, <2>4, EnqueueDoes DEF Placed
<1>5. ASSUME NEW s \in DOMAIN slots, Dequeue(s)
      PROVE  Placed' /\ code' = code /\ kind' = kind
  <2>1. FlowsIn(code, flows') /\ EntriesIn(code, slots')
    BY <1>1, <1>5, DequeueDoes, FlowsStay, EntriesStay
  <2>2. started
    BY <1>1, <1>5, DequeueDoes, SeqNone
  <2> QED BY <1>1, <1>5, <2>1, <2>2, DequeueDoes DEF Placed
<1>6. ASSUME NEW k \in DOMAIN flows, Return(k)
      PROVE  Placed' /\ code' = code /\ kind' = kind
  <2>1. FlowsIn(code, flows')
    BY <1>1, <1>6, ReturnDoes, FlowsStay
  <2>2. UsedIn(code, used')
    BY <1>1, <1>6, ReturnDoes, UsedStay
  <2>3. started
    BY <1>1, <1>6, ReturnDoes, SeqNone
  <2> QED BY <1>1, <1>6, <2>1, <2>2, <2>3, ReturnDoes DEF Placed
<1>7. CASE Scan
  <2>1. FlowsIn(code, flows') /\ UsedIn(code, used')
    BY <1>1, <1>7, ScanDoes, FlowsStay, UsedStay
  <2> QED BY <1>1, <1>7, <2>1, ScanDoes DEF Placed
<1>8. CASE UNCHANGED vars
  BY <1>1, <1>8 DEF Placed, vars
<1> QED BY <1>2, <1>3, <1>4, <1>5, <1>6, <1>7, <1>8 DEF Next

-----------------------------------------------------------------------------
(* Fields: what a label asks for has been written.                         *)

\* What a state says of pointers is about fields that have been written.
Sane(pkt) == DOMAIN pkt.to \subseteq DOMAIN pkt.by

Has(c, need, fields, i) == \A f \in need[i] : Covers(c, fields, f)

EntrySupplied(c, need, entry) ==
  LET q    == c.source.queues[entry.q]
      back == IF c.qid[entry.q][entry.c] THEN DOMAIN entry.pkt.by \cup {"qid"}
              ELSE DOMAIN entry.pkt.by
  IN  /\ Sane(entry.pkt)
      /\ Has(c, need, back, q.deq[entry.c])
      /\ Scanned(c, entry.q) => Has(c, need, DOMAIN entry.pkt.by, q.scan[entry.c])

FlowSupplied(c, need, flow) ==
  /\ Sane(flow.pkt)
  /\ \A n \in 1 .. Len(flow.todo) :
       Sane(flow.todo[n].args) /\ Has(c, need, DOMAIN flow.pkt.by, flow.todo[n].at)
  /\ flow.entry # <<>> => EntrySupplied(c, need, flow.entry[1])

\* Every call that waits finds in its flow the fields of its label, and every
\* entry carries those of the labels behind it.
Supplied(need) ==
  /\ \A flow \in Range(flows) : FlowSupplied(code, need, flow)
  /\ \A entry \in Range(slots) \cup Range(used) : EntrySupplied(code, need, entry)

\* The field another is within is in none.
LEMMA OuterOuter ==
  ASSUME IsClosed(code, kind), NEW f
  PROVE  Outer(P, Outer(P, f)) = Outer(P, f)
  BY DEF IsClosed, Outer, P

\* The state of a new packet has no fields.
LEMMA FreshHas == Sane(Fresh) /\ DOMAIN Fresh.by = {}
  BY DEF Sane, Fresh

\* An assignment writes what it assigns, and what was written before can be read
\* as before, on its own or through the field it is within.
LEMMA AssignWrites ==
  ASSUME IsClosed(code, kind), NEW pkt, NEW sets, NEW nulls, NEW leads, NEW i
  PROVE  /\ Sane(pkt) => Sane(Assign(pkt, sets, nulls, leads, i))
         /\ \A f : Covers(code, DOMAIN pkt.by \cup (sets \cup nulls), f)
                 => Covers(code, DOMAIN Assign(pkt, sets, nulls, leads, i).by, f)
<1> DEFINE new  == sets \cup nulls
           kept == {f \in DOMAIN pkt.by : f \notin new /\ Outer(P, f) \notin new}
           by   == DOMAIN Assign(pkt, sets, nulls, leads, i).by
<1>1. by = kept \cup new
  BY DEF Assign
<1>2. DOMAIN Assign(pkt, sets, nulls, leads, i).to
        \subseteq nulls \cup sets \cup (kept \cap DOMAIN pkt.to)
  BY DEF Assign
<1>3. Sane(pkt) => Sane(Assign(pkt, sets, nulls, leads, i))
  BY <1>1, <1>2 DEF Sane
<1> HIDE DEF by
<1>4. ASSUME NEW f, Covers(code, DOMAIN pkt.by \cup new, f)
      PROVE  Covers(code, by, f)
  <2>1. Outer(P, Outer(P, f)) = Outer(P, f)
    BY OuterOuter
  <2>2. CASE f \in new \/ Outer(P, f) \in new
    BY <1>1, <2>2 DEF Covers, P
  <2>3. CASE ~ (f \in new \/ Outer(P, f) \in new)
    BY <1>1, <1>4, <2>1, <2>3 DEF Covers, P
  <2> QED BY <2>2, <2>3
<1> QED BY <1>3, <1>4 DEF by

\* What is put back is added to the fields there are.
LEMMA PutBackKeeps ==
  ASSUME NEW pkt, NEW part
  PROVE  /\ DOMAIN PutBack(pkt, part).by = DOMAIN part.by \cup DOMAIN pkt.by
         /\ Sane(pkt) /\ Sane(part) => Sane(PutBack(pkt, part))
  BY DEF PutBack, Sane

\* A part of a state says nothing of pointers that it does not have.
LEMMA PartSane ==
  ASSUME NEW pkt, NEW fields, Sane(pkt)
  PROVE  Sane(Part(pkt, fields))
  BY DEF Part, Sane

\* An entry carries all the fields the compiler has chosen for it, if they are there.
LEMMA CarriedAre ==
  ASSUME NEW pkt, Sane(pkt), NEW q, NEW ch,
         \A f \in code.entry[q][ch] : Covers(code, DOMAIN pkt.by, f)
  PROVE  Sane(Carried(pkt, q, ch)) /\ DOMAIN Carried(pkt, q, ch).by = code.entry[q][ch]
<1> DEFINE copied == P.state.copied
           WrittenAs(f) == IF f \in DOMAIN copied /\ Holds(pkt, copied[f]) = "null"
                           THEN Through1(pkt, copied[f]) ELSE Through1(pkt, f)
           known == {f \in code.entry[q][ch] : WrittenAs(f) \in DOMAIN pkt.by}
<1>1. ASSUME NEW f \in code.entry[q][ch]
      PROVE  WrittenAs(f) \in DOMAIN pkt.by
  <2>1. Through1(pkt, f) \in DOMAIN pkt.by
    BY DEF Through1, Covers, P
  <2>2. ASSUME Holds(pkt, copied[f]) = "null"
        PROVE  Through1(pkt, copied[f]) \in DOMAIN pkt.by
    BY <2>2 DEF Holds, Sane
  <2> QED BY <2>1, <2>2
<1>2. DOMAIN Carried(pkt, q, ch).by = known
  BY DEF Carried
<1>3. DOMAIN Carried(pkt, q, ch).to \subseteq known
  BY DEF Carried
<1> QED BY <1>1, <1>2, <1>3 DEF Sane

\* Fields that have been written stay so.
LEMMA StillHas ==
  ASSUME NEW c, NEW need, NEW i, NEW old, NEW new,
         \A f : Covers(c, old, f) => Covers(c, new, f), Has(c, need, old, i)
  PROVE  Has(c, need, new, i)
  BY DEF Has

\* What the element that runs leaves behind has the fields of the calls it makes
\* and of those that wait.
LEMMA RunSupplies ==
  ASSUME Placed, NEW need, SuppliesNeeds(code, kind, need),
         NEW k \in Busy, FlowSupplied(code, need, flows[k]), code.enq[Top(k).at] = {},
         NEW port \in Ways(code, kind, Top(k).at)
  PROVE  FlowSupplied(code, need, RunTo(k, port))
<1> DEFINE i      == Top(k).at
           e      == code.ele[i]
           r      == e.ports[port]
           flow   == flows[k]
           new    == (e.sets \cup r.sets) \cup r.nulls
           next   == Assign(flow.pkt, e.sets \cup r.sets, r.nulls, Aims(k, r), i)
           saved  == Part(flow.pkt, e.saves)
           calls  == Calls(i, Fired(r, port), Passed(k, r), saved)
           called == CalledOn(code, i, port)
           after  == After(code, i)
<1>1. /\ k \in 1 .. Len(flows) /\ TodoIn(code, flow.todo) /\ flow.todo # <<>>
      /\ Len(flow.todo) \in Nat /\ Len(flow.todo) >= 1
      /\ Top(k) = flow.todo[1] /\ i \in DOMAIN code.ele
  BY TopIs
<1>2. /\ Sane(flow.pkt) /\ Sane(Top(k).args) /\ Has(code, need, DOMAIN flow.pkt.by, i)
      /\ \A n \in 1 .. Len(flow.todo) :
           Sane(flow.todo[n].args) /\ Has(code, need, DOMAIN flow.pkt.by, flow.todo[n].at)
      /\ flow.entry # <<>> => EntrySupplied(code, need, flow.entry[1])
  <2>1. 1 \in 1 .. Len(flow.todo)
    BY <1>1
  <2> QED BY <1>1, <2>1 DEF FlowSupplied
<1>3. PICK pkt : pkt = RunTo(k, port).pkt
  OBVIOUS
<1>4. /\ RunTo(k, port).todo = calls \o Tail(flow.todo) /\ RunTo(k, port).entry = flow.entry
      /\ pkt = IF e.restores THEN PutBack(next, Top(k).args) ELSE next
  BY <1>3 DEF RunTo
<1>5. IsClosed(code, kind)
  BY DEF Placed
<1>6. /\ Sane(pkt)
      /\ \A f : Covers(code, DOMAIN flow.pkt.by \cup new, f) => Covers(code, DOMAIN pkt.by, f)
  <2>1. /\ Sane(next)
        /\ \A f : Covers(code, DOMAIN flow.pkt.by \cup new, f)
                => Covers(code, DOMAIN next.by, f)
    BY <1>2, <1>5, AssignWrites
  <2> HIDE DEF next
  <2>2. PICK args : args = Top(k).args
    OBVIOUS
  <2>3. Sane(PutBack(next, args)) /\ DOMAIN next.by \subseteq DOMAIN PutBack(next, args).by
    BY <1>2, <2>1, <2>2, PutBackKeeps
  <2>4. pkt = PutBack(next, args) \/ pkt = next
    BY <1>4, <2>2
  <2>5. Sane(pkt) /\ DOMAIN next.by \subseteq DOMAIN pkt.by
    BY <2>1, <2>3, <2>4
  <2> QED BY <2>1, <2>5 DEF Covers
<1>7. Sane(saved)
  BY <1>2, PartSane
<1>8. /\ IsSeq(called) /\ IsSeq(after) /\ Len(called) \in Nat /\ Len(after) \in Nat
      /\ IsSeq(calls) /\ Len(calls) = Len(called) + Len(after)
      /\ \A n \in 1 .. Len(calls) :
           /\ calls[n].at = IF n <= Len(called) THEN called[n] ELSE after[n - Len(called)]
           /\ calls[n].at \in DOMAIN code.ele
           /\ calls[n].args = saved \/ calls[n].args = Fresh
  <2>1. AreCalls(code, calls, called, after, saved)
    BY <1>1, <1>5, CallsAre
  <2> HIDE DEF calls, called, after, saved
  <2> QED BY <2>1 DEF AreCalls
<1>9. \A j \in Range(called) \cup Range(after) :
        \A f \in need[j] : f \in need[i] \/ Covers(code, new, f)
  BY <1>1 DEF SuppliesNeeds, MeetsNeeds, Written
<1> HIDE DEF calls, called, after, saved, next, new
<1>10. \A j \in Range(called) \cup Range(after) : Has(code, need, DOMAIN pkt.by, j)
  BY <1>2, <1>6, <1>9 DEF Has, Covers
<1>11. ASSUME NEW n \in 1 .. Len(calls)
       PROVE  Sane(calls[n].args) /\ Has(code, need, DOMAIN pkt.by, calls[n].at)
  <2>1. Sane(calls[n].args)
    BY <1>7, <1>8, FreshHas
  <2>2. calls[n].at \in Range(called) \cup Range(after)
    <3>1. CASE n <= Len(called)
      <4>1. n \in 1 .. Len(called)
        BY <1>8, <3>1
      <4> QED BY <1>8, <3>1, <4>1, SeqRange
    <3>2. CASE ~ (n <= Len(called))
      <4>1. n - Len(called) \in 1 .. Len(after)
        BY <1>8, <3>2
      <4> QED BY <1>8, <3>2, <4>1, SeqRange
    <3> QED BY <3>1, <3>2
  <2> QED BY <1>10, <2>1, <2>2
<1>12. ASSUME NEW n \in 1 .. Len(flow.todo)
       PROVE  Sane(flow.todo[n].args) /\ Has(code, need, DOMAIN pkt.by, flow.todo[n].at)
  <2>1. \A f : Covers(code, DOMAIN flow.pkt.by, f) => Covers(code, DOMAIN pkt.by, f)
    BY <1>6 DEF Covers
  <2> QED BY <1>2, <2>1, StillHas
<1>13. ASSUME NEW n \in 1 .. Len(calls \o Tail(flow.todo))
       PROVE  /\ Sane((calls \o Tail(flow.todo))[n].args)
              /\ Has(code, need, DOMAIN pkt.by, (calls \o Tail(flow.todo))[n].at)
  <2>1. TodoIn(code, calls)
    BY <1>8 DEF TodoIn
  <2>2. PICK t, l, m : t = calls \o Tail(flow.todo) /\ l = Len(calls) /\ m = Len(flow.todo)
    OBVIOUS
  <2>3. /\ Len(t) = l + (m - 1) /\ l \in Nat /\ m \in Nat
        /\ \A j \in 1 .. l + (m - 1) : t[j] = IF j <= l THEN calls[j] ELSE flow.todo[(j - l) + 1]
    BY <1>1, <2>1, <2>2, TodoNext
  <2>4. CASE n <= l
    <3>1. n \in 1 .. l
      BY <2>2, <2>3, <2>4
    <3> QED BY <1>11, <2>2, <2>3, <2>4, <3>1
  <2>5. CASE ~ (n <= l)
    <3>1. (n - l) + 1 \in 1 .. m
      BY <2>2, <2>3, <2>5
    <3> QED BY <1>12, <2>2, <2>3, <2>5, <3>1
  <2> QED BY <2>4, <2>5
<1> QED BY <1>2, <1>3, <1>4, <1>6, <1>13 DEF FlowSupplied

\* An enqueue has the fields it copies, and its entry those needed behind it.
LEMMA EnqueueSupplies ==
  ASSUME Placed, NEW need, SuppliesNeeds(code, kind, need),
         NEW k \in Busy, FlowSupplied(code, need, flows[k]), NEW ch \in code.enq[Top(k).at]
  PROVE  /\ FlowSupplied(code, need, EnqueueTo(k, ch))
         /\ EntrySupplied(code, need, EntryFrom(k, ch))
<1> DEFINE i     == Top(k).at
           flow  == flows[k]
           q     == code.source.queues[ch[1]]
           entry == code.entry[ch[1]][ch[2]]
<1>1. /\ TodoIn(code, flow.todo) /\ flow.todo # <<>>
      /\ Len(flow.todo) \in Nat /\ Len(flow.todo) >= 1
      /\ Top(k) = flow.todo[1] /\ i \in DOMAIN code.ele
  BY TopIs
<1>2. /\ Sane(flow.pkt) /\ Has(code, need, DOMAIN flow.pkt.by, i)
      /\ \A n \in 1 .. Len(flow.todo) :
           Sane(flow.todo[n].args) /\ Has(code, need, DOMAIN flow.pkt.by, flow.todo[n].at)
      /\ flow.entry # <<>> => EntrySupplied(code, need, flow.entry[1])
  <2>1. 1 \in 1 .. Len(flow.todo)
    BY <1>1
  <2> QED BY <1>1, <2>1 DEF FlowSupplied
<1>3. CarriesNeeds(code, need, i, ch)
  BY <1>1 DEF SuppliesNeeds
<1>4. /\ entry \subseteq need[i] /\ need[q.done] \subseteq need[i]
      /\ Scanned(code, ch[1]) => Has(code, need, entry, q.scan[ch[2]])
      /\ Has(code, need, IF code.qid[ch[1]][ch[2]] THEN entry \cup {"qid"} ELSE entry,
             q.deq[ch[2]])
  BY <1>3 DEF CarriesNeeds, Has
<1>5. PICK carried : carried = Carried(flow.pkt, ch[1], ch[2])
  OBVIOUS
<1>6. Sane(carried) /\ DOMAIN carried.by = entry
  BY <1>2, <1>4, <1>5, CarriedAre DEF Has
<1>7. EntryFrom(k, ch).q = ch[1] /\ EntryFrom(k, ch).c = ch[2] /\ EntryFrom(k, ch).pkt = carried
  BY <1>5 DEF EntryFrom
<1>8. EntrySupplied(code, need, EntryFrom(k, ch))
  BY <1>4, <1>6, <1>7 DEF EntrySupplied
<1>9. PICK t, call : call = <<Call(q.done, "none", Fresh)>> /\ t = call \o Tail(flow.todo)
  OBVIOUS
<1>10. /\ EnqueueTo(k, ch).pkt = flow.pkt /\ EnqueueTo(k, ch).todo = t
       /\ EnqueueTo(k, ch).entry = flow.entry
  BY <1>9 DEF EnqueueTo, P
<1>11. TodoIn(code, call) /\ Len(call) = 1 /\ call[1].at = q.done /\ call[1].args = Fresh
  <2>1. q.done \in DOMAIN code.ele
    BY <1>1 DEF Placed, IsClosed
  <2> QED BY <1>9, <2>1, OneCall
<1>12. /\ Len(t) = 1 + (Len(flow.todo) - 1)
       /\ \A n \in 1 .. 1 + (Len(flow.todo) - 1) :
            t[n] = IF n <= 1 THEN call[n] ELSE flow.todo[(n - 1) + 1]
  BY SMTT(30), <1>1, <1>9, <1>11, TodoNext
<1>13. ASSUME NEW n \in 1 .. Len(t)
       PROVE  Sane(t[n].args) /\ Has(code, need, DOMAIN flow.pkt.by, t[n].at)
  <2>1. CASE n = 1
    <3>1. t[n].at = q.done /\ t[n].args = Fresh
      BY <1>1, <1>11, <1>12, <2>1
    <3> QED BY <1>2, <1>4, <3>1, FreshHas DEF Has
  <2>2. CASE n # 1
    <3>1. n \in 1 .. Len(flow.todo) /\ t[n] = flow.todo[n]
      BY <1>1, <1>12, <2>2
    <3> QED BY <1>2, <3>1
  <2> QED BY <2>1, <2>2
<1>14. FlowSupplied(code, need, EnqueueTo(k, ch))
  BY <1>2, <1>10, <1>13 DEF FlowSupplied
<1> QED BY <1>8, <1>14

\* A flow that has just begun has what its one call needs.
LEMMA NewSupplied ==
  ASSUME NEW need, NEW i \in DOMAIN code.ele, NEW flow, Sane(flow.pkt),
         Has(code, need, DOMAIN flow.pkt.by, i), flow.todo = <<Call(i, "none", Fresh)>>,
         flow.entry # <<>> => EntrySupplied(code, need, flow.entry[1])
  PROVE  FlowSupplied(code, need, flow)
<1>1. PICK todo : todo = flow.todo
  OBVIOUS
<1>2. Len(todo) = 1 /\ todo[1].at = i /\ todo[1].args = Fresh
  BY <1>1, OneCall
<1> QED BY <1>1, <1>2, FreshHas DEF FlowSupplied

\* A flow made of an entry, by a dequeue or by a scan, has what its one call
\* needs.
LEMMA TakenSupplies ==
  ASSUME Placed, NEW need, NEW entry, EntryIn(code, entry), EntrySupplied(code, need, entry)
  PROVE  /\ FlowSupplied(code, need, Taken(entry))
         /\ Scanned(code, entry.q) => FlowSupplied(code, need, Cleaning(entry))
<1> DEFINE q == code.source.queues[entry.q]
<1>1. PICK i : i = q.deq[entry.c] /\ i \in DOMAIN code.ele
  BY DEF EntryIn
<1>2. Sane(TakenPkt(entry)) /\ Has(code, need, DOMAIN TakenPkt(entry).by, i)
  <2>1. CASE ~ code.qid[entry.q][entry.c]
    BY <1>1, <2>1 DEF EntrySupplied, TakenPkt
  <2>2. CASE code.qid[entry.q][entry.c]
    <3>1. PICK pkt : pkt = TakenPkt(entry)
      OBVIOUS
    <3>2. /\ Sane(entry.pkt) => Sane(pkt)
          /\ \A f : Covers(code, DOMAIN entry.pkt.by \cup ({"qid"} \cup {}), f)
                  => Covers(code, DOMAIN pkt.by, f)
      BY <2>2, <3>1, AssignWrites DEF TakenPkt, Placed
    <3>3. Sane(entry.pkt) /\ Has(code, need, DOMAIN entry.pkt.by \cup {"qid"}, i)
      BY <1>1, <2>2 DEF EntrySupplied
    <3> QED BY <3>1, <3>2, <3>3 DEF Has
  <2> QED BY <2>1, <2>2
<1>3. FlowSupplied(code, need, Taken(entry))
  <2>1. /\ Taken(entry).pkt = TakenPkt(entry) /\ Taken(entry).entry = <<entry>>
        /\ Taken(entry).todo = <<Call(i, "none", Fresh)>>
    BY <1>1 DEF Taken, Flow, P
  <2>2. Taken(entry).entry[1] = entry
    BY <2>1
  <2> QED BY <1>1, <1>2, <2>1, <2>2, NewSupplied
<1>4. ASSUME Scanned(code, entry.q)
      PROVE  FlowSupplied(code, need, Cleaning(entry))
  <2>1. PICK j : j = q.scan[entry.c] /\ j \in DOMAIN code.ele
    BY <1>4 DEF EntryIn
  <2>2. /\ Cleaning(entry).pkt = entry.pkt /\ Cleaning(entry).entry = <<>>
        /\ Cleaning(entry).todo = <<Call(j, "none", Fresh)>>
    BY <2>1 DEF Cleaning, Flow, P
  <2>3. Sane(entry.pkt) /\ Has(code, need, DOMAIN entry.pkt.by, j)
    BY <1>4, <2>1 DEF EntrySupplied
  <2> QED BY <2>1, <2>2, <2>3, NewSupplied
<1> QED BY <1>3, <1>4

FieldsSupplied == \E need : SuppliesNeeds(code, kind, need) /\ Supplied(need)

\* At first nothing waits.
LEMMA SuppliedInit ==
  ASSUME Init, NEW need, SuppliesNeeds(code, kind, need)
  PROVE  Supplied(need)
  BY RangeNone DEF Init, Supplied

\* No step leaves a call or an entry without the fields of its label.
LEMMA SuppliedNext ==
  ASSUME Placed, FieldsSupplied, [Next]_vars
  PROVE  FieldsSupplied'
<1>1. PICK need : SuppliesNeeds(code, kind, need) /\ Supplied(need)
  BY DEF FieldsSupplied
<1>2. /\ \A flow \in Range(flows) : FlowSupplied(code, need, flow)
      /\ \A entry \in Range(slots) \cup Range(used) : EntrySupplied(code, need, entry)
  BY <1>1 DEF Supplied
<1>3. IsSeq(flows) /\ IsSeq(slots) /\ IsSeq(used)
  BY DEF Placed, FlowsIn, EntriesIn, UsedIn
<1>4. code' = code /\ kind' = kind
  BY PlacedNext
<1>5. SUFFICES /\ \A flow \in Range(flows') : FlowSupplied(code, need, flow)
               /\ \A entry \in Range(slots') \cup Range(used') : EntrySupplied(code, need, entry)
  BY <1>1, <1>4 DEF FieldsSupplied, Supplied
<1>6. CASE Start
  <2>1. Range(<<First>>) = {First}
    BY RangeOne
  <2>2. P.starts[kind] \in DOMAIN code.ele /\ need[P.starts[kind]] = {}
    BY <1>1 DEF Placed, IsClosed, SuppliesNeeds, P
  <2>3. FlowSupplied(code, need, First)
    BY <1>6, <2>2, StartDoes, FreshHas, NewSupplied DEF Has
  <2> QED BY <1>2, <1>6, <2>1, <2>3, StartDoes
<1>7. ASSUME NEW k \in Busy
      PROVE  k \in 1 .. Len(flows) /\ FlowSupplied(code, need, flows[k])
  BY <1>2, <1>3, TopIs, SeqRange
<1>8. ASSUME NEW k \in Busy, Run(k)
      PROVE  /\ \A flow \in Range(flows') : FlowSupplied(code, need, flow)
             /\ \A entry \in Range(slots') \cup Range(used') : EntrySupplied(code, need, entry)
  <2>1. code.enq[Top(k).at] = {} /\ slots' = slots /\ used' = used
    BY <1>8, RunDoes
  <2>2. PICK port \in Ways(code, kind, Top(k).at) : flows' = Put(flows, k, RunTo(k, port))
    BY <1>8, RunDoes
  <2>3. FlowSupplied(code, need, RunTo(k, port))
    BY <1>1, <1>7, <2>1, RunSupplies
  <2>4. Range(flows') \subseteq Range(flows) \cup {RunTo(k, port)}
    BY <1>3, <1>7, <2>2, RangeChange
  <2> QED BY <1>2, <2>1, <2>3, <2>4
<1>9. ASSUME NEW k \in Busy, Enqueue(k)
      PROVE  /\ \A flow \in Range(flows') : FlowSupplied(code, need, flow)
             /\ \A entry \in Range(slots') \cup Range(used') : EntrySupplied(code, need, entry)
  <2>1. used' = used
    BY <1>9, EnqueueDoes
  <2>2. PICK ch \in code.enq[Top(k).at] :
          /\ flows' = Put(flows, k, EnqueueTo(k, ch))
          /\ slots' = Append(slots, EntryFrom(k, ch)) \/ slots' = slots
    BY <1>9, EnqueueDoes
  <2>3. /\ FlowSupplied(code, need, EnqueueTo(k, ch))
        /\ EntrySupplied(code, need, EntryFrom(k, ch))
    BY <1>1, <1>7, EnqueueSupplies
  <2>4. /\ Range(flows') \subseteq Range(flows) \cup {EnqueueTo(k, ch)}
        /\ Range(slots') \subseteq Range(slots) \cup {EntryFrom(k, ch)}
    BY <1>3, <1>7, <2>2, RangeChange, RangeAppend
  <2> QED BY <1>2, <2>1, <2>3, <2>4
<1>10. ASSUME NEW s \in DOMAIN slots, Dequeue(s)
       PROVE  /\ \A flow \in Range(flows') : FlowSupplied(code, need, flow)
              /\ \A entry \in Range(slots') \cup Range(used') : EntrySupplied(code, need, entry)
  <2>1. PICK entry : entry = slots[s]
    OBVIOUS
  <2>2. /\ s \in 1 .. Len(slots) /\ EntryIn(code, entry) /\ entry \in Range(slots)
        /\ slots' = RemoveAt(slots, s) /\ flows' = Append(flows, Taken(entry)) /\ used' = used
    BY <1>10, <2>1, DequeueDoes
  <2>3. FlowSupplied(code, need, Taken(entry))
    BY <1>2, <2>2, TakenSupplies
  <2>4. /\ Range(flows') \subseteq Range(flows) \cup {Taken(entry)}
        /\ Range(slots') \subseteq Range(slots)
    BY <1>3, <2>2, RangeAppend, RangeRemove
  <2> QED BY <1>2, <2>2, <2>3, <2>4
<1>11. ASSUME NEW k \in DOMAIN flows, Return(k)
       PROVE  /\ \A flow \in Range(flows') : FlowSupplied(code, need, flow)
              /\ \A entry \in Range(slots') \cup Range(used') : EntrySupplied(code, need, entry)
  <2>1. /\ k \in 1 .. Len(flows) /\ flows[k] \in Range(flows)
        /\ flows' = RemoveAt(flows, k) /\ slots' = slots
    BY <1>11, ReturnDoes
  <2>2. Range(flows') \subseteq Range(flows)
    BY <1>3, <2>1, RangeRemove
  <2>3. CASE used' = used
    BY <1>2, <2>1, <2>2, <2>3
  <2>4. CASE \E entry : flows[k].entry = <<entry>> /\ used' = Append(used, entry)
    <3>1. PICK entry : flows[k].entry = <<entry>> /\ used' = Append(used, entry)
      BY <2>4
    <3>2. flows[k].entry # <<>> /\ flows[k].entry[1] = entry
      BY <3>1
    <3>3. EntrySupplied(code, need, entry)
      BY <1>2, <2>1, <3>2 DEF FlowSupplied
    <3>4. Range(used') \subseteq Range(used) \cup {entry}
      BY <1>3, <3>1, RangeAppend
    <3> QED BY <1>2, <2>1, <2>2, <3>3, <3>4
  <2> QED BY <1>11, <2>3, <2>4, ReturnDoes
<1>12. CASE Scan
  <2>1. PICK entry : entry = Head(used)
    OBVIOUS
  <2>2. /\ used # <<>> /\ EntryIn(code, entry) /\ entry \in Range(used) /\ Scanned(code, entry.q)
        /\ used' = Tail(used) /\ flows' = Append(flows, Cleaning(entry)) /\ slots' = slots
    BY <1>12, <2>1, ScanDoes
  <2>3. FlowSupplied(code, need, Cleaning(entry))
    BY <1>2, <2>2, TakenSupplies
  <2>4. /\ Range(flows') \subseteq Range(flows) \cup {Cleaning(entry)}
        /\ Range(used') \subseteq Range(used)
    BY <1>3, <2>2, RangeAppend, RangeTail
  <2> QED BY <1>2, <2>2, <2>3, <2>4
<1>13. CASE UNCHANGED vars
  BY <1>2, <1>13 DEF vars
<1> QED BY <1>6, <1>8, <1>9, <1>10, <1>11, <1>12, <1>13 DEF Next

\* What the element about to run reads is in the label of its instance.
LEMMA AccessesNeeded ==
  ASSUME Placed, NEW need, SuppliesNeeds(code, kind, need), NEW k \in Busy
  PROVE  Accesses(k) \subseteq need[Top(k).at]
<1> DEFINE i == Top(k).at
           e == code.ele[i]
           copied == P.state.copied
<1>1. i \in DOMAIN code.ele
  BY TopIs
<1>2. e.uses \cup e.late \subseteq need[i]
  BY <1>1 DEF SuppliesNeeds
<1>3. \A ch \in code.enq[i] : CarriesNeeds(code, need, i, ch)
  BY <1>1 DEF SuppliesNeeds
<1>4. ASSUME NEW f \in UNION {code.entry[ch[1]][ch[2]] \cup {"qid"} : ch \in code.enq[i]}
      PROVE  /\ f \in need[i]
             /\ f \in DOMAIN copied /\ copied[f] # "sizeof" => copied[f] \in need[i]
  <2>1. PICK ch \in code.enq[i] : f \in code.entry[ch[1]][ch[2]] \cup {"qid"}
    BY <1>4
  <2>2. CarriesNeeds(code, need, i, ch)
    BY <1>3
  <2> QED BY <2>1, <2>2 DEF CarriesNeeds, SizesOf, P
<1>5. Copies(k) \subseteq need[i]
  BY <1>4 DEF Copies
<1> QED BY <1>2, <1>5 DEF Accesses

\* The label of an instance has what it reads: it has been written.
LEMMA SuppliedWritten ==
  ASSUME Placed, FieldsSupplied
  PROVE  FieldsAreWritten
<1>1. PICK need : SuppliesNeeds(code, kind, need) /\ Supplied(need)
  BY DEF FieldsSupplied
<1>2. ASSUME NEW k \in Busy, NEW f \in Accesses(k)
      PROVE  Through1(flows[k].pkt, f) \in DOMAIN flows[k].pkt.by
  <2>1. /\ k \in 1 .. Len(flows) /\ Len(flows[k].todo) \in Nat /\ Len(flows[k].todo) >= 1
        /\ Top(k) = flows[k].todo[1] /\ flows[k] \in Range(flows)
    BY TopIs, SeqRange DEF Placed, FlowsIn
  <2>2. FlowSupplied(code, need, flows[k]) /\ 1 \in 1 .. Len(flows[k].todo)
    BY <1>1, <2>1 DEF Supplied
  <2>3. Has(code, need, DOMAIN flows[k].pkt.by, Top(k).at)
    BY <2>1, <2>2 DEF FlowSupplied
  <2>4. f \in need[Top(k).at]
    BY <1>1, AccessesNeeded
  <2> QED BY <2>3, <2>4 DEF Has, Covers, Through1, P
<1> QED BY <1>2 DEF FieldsAreWritten

\* No element of a program whose graph supplies its needs reads a field of the
\* per-packet state that nothing has written, in whatever order its flows run and
\* whichever way out its elements take (FieldsAreWritten; pipeline_state.py,
\* smart_queue_compile.py).
THEOREM SuppliedFieldsAreWritten ==
  Spec /\ IsClosed(code, kind) /\ (\E need : SuppliesNeeds(code, kind, need))
    => []FieldsAreWritten
<1>1. Init /\ IsClosed(code, kind) /\ (\E need : SuppliesNeeds(code, kind, need))
        => Placed /\ FieldsSupplied
  BY PlacedInit, SuppliedInit DEF FieldsSupplied
<1>2. Placed /\ FieldsSupplied /\ [Next]_vars => (Placed /\ FieldsSupplied)'
  BY PlacedNext, SuppliedNext
<1>3. Placed /\ FieldsSupplied => FieldsAreWritten
  BY SuppliedWritten
<1> QED BY <1>1, <1>2, <1>3, PTL DEF Spec

-----------------------------------------------------------------------------
(* Writers: what an element reads was written above it.                    *)

WritesOf(pkt) == {<<f, pkt.by[f]>> : f \in DOMAIN pkt.by}

\* A call of i finds what it may find.
Finds(seen, writes, i) == writes \subseteq seen[i]

EntryOrdered(c, seen, entry) ==
  LET q == c.source.queues[entry.q]
  IN  /\ Finds(seen, TakenWrites(c, WritesOf(entry.pkt), <<entry.q, entry.c>>), q.deq[entry.c])
      /\ Scanned(c, entry.q) => Finds(seen, WritesOf(entry.pkt), q.scan[entry.c])

\* Calls that wait find the writes there are, and those of the calls before them.
TodoOrdered(seen, left, kept, writes, todo) ==
  \A n \in 1 .. Len(todo) :
    /\ Finds(seen, writes, todo[n].at)
    /\ \A m \in 1 .. n - 1 : Finds(seen, left[todo[m].at], todo[n].at)
    /\ WritesOf(todo[n].args) \subseteq kept

FlowOrdered(c, seen, left, kept, flow) ==
  /\ TodoOrdered(seen, left, kept, WritesOf(flow.pkt), flow.todo)
  /\ flow.entry # <<>> => EntryOrdered(c, seen, flow.entry[1])

Ordered(seen, left, kept) ==
  /\ \A flow \in Range(flows) : FlowOrdered(code, seen, left, kept, flow)
  /\ \A entry \in Range(slots) \cup Range(used) : EntryOrdered(code, seen, entry)

WritesOrdered ==
  \E seen, left, kept : OrdersWrites(code, kind, seen, left, kept) /\ Ordered(seen, left, kept)

\* A state that has just been made has no writes.
LEMMA FreshWrites == WritesOf(Fresh) = {}
  BY DEF WritesOf, Fresh

\* What an assignment leaves of the writes and what it adds.
LEMMA AssignRewrites ==
  ASSUME NEW pkt, NEW sets, NEW nulls, NEW leads, NEW i
  PROVE  WritesOf(Assign(pkt, sets, nulls, leads, i))
           \subseteq Rewritten(code, WritesOf(pkt), sets \cup nulls, i)
<1> DEFINE new  == sets \cup nulls
           kept == {f \in DOMAIN pkt.by : f \notin new /\ Outer(P, f) \notin new}
           by   == [f \in kept \cup new |-> IF f \in new THEN i ELSE pkt.by[f]]
<1>1. Assign(pkt, sets, nulls, leads, i).by = by
  BY DEF Assign
<1>2. ASSUME NEW f \in kept \cup new
      PROVE  <<f, by[f]>> \in Rewritten(code, WritesOf(pkt), new, i)
  <2>1. CASE f \in new
    BY <2>1 DEF Rewritten
  <2>2. CASE f \notin new
    <3>1. <<f, pkt.by[f]>> \in WritesOf(pkt) /\ by[f] = pkt.by[f] /\ f \in kept
      BY <2>2 DEF WritesOf
    <3>2. <<f, by[f]>> \in {w \in WritesOf(pkt) : w[1] \notin new /\ Outer(P, w[1]) \notin new}
      BY <3>1
    <3> QED BY <3>2 DEF Rewritten, P
  <2> QED BY <2>1, <2>2
<1> HIDE DEF by
<1>3. DOMAIN by = kept \cup new
  BY DEF by
<1> QED BY <1>1, <1>2, <1>3 DEF WritesOf

\* Of more writes more are left.
LEMMA RewrittenGrows ==
  ASSUME NEW c, NEW v, NEW w, v \subseteq w, NEW new, NEW i
  PROVE  /\ Rewritten(c, v, new, i) \subseteq Rewritten(c, w, new, i)
         /\ Rewritten(c, v, new, i) \subseteq v \cup (new \X {i})
  BY DEF Rewritten

\* Of more writes an entry has more.
LEMMA EntryGrows ==
  ASSUME NEW c, NEW v, NEW w, v \subseteq w, NEW ch
  PROVE  EntryWrites(c, v, ch) \subseteq EntryWrites(c, w, ch)
  BY DEF EntryWrites

\* Of more writes the state made of an entry has more.
LEMMA TakenGrows ==
  ASSUME NEW c, NEW v, NEW w, v \subseteq w, NEW ch
  PROVE  TakenWrites(c, v, ch) \subseteq TakenWrites(c, w, ch)
  BY RewrittenGrows DEF TakenWrites

\* A state into which a part of another is put back has no other writes than these.
LEMMA PutBackWrites ==
  ASSUME NEW pkt, NEW part
  PROVE  WritesOf(PutBack(pkt, part)) \subseteq WritesOf(pkt) \cup WritesOf(part)
<1> DEFINE kept == DOMAIN pkt.by \ DOMAIN part.by
           by   == [f \in kept \cup DOMAIN part.by |-> IF f \in kept THEN pkt.by[f] ELSE part.by[f]]
<1>1. PutBack(pkt, part).by = by
  BY DEF PutBack
<1>2. \A f \in kept \cup DOMAIN part.by : <<f, by[f]>> \in WritesOf(pkt) \cup WritesOf(part)
  BY DEF WritesOf
<1>3. DOMAIN by = kept \cup DOMAIN part.by
  OBVIOUS
<1> HIDE DEF by
<1> QED BY <1>1, <1>2, <1>3 DEF WritesOf

\* A part of a state has those of its writes that are of its fields.
LEMMA PartWrites ==
  ASSUME NEW pkt, NEW fields
  PROVE  WritesOf(Part(pkt, fields)) \subseteq {w \in WritesOf(pkt) : w[1] \in fields}
<1> DEFINE by == [f \in fields \cap DOMAIN pkt.by |-> pkt.by[f]]
<1>1. Part(pkt, fields).by = by
  BY DEF Part
<1>2. \A f \in fields \cap DOMAIN pkt.by :
        <<f, by[f]>> \in {w \in WritesOf(pkt) : w[1] \in fields}
  BY DEF WritesOf
<1>3. DOMAIN by = fields \cap DOMAIN pkt.by
  OBVIOUS
<1> HIDE DEF by
<1> QED BY <1>1, <1>2, <1>3 DEF WritesOf

\* A field is read where it is, or in the field it is within.
LEMMA ThroughIs ==
  ASSUME NEW pkt, NEW f
  PROVE  Through1(pkt, f) \in {f, Outer(P, f)}
  BY DEF Through1

\* The writes of an entry are of what its fields are copied from.
LEMMA CarriedWrites ==
  ASSUME NEW pkt, NEW ch
  PROVE  WritesOf(Carried(pkt, ch[1], ch[2])) \subseteq EntryWrites(code, WritesOf(pkt), ch)
<1> DEFINE copied == P.state.copied
           WrittenAs(f) == IF f \in DOMAIN copied /\ Holds(pkt, copied[f]) = "null"
                           THEN Through1(pkt, copied[f]) ELSE Through1(pkt, f)
           known == {f \in code.entry[ch[1]][ch[2]] : WrittenAs(f) \in DOMAIN pkt.by}
           by == [f \in known |-> pkt.by[WrittenAs(f)]]
<1>1. Carried(pkt, ch[1], ch[2]).by = by
  BY DEF Carried
<1>2. ASSUME NEW f \in known
      PROVE  <<f, by[f]>> \in EntryWrites(code, WritesOf(pkt), ch)
  <2>1. PICK g : g = WrittenAs(f) /\ g \in DOMAIN pkt.by
    OBVIOUS
  <2>2. g \in Sources(code, f)
    <3>1. CASE f \in DOMAIN copied /\ Holds(pkt, copied[f]) = "null"
      BY <2>1, <3>1, ThroughIs DEF Sources, P
    <3>2. CASE ~ (f \in DOMAIN copied /\ Holds(pkt, copied[f]) = "null")
      BY <2>1, <3>2, ThroughIs DEF Sources, P
    <3> QED BY <3>1, <3>2
  <2>3. by[f] = pkt.by[g] /\ <<g, pkt.by[g]>> \in WritesOf(pkt)
    BY <2>1 DEF WritesOf
  <2>4. PICK w : w = <<g, pkt.by[g]>>
    OBVIOUS
  <2>5. PICK from : from = {v \in WritesOf(pkt) : v[1] \in Sources(code, f)}
    OBVIOUS
  <2>6. w \in from /\ <<f, by[f]>> = <<f, w[2]>>
    BY <2>2, <2>3, <2>4, <2>5
  <2>7. <<f, by[f]>> \in {<<f, v[2]>> : v \in from}
    BY <2>6
  <2>8. f \in code.entry[ch[1]][ch[2]]
    OBVIOUS
  <2> HIDE DEF by, known
  <2> QED BY <2>5, <2>7, <2>8 DEF EntryWrites
<1>3. DOMAIN by = known
  OBVIOUS
<1> HIDE DEF by
<1> QED BY <1>1, <1>2, <1>3 DEF WritesOf

\* The writes there may be when an element has run.
LeftBehind(c, seen, kept, i, port, writes) ==
  writes \subseteq Rewritten(c, seen[i], Written(c, i, port), i) \cup Restored(c, kept, i)

\* The calls of a way out find what its element leaves behind and what the calls
\* before them have added, and add no more than the element may.
LEMMA CallsOrdered ==
  ASSUME NEW c, NEW seen, NEW left, NEW kept, NEW i, NEW port, NEW writes, NEW calls,
         NEW args, OrdersRun(c, seen, left, kept, i, port),
         LeftBehind(c, seen, kept, i, port, writes),
         AreCalls(c, calls, CalledOn(c, i, port), After(c, i), args), WritesOf(args) \subseteq kept
  PROVE  /\ TodoOrdered(seen, left, kept, writes, calls)
         /\ \A n \in 1 .. Len(calls) : left[calls[n].at] \subseteq left[i]
<1> DEFINE called == CalledOn(c, i, port)
           after  == After(c, i)
           all    == called \o after
<1>1. /\ IsSeq(called) /\ IsSeq(after) /\ Len(calls) = Len(called) + Len(after)
      /\ \A n \in 1 .. Len(calls) :
           /\ calls[n].at = IF n <= Len(called) THEN called[n] ELSE after[n - Len(called)]
           /\ calls[n].args = args \/ calls[n].args = Fresh
  BY DEF AreCalls
<1>2. /\ Len(all) = Len(called) + Len(after)
      /\ \A n \in 1 .. Len(called) + Len(after) :
           all[n] = IF n <= Len(called) THEN called[n] ELSE after[n - Len(called)]
  BY <1>1, SeqJoin
<1>3. \A n \in 1 .. Len(all) :
        /\ writes \subseteq seen[all[n]]
        /\ \A m \in 1 .. n - 1 : left[all[m]] \subseteq seen[all[n]]
        /\ left[all[n]] \subseteq left[i]
  BY DEF OrdersRun, LeftBehind
<1> HIDE DEF called, after, all
<1>4. Len(all) = Len(calls) /\ \A n \in 1 .. Len(calls) : calls[n].at = all[n]
  BY <1>1, <1>2
<1>5. Len(calls) \in Nat
  BY <1>1, SeqFacts
<1>6. ASSUME NEW n \in 1 .. Len(calls)
      PROVE  /\ Finds(seen, writes, calls[n].at)
             /\ \A m \in 1 .. n - 1 : Finds(seen, left[calls[m].at], calls[n].at)
             /\ WritesOf(calls[n].args) \subseteq kept
             /\ left[calls[n].at] \subseteq left[i]
  <2>1. Finds(seen, writes, calls[n].at) /\ left[calls[n].at] \subseteq left[i]
    BY <1>3, <1>4 DEF Finds
  <2>2. ASSUME NEW m \in 1 .. n - 1
        PROVE  Finds(seen, left[calls[m].at], calls[n].at)
    <3>1. m \in 1 .. Len(calls)
      BY <1>5
    <3>2. left[all[m]] \subseteq seen[all[n]]
      BY <1>3, <1>4
    <3> QED BY <1>4, <3>1, <3>2 DEF Finds
  <2>3. WritesOf(calls[n].args) \subseteq kept
    BY <1>1, FreshWrites
  <2> QED BY <2>1, <2>2, <2>3
<1> QED BY <1>6 DEF TodoOrdered

\* What a flow has left to do stays in order when its next call has been made: the
\* calls made instead are in order, and what they add the one that made them may add.
LEMMA NextOrdered ==
  ASSUME NEW c, NEW seen, NEW left, NEW kept, NEW old, NEW writes, NEW todo, NEW calls, NEW i,
         TodoIn(c, todo), todo # <<>>, TodoIn(c, calls), i = todo[1].at,
         TodoOrdered(seen, left, kept, old, todo),
         TodoOrdered(seen, left, kept, writes, calls),
         \A n \in 1 .. Len(calls) : left[calls[n].at] \subseteq left[i],
         writes \subseteq old \cup left[i]
  PROVE  TodoOrdered(seen, left, kept, writes, calls \o Tail(todo))
<1>1. PICK t, l, m : t = calls \o Tail(todo) /\ l = Len(calls) /\ m = Len(todo)
  OBVIOUS
<1>2. /\ Len(t) = l + (m - 1) /\ l \in Nat /\ m \in Nat /\ m >= 1
      /\ \A n \in 1 .. l + (m - 1) : t[n] = IF n <= l THEN calls[n] ELSE todo[(n - l) + 1]
  BY <1>1, TodoNext
<1>3. ASSUME NEW n \in 1 .. Len(t)
      PROVE  /\ Finds(seen, writes, t[n].at)
             /\ \A j \in 1 .. n - 1 : Finds(seen, left[t[j].at], t[n].at)
             /\ WritesOf(t[n].args) \subseteq kept
  <2>1. CASE n <= l
    <3>1. n \in 1 .. l /\ t[n] = calls[n]
      BY <1>2, <2>1
    <3>2. ASSUME NEW j \in 1 .. n - 1
          PROVE  Finds(seen, left[t[j].at], t[n].at)
      <4>1. t[j] = calls[j]
        BY <1>2, <2>1
      <4> QED BY <1>1, <3>1, <4>1 DEF TodoOrdered
    <3> QED BY <1>1, <3>1, <3>2 DEF TodoOrdered
  <2>2. CASE ~ (n <= l)
    <3>1. PICK p : p = (n - l) + 1
      OBVIOUS
    <3>2. p \in 1 .. m /\ p >= 2 /\ p \in Nat /\ 1 \in 1 .. p - 1 /\ t[n] = todo[p]
      BY <1>2, <2>2, <3>1
    <3>3. /\ Finds(seen, old, t[n].at) /\ Finds(seen, left[i], t[n].at)
          /\ \A j \in 1 .. p - 1 : Finds(seen, left[todo[j].at], t[n].at)
          /\ WritesOf(t[n].args) \subseteq kept
      BY <1>1, <3>2 DEF TodoOrdered
    <3>4. ASSUME NEW j \in 1 .. n - 1
          PROVE  Finds(seen, left[t[j].at], t[n].at)
      <4>1. CASE j <= l
        <5>1. j \in 1 .. l /\ t[j] = calls[j]
          BY <1>2, <2>2, <4>1
        <5> QED BY <1>1, <3>3, <5>1 DEF Finds
      <4>2. CASE ~ (j <= l)
        <5>1. (j - l) + 1 \in 1 .. p - 1 /\ t[j] = todo[(j - l) + 1]
          BY <1>2, <2>2, <3>1, <4>2
        <5> QED BY <3>3, <5>1
      <4> QED BY <4>1, <4>2
    <3> QED BY <3>3, <3>4 DEF Finds
  <2> QED BY <2>1, <2>2
<1> QED BY <1>1, <1>3 DEF TodoOrdered

\* What the element that runs writes, the calls it makes and those that wait may find.
LEMMA RunOrders ==
  ASSUME Placed, NEW seen, NEW left, NEW kept, OrdersWrites(code, kind, seen, left, kept),
         NEW k \in Busy, FlowOrdered(code, seen, left, kept, flows[k]),
         code.enq[Top(k).at] = {}, NEW port \in Ways(code, kind, Top(k).at)
  PROVE  FlowOrdered(code, seen, left, kept, RunTo(k, port))
<1> DEFINE i     == Top(k).at
           e     == code.ele[i]
           r     == e.ports[port]
           flow  == flows[k]
           next  == Assign(flow.pkt, e.sets \cup r.sets, r.nulls, Aims(k, r), i)
           saved == Part(flow.pkt, e.saves)
           calls == Calls(i, Fired(r, port), Passed(k, r), saved)
<1>1. /\ TodoIn(code, flow.todo) /\ flow.todo # <<>>
      /\ Len(flow.todo) \in Nat /\ Len(flow.todo) >= 1
      /\ Top(k) = flow.todo[1] /\ i \in DOMAIN code.ele
  BY TopIs
<1>2. /\ TodoOrdered(seen, left, kept, WritesOf(flow.pkt), flow.todo)
      /\ flow.entry # <<>> => EntryOrdered(code, seen, flow.entry[1])
  BY DEF FlowOrdered
<1>3. WritesOf(flow.pkt) \subseteq seen[i] /\ WritesOf(Top(k).args) \subseteq kept
  <2>1. 1 \in 1 .. Len(flow.todo)
    BY <1>1
  <2> QED BY <1>1, <1>2, <2>1 DEF TodoOrdered, Finds
<1>4. /\ OrdersRun(code, seen, left, kept, i, port)
      /\ {w \in seen[i] : w[1] \in e.saves} \subseteq kept
  BY <1>1 DEF OrdersWrites
<1>5. PICK new : new = e.sets \cup r.sets \cup r.nulls
  OBVIOUS
<1>6. PICK pkt : pkt = RunTo(k, port).pkt
  OBVIOUS
<1>7. /\ RunTo(k, port).todo = calls \o Tail(flow.todo) /\ RunTo(k, port).entry = flow.entry
      /\ pkt = IF e.restores THEN PutBack(next, Top(k).args) ELSE next
  BY <1>6 DEF RunTo
<1>8. WritesOf(next) \subseteq Rewritten(code, WritesOf(flow.pkt), new, i)
  BY <1>5, AssignRewrites
<1>9. AreCalls(code, calls, CalledOn(code, i, port), After(code, i), saved)
  BY <1>1, CallsAre DEF Placed
<1>10. WritesOf(saved) \subseteq kept
  <2>1. WritesOf(saved) \subseteq {w \in WritesOf(flow.pkt) : w[1] \in e.saves}
    BY PartWrites
  <2> QED BY <1>3, <1>4, <2>1
<1> HIDE DEF next, calls, saved
<1>11. WritesOf(pkt) \subseteq WritesOf(next) \cup Restored(code, kept, i)
  <2>1. CASE ~ e.restores
    BY <1>7, <2>1
  <2>2. CASE e.restores
    <3>1. PICK args : args = Top(k).args
      OBVIOUS
    <3>2. WritesOf(pkt) \subseteq WritesOf(next) \cup WritesOf(args)
      BY <1>7, <2>2, <3>1, PutBackWrites
    <3>3. Restored(code, kept, i) = kept
      BY <2>2 DEF Restored
    <3> QED BY <1>3, <3>1, <3>2, <3>3
  <2> QED BY <2>1, <2>2
<1>12. WritesOf(pkt) \subseteq Rewritten(code, seen[i], new, i) \cup Restored(code, kept, i)
  BY <1>3, <1>8, <1>11, RewrittenGrows
<1>13. WritesOf(pkt) \subseteq WritesOf(flow.pkt) \cup left[i]
  <2>1. (new \X {i}) \cup Restored(code, kept, i) \subseteq left[i]
    BY <1>4, <1>5 DEF OrdersRun, Written
  <2>2. Rewritten(code, WritesOf(flow.pkt), new, i) \subseteq WritesOf(flow.pkt) \cup (new \X {i})
    BY RewrittenGrows
  <2> QED BY <1>8, <1>11, <2>1, <2>2
<1>14. /\ TodoOrdered(seen, left, kept, WritesOf(pkt), calls)
       /\ \A n \in 1 .. Len(calls) : left[calls[n].at] \subseteq left[i]
  <2>1. PICK writes, args, cs, j :
          writes = WritesOf(pkt) /\ args = saved /\ cs = calls /\ j = i
    OBVIOUS
  <2>2. OrdersRun(code, seen, left, kept, j, port)
    BY <1>4, <2>1
  <2>3. LeftBehind(code, seen, kept, j, port, writes)
    BY <1>5, <1>12, <2>1 DEF LeftBehind, Written
  <2>4. AreCalls(code, cs, CalledOn(code, j, port), After(code, j), args)
    BY <1>9, <2>1
  <2>5. WritesOf(args) \subseteq kept
    BY <1>10, <2>1
  <2>6. /\ TodoOrdered(seen, left, kept, writes, cs)
        /\ \A n \in 1 .. Len(cs) : left[cs[n].at] \subseteq left[j]
    BY <2>2, <2>3, <2>4, <2>5, CallsOrdered
  <2> QED BY <2>1, <2>6
<1>15. TodoIn(code, calls)
  BY <1>9 DEF AreCalls, TodoIn
<1>16. TodoOrdered(seen, left, kept, WritesOf(pkt), calls \o Tail(flow.todo))
  <2>1. PICK writes, old : writes = WritesOf(pkt) /\ old = WritesOf(flow.pkt)
    OBVIOUS
  <2> QED BY <1>1, <1>2, <1>13, <1>14, <1>15, <2>1, NextOrdered
<1> QED BY <1>2, <1>6, <1>7, <1>16 DEF FlowOrdered

\* The done port finds what the enqueue did, and the entry has what is seen behind it.
LEMMA EnqueueOrders ==
  ASSUME Placed, NEW seen, NEW left, NEW kept, OrdersWrites(code, kind, seen, left, kept),
         NEW k \in Busy, FlowOrdered(code, seen, left, kept, flows[k]),
         NEW ch \in code.enq[Top(k).at]
  PROVE  /\ FlowOrdered(code, seen, left, kept, EnqueueTo(k, ch))
         /\ EntryOrdered(code, seen, EntryFrom(k, ch))
<1> DEFINE i    == Top(k).at
           flow == flows[k]
           q    == code.source.queues[ch[1]]
<1>1. /\ TodoIn(code, flow.todo) /\ flow.todo # <<>>
      /\ Len(flow.todo) \in Nat /\ Len(flow.todo) >= 1
      /\ Top(k) = flow.todo[1] /\ i \in DOMAIN code.ele
  BY TopIs
<1>2. /\ TodoOrdered(seen, left, kept, WritesOf(flow.pkt), flow.todo)
      /\ flow.entry # <<>> => EntryOrdered(code, seen, flow.entry[1])
  BY DEF FlowOrdered
<1>3. WritesOf(flow.pkt) \subseteq seen[i]
  <2>1. 1 \in 1 .. Len(flow.todo)
    BY <1>1
  <2> QED BY <1>1, <1>2, <2>1 DEF TodoOrdered, Finds
<1>4. OrdersEntry(code, seen, left, i, ch)
  BY <1>1 DEF OrdersWrites
<1>5. PICK entry : entry = EntryWrites(code, seen[i], ch)
  OBVIOUS
<1>6. /\ seen[i] \subseteq seen[q.done] /\ left[q.done] \subseteq left[i]
      /\ TakenWrites(code, entry, ch) \subseteq seen[q.deq[ch[2]]]
      /\ Scanned(code, ch[1]) => entry \subseteq seen[q.scan[ch[2]]]
  BY <1>4, <1>5 DEF OrdersEntry
<1>7. EntryOrdered(code, seen, EntryFrom(k, ch))
  <2>1. PICK carried : carried = Carried(flow.pkt, ch[1], ch[2])
    OBVIOUS
  <2>2. WritesOf(carried) \subseteq entry
    <3>1. PICK writes : writes = WritesOf(flow.pkt)
      OBVIOUS
    <3>2. EntryWrites(code, writes, ch) \subseteq entry
      BY <1>3, <1>5, <3>1, EntryGrows
    <3> QED BY <2>1, <3>1, <3>2, CarriedWrites
  <2>3. EntryFrom(k, ch).q = ch[1] /\ EntryFrom(k, ch).c = ch[2] /\ EntryFrom(k, ch).pkt = carried
    BY <2>1 DEF EntryFrom
  <2>4. TakenWrites(code, WritesOf(carried), <<ch[1], ch[2]>>)
          = TakenWrites(code, WritesOf(carried), ch)
    BY DEF TakenWrites
  <2>5. TakenWrites(code, WritesOf(carried), ch) \subseteq TakenWrites(code, entry, ch)
    BY <2>2, TakenGrows
  <2> QED BY <1>6, <2>2, <2>3, <2>4, <2>5 DEF EntryOrdered, Finds
<1>8. PICK t, call : call = <<Call(q.done, "none", Fresh)>> /\ t = call \o Tail(flow.todo)
  OBVIOUS
<1>9. /\ EnqueueTo(k, ch).pkt = flow.pkt /\ EnqueueTo(k, ch).todo = t
      /\ EnqueueTo(k, ch).entry = flow.entry
  BY <1>8 DEF EnqueueTo, P
<1>10. TodoIn(code, call) /\ Len(call) = 1 /\ call[1].at = q.done /\ call[1].args = Fresh
  <2>1. q.done \in DOMAIN code.ele
    BY <1>1 DEF Placed, IsClosed
  <2> QED BY <1>8, <2>1, OneCall
<1>11. TodoOrdered(seen, left, kept, WritesOf(flow.pkt), call)
  <2>1. \A n \in 1 .. Len(call) : n = 1
    BY <1>10
  <2>2. Finds(seen, WritesOf(flow.pkt), call[1].at) /\ WritesOf(call[1].args) \subseteq kept
    BY <1>3, <1>6, <1>10, FreshWrites DEF Finds
  <2> QED BY <2>1, <2>2 DEF TodoOrdered
<1>12. TodoOrdered(seen, left, kept, WritesOf(flow.pkt), t)
  <2>1. \A n \in 1 .. Len(call) : left[call[n].at] \subseteq left[i]
    BY <1>6, <1>10
  <2>2. PICK writes : writes = WritesOf(flow.pkt)
    OBVIOUS
  <2> QED BY <1>1, <1>2, <1>8, <1>10, <1>11, <2>1, <2>2, NextOrdered
<1>13. FlowOrdered(code, seen, left, kept, EnqueueTo(k, ch))
  BY <1>2, <1>9, <1>12 DEF FlowOrdered
<1> QED BY <1>7, <1>13

\* A flow that has just begun finds the writes its one call may find.
LEMMA NewOrdered ==
  ASSUME NEW seen, NEW left, NEW kept, NEW i \in DOMAIN code.ele, NEW flow,
         Finds(seen, WritesOf(flow.pkt), i), flow.todo = <<Call(i, "none", Fresh)>>,
         flow.entry # <<>> => EntryOrdered(code, seen, flow.entry[1])
  PROVE  FlowOrdered(code, seen, left, kept, flow)
<1>1. PICK todo : todo = flow.todo
  OBVIOUS
<1>2. Len(todo) = 1 /\ todo[1].at = i /\ todo[1].args = Fresh
  BY <1>1, OneCall
<1>3. \A n \in 1 .. Len(todo) : n = 1
  BY <1>2
<1>4. TodoOrdered(seen, left, kept, WritesOf(flow.pkt), todo)
  BY <1>2, <1>3, FreshWrites DEF TodoOrdered
<1> QED BY <1>1, <1>4 DEF FlowOrdered

\* A flow made of an entry, by a dequeue or by a scan, finds what its one call may.
LEMMA TakenOrders ==
  ASSUME Placed, NEW seen, NEW left, NEW kept, NEW entry, EntryIn(code, entry),
         EntryOrdered(code, seen, entry)
  PROVE  /\ FlowOrdered(code, seen, left, kept, Taken(entry))
         /\ Scanned(code, entry.q) => FlowOrdered(code, seen, left, kept, Cleaning(entry))
<1> DEFINE q == code.source.queues[entry.q]
<1>1. PICK i : i = q.deq[entry.c] /\ i \in DOMAIN code.ele
  BY DEF EntryIn
<1>2. Finds(seen, WritesOf(TakenPkt(entry)), i)
  <2> DEFINE ch == <<entry.q, entry.c>>
  <2>1. ch[1] = entry.q /\ ch[2] = entry.c
    OBVIOUS
  <2> HIDE DEF ch
  <2>2. WritesOf(TakenPkt(entry)) \subseteq TakenWrites(code, WritesOf(entry.pkt), ch)
    <3>1. CASE ~ code.qid[entry.q][entry.c]
      BY <2>1, <3>1 DEF TakenPkt, TakenWrites
    <3>2. CASE code.qid[entry.q][entry.c]
      <4>1. WritesOf(Assign(entry.pkt, {"qid"}, {}, <<>>, q.enq[entry.c]))
              \subseteq Rewritten(code, WritesOf(entry.pkt), {"qid"} \cup {}, q.enq[entry.c])
        BY AssignRewrites
      <4>2. {"qid"} \cup {} = {"qid"}
        OBVIOUS
      <4>3. TakenPkt(entry) = Assign(entry.pkt, {"qid"}, {}, <<>>, q.enq[entry.c])
        BY <3>2 DEF TakenPkt, P
      <4> QED BY <2>1, <3>2, <4>1, <4>2, <4>3 DEF TakenWrites
    <3> QED BY <3>1, <3>2
  <2> QED BY <1>1, <2>2 DEF EntryOrdered, Finds, ch
<1>3. FlowOrdered(code, seen, left, kept, Taken(entry))
  <2>1. /\ Taken(entry).pkt = TakenPkt(entry) /\ Taken(entry).entry = <<entry>>
        /\ Taken(entry).todo = <<Call(i, "none", Fresh)>>
    BY <1>1 DEF Taken, Flow, P
  <2>2. Taken(entry).entry[1] = entry
    BY <2>1
  <2> QED BY <1>1, <1>2, <2>1, <2>2, NewOrdered
<1>4. ASSUME Scanned(code, entry.q)
      PROVE  FlowOrdered(code, seen, left, kept, Cleaning(entry))
  <2>1. PICK j : j = q.scan[entry.c] /\ j \in DOMAIN code.ele
    BY <1>4 DEF EntryIn
  <2>2. /\ Cleaning(entry).pkt = entry.pkt /\ Cleaning(entry).entry = <<>>
        /\ Cleaning(entry).todo = <<Call(j, "none", Fresh)>>
    BY <2>1 DEF Cleaning, Flow, P
  <2>3. Finds(seen, WritesOf(entry.pkt), j)
    BY <1>4, <2>1 DEF EntryOrdered
  <2> QED BY <2>1, <2>2, <2>3, NewOrdered
<1> QED BY <1>3, <1>4

\* At first nothing waits.
LEMMA OrderedInit ==
  ASSUME Init, NEW seen, NEW left, NEW kept
  PROVE  Ordered(seen, left, kept)
  BY RangeNone DEF Init, Ordered

\* No step leaves a write where no label expects it.
LEMMA OrderedNext ==
  ASSUME Placed, WritesOrdered, [Next]_vars
  PROVE  WritesOrdered'
<1>1. PICK seen, left, kept :
        OrdersWrites(code, kind, seen, left, kept) /\ Ordered(seen, left, kept)
  BY DEF WritesOrdered
<1>2. /\ \A flow \in Range(flows) : FlowOrdered(code, seen, left, kept, flow)
      /\ \A entry \in Range(slots) \cup Range(used) : EntryOrdered(code, seen, entry)
  BY <1>1 DEF Ordered
<1>3. IsSeq(flows) /\ IsSeq(slots) /\ IsSeq(used)
  BY DEF Placed, FlowsIn, EntriesIn, UsedIn
<1>4. code' = code /\ kind' = kind
  BY PlacedNext
<1>5. SUFFICES /\ \A flow \in Range(flows') : FlowOrdered(code, seen, left, kept, flow)
               /\ \A entry \in Range(slots') \cup Range(used') : EntryOrdered(code, seen, entry)
  BY <1>1, <1>4 DEF WritesOrdered, Ordered
<1>6. CASE Start
  <2>1. Range(<<First>>) = {First}
    BY RangeOne
  <2>2. P.starts[kind] \in DOMAIN code.ele
    BY DEF Placed, IsClosed, P
  <2>3. FlowOrdered(code, seen, left, kept, First)
    BY <1>6, <2>2, StartDoes, FreshWrites, NewOrdered DEF Finds
  <2> QED BY <1>2, <1>6, <2>1, <2>3, StartDoes
<1>7. ASSUME NEW k \in Busy
      PROVE  k \in 1 .. Len(flows) /\ FlowOrdered(code, seen, left, kept, flows[k])
  BY <1>2, <1>3, TopIs, SeqRange
<1>8. ASSUME NEW k \in Busy, Run(k)
      PROVE  /\ \A flow \in Range(flows') : FlowOrdered(code, seen, left, kept, flow)
             /\ \A entry \in Range(slots') \cup Range(used') : EntryOrdered(code, seen, entry)
  <2>1. code.enq[Top(k).at] = {} /\ slots' = slots /\ used' = used
    BY <1>8, RunDoes
  <2>2. PICK port \in Ways(code, kind, Top(k).at) : flows' = Put(flows, k, RunTo(k, port))
    BY <1>8, RunDoes
  <2>3. FlowOrdered(code, seen, left, kept, RunTo(k, port))
    BY <1>1, <1>7, <2>1, RunOrders
  <2>4. Range(flows') \subseteq Range(flows) \cup {RunTo(k, port)}
    BY <1>3, <1>7, <2>2, RangeChange
  <2> QED BY <1>2, <2>1, <2>3, <2>4
<1>9. ASSUME NEW k \in Busy, Enqueue(k)
      PROVE  /\ \A flow \in Range(flows') : FlowOrdered(code, seen, left, kept, flow)
             /\ \A entry \in Range(slots') \cup Range(used') : EntryOrdered(code, seen, entry)
  <2>1. used' = used
    BY <1>9, EnqueueDoes
  <2>2. PICK ch \in code.enq[Top(k).at] :
          /\ flows' = Put(flows, k, EnqueueTo(k, ch))
          /\ slots' = Append(slots, EntryFrom(k, ch)) \/ slots' = slots
    BY <1>9, EnqueueDoes
  <2>3. /\ FlowOrdered(code, seen, left, kept, EnqueueTo(k, ch))
        /\ EntryOrdered(code, seen, EntryFrom(k, ch))
    BY <1>1, <1>7, EnqueueOrders
  <2>4. /\ Range(flows') \subseteq Range(flows) \cup {EnqueueTo(k, ch)}
        /\ Range(slots') \subseteq Range(slots) \cup {EntryFrom(k, ch)}
    BY <1>3, <1>7, <2>2, RangeChange, RangeAppend
  <2> QED BY <1>2, <2>1, <2>3, <2>4
<1>10. ASSUME NEW s \in DOMAIN slots, Dequeue(s)
       PROVE  /\ \A flow \in Range(flows') : FlowOrdered(code, seen, left, kept, flow)
              /\ \A entry \in Range(slots') \cup Range(used') : EntryOrdered(code, seen, entry)
  <2>1. PICK entry : entry = slots[s]
    OBVIOUS
  <2>2. /\ s \in 1 .. Len(slots) /\ EntryIn(code, entry) /\ entry \in Range(slots)
        /\ slots' = RemoveAt(slots, s) /\ flows' = Append(flows, Taken(entry)) /\ used' = used
    BY <1>10, <2>1, DequeueDoes
  <2>3. FlowOrdered(code, seen, left, kept, Taken(entry))
    BY <1>2, <2>2, TakenOrders
  <2>4. /\ Range(flows') \subseteq Range(flows) \cup {Taken(entry)}
        /\ Range(slots') \subseteq Range(slots)
    BY <1>3, <2>2, RangeAppend, RangeRemove
  <2> QED BY <1>2, <2>2, <2>3, <2>4
<1>11. ASSUME NEW k \in DOMAIN flows, Return(k)
       PROVE  /\ \A flow \in Range(flows') : FlowOrdered(code, seen, left, kept, flow)
              /\ \A entry \in Range(slots') \cup Range(used') : EntryOrdered(code, seen, entry)
  <2>1. /\ k \in 1 .. Len(flows) /\ flows[k] \in Range(flows)
        /\ flows' = RemoveAt(flows, k) /\ slots' = slots
    BY <1>11, ReturnDoes
  <2>2. Range(flows') \subseteq Range(flows)
    BY <1>3, <2>1, RangeRemove
  <2>3. CASE used' = used
    BY <1>2, <2>1, <2>2, <2>3
  <2>4. CASE \E entry : flows[k].entry = <<entry>> /\ used' = Append(used, entry)
    <3>1. PICK entry : flows[k].entry = <<entry>> /\ used' = Append(used, entry)
      BY <2>4
    <3>2. flows[k].entry # <<>> /\ flows[k].entry[1] = entry
      BY <3>1
    <3>3. EntryOrdered(code, seen, entry)
      BY <1>2, <2>1, <3>2 DEF FlowOrdered
    <3>4. Range(used') \subseteq Range(used) \cup {entry}
      BY <1>3, <3>1, RangeAppend
    <3> QED BY <1>2, <2>1, <2>2, <3>3, <3>4
  <2> QED BY <1>11, <2>3, <2>4, ReturnDoes
<1>12. CASE Scan
  <2>1. PICK entry : entry = Head(used)
    OBVIOUS
  <2>2. /\ used # <<>> /\ EntryIn(code, entry) /\ entry \in Range(used) /\ Scanned(code, entry.q)
        /\ used' = Tail(used) /\ flows' = Append(flows, Cleaning(entry)) /\ slots' = slots
    BY <1>12, <2>1, ScanDoes
  <2>3. FlowOrdered(code, seen, left, kept, Cleaning(entry))
    BY <1>2, <2>2, TakenOrders
  <2>4. /\ Range(flows') \subseteq Range(flows) \cup {Cleaning(entry)}
        /\ Range(used') \subseteq Range(used)
    BY <1>3, <2>2, RangeAppend, RangeTail
  <2> QED BY <1>2, <2>2, <2>3, <2>4
<1>13. CASE UNCHANGED vars
  BY <1>2, <1>13 DEF vars
<1> QED BY <1>6, <1>8, <1>9, <1>10, <1>11, <1>12, <1>13 DEF Next

\* What the element about to run reads is what its instance reads by the graph.
LEMMA AccessesRead ==
  ASSUME NEW k
  PROVE  Accesses(k) \subseteq ReadAt(code, Top(k).at)
<1> DEFINE i      == Top(k).at
           copied == P.state.copied
           fields == UNION {code.entry[ch[1]][ch[2]] \cup {"qid"} : ch \in code.enq[i]}
<1>1. ReadAt(code, i)
        = code.ele[i].uses \cup code.ele[i].late \cup fields \cup SizesOf(code, fields)
  BY DEF ReadAt
<1>2. Copies(k) \subseteq fields \cup ({copied[f] : f \in fields \cap DOMAIN copied} \ {"sizeof"})
  BY DEF Copies
<1>3. SizesOf(code, fields) = {copied[f] : f \in fields \cap DOMAIN copied} \ {"sizeof"}
  BY DEF SizesOf, P
<1> HIDE DEF fields, copied
<1> QED BY <1>1, <1>2, <1>3 DEF Accesses

\* The labels allow an instance to read what was written above it only.
LEMMA OrderedNoInterference ==
  ASSUME Placed, WritesOrdered
  PROVE  NoBranchInterferes
<1>1. PICK seen, left, kept :
        OrdersWrites(code, kind, seen, left, kept) /\ Ordered(seen, left, kept)
  BY DEF WritesOrdered
<1>2. ASSUME NEW k \in Busy, NEW f \in Accesses(k), NEW o, o = Through1(flows[k].pkt, f),
             o \in DOMAIN flows[k].pkt.by
      PROVE  Top(k).at \in code.below[flows[k].pkt.by[o]]
  <2>1. /\ k \in 1 .. Len(flows) /\ Len(flows[k].todo) \in Nat /\ Len(flows[k].todo) >= 1
        /\ Top(k) = flows[k].todo[1] /\ flows[k] \in Range(flows) /\ Top(k).at \in DOMAIN code.ele
    BY TopIs, SeqRange DEF Placed, FlowsIn
  <2>2. FlowOrdered(code, seen, left, kept, flows[k]) /\ 1 \in 1 .. Len(flows[k].todo)
    BY <1>1, <2>1 DEF Ordered
  <2>3. WritesOf(flows[k].pkt) \subseteq seen[Top(k).at]
    BY <2>1, <2>2 DEF FlowOrdered, TodoOrdered, Finds
  <2>4. PICK w : w = <<o, flows[k].pkt.by[o]>>
    OBVIOUS
  <2>5. w \in seen[Top(k).at] /\ w[1] = o /\ w[2] = flows[k].pkt.by[o]
    BY <1>2, <2>3, <2>4 DEF WritesOf
  <2>6. o \in {f, Outer(code.source, f)}
    BY <1>2, ThroughIs DEF P
  <2>7. f \in ReadAt(code, Top(k).at)
    BY AccessesRead
  <2> QED BY <1>1, <2>1, <2>5, <2>6, <2>7 DEF OrdersWrites
<1> QED BY <1>2 DEF NoBranchInterferes

\* No element of a program whose graph orders its writes reads what a branch beside it
\* has left in the per-packet state, in whatever order its flows run and whichever
\* way out its elements take (NoBranchInterferes; desugaring.py, codegen.py).
THEOREM OrderedBranchesDoNotInterfere ==
  Spec /\ IsClosed(code, kind)
       /\ (\E seen, left, kept : OrdersWrites(code, kind, seen, left, kept))
    => []NoBranchInterferes
<1>1. Init /\ IsClosed(code, kind)
           /\ (\E seen, left, kept : OrdersWrites(code, kind, seen, left, kept))
        => Placed /\ WritesOrdered
  BY PlacedInit, OrderedInit DEF WritesOrdered
<1>2. Placed /\ WritesOrdered /\ [Next]_vars => (Placed /\ WritesOrdered)'
  BY PlacedNext, OrderedNext
<1>3. Placed /\ WritesOrdered => NoBranchInterferes
  BY OrderedNoInterference
<1> QED BY <1>1, <1>2, <1>3, PTL DEF Spec

-----------------------------------------------------------------------------
(* Answers: what is owed is sent.                                          *)

\* What the calls of a flow, a flow and an entry still owe.
CallWeights(owes, todo) == [n \in 1 .. Len(todo) |-> owes[todo[n].at]]
CallsOwe(owes, todo) == Total(CallWeights(owes, todo))

ScanOwe(c, owes, entry) == ScanOwes(c, owes, <<entry.q, entry.c>>)

EntryOwes(c, owes, entry) ==
  owes[c.source.queues[entry.q].deq[entry.c]] + ScanOwe(c, owes, entry)

FlowOwes(c, owes, flow) ==
  CallsOwe(owes, flow.todo)
  + (IF flow.entry = <<>> THEN 0 ELSE ScanOwe(c, owes, flow.entry[1]))

FlowWeights(c, owes, fs) == [k \in 1 .. Len(fs) |-> FlowOwes(c, owes, fs[k])]
SlotWeights(c, owes, es) == [n \in 1 .. Len(es) |-> EntryOwes(c, owes, es[n])]
UsedWeights(c, owes, es) == [n \in 1 .. Len(es) |-> ScanOwe(c, owes, es[n])]

FlowsOwe(c, owes, fs) == Total(FlowWeights(c, owes, fs))
SlotsOwe(c, owes, es) == Total(SlotWeights(c, owes, es))
UsedOwe(c, owes, es) == Total(UsedWeights(c, owes, es))

\* No weights weigh nothing.
LEMMA TotalNone ==
  ASSUME NEW w, IsWeights(w), Len(w) = 0
  PROVE  Total(w) = 0
<1>1. w = <<>>
  BY SeqEmpty DEF IsWeights
<1> QED BY <1>1, TotalEmpty

\* The weights of a sequence of calls.
WeighCalls(owes, todo, w) ==
  IsWeights(w) /\ Len(w) = Len(todo) /\ \A n \in 1 .. Len(todo) : w[n] = owes[todo[n].at]

\* The weights of the calls of a flow, and that they are numbers.
LEMMA CallWeightsAre ==
  ASSUME NEW c, NEW owes \in [DOMAIN c.ele -> Nat], NEW todo, TodoIn(c, todo)
  PROVE  WeighCalls(owes, todo, CallWeights(owes, todo)) /\ CallsOwe(owes, todo) \in Nat
<1>1. PICK l, w : l = Len(todo) /\ l \in Nat /\ w = CallWeights(owes, todo)
  BY SeqFacts DEF TodoIn
<1>2. \A n \in 1 .. l : owes[todo[n].at] \in Nat
  BY <1>1 DEF TodoIn
<1>3. w \in [1 .. l -> Nat] /\ \A n \in 1 .. l : w[n] = owes[todo[n].at]
  BY <1>1, <1>2 DEF CallWeights
<1>4. IsWeights(w) /\ Len(w) = l
  BY <1>1, <1>3, WeightsAre
<1> QED BY <1>1, <1>3, <1>4, TotalNat DEF CallsOwe, WeighCalls

\* A call that is made owes what it owes no longer, and the calls it makes do.
LEMMA OweNext ==
  ASSUME NEW c, NEW owes \in [DOMAIN c.ele -> Nat], NEW todo, TodoIn(c, todo), todo # <<>>,
         NEW calls, TodoIn(c, calls)
  PROVE  CallsOwe(owes, calls \o Tail(todo))
           = CallsOwe(owes, calls) + (CallsOwe(owes, todo) - owes[todo[1].at])
<1>1. PICK t, l, m : t = calls \o Tail(todo) /\ l = Len(calls) /\ m = Len(todo)
  OBVIOUS
<1>2. /\ TodoIn(c, t) /\ m \in Nat /\ m >= 1 /\ l \in Nat /\ Len(t) = l + (m - 1)
      /\ \A n \in 1 .. l + (m - 1) : t[n] = IF n <= l THEN calls[n] ELSE todo[(n - l) + 1]
  BY <1>1, TodoNext
<1>3. PICK u, v, w : /\ u = CallWeights(owes, t) /\ v = CallWeights(owes, calls)
                     /\ w = CallWeights(owes, todo)
  OBVIOUS
<1>4. /\ IsWeights(u) /\ Len(u) = l + (m - 1)
      /\ \A n \in 1 .. l + (m - 1) : u[n] = owes[t[n].at]
  <2>1. WeighCalls(owes, t, u)
    BY <1>2, <1>3, CallWeightsAre
  <2> QED BY <1>2, <2>1 DEF WeighCalls
<1>5. IsWeights(v) /\ Len(v) = l /\ \A n \in 1 .. l : v[n] = owes[calls[n].at]
  <2>1. WeighCalls(owes, calls, v)
    BY <1>3, CallWeightsAre
  <2> QED BY <1>1, <2>1 DEF WeighCalls
<1>6. /\ IsWeights(w) /\ Len(w) = m
      /\ \A n \in 1 .. m : w[n] = owes[todo[n].at] /\ w[n] \in Nat
  <2>1. WeighCalls(owes, todo, w)
    BY <1>3, CallWeightsAre
  <2> QED BY <1>1, <2>1 DEF WeighCalls, IsWeights
<1>7. PICK x : x = [n \in 1 .. m - 1 |-> w[n + 1]]
  OBVIOUS
<1>8. x \in [1 .. m - 1 -> Nat] /\ m - 1 \in Nat
  BY <1>2, <1>6, <1>7
<1>9. IsWeights(x) /\ Len(x) = m - 1 /\ \A n \in 1 .. m - 1 : x[n] = w[n + 1]
  BY <1>7, <1>8, WeightsAre
<1>10. Total(x) = Total(w) - w[1]
  <2>1. 1 \in 1 .. Len(w)
    BY <1>2, <1>6
  <2>2. Drops(x, w, 1)
    BY <1>6, <1>9 DEF Drops
  <2> QED BY <1>6, <1>9, <2>1, <2>2, TotalRemove
<1>11. Joins(u, v, x)
  <2>1. ASSUME NEW n \in 1 .. l + (m - 1)
        PROVE  u[n] = IF n <= l THEN v[n] ELSE x[n - l]
    <3>1. CASE n <= l
      <4>1. n \in 1 .. l
        BY <1>2, <3>1
      <4> QED BY <1>2, <1>4, <1>5, <3>1, <4>1
    <3>2. CASE ~ (n <= l)
      <4>1. n - l \in 1 .. m - 1 /\ (n - l) + 1 \in 1 .. m
        BY <1>2, <3>2
      <4>2. x[n - l] = w[(n - l) + 1]
        BY <1>9, <4>1
      <4> QED BY <1>2, <1>4, <1>6, <3>2, <4>1, <4>2
    <3> QED BY <3>1, <3>2
  <2> QED BY <1>4, <1>5, <1>9, <2>1 DEF Joins
<1>12. Total(u) = Total(v) + Total(x)
  BY <1>4, <1>5, <1>9, <1>11, TotalJoin
<1>13. w[1] = owes[todo[1].at]
  BY <1>2, <1>6
<1> QED BY <1>1, <1>3, <1>10, <1>12, <1>13 DEF CallsOwe

\* The calls of a way out owe what its ports and run_order lead to.
LEMMA WayOwes ==
  ASSUME NEW c, NEW owes \in [DOMAIN c.ele -> Nat], NEW calls, NEW called, NEW after, NEW args,
         AreCalls(c, calls, called, after, args)
  PROVE  /\ TodoIn(c, calls)
         /\ CallsOwe(owes, calls) = SumOf(owes, called) + SumOf(owes, after)
         /\ SumOf(owes, called) \in Nat /\ SumOf(owes, after) \in Nat
<1>1. PICK l, m : l = Len(called) /\ m = Len(after)
  OBVIOUS
<1>2. /\ IsSeq(called) /\ IsSeq(after) /\ l \in Nat /\ m \in Nat
      /\ IsSeq(calls) /\ Len(calls) = l + m
      /\ \A n \in 1 .. l + m :
           /\ calls[n].at = IF n <= l THEN called[n] ELSE after[n - l]
           /\ calls[n].at \in DOMAIN c.ele
  BY <1>1 DEF AreCalls
<1>3. TodoIn(c, calls)
  BY <1>2 DEF TodoIn
<1>4. \A n \in 1 .. l : called[n] \in DOMAIN c.ele
  BY <1>2
<1>5. ASSUME NEW n \in 1 .. m
      PROVE  after[n] \in DOMAIN c.ele
  <2>1. n + l \in 1 .. l + m /\ ~ (n + l <= l) /\ (n + l) - l = n
    BY <1>2
  <2> QED BY <1>2, <2>1
<1>6. PICK u, v, w : /\ u = CallWeights(owes, calls) /\ v = [n \in DOMAIN called |-> owes[called[n]]]
                     /\ w = [n \in DOMAIN after |-> owes[after[n]]]
  OBVIOUS
<1>7. IsWeights(u) /\ Len(u) = l + m /\ \A n \in 1 .. l + m : u[n] = owes[calls[n].at]
  <2>1. WeighCalls(owes, calls, u)
    BY <1>3, <1>6, CallWeightsAre
  <2> QED BY <1>2, <2>1 DEF WeighCalls
<1>8. IsWeights(v) /\ Len(v) = l /\ \A n \in 1 .. l : v[n] = owes[called[n]]
  <2>1. DOMAIN called = 1 .. l
    BY <1>1, <1>2, SeqFacts
  <2>2. v \in [1 .. l -> Nat]
    BY <1>4, <1>6, <2>1
  <2> QED BY <1>2, <1>6, <2>1, <2>2, WeightsAre
<1>9. IsWeights(w) /\ Len(w) = m /\ \A n \in 1 .. m : w[n] = owes[after[n]]
  <2>1. DOMAIN after = 1 .. m
    BY <1>1, <1>2, SeqFacts
  <2>2. w \in [1 .. m -> Nat]
    BY <1>5, <1>6, <2>1
  <2> QED BY <1>2, <1>6, <2>1, <2>2, WeightsAre
<1>10. Joins(u, v, w)
  <2>1. ASSUME NEW n \in 1 .. l + m
        PROVE  u[n] = IF n <= l THEN v[n] ELSE w[n - l]
    <3>1. CASE n <= l
      <4>1. n \in 1 .. l
        BY <1>2, <3>1
      <4> QED BY <1>2, <1>7, <1>8, <3>1, <4>1
    <3>2. CASE ~ (n <= l)
      <4>1. n - l \in 1 .. m
        BY <1>2, <3>2
      <4> QED BY <1>2, <1>7, <1>9, <3>2, <4>1
    <3> QED BY <3>1, <3>2
  <2> QED BY <1>7, <1>8, <1>9, <2>1 DEF Joins
<1>11. Total(u) = Total(v) + Total(w)
  BY <1>7, <1>8, <1>9, <1>10, TotalJoin
<1>12. Total(v) \in Nat /\ Total(w) \in Nat
  BY <1>8, <1>9, TotalNat
<1> QED BY <1>3, <1>6, <1>11, <1>12 DEF CallsOwe, SumOf

\* w is what the elements of s weigh by g.
Weighs(w, s, g) ==
  IsWeights(w) /\ Len(w) = Len(s) /\ \A n \in 1 .. Len(s) : w[n] = g[s[n]]

\* What a sequence weighs when it gets, loses or changes an element.
LEMMA AppendWeighs ==
  ASSUME NEW s, IsSeq(s), NEW e, NEW g, NEW v, NEW w, Weighs(w, s, g), Weighs(v, Append(s, e), g)
  PROVE  Total(v) = Total(w) + g[e]
<1>1. PICK t, l : t = Append(s, e) /\ l = Len(s)
  OBVIOUS
<1>2. /\ l \in Nat /\ Len(t) = l + 1 /\ l + 1 \in 1 .. l + 1
      /\ \A n \in 1 .. l + 1 : t[n] = IF n <= l THEN s[n] ELSE e
  BY <1>1, SeqAppend, SeqFacts
<1>3. /\ IsWeights(w) /\ Len(w) = l /\ IsWeights(v) /\ Len(v) = l + 1
      /\ \A n \in 1 .. l : w[n] = g[s[n]]
      /\ \A n \in 1 .. l + 1 : v[n] = g[t[n]]
  BY <1>1, <1>2 DEF Weighs
<1>4. v[l + 1] = g[e] /\ \A n \in 1 .. l : v[n] = w[n]
  BY <1>2, <1>3
<1>5. Total(v) = Total(w) + v[Len(v)]
  <2>1. Len(v) = Len(w) + 1 /\ \A n \in 1 .. Len(w) : v[n] = w[n]
    BY <1>3, <1>4
  <2> QED BY <1>3, <2>1, TotalAppend
<1> QED BY <1>3, <1>4, <1>5

\* An element that is taken out takes its weight with it.
LEMMA RemoveWeighs ==
  ASSUME NEW s, IsSeq(s), NEW k \in 1 .. Len(s), NEW g, NEW v, NEW w,
         Weighs(w, s, g), Weighs(v, RemoveAt(s, k), g)
  PROVE  Total(v) = Total(w) - g[s[k]]
<1>1. PICK t, l : t = RemoveAt(s, k) /\ l = Len(s)
  OBVIOUS
<1>2. /\ l \in Nat /\ Len(t) = l - 1 /\ k \in 1 .. l
      /\ \A n \in 1 .. l - 1 : t[n] = IF n < k THEN s[n] ELSE s[n + 1]
  BY <1>1, SeqRemove, SeqFacts
<1>3. /\ IsWeights(w) /\ Len(w) = l /\ IsWeights(v) /\ Len(v) = l - 1
      /\ \A n \in 1 .. l : w[n] = g[s[n]]
      /\ \A n \in 1 .. l - 1 : v[n] = g[t[n]]
  BY <1>1, <1>2 DEF Weighs
<1>4. ASSUME NEW n \in 1 .. l - 1
      PROVE  v[n] = IF n < k THEN w[n] ELSE w[n + 1]
  <2>1. n \in 1 .. l /\ n + 1 \in 1 .. l
    BY <1>2
  <2> QED BY SMTT(30), <1>2, <1>3, <2>1
<1>5. Total(v) = Total(w) - w[k]
  <2>1. k \in 1 .. Len(w) /\ Drops(v, w, k)
    BY <1>2, <1>3, <1>4 DEF Drops
  <2> QED BY <1>3, <2>1, TotalRemove
<1> QED BY <1>2, <1>3, <1>5

\* The first element takes its weight with it.
LEMMA TailWeighs ==
  ASSUME NEW s, IsSeq(s), s # <<>>, NEW g, NEW v, NEW w, Weighs(w, s, g), Weighs(v, Tail(s), g)
  PROVE  Total(v) = Total(w) - g[Head(s)]
<1>1. PICK t, l : t = Tail(s) /\ l = Len(s)
  OBVIOUS
<1>2. /\ l \in Nat /\ l >= 1 /\ Len(t) = l - 1 /\ Head(s) = s[1]
      /\ \A n \in 1 .. l - 1 : t[n] = s[n + 1]
  BY <1>1, SeqTail, SeqFacts
<1>3. /\ IsWeights(w) /\ Len(w) = l /\ IsWeights(v) /\ Len(v) = l - 1
      /\ \A n \in 1 .. l : w[n] = g[s[n]]
      /\ \A n \in 1 .. l - 1 : v[n] = g[t[n]]
  BY <1>1, <1>2 DEF Weighs
<1>4. ASSUME NEW n \in 1 .. l - 1
      PROVE  v[n] = IF n < 1 THEN w[n] ELSE w[n + 1]
  <2>1. n + 1 \in 1 .. l /\ ~ (n < 1)
    BY <1>2
  <2> QED BY <1>2, <1>3, <2>1
<1>5. Total(v) = Total(w) - w[1]
  <2>1. 1 \in 1 .. Len(w) /\ Drops(v, w, 1)
    BY <1>2, <1>3, <1>4 DEF Drops
  <2> QED BY <1>3, <2>1, TotalRemove
<1>6. w[1] = g[Head(s)]
  BY <1>2, <1>3
<1> QED BY <1>5, <1>6

\* An element that changes brings its weight for that of the old one.
LEMMA PutWeighs ==
  ASSUME NEW s, IsSeq(s), NEW k \in 1 .. Len(s), NEW e, NEW g, NEW v, NEW w,
         Weighs(w, s, g), Weighs(v, Put(s, k, e), g)
  PROVE  Total(v) = (Total(w) - g[s[k]]) + g[e]
<1>1. PICK t, l : t = Put(s, k, e) /\ l = Len(s)
  OBVIOUS
<1>2. /\ k \in 1 .. l /\ Len(t) = l /\ t[k] = e /\ \A n \in 1 .. l : n # k => t[n] = s[n]
  BY <1>1, SeqChange
<1>3. /\ IsWeights(w) /\ Len(w) = l /\ IsWeights(v) /\ Len(v) = l
      /\ \A n \in 1 .. l : w[n] = g[s[n]]
      /\ \A n \in 1 .. l : v[n] = g[t[n]]
  BY <1>1, <1>2 DEF Weighs
<1>4. Total(v) = (Total(w) - w[k]) + v[k]
  <2>1. /\ Len(v) = Len(w) /\ k \in 1 .. Len(w)
        /\ \A n \in 1 .. Len(w) : n # k => v[n] = w[n]
    BY <1>2, <1>3
  <2> QED BY <1>3, <2>1, TotalUpdate
<1> QED BY <1>2, <1>3, <1>4

\* Flows and entries of the program owe numbers of answers.
LEMMA OwesNat ==
  ASSUME NEW c, NEW owes \in [DOMAIN c.ele -> Nat]
  PROVE  /\ \A entry : EntryIn(c, entry) => /\ EntryOwes(c, owes, entry) \in Nat
                                           /\ ScanOwe(c, owes, entry) \in Nat
         /\ \A flow : FlowIn(c, flow) => FlowOwes(c, owes, flow) \in Nat
<1>1. ASSUME NEW entry, EntryIn(c, entry)
      PROVE  EntryOwes(c, owes, entry) \in Nat /\ ScanOwe(c, owes, entry) \in Nat
  <2> DEFINE q == c.source.queues[entry.q]
  <2>1. PICK d : d = q.deq[entry.c] /\ d \in DOMAIN c.ele /\ owes[d] \in Nat
    BY <1>1 DEF EntryIn
  <2>2. ScanOwe(c, owes, entry) = IF Scanned(c, entry.q) THEN owes[q.scan[entry.c]] ELSE 0
    BY DEF ScanOwe, ScanOwes
  <2>3. ScanOwe(c, owes, entry) \in Nat
    BY <1>1, <2>2 DEF EntryIn
  <2> QED BY <2>1, <2>3 DEF EntryOwes
<1>2. ASSUME NEW flow, FlowIn(c, flow)
      PROVE  FlowOwes(c, owes, flow) \in Nat
  <2>1. PICK m : m = CallsOwe(owes, flow.todo) /\ m \in Nat
    BY <1>2, CallWeightsAre DEF FlowIn
  <2>2. CASE flow.entry = <<>>
    BY <2>1, <2>2 DEF FlowOwes
  <2>3. CASE flow.entry # <<>>
    <3>1. PICK entry : flow.entry = <<entry>> /\ EntryIn(c, entry)
      BY <1>2, <2>3 DEF FlowIn
    <3>2. flow.entry[1] = entry
      BY <3>1
    <3>3. ScanOwe(c, owes, flow.entry[1]) \in Nat
      BY <1>1, <3>1, <3>2
    <3> QED BY <2>1, <2>3, <3>3 DEF FlowOwes
  <2> QED BY <2>2, <2>3
<1> QED BY <1>1, <1>2

\* g gives what flows and entries owe.
FlowsBy(c, owes, fs, g) == \A flow \in Range(fs) : g[flow] = FlowOwes(c, owes, flow)
SlotsBy(c, owes, es, g) == \A entry \in Range(es) : g[entry] = EntryOwes(c, owes, entry)
UsedBy(c, owes, es, g) == \A entry \in Range(es) : g[entry] = ScanOwe(c, owes, entry)

\* The weights of flows are what they owe.
LEMMA FlowWeightsAre ==
  ASSUME NEW c, NEW owes \in [DOMAIN c.ele -> Nat], NEW fs, FlowsIn(c, fs)
  PROVE  /\ FlowsOwe(c, owes, fs) \in Nat
         /\ \A g : FlowsBy(c, owes, fs, g) => Weighs(FlowWeights(c, owes, fs), fs, g)
<1>1. PICK l, w : l = Len(fs) /\ l \in Nat /\ w = FlowWeights(c, owes, fs)
  BY SeqFacts DEF FlowsIn
<1>2. \A n \in 1 .. l : fs[n] \in Range(fs) /\ FlowOwes(c, owes, fs[n]) \in Nat
  BY <1>1, SeqRange, OwesNat DEF FlowsIn
<1>3. w \in [1 .. l -> Nat] /\ \A n \in 1 .. l : w[n] = FlowOwes(c, owes, fs[n])
  BY <1>1, <1>2 DEF FlowWeights
<1>4. IsWeights(w) /\ Len(w) = l
  BY <1>1, <1>3, WeightsAre
<1> QED BY <1>1, <1>2, <1>3, <1>4, TotalNat DEF FlowsOwe, FlowsBy, Weighs

\* The weights of entries in the queues are what they owe.
LEMMA SlotWeightsAre ==
  ASSUME NEW c, NEW owes \in [DOMAIN c.ele -> Nat], NEW es, EntriesIn(c, es)
  PROVE  /\ SlotsOwe(c, owes, es) \in Nat
         /\ \A g : SlotsBy(c, owes, es, g) => Weighs(SlotWeights(c, owes, es), es, g)
<1>1. PICK l, w : l = Len(es) /\ l \in Nat /\ w = SlotWeights(c, owes, es)
  BY SeqFacts DEF EntriesIn
<1>2. \A n \in 1 .. l : es[n] \in Range(es) /\ EntryOwes(c, owes, es[n]) \in Nat
  BY <1>1, SeqRange, OwesNat DEF EntriesIn
<1>3. w \in [1 .. l -> Nat] /\ \A n \in 1 .. l : w[n] = EntryOwes(c, owes, es[n])
  BY <1>1, <1>2 DEF SlotWeights
<1>4. IsWeights(w) /\ Len(w) = l
  BY <1>1, <1>3, WeightsAre
<1> QED BY <1>1, <1>2, <1>3, <1>4, TotalNat DEF SlotsOwe, SlotsBy, Weighs

\* The weights of entries that wait for the scan are what the scan owes.
LEMMA UsedWeightsAre ==
  ASSUME NEW c, NEW owes \in [DOMAIN c.ele -> Nat], NEW es, EntriesIn(c, es)
  PROVE  /\ UsedOwe(c, owes, es) \in Nat
         /\ \A g : UsedBy(c, owes, es, g) => Weighs(UsedWeights(c, owes, es), es, g)
<1>1. PICK l, w : l = Len(es) /\ l \in Nat /\ w = UsedWeights(c, owes, es)
  BY SeqFacts DEF EntriesIn
<1>2. \A n \in 1 .. l : es[n] \in Range(es) /\ ScanOwe(c, owes, es[n]) \in Nat
  BY <1>1, SeqRange, OwesNat DEF EntriesIn
<1>3. w \in [1 .. l -> Nat] /\ \A n \in 1 .. l : w[n] = ScanOwe(c, owes, es[n])
  BY <1>1, <1>2 DEF UsedWeights
<1>4. IsWeights(w) /\ Len(w) = l
  BY <1>1, <1>3, WeightsAre
<1> QED BY <1>1, <1>2, <1>3, <1>4, TotalNat DEF UsedOwe, UsedBy, Weighs

\* What flows owe when one is added, returns or goes on.
LEMMA FlowsOweNext ==
  ASSUME NEW c, NEW owes \in [DOMAIN c.ele -> Nat], NEW fs, FlowsIn(c, fs)
  PROVE  /\ \A flow : FlowIn(c, flow) =>
              FlowsOwe(c, owes, Append(fs, flow)) = FlowsOwe(c, owes, fs) + FlowOwes(c, owes, flow)
         /\ \A k \in 1 .. Len(fs) :
              FlowsOwe(c, owes, RemoveAt(fs, k)) = FlowsOwe(c, owes, fs) - FlowOwes(c, owes, fs[k])
         /\ \A flow : FlowIn(c, flow) => \A k \in 1 .. Len(fs) :
              FlowsOwe(c, owes, Put(fs, k, flow))
                = (FlowsOwe(c, owes, fs) - FlowOwes(c, owes, fs[k])) + FlowOwes(c, owes, flow)
<1>1. IsSeq(fs)
  BY DEF FlowsIn
<1>2. ASSUME NEW flow, FlowIn(c, flow)
      PROVE  FlowsOwe(c, owes, Append(fs, flow))
               = FlowsOwe(c, owes, fs) + FlowOwes(c, owes, flow)
  <2>1. PICK g : g = [x \in Range(fs) \cup {flow} |-> FlowOwes(c, owes, x)]
    OBVIOUS
  <2>2. PICK t : t = Append(fs, flow)
    OBVIOUS
  <2>3. FlowsIn(c, t) /\ FlowsBy(c, owes, fs, g) /\ FlowsBy(c, owes, t, g)
    BY <1>1, <1>2, <2>1, <2>2, FlowsStay, RangeAppend DEF FlowsBy
  <2>4. Weighs(FlowWeights(c, owes, fs), fs, g) /\ Weighs(FlowWeights(c, owes, t), t, g)
    BY <2>3, FlowWeightsAre
  <2>5. Total(FlowWeights(c, owes, t)) = Total(FlowWeights(c, owes, fs)) + g[flow]
    BY ZenonT(30), <1>1, <2>2, <2>4, AppendWeighs
  <2> QED BY <2>1, <2>2, <2>5 DEF FlowsOwe
<1>3. ASSUME NEW k \in 1 .. Len(fs)
      PROVE  FlowsOwe(c, owes, RemoveAt(fs, k)) = FlowsOwe(c, owes, fs) - FlowOwes(c, owes, fs[k])
  <2>1. PICK g : g = [x \in Range(fs) |-> FlowOwes(c, owes, x)]
    OBVIOUS
  <2>2. PICK t : t = RemoveAt(fs, k)
    OBVIOUS
  <2>3. FlowsIn(c, t) /\ FlowsBy(c, owes, fs, g) /\ FlowsBy(c, owes, t, g)
    BY <1>1, <1>3, <2>1, <2>2, FlowsStay, RangeRemove DEF FlowsBy
  <2>4. Weighs(FlowWeights(c, owes, fs), fs, g) /\ Weighs(FlowWeights(c, owes, t), t, g)
    BY <2>3, FlowWeightsAre
  <2>5. Total(FlowWeights(c, owes, t)) = Total(FlowWeights(c, owes, fs)) - g[fs[k]]
    BY <1>1, <2>2, <2>4, RemoveWeighs
  <2>6. fs[k] \in Range(fs)
    BY <1>1, SeqRange
  <2> QED BY <2>1, <2>2, <2>5, <2>6 DEF FlowsOwe
<1>4. ASSUME NEW flow, FlowIn(c, flow), NEW k \in 1 .. Len(fs)
      PROVE  FlowsOwe(c, owes, Put(fs, k, flow))
               = (FlowsOwe(c, owes, fs) - FlowOwes(c, owes, fs[k])) + FlowOwes(c, owes, flow)
  <2>1. PICK g : g = [x \in Range(fs) \cup {flow} |-> FlowOwes(c, owes, x)]
    OBVIOUS
  <2>2. PICK t : t = Put(fs, k, flow)
    OBVIOUS
  <2>3. FlowsIn(c, t) /\ FlowsBy(c, owes, fs, g) /\ FlowsBy(c, owes, t, g)
    BY <1>1, <1>4, <2>1, <2>2, FlowsStay, RangeChange DEF FlowsBy
  <2>4. Weighs(FlowWeights(c, owes, fs), fs, g) /\ Weighs(FlowWeights(c, owes, t), t, g)
    BY <2>3, FlowWeightsAre
  <2>5. Total(FlowWeights(c, owes, t)) = (Total(FlowWeights(c, owes, fs)) - g[fs[k]]) + g[flow]
    BY <1>1, <2>2, <2>4, PutWeighs
  <2>6. fs[k] \in Range(fs)
    BY <1>1, SeqRange
  <2> QED BY <2>1, <2>2, <2>5, <2>6 DEF FlowsOwe
<1> QED BY <1>2, <1>3, <1>4

\* What the entries in the queues owe when one is added or taken.
LEMMA SlotsOweNext ==
  ASSUME NEW c, NEW owes \in [DOMAIN c.ele -> Nat], NEW es, EntriesIn(c, es)
  PROVE  /\ \A entry : EntryIn(c, entry) =>
              SlotsOwe(c, owes, Append(es, entry)) = SlotsOwe(c, owes, es) + EntryOwes(c, owes, entry)
         /\ \A k \in 1 .. Len(es) :
              SlotsOwe(c, owes, RemoveAt(es, k)) = SlotsOwe(c, owes, es) - EntryOwes(c, owes, es[k])
<1>1. IsSeq(es)
  BY DEF EntriesIn
<1>2. ASSUME NEW entry, EntryIn(c, entry)
      PROVE  SlotsOwe(c, owes, Append(es, entry))
               = SlotsOwe(c, owes, es) + EntryOwes(c, owes, entry)
  <2>1. PICK g : g = [x \in Range(es) \cup {entry} |-> EntryOwes(c, owes, x)]
    OBVIOUS
  <2>2. PICK t : t = Append(es, entry)
    OBVIOUS
  <2>3. EntriesIn(c, t) /\ SlotsBy(c, owes, es, g) /\ SlotsBy(c, owes, t, g)
    BY <1>1, <1>2, <2>1, <2>2, EntriesStay, RangeAppend DEF SlotsBy
  <2>4. Weighs(SlotWeights(c, owes, es), es, g) /\ Weighs(SlotWeights(c, owes, t), t, g)
    BY <2>3, SlotWeightsAre
  <2>5. Total(SlotWeights(c, owes, t)) = Total(SlotWeights(c, owes, es)) + g[entry]
    BY ZenonT(30), <1>1, <2>2, <2>4, AppendWeighs
  <2> QED BY <2>1, <2>2, <2>5 DEF SlotsOwe
<1>3. ASSUME NEW k \in 1 .. Len(es)
      PROVE  SlotsOwe(c, owes, RemoveAt(es, k)) = SlotsOwe(c, owes, es) - EntryOwes(c, owes, es[k])
  <2>1. PICK g : g = [x \in Range(es) |-> EntryOwes(c, owes, x)]
    OBVIOUS
  <2>2. PICK t : t = RemoveAt(es, k)
    OBVIOUS
  <2>3. EntriesIn(c, t) /\ SlotsBy(c, owes, es, g) /\ SlotsBy(c, owes, t, g)
    BY <1>1, <1>3, <2>1, <2>2, EntriesStay, RangeRemove DEF SlotsBy
  <2>4. Weighs(SlotWeights(c, owes, es), es, g) /\ Weighs(SlotWeights(c, owes, t), t, g)
    BY <2>3, SlotWeightsAre
  <2>5. Total(SlotWeights(c, owes, t)) = Total(SlotWeights(c, owes, es)) - g[es[k]]
    BY <1>1, <2>2, <2>4, RemoveWeighs
  <2>6. es[k] \in Range(es)
    BY <1>1, SeqRange
  <2> QED BY <2>1, <2>2, <2>5, <2>6 DEF SlotsOwe
<1> QED BY <1>2, <1>3

\* What the entries that wait for the scan owe when one is added or scanned.
LEMMA UsedOweNext ==
  ASSUME NEW c, NEW owes \in [DOMAIN c.ele -> Nat], NEW es, EntriesIn(c, es)
  PROVE  /\ \A entry : EntryIn(c, entry) =>
              UsedOwe(c, owes, Append(es, entry)) = UsedOwe(c, owes, es) + ScanOwe(c, owes, entry)
         /\ es # <<>> =>
              UsedOwe(c, owes, Tail(es)) = UsedOwe(c, owes, es) - ScanOwe(c, owes, Head(es))
<1>1. IsSeq(es)
  BY DEF EntriesIn
<1>2. ASSUME NEW entry, EntryIn(c, entry)
      PROVE  UsedOwe(c, owes, Append(es, entry)) = UsedOwe(c, owes, es) + ScanOwe(c, owes, entry)
  <2>1. PICK g : g = [x \in Range(es) \cup {entry} |-> ScanOwe(c, owes, x)]
    OBVIOUS
  <2>2. PICK t : t = Append(es, entry)
    OBVIOUS
  <2>3. EntriesIn(c, t) /\ UsedBy(c, owes, es, g) /\ UsedBy(c, owes, t, g)
    BY <1>1, <1>2, <2>1, <2>2, EntriesStay, RangeAppend DEF UsedBy
  <2>4. Weighs(UsedWeights(c, owes, es), es, g) /\ Weighs(UsedWeights(c, owes, t), t, g)
    BY <2>3, UsedWeightsAre
  <2>5. Total(UsedWeights(c, owes, t)) = Total(UsedWeights(c, owes, es)) + g[entry]
    BY ZenonT(30), <1>1, <2>2, <2>4, AppendWeighs
  <2> QED BY <2>1, <2>2, <2>5 DEF UsedOwe
<1>3. ASSUME es # <<>>
      PROVE  UsedOwe(c, owes, Tail(es)) = UsedOwe(c, owes, es) - ScanOwe(c, owes, Head(es))
  <2>1. PICK g : g = [x \in Range(es) |-> ScanOwe(c, owes, x)]
    OBVIOUS
  <2>2. PICK t : t = Tail(es)
    OBVIOUS
  <2>3. EntriesIn(c, t) /\ UsedBy(c, owes, es, g) /\ UsedBy(c, owes, t, g)
    BY <1>1, <1>3, <2>1, <2>2, EntriesStay, RangeTail DEF UsedBy
  <2>4. Weighs(UsedWeights(c, owes, es), es, g) /\ Weighs(UsedWeights(c, owes, t), t, g)
    BY <2>3, UsedWeightsAre
  <2>5. Total(UsedWeights(c, owes, t)) = Total(UsedWeights(c, owes, es)) - g[Head(es)]
    BY <1>1, <1>3, <2>2, <2>4, TailWeighs
  <2>6. Head(es) \in Range(es)
    BY <1>1, <1>3, RangeTail
  <2> QED BY <2>1, <2>2, <2>5, <2>6 DEF UsedOwe
<1> QED BY <1>2, <1>3

\* A single flow owes what its one call does.
LEMMA OneOwes ==
  ASSUME NEW c, NEW owes \in [DOMAIN c.ele -> Nat], NEW i \in DOMAIN c.ele,
         NEW todo, todo = <<Call(i, "none", Fresh)>>
  PROVE  CallsOwe(owes, todo) = owes[i]
<1>1. TodoIn(c, todo) /\ Len(todo) = 1 /\ todo[1].at = i
  BY OneCall
<1>2. PICK w : w = CallWeights(owes, todo)
  OBVIOUS
<1>3. WeighCalls(owes, todo, w)
  BY <1>1, <1>2, CallWeightsAre
<1>4. IsWeights(w) /\ Len(w) = 1 /\ w[1] = owes[i]
  BY <1>1, <1>3 DEF WeighCalls
<1> QED BY <1>2, <1>4, TotalOne DEF CallsOwe

\* Where there is nothing nothing is owed.
LEMMA NoneOwed ==
  ASSUME NEW owes
  PROVE  CallsOwe(owes, <<>>) = 0
<1>1. CallWeights(owes, <<>>) \in [1 .. 0 -> Nat]
  BY SeqNone DEF CallWeights
<1> QED BY <1>1, WeightsAre, TotalNone DEF CallsOwe

\* An element that runs owes what its label says no longer, and what it calls does.
LEMMA RunOwes ==
  ASSUME Placed, NEW owes \in [DOMAIN code.ele -> Nat],
         NEW k \in Busy, NEW port \in Ways(code, kind, Top(k).at)
  PROVE  /\ FlowOwes(code, owes, RunTo(k, port)) + SentAt(code, Top(k).at)
           = (FlowOwes(code, owes, flows[k]) - owes[Top(k).at]) + OwesOn(code, owes, Top(k).at, port)
         /\ OwesOn(code, owes, Top(k).at, port) \in Nat
<1> DEFINE i      == Top(k).at
           r      == code.ele[i].ports[port]
           saved  == Part(flows[k].pkt, code.ele[i].saves)
           calls  == Calls(i, Fired(r, port), Passed(k, r), saved)
           called == CalledOn(code, i, port)
           after  == After(code, i)
           todo   == flows[k].todo
           rest   == IF flows[k].entry = <<>> THEN 0 ELSE ScanOwe(code, owes, flows[k].entry[1])
<1>1. /\ FlowIn(code, flows[k]) /\ TodoIn(code, todo) /\ todo # <<>> /\ Top(k) = todo[1]
      /\ i \in DOMAIN code.ele
  BY TopIs
<1>2. AreCalls(code, calls, called, after, saved)
  BY <1>1, CallsAre DEF Placed
<1>3. /\ RunTo(k, port).todo = calls \o Tail(todo)
      /\ RunTo(k, port).entry = flows[k].entry
  BY DEF RunTo
<1> HIDE DEF calls, called, after, saved
<1>4. /\ TodoIn(code, calls)
      /\ CallsOwe(owes, calls) = SumOf(owes, called) + SumOf(owes, after)
  BY <1>2, WayOwes
<1>5. CallsOwe(owes, calls \o Tail(todo)) = CallsOwe(owes, calls) + (CallsOwe(owes, todo) - owes[i])
  BY <1>1, <1>4, OweNext
<1>6. /\ FlowOwes(code, owes, RunTo(k, port)) = CallsOwe(owes, calls \o Tail(todo)) + rest
      /\ FlowOwes(code, owes, flows[k]) = CallsOwe(owes, todo) + rest
  BY <1>3 DEF FlowOwes
<1>7. OwesOn(code, owes, i, port) = SentAt(code, i) + SumOf(owes, called) + SumOf(owes, after)
  BY DEF OwesOn, called, after
<1>8. SentAt(code, i) \in Nat /\ owes[i] \in Nat /\ CallsOwe(owes, todo) \in Nat
  BY <1>1, CallWeightsAre DEF SentAt
<1>9. CallsOwe(owes, calls) \in Nat
  BY <1>4, CallWeightsAre
<1>10. rest \in Nat
  <2>1. CASE flows[k].entry # <<>>
    <3>1. PICK entry : flows[k].entry = <<entry>> /\ EntryIn(code, entry)
      BY <1>1, <2>1 DEF FlowIn
    <3>2. flows[k].entry[1] = entry
      BY <3>1
    <3> QED BY <2>1, <3>1, <3>2, OwesNat
  <2> QED BY <2>1
<1> DEFINE x == SumOf(owes, called)
           y == SumOf(owes, after)
<1>11. PICK z : z = x + y /\ z \in Nat /\ CallsOwe(owes, calls) = z
  BY <1>4, <1>9
<1>12. OwesOn(code, owes, i, port) = SentAt(code, i) + z
  <2>1. x \in Nat /\ y \in Nat
    BY <1>2, WayOwes
  <2> QED BY <1>7, <1>8, <1>11, <2>1
<1> HIDE DEF x, y, rest
<1> QED BY <1>5, <1>6, <1>8, <1>10, <1>11, <1>12

\* An enqueue owes what its done port leads to, and its entry what is behind the queue.
LEMMA EnqueueOwes ==
  ASSUME Placed, NEW owes, CountsAnswers(code, kind, owes),
         NEW k \in Busy, NEW ch \in code.enq[Top(k).at]
  PROVE  FlowOwes(code, owes, EnqueueTo(k, ch)) + EntryOwes(code, owes, EntryFrom(k, ch))
           = FlowOwes(code, owes, flows[k])
<1> DEFINE i    == Top(k).at
           q    == code.source.queues[ch[1]]
           todo == flows[k].todo
           rest == IF flows[k].entry = <<>> THEN 0 ELSE ScanOwe(code, owes, flows[k].entry[1])
<1>1. /\ FlowIn(code, flows[k]) /\ TodoIn(code, todo) /\ todo # <<>> /\ Top(k) = todo[1]
      /\ i \in DOMAIN code.ele
  BY TopIs
<1>2. /\ owes \in [DOMAIN code.ele -> Nat]
      /\ owes[i] = owes[q.done] + owes[q.deq[ch[2]]] + ScanOwes(code, owes, ch)
  BY <1>1 DEF CountsAnswers
<1>3. /\ q.done \in DOMAIN code.ele /\ q.deq[ch[2]] \in DOMAIN code.ele
      /\ EntryIn(code, EntryFrom(k, ch))
  BY <1>1, EnqueueIn DEF Placed, IsClosed
<1>4. PICK call : call = <<Call(q.done, "none", Fresh)>>
  OBVIOUS
<1>5. TodoIn(code, call) /\ CallsOwe(owes, call) = owes[q.done]
  <2>1. PICK d : d = q.done /\ d \in DOMAIN code.ele /\ call = <<Call(d, "none", Fresh)>>
    BY <1>3, <1>4
  <2>2. CallsOwe(owes, call) = owes[d]
    BY <1>2, <2>1, OneOwes
  <2> QED BY <2>1, <2>2, OneCall
<1>6. CallsOwe(owes, call \o Tail(todo)) = owes[q.done] + (CallsOwe(owes, todo) - owes[i])
  BY <1>1, <1>2, <1>5, OweNext
<1>7. /\ FlowOwes(code, owes, EnqueueTo(k, ch)) = CallsOwe(owes, call \o Tail(todo)) + rest
      /\ FlowOwes(code, owes, flows[k]) = CallsOwe(owes, todo) + rest
  BY <1>4 DEF FlowOwes, EnqueueTo, P
<1>8. /\ EntryOwes(code, owes, EntryFrom(k, ch)) = owes[q.deq[ch[2]]] + ScanOwe(code, owes, EntryFrom(k, ch))
      /\ ScanOwe(code, owes, EntryFrom(k, ch)) = ScanOwes(code, owes, ch)
  BY DEF EntryOwes, EntryFrom, ScanOwe, ScanOwes
<1>9. PICK a, b, x, y, z : /\ a = owes[q.done] /\ b = owes[q.deq[ch[2]]]
                           /\ x = ScanOwes(code, owes, ch) /\ y = CallsOwe(owes, todo) /\ z = rest
  OBVIOUS
<1>10. a \in Nat /\ b \in Nat /\ x \in Nat /\ y \in Nat
  BY <1>1, <1>2, <1>3, <1>8, <1>9, OwesNat, CallWeightsAre
<1>11. z \in Nat
  <2>1. CASE flows[k].entry # <<>>
    <3>1. PICK entry : flows[k].entry = <<entry>> /\ EntryIn(code, entry)
      BY <1>1, <2>1 DEF FlowIn
    <3>2. flows[k].entry[1] = entry
      BY <3>1
    <3> QED BY <1>2, <1>9, <2>1, <3>1, <3>2, OwesNat
  <2> QED BY <1>9, <2>1
<1>12. owes[i] = a + b + x
  BY <1>2, <1>9
<1> HIDE DEF rest
<1>13. CallsOwe(owes, call \o Tail(todo)) = y - (b + x)
  <2>1. PICK o, u : o = owes[i] /\ u = CallsOwe(owes, call \o Tail(todo))
    OBVIOUS
  <2>2. u = a + (y - o) /\ o = a + b + x
    BY <1>6, <1>9, <1>12, <2>1
  <2>3. u = y - (b + x)
    BY <1>10, <2>2
  <2> QED BY <2>1, <2>3
<1>14. FlowOwes(code, owes, EnqueueTo(k, ch)) = (y - (b + x)) + z
  BY <1>7, <1>9, <1>13
<1>15. EntryOwes(code, owes, EntryFrom(k, ch)) = b + x /\ FlowOwes(code, owes, flows[k]) = y + z
  BY <1>7, <1>8, <1>9
<1> QED BY <1>10, <1>11, <1>14, <1>15

\* A flow made of an entry owes what the entry did, one that scans it what the scan does.
LEMMA TakenOwes ==
  ASSUME NEW owes \in [DOMAIN code.ele -> Nat], NEW entry, EntryIn(code, entry)
  PROVE  /\ FlowOwes(code, owes, Taken(entry)) = EntryOwes(code, owes, entry)
         /\ Scanned(code, entry.q) =>
              FlowOwes(code, owes, Cleaning(entry)) = ScanOwe(code, owes, entry)
<1> DEFINE q == code.source.queues[entry.q]
<1>1. FlowOwes(code, owes, Taken(entry)) = EntryOwes(code, owes, entry)
  <2>1. PICK i : i = q.deq[entry.c] /\ i \in DOMAIN code.ele
    BY DEF EntryIn
  <2>2. /\ Taken(entry).todo = <<Call(i, "none", Fresh)>>
        /\ Taken(entry).entry # <<>> /\ Taken(entry).entry[1] = entry
    BY <2>1 DEF Taken, Flow, P
  <2>3. CallsOwe(owes, Taken(entry).todo) = owes[i]
    BY <2>1, <2>2, OneOwes
  <2> QED BY <2>1, <2>2, <2>3 DEF FlowOwes, EntryOwes
<1>2. ASSUME Scanned(code, entry.q)
      PROVE  FlowOwes(code, owes, Cleaning(entry)) = ScanOwe(code, owes, entry)
  <2>1. PICK i : i = q.scan[entry.c] /\ i \in DOMAIN code.ele
    BY <1>2 DEF EntryIn
  <2>2. Cleaning(entry).todo = <<Call(i, "none", Fresh)>> /\ Cleaning(entry).entry = <<>>
    BY <2>1 DEF Cleaning, Flow, P
  <2>3. CallsOwe(owes, Cleaning(entry).todo) = owes[i] /\ owes[i] \in Nat
    BY <2>1, <2>2, OneOwes
  <2>4. ScanOwe(code, owes, entry) = owes[i]
    BY <1>2, <2>1 DEF ScanOwe, ScanOwes
  <2> QED BY <2>2, <2>3, <2>4 DEF FlowOwes
<1> QED BY <1>1, <1>2

\* What has been sent and what is owed yet is what is due, and less only where
\* something has been lost.
Owed(c, owes, fs, ss, us) ==
  (FlowsOwe(c, owes, fs) + SlotsOwe(c, owes, ss)) + UsedOwe(c, owes, us)

Balances(due, owed, sent, begun, gaveUp) ==
  /\ sent \in Nat
  /\ IF begun THEN sent + owed <= due /\ (gaveUp \/ sent + owed = due) ELSE sent = 0

Balanced(owes) ==
  Balances(Due(code, kind), Owed(code, owes, flows, slots, used), answers, started, lost)

AnswersBalance == \E owes : CountsAnswers(code, kind, owes) /\ Balanced(owes)

\* What is owed is a number of answers.
LEMMA OwedNat ==
  ASSUME Placed, NEW owes \in [DOMAIN code.ele -> Nat]
  PROVE  /\ FlowsOwe(code, owes, flows) \in Nat /\ SlotsOwe(code, owes, slots) \in Nat
         /\ UsedOwe(code, owes, used) \in Nat
  BY FlowWeightsAre, SlotWeightsAre, UsedWeightsAre DEF Placed, UsedIn

\* Nothing is owed when all has returned.
LEMMA NothingOwed ==
  ASSUME NEW c, NEW owes \in [DOMAIN c.ele -> Nat]
  PROVE  FlowsOwe(c, owes, <<>>) = 0 /\ SlotsOwe(c, owes, <<>>) = 0 /\ UsedOwe(c, owes, <<>>) = 0
<1>1. /\ FlowWeights(c, owes, <<>>) \in [1 .. 0 -> Nat]
      /\ SlotWeights(c, owes, <<>>) \in [1 .. 0 -> Nat]
      /\ UsedWeights(c, owes, <<>>) \in [1 .. 0 -> Nat]
  BY SeqNone DEF FlowWeights, SlotWeights, UsedWeights
<1> QED BY <1>1, WeightsAre, TotalNone DEF FlowsOwe, SlotsOwe, UsedOwe

\* At first the answers due are owed by the request that is to come.
LEMMA BalanceInit ==
  ASSUME Init, NEW owes
  PROVE  Balanced(owes)
  BY DEF Init, Balanced, Balances

\* A step that sends an answer owes one less, and only one that gives up for want
\* of room or a buffer owes less for nothing.
LEMMA BalanceNext ==
  ASSUME Placed, AnswersBalance, [Next]_vars
  PROVE  AnswersBalance'
<1>1. PICK owes : CountsAnswers(code, kind, owes) /\ Balanced(owes)
  BY DEF AnswersBalance
<1>2. owes \in [DOMAIN code.ele -> Nat] /\ owes[P.starts[kind]] = Due(code, kind)
  BY <1>1 DEF CountsAnswers, P
<1>3. code' = code /\ kind' = kind
  BY PlacedNext
<1>4. FlowsIn(code, flows) /\ EntriesIn(code, slots) /\ UsedIn(code, used) /\ IsClosed(code, kind)
  BY DEF Placed
<1>5. PICK fo, so, uo, due : /\ fo = FlowsOwe(code, owes, flows) /\ fo \in Nat
                            /\ so = SlotsOwe(code, owes, slots) /\ so \in Nat
                            /\ uo = UsedOwe(code, owes, used) /\ uo \in Nat
                            /\ due = Due(code, kind)
  BY <1>2, OwedNat
<1>6. /\ answers \in Nat /\ due \in Nat
      /\ IF started THEN /\ answers + ((fo + so) + uo) <= due
                         /\ lost \/ answers + ((fo + so) + uo) = due
                    ELSE answers = 0
  <2>1. P.starts[kind] \in DOMAIN code.ele
    BY <1>4 DEF IsClosed, P
  <2> QED BY <1>1, <1>2, <1>5, <2>1 DEF Balanced, Balances, Owed
<1>7. PICK fo1, so1, uo1 : /\ fo1 = FlowsOwe(code, owes, flows')
                           /\ so1 = SlotsOwe(code, owes, slots')
                           /\ uo1 = UsedOwe(code, owes, used')
  OBVIOUS
<1> DEFINE Goal == Balances(due, (fo1 + so1) + uo1, answers', started', lost')
<1>8. SUFFICES Goal
  <2>1. Owed(code, owes, flows', slots', used') = (fo1 + so1) + uo1
    BY <1>7 DEF Owed
  <2>2. Balanced(owes)'
    BY <1>3, <1>5, <1>8, <2>1 DEF Balanced
  <2>3. CountsAnswers(code, kind, owes)'
    BY <1>1, <1>3
  <2> QED BY <2>2, <2>3 DEF AnswersBalance
<1>9. CASE Start
  <2>1. PICK i : i = P.starts[kind] /\ i \in DOMAIN code.ele /\ owes[i] = due
    BY <1>2, <1>4, <1>5, <1>7 DEF IsClosed, P
  <2>2. First.todo = <<Call(i, "none", Fresh)>> /\ First.entry = <<>> /\ FlowIn(code, First)
    BY <1>9, <2>1, StartDoes
  <2>3. CallsOwe(owes, First.todo) = owes[i]
    BY <1>2, <2>1, <2>2, OneOwes
  <2>4. FlowOwes(code, owes, First) = due
    BY <1>6, <2>1, <2>2, <2>3 DEF FlowOwes
  <2>5. flows = <<>> /\ slots = <<>> /\ used = <<>> /\ flows' = <<First>> /\ ~started
    BY <1>9, StartDoes
  <2>6. Append(<<>>, First) = <<First>>
    OBVIOUS
  <2>7. fo1 = FlowsOwe(code, owes, <<>>) + FlowOwes(code, owes, First)
    <3>1. FlowsIn(code, <<>>)
      BY <1>4, <2>5
    <3>2. FlowsOwe(code, owes, Append(<<>>, First))
            = FlowsOwe(code, owes, <<>>) + FlowOwes(code, owes, First)
      BY <1>2, <2>2, <3>1, FlowsOweNext
    <3> QED BY <1>5, <1>7, <2>5, <2>6, <3>2
  <2>8. so1 = 0 /\ uo1 = 0 /\ FlowsOwe(code, owes, <<>>) = 0
    BY <1>2, <1>5, <1>7, <1>9, <2>5, StartDoes, NothingOwed
  <2>9. started' /\ answers' = 0
    BY <1>6, <1>9, StartDoes
  <2> QED BY <1>6, <2>4, <2>7, <2>8, <2>9 DEF Balances
<1>10. ASSUME NEW k \in Busy, Run(k)
      PROVE  Goal
  <2> DEFINE i == Top(k).at
  <2>1. code.enq[i] = {} /\ so1 = so /\ uo1 = uo /\ started' = started
    BY <1>5, <1>7, <1>10, RunDoes
  <2>2. PICK port \in Ways(code, kind, i) :
          /\ flows' = Put(flows, k, RunTo(k, port))
          /\ answers' = IF code.ele[i].sends THEN answers + 1 ELSE answers
          /\ lost' = (lost \/ code.ele[i].ports[port].lost)
    BY <1>10, RunDoes
  <2>3. /\ k \in 1 .. Len(flows) /\ i \in DOMAIN code.ele /\ FlowIn(code, flows[k])
        /\ FlowIn(code, RunTo(k, port))
    BY TopIs, RunIn
  <2>4. PICK a, b, s, x : /\ a = FlowOwes(code, owes, flows[k])
                          /\ b = FlowOwes(code, owes, RunTo(k, port))
                          /\ s = SentAt(code, i) /\ x = OwesOn(code, owes, i, port)
    OBVIOUS
  <2>5. /\ a \in Nat /\ b \in Nat /\ s \in Nat /\ owes[i] \in Nat
        /\ answers' = answers + s
    <3>1. a \in Nat /\ b \in Nat
      BY <1>2, <2>3, <2>4, OwesNat
    <3>2. owes[i] \in Nat
      BY <1>2, <2>3
    <3>3. CASE code.ele[i].sends
      BY <1>6, <2>2, <2>4, <3>1, <3>2, <3>3 DEF SentAt
    <3>4. CASE ~ code.ele[i].sends
      BY <1>6, <2>2, <2>4, <3>1, <3>2, <3>4 DEF SentAt
    <3> QED BY <3>3, <3>4
  <2>6. fo1 = (fo - a) + b
    BY SMTT(30), <1>2, <1>4, <1>5, <1>7, <2>2, <2>3, <2>4, FlowsOweNext
  <2>7. b + s = (a - owes[i]) + x
    BY <1>2, <2>4, RunOwes
  <2>8. x <= owes[i] /\ (code.ele[i].ports[port].lost \/ x = owes[i])
    BY <1>1, <2>1, <2>3, <2>4 DEF CountsAnswers
  <2>9. x \in Int
    BY <1>2, <2>4, RunOwes
  <2>10. started
    BY TopIs, SeqNone DEF Placed
  <2>11. answers' + ((fo1 + so1) + uo1) = (answers + ((fo + so) + uo)) - (owes[i] - x)
    BY <1>5, <1>6, <2>1, <2>5, <2>6, <2>7, <2>9
  <2>12. CASE lost \/ code.ele[i].ports[port].lost
    <3>1. lost'
      BY <2>2, <2>12
    <3> QED BY <1>5, <1>6, <2>1, <2>5, <2>8, <2>9, <2>10, <2>11, <3>1 DEF Balances
  <2>13. CASE ~ (lost \/ code.ele[i].ports[port].lost)
    BY <1>5, <1>6, <2>1, <2>5, <2>8, <2>9, <2>10, <2>11, <2>13 DEF Balances
  <2> QED BY <2>12, <2>13
<1>11. ASSUME NEW k \in Busy, Enqueue(k)
       PROVE  Goal
  <2>1. PICK ch \in code.enq[Top(k).at] :
          /\ flows' = Put(flows, k, EnqueueTo(k, ch))
          /\ \/ slots' = Append(slots, EntryFrom(k, ch)) /\ lost' = lost
             \/ slots' = slots /\ lost' = TRUE
    BY <1>11, EnqueueDoes
  <2>2. uo1 = uo /\ started' = started /\ answers' = answers
    BY <1>5, <1>7, <1>11, EnqueueDoes
  <2>3. /\ k \in 1 .. Len(flows) /\ FlowIn(code, flows[k])
        /\ FlowIn(code, EnqueueTo(k, ch)) /\ EntryIn(code, EntryFrom(k, ch))
    BY TopIs, EnqueueIn
  <2>4. PICK a, b, x : /\ a = FlowOwes(code, owes, flows[k])
                       /\ b = FlowOwes(code, owes, EnqueueTo(k, ch))
                       /\ x = EntryOwes(code, owes, EntryFrom(k, ch))
    OBVIOUS
  <2>5. a \in Nat /\ b \in Nat /\ x \in Nat
    BY <1>2, <2>3, <2>4, OwesNat
  <2>6. fo1 = (fo - a) + b
    BY ZenonT(30), <1>2, <1>4, <1>5, <1>7, <2>1, <2>3, <2>4, FlowsOweNext
  <2>7. b + x = a
    BY <1>1, <2>4, EnqueueOwes
  <2>8. started
    BY TopIs, SeqNone DEF Placed
  <2>9. CASE slots' = Append(slots, EntryFrom(k, ch)) /\ lost' = lost
    <3>1. so1 = so + x
      BY <1>2, <1>4, <1>5, <1>7, <2>3, <2>4, <2>9, SlotsOweNext
    <3>2. (fo1 + so1) + uo1 = (fo + so) + uo
      BY <1>5, <2>2, <2>5, <2>6, <2>7, <3>1
    <3>3. answers' + ((fo1 + so1) + uo1) = answers + ((fo + so) + uo)
      BY <2>2, <3>2, Zenon
    <3> QED BY <1>6, <2>2, <2>8, <2>9, <3>3 DEF Balances
  <2>10. CASE slots' = slots /\ lost' = TRUE
    <3>1. so1 = so
      BY <1>5, <1>7, <2>10
    <3>2. answers' + ((fo1 + so1) + uo1) <= answers + ((fo + so) + uo)
      BY <1>5, <1>6, <2>2, <2>5, <2>6, <2>7, <3>1
    <3> QED BY <1>5, <1>6, <2>2, <2>5, <2>6, <2>8, <2>10, <3>1, <3>2 DEF Balances
  <2> QED BY <2>1, <2>9, <2>10
<1>12. ASSUME NEW s \in DOMAIN slots, Dequeue(s)
       PROVE  Goal
  <2>1. PICK entry, x : entry = slots[s] /\ x = EntryOwes(code, owes, entry)
    OBVIOUS
  <2>2. /\ s \in 1 .. Len(slots) /\ EntryIn(code, entry) /\ slots' = RemoveAt(slots, s)
        /\ flows' = Append(flows, Taken(entry)) /\ FlowIn(code, Taken(entry))
        /\ UNCHANGED <<used, answers, lost, started>>
    BY <1>12, <2>1, DequeueDoes
  <2>3. x \in Nat /\ FlowOwes(code, owes, Taken(entry)) = x
    BY <1>2, <2>1, <2>2, TakenOwes, OwesNat
  <2>4. fo1 = fo + x
    BY <1>2, <1>4, <1>5, <1>7, <2>2, <2>3, FlowsOweNext
  <2>5. so1 = so - x
    BY <1>2, <1>4, <1>5, <1>7, <2>1, <2>2, SlotsOweNext
  <2>6. uo1 = uo
    BY <1>5, <1>7, <2>2
  <2>7. answers' + ((fo1 + so1) + uo1) = answers + ((fo + so) + uo)
    <3>1. x \in Nat /\ fo \in Nat /\ so \in Nat /\ uo \in Nat
      BY <1>5, <2>3
    <3>2. (fo1 + so1) + uo1 = (fo + so) + uo
      BY <2>4, <2>5, <2>6, <3>1
    <3>3. answers' = answers
      BY <2>2
    <3> QED BY <3>2, <3>3, Zenon
  <2> QED BY <1>6, <2>2, <2>7 DEF Balances
<1>13. ASSUME NEW k \in DOMAIN flows, Return(k)
       PROVE  Goal
  <2>1. /\ k \in 1 .. Len(flows) /\ FlowIn(code, flows[k]) /\ flows[k].todo = <<>>
        /\ flows' = RemoveAt(flows, k) /\ UNCHANGED <<slots, answers, lost, started>>
    BY <1>13, ReturnDoes
  <2>2. PICK x : x = FlowOwes(code, owes, flows[k]) /\ x \in Nat
    BY <1>2, <2>1, OwesNat
  <2>3. fo1 = fo - x
    BY <1>2, <1>4, <1>5, <1>7, <2>1, <2>2, FlowsOweNext
  <2>4. so1 = so
    BY <1>5, <1>7, <2>1
  <2>5. uo1 = uo + x
    <3>1. CASE flows[k].entry = <<>> /\ used' = used
      <4>1. x = 0
        BY <2>1, <2>2, <3>1, NoneOwed DEF FlowOwes
      <4> QED BY <1>5, <1>7, <3>1, <4>1
    <3>2. CASE \E entry : /\ flows[k].entry = <<entry>> /\ EntryIn(code, entry)
                         /\ IF Scanned(code, entry.q) THEN used' = Append(used, entry)
                            ELSE used' = used
      <4>1. PICK entry : /\ flows[k].entry = <<entry>> /\ EntryIn(code, entry)
                         /\ IF Scanned(code, entry.q) THEN used' = Append(used, entry)
                            ELSE used' = used
        BY <3>2
      <4>2. flows[k].entry # <<>> /\ flows[k].entry[1] = entry
        BY <4>1
      <4>3. x = ScanOwe(code, owes, entry)
        <5>1. PICK m : m = ScanOwe(code, owes, entry) /\ m \in Nat
          BY <1>2, <4>1, OwesNat
        <5>2. x = CallsOwe(owes, <<>>) + m
          BY <2>1, <2>2, <4>2, <5>1 DEF FlowOwes
        <5> QED BY <5>1, <5>2, NoneOwed
      <4>4. CASE Scanned(code, entry.q)
        BY <1>2, <1>4, <1>5, <1>7, <4>1, <4>3, <4>4, UsedOweNext DEF UsedIn
      <4>5. CASE ~ Scanned(code, entry.q)
        <5>1. x = 0 /\ used' = used
          BY <4>1, <4>3, <4>5 DEF ScanOwe, ScanOwes
        <5> QED BY <1>5, <1>7, <5>1
      <4> QED BY <4>4, <4>5
    <3> QED BY <1>13, <3>1, <3>2, ReturnDoes
  <2>6. answers' = answers
    BY <2>1
  <2>7. answers' + ((fo1 + so1) + uo1) = answers + ((fo + so) + uo)
    <3>1. x \in Nat /\ fo \in Nat /\ so \in Nat /\ uo \in Nat
      BY <1>5, <2>2
    <3>2. (fo1 + so1) + uo1 = (fo + so) + uo
      BY <2>3, <2>4, <2>5, <3>1
    <3> QED BY <2>6, <3>2, Zenon
  <2> QED BY <1>6, <2>1, <2>7 DEF Balances
<1>14. CASE Scan
  <2>1. PICK entry, x : entry = Head(used) /\ x = ScanOwe(code, owes, entry)
    OBVIOUS
  <2>2. /\ used # <<>> /\ EntryIn(code, entry) /\ Scanned(code, entry.q) /\ used' = Tail(used)
        /\ flows' = Append(flows, Cleaning(entry)) /\ FlowIn(code, Cleaning(entry))
        /\ UNCHANGED <<slots, answers, lost, started>>
    BY <1>14, <2>1, ScanDoes
  <2>3. x \in Nat /\ FlowOwes(code, owes, Cleaning(entry)) = x
    BY <1>2, <2>1, <2>2, TakenOwes, OwesNat
  <2>4. fo1 = fo + x
    BY <1>2, <1>4, <1>5, <1>7, <2>2, <2>3, FlowsOweNext
  <2>5. uo1 = uo - x
    BY <1>2, <1>4, <1>5, <1>7, <2>1, <2>2, UsedOweNext DEF UsedIn
  <2>6. so1 = so
    BY <1>5, <1>7, <2>2
  <2>7. answers' + ((fo1 + so1) + uo1) = answers + ((fo + so) + uo)
    <3>1. x \in Nat /\ fo \in Nat /\ so \in Nat /\ uo \in Nat
      BY <1>5, <2>3
    <3>2. (fo1 + so1) + uo1 = (fo + so) + uo
      BY <2>4, <2>5, <2>6, <3>1
    <3>3. answers' = answers
      BY <2>2
    <3> QED BY <3>2, <3>3, Zenon
  <2> QED BY <1>6, <2>2, <2>7 DEF Balances
<1>15. CASE UNCHANGED vars
  <2>1. fo1 = fo /\ so1 = so /\ uo1 = uo /\ UNCHANGED <<answers, lost, started>>
    BY <1>5, <1>7, <1>15 DEF vars
  <2> QED BY <1>6, <2>1 DEF Balances
<1> QED BY <1>9, <1>10, <1>11, <1>12, <1>13, <1>14, <1>15 DEF Next

\* Where the balance holds no more is sent than is due, and all of it when
\* nothing is owed.
LEMMA BalanceAnswers ==
  ASSUME Placed, AnswersBalance
  PROVE  IsAnswered
<1>1. PICK owes : CountsAnswers(code, kind, owes) /\ Balanced(owes)
  BY DEF AnswersBalance
<1>2. owes \in [DOMAIN code.ele -> Nat] /\ owes[P.starts[kind]] = Due(code, kind)
  BY <1>1 DEF CountsAnswers, P
<1>3. Due(code, kind) \in Nat
  BY <1>2 DEF Placed, IsClosed, P
<1>4. PICK o : o = Owed(code, owes, flows, slots, used) /\ o \in Nat
  BY <1>2, OwedNat DEF Owed
<1>5. answers <= Due(code, kind)
  BY <1>1, <1>3, <1>4 DEF Balanced, Balances
<1>6. ASSUME Idle, ~lost
      PROVE  answers = Due(code, kind)
  <2>1. o = 0
    BY <1>2, <1>4, <1>6, NothingOwed DEF Idle, Owed
  <2> QED BY <1>1, <1>4, <1>6, <2>1 DEF Balanced, Balances, Idle
<1> QED BY <1>5, <1>6 DEF IsAnswered, Due, P

\* In a program whose graph counts its answers every request gets the answers the
\* program has for it, and no more, however its flows interleave and whichever
\* way out its elements take (IsAnswered).
THEOREM CountedIsAnswered ==
  Spec /\ IsClosed(code, kind) /\ (\E owes : CountsAnswers(code, kind, owes))
    => []IsAnswered
<1>1. Init /\ IsClosed(code, kind) /\ (\E owes : CountsAnswers(code, kind, owes))
        => Placed /\ AnswersBalance
  BY PlacedInit, BalanceInit DEF AnswersBalance
<1>2. Placed /\ AnswersBalance /\ [Next]_vars => (Placed /\ AnswersBalance)'
  BY PlacedNext, BalanceNext
<1>3. Placed /\ AnswersBalance => IsAnswered
  BY BalanceAnswers
<1> QED BY <1>1, <1>2, <1>3, PTL DEF Spec
=============================================================================
