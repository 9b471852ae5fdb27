------------------------ MODULE ReportParsingProofs ------------------------
(***************************************************************************)
(* For any files and mails, any addresses and answers, and any number of   *)
(* failures: the days that _bucket_interval_by_day() cuts a report into    *)
(* take its whole count, no well-formed record of an accepted aggregate    *)
(* report is lost, no address stays attributed to its network because DNS  *)
(* failed once, and what is accepted is a report that was sent.            *)
(***************************************************************************)
EXTENDS ReportParsing, FiniteSetTheorems, WellFoundedInduction, SequenceTheorems, TLAPS

-----------------------------------------------------------------------------
(***************************************************************************)
(* Induction over the natural numbers, as a statement about sets.          *)
(***************************************************************************)
LEMMA LeastElement ==
    ASSUME NEW T, T \subseteq Nat, T # {}
    PROVE  \E x \in T : \A y \in T : x <= y
<1>1. PICK x \in T : \A y \in T : <<y, x>> \notin OpToRel(<, Nat)
  BY WFMin, NatLessThanWellFounded
<1>2. \A y \in T : ~(y < x)
  BY <1>1 DEF OpToRel
<1> QED
  BY <1>2

LEMMA SetInduction ==
    ASSUME NEW T, T \subseteq Nat, 0 \in T, \A n \in T : n + 1 \in T
    PROVE  T = Nat
<1>1. SUFFICES ASSUME Nat \ T # {} PROVE FALSE
  OBVIOUS
<1>2. PICK x \in Nat \ T : \A y \in Nat \ T : x <= y
  BY <1>1, LeastElement
<1>3. x # 0 /\ x - 1 \in T
  BY <1>2
<1> QED
  BY <1>2, <1>3

-----------------------------------------------------------------------------
(***************************************************************************)
(* Sums.  The recursive function in SumTo is the only one that satisfies   *)
(* its equation, and there is one.                                         *)
(***************************************************************************)
IsSum(u, f, n) == u = [k \in 0 .. n |-> IF k = 0 THEN 0 ELSE u[k - 1] + f[k]]

LEMMA SumUnique ==
    ASSUME NEW f, NEW m \in Nat, NEW n \in Nat, NEW u, NEW w, IsSum(u, f, m), IsSum(w, f, n)
    PROVE  \A k \in Nat : k <= m /\ k <= n => u[k] = w[k]
<1> DEFINE T == {k \in Nat : k <= m /\ k <= n => u[k] = w[k]}
<1>1. 0 \in T
  <2>1. 0 \in 0 .. m /\ 0 \in 0 .. n
    OBVIOUS
  <2>2. u[0] = 0 /\ w[0] = 0
    BY <2>1 DEF IsSum
  <2> QED
    BY <2>2
<1>2. ASSUME NEW k \in T PROVE k + 1 \in T
  <2>1. SUFFICES ASSUME k + 1 <= m, k + 1 <= n PROVE u[k + 1] = w[k + 1]
    OBVIOUS
  <2>2. k + 1 \in 0 .. m /\ k + 1 \in 0 .. n /\ k + 1 # 0 /\ (k + 1) - 1 = k /\ k <= m /\ k <= n
    BY <2>1
  <2>3. u[k] = w[k]
    BY <2>2
  <2>4. u[k + 1] = u[k] + f[k + 1] /\ w[k + 1] = w[k] + f[k + 1]
    BY <2>2 DEF IsSum
  <2> QED
    BY <2>3, <2>4
<1>3. T \subseteq Nat
  OBVIOUS
<1> HIDE DEF T
<1>4. T = Nat
  BY <1>1, <1>2, <1>3, SetInduction
<1> QED
  BY <1>4 DEF T

LEMMA SumUpToExists ==
    ASSUME NEW f
    PROVE  \A n \in Nat : \E u : IsSum(u, f, n)
<1> DEFINE T == {n \in Nat : \E u : IsSum(u, f, n)}
<1>1. 0 \in T
  <2> DEFINE u == [k \in 0 .. 0 |-> 0]
  <2>1. u = [k \in 0 .. 0 |-> IF k = 0 THEN 0 ELSE u[k - 1] + f[k]]
    OBVIOUS
  <2> QED
    BY <2>1 DEF IsSum
<1>2. ASSUME NEW n \in T PROVE n + 1 \in T
  <2>1. PICK u : IsSum(u, f, n)
    OBVIOUS
  <2>2. n \in Nat /\ n + 1 \in Nat
    OBVIOUS
  <2> DEFINE w == [k \in 0 .. n + 1 |-> IF k = n + 1 THEN u[n] + f[n + 1] ELSE u[k]]
  <2>3. ASSUME NEW k \in 0 .. n + 1
        PROVE  w[k] = IF k = 0 THEN 0 ELSE w[k - 1] + f[k]
    <3>1. CASE k = n + 1
      <4>1. k # 0 /\ k - 1 = n /\ n \in 0 .. n + 1 /\ n # n + 1
        BY <3>1, <2>2
      <4>2. w[k] = u[n] + f[n + 1] /\ w[n] = u[n]
        BY <3>1, <4>1
      <4> QED
        BY <4>1, <4>2, <3>1
    <3>2. CASE k # n + 1
      <4>1. k \in 0 .. n
        BY <3>2, <2>2
      <4>2. u[k] = IF k = 0 THEN 0 ELSE u[k - 1] + f[k]
        BY <2>1, <4>1 DEF IsSum
      <4>3. k # 0 => w[k - 1] = u[k - 1]
        BY <2>2, <4>1
      <4> QED
        BY <4>1, <4>2, <4>3, <3>2
    <3> QED
      BY <3>1, <3>2
  <2>4. w = [k \in 0 .. n + 1 |-> IF k = 0 THEN 0 ELSE w[k - 1] + f[k]]
    BY <2>3
  <2>5. IsSum(w, f, n + 1)
    BY <2>4 DEF IsSum
  <2> QED
    BY <2>5, <2>2
<1>3. T \subseteq Nat
  OBVIOUS
<1> HIDE DEF T
<1>4. T = Nat
  BY <1>1, <1>2, <1>3, SetInduction
<1> QED
  BY <1>4 DEF T

LEMMA SumSteps ==
    ASSUME NEW f
    PROVE  SumTo(f, 0) = 0 /\ \A n \in Nat : SumTo(f, n + 1) = SumTo(f, n) + f[n + 1]
<1> DEFINE sumTo(n) == CHOOSE u : IsSum(u, f, n)
           whole == [n \in Nat |-> sumTo(n)[n]]
           upTo == CHOOSE u : u = [k \in Nat |-> IF k = 0 THEN 0 ELSE u[k - 1] + f[k]]
<1>1. ASSUME NEW n \in Nat PROVE IsSum(sumTo(n), f, n)
  BY SumUpToExists
<1> HIDE DEF sumTo
<1>2. ASSUME NEW n \in Nat
      PROVE  whole[n] = IF n = 0 THEN 0 ELSE whole[n - 1] + f[n]
  <2>1. n \in 0 .. n
    OBVIOUS
  <2>2. sumTo(n)[n] = IF n = 0 THEN 0 ELSE sumTo(n)[n - 1] + f[n]
    BY <1>1, <2>1 DEF IsSum
  <2>3. CASE n = 0
    BY <2>2, <2>3
  <2>4. CASE n # 0
    <3>1. n - 1 \in Nat
      BY <2>4
    <3>2. sumTo(n)[n - 1] = sumTo(n - 1)[n - 1]
      BY <3>1, <1>1, SumUnique
    <3> QED
      BY <2>2, <2>4, <3>1, <3>2
  <2> QED
    BY <2>3, <2>4
<1>3. whole = [k \in Nat |-> IF k = 0 THEN 0 ELSE whole[k - 1] + f[k]]
  BY <1>2
<1> HIDE DEF whole
<1>4. upTo = [k \in Nat |-> IF k = 0 THEN 0 ELSE upTo[k - 1] + f[k]]
  BY <1>3, Zenon
<1>5. ASSUME NEW n PROVE SumTo(f, n) = upTo[n]
  BY Zenon DEF SumTo
<1> HIDE DEF upTo
<1>6. upTo[0] = 0
  BY <1>4
<1>7. ASSUME NEW n \in Nat PROVE upTo[n + 1] = upTo[n] + f[n + 1]
  BY <1>4
<1> QED
  BY <1>5, <1>6, <1>7

LEMMA SumIsInt ==
    ASSUME NEW f, NEW n \in Nat, \A k \in 1 .. n : f[k] \in Int
    PROVE  SumTo(f, n) \in Int
<1> DEFINE T == {k \in Nat : k <= n => SumTo(f, k) \in Int}
<1>1. 0 \in T
  BY SumSteps
<1>2. ASSUME NEW k \in T PROVE k + 1 \in T
  BY SumSteps
<1>3. T \subseteq Nat
  OBVIOUS
<1> HIDE DEF T
<1>4. T = Nat
  BY <1>1, <1>2, <1>3, SetInduction
<1> QED
  BY <1>4 DEF T

LEMMA SumOfEquals ==
    ASSUME NEW f, NEW g, NEW n \in Nat, \A k \in 1 .. n : f[k] = g[k]
    PROVE  SumTo(f, n) = SumTo(g, n)
<1> DEFINE T == {k \in Nat : k <= n => SumTo(f, k) = SumTo(g, k)}
<1>1. 0 \in T
  BY SumSteps
<1>2. ASSUME NEW k \in T PROVE k + 1 \in T
  <2>1. k \in Nat /\ (k + 1 <= n => k + 1 \in 1 .. n /\ k <= n)
    OBVIOUS
  <2> QED
    BY <2>1, SumSteps
<1>3. T \subseteq Nat
  OBVIOUS
<1> HIDE DEF T
<1>4. T = Nat
  BY <1>1, <1>2, <1>3, SetInduction
<1> QED
  BY <1>4 DEF T

LEMMA SumOfZeros ==
    ASSUME NEW f, NEW n \in Nat, \A k \in 1 .. n : f[k] = 0
    PROVE  SumTo(f, n) = 0
<1> DEFINE T == {k \in Nat : k <= n => SumTo(f, k) = 0}
<1>1. 0 \in T
  BY SumSteps
<1>2. ASSUME NEW k \in T PROVE k + 1 \in T
  <2>1. k \in Nat /\ (k + 1 <= n => k + 1 \in 1 .. n /\ k <= n)
    OBVIOUS
  <2> QED
    BY <2>1, SumSteps
<1>3. T \subseteq Nat
  OBVIOUS
<1> HIDE DEF T
<1>4. T = Nat
  BY <1>1, <1>2, <1>3, SetInduction
<1> QED
  BY <1>4 DEF T

LEMMA SumOfSums ==
    ASSUME NEW f, NEW g, NEW h, NEW n \in Nat,
           \A k \in 1 .. n : f[k] \in Int /\ g[k] \in Int /\ h[k] = f[k] + g[k]
    PROVE  SumTo(h, n) = SumTo(f, n) + SumTo(g, n)
<1> DEFINE T == {k \in Nat : k <= n => SumTo(h, k) = SumTo(f, k) + SumTo(g, k)}
<1>1. 0 \in T
  BY SumSteps
<1>2. ASSUME NEW k \in T PROVE k + 1 \in T
  <2>1. SUFFICES ASSUME k + 1 <= n
                 PROVE  SumTo(h, k + 1) = SumTo(f, k + 1) + SumTo(g, k + 1)
    OBVIOUS
  <2>2. k \in Nat /\ k + 1 \in 1 .. n /\ k <= n
    BY <2>1
  <2>3. SumTo(f, k) \in Int /\ SumTo(g, k) \in Int
    BY <2>2, SumIsInt
  <2>4. SumTo(h, k) = SumTo(f, k) + SumTo(g, k)
    BY <2>2
  <2>5. /\ SumTo(h, k + 1) = SumTo(h, k) + h[k + 1]
        /\ SumTo(f, k + 1) = SumTo(f, k) + f[k + 1]
        /\ SumTo(g, k + 1) = SumTo(g, k) + g[k + 1]
    BY <2>2, SumSteps
  <2>6. f[k + 1] \in Int /\ g[k + 1] \in Int /\ h[k + 1] = f[k + 1] + g[k + 1]
    BY <2>2
  <2> QED
    BY <2>3, <2>4, <2>5, <2>6
<1>3. T \subseteq Nat
  OBVIOUS
<1> HIDE DEF T
<1>4. T = Nat
  BY <1>1, <1>2, <1>3, SetInduction
<1> QED
  BY <1>4 DEF T

\* h is the first m terms of f and then the first n of g.
Joins(h, f, m, g, n) ==
    /\ \A k \in 1 .. m : f[k] \in Int /\ h[k] = f[k]
    /\ \A k \in 1 .. n : g[k] \in Int /\ h[m + k] = g[k]

LEMMA SumOfConcatenation ==
    ASSUME NEW f, NEW g, NEW h, NEW m \in Nat, NEW n \in Nat, Joins(h, f, m, g, n)
    PROVE  SumTo(h, m + n) = SumTo(f, m) + SumTo(g, n)
<1>0. /\ \A k \in 1 .. m : f[k] \in Int /\ h[k] = f[k]
      /\ \A k \in 1 .. n : g[k] \in Int /\ h[m + k] = g[k]
  BY DEF Joins
<1> DEFINE T == {k \in Nat : k <= n => SumTo(h, m + k) = SumTo(f, m) + SumTo(g, k)}
<1>1. SumTo(f, m) \in Int /\ SumTo(h, m) = SumTo(f, m)
  BY <1>0, SumIsInt, SumOfEquals
<1>2. 0 \in T
  BY <1>1, SumSteps
<1>3. ASSUME NEW k \in T PROVE k + 1 \in T
  <2>1. SUFFICES ASSUME k + 1 <= n
                 PROVE  SumTo(h, m + (k + 1)) = SumTo(f, m) + SumTo(g, k + 1)
    OBVIOUS
  <2>2. k \in Nat /\ k + 1 \in 1 .. n /\ k <= n /\ m + k \in Nat /\ m + (k + 1) = (m + k) + 1
    BY <2>1
  <2>3. SumTo(g, k) \in Int
    BY <1>0, <2>2, SumIsInt
  <2>4. SumTo(h, m + k) = SumTo(f, m) + SumTo(g, k)
    BY <2>2
  <2>5. /\ SumTo(h, (m + k) + 1) = SumTo(h, m + k) + h[(m + k) + 1]
        /\ SumTo(g, k + 1) = SumTo(g, k) + g[k + 1]
    BY <2>2, SumSteps
  <2>6. g[k + 1] \in Int /\ h[m + (k + 1)] = g[k + 1]
    BY <1>0, <2>2
  <2> QED
    BY <1>1, <2>2, <2>3, <2>4, <2>5, <2>6
<1>4. T \subseteq Nat
  OBVIOUS
<1> HIDE DEF T
<1>5. T = Nat
  BY <1>2, <1>3, <1>4, SetInduction
<1> QED
  BY <1>5 DEF T

\* A sum of ones counts the places that have one.
LEMMA SumOfOnes ==
    ASSUME NEW n \in Nat, NEW S \in SUBSET (1 .. n), NEW f,
           \A k \in 1 .. n : f[k] = IF k \in S THEN 1 ELSE 0
    PROVE  SumTo(f, n) = Cardinality(S)
<1> DEFINE In(k) == S \cap (1 .. k)
           T == {k \in Nat : k <= n => IsFiniteSet(In(k)) /\ SumTo(f, k) = Cardinality(In(k))}
<1>1. 0 \in T
  <2>1. In(0) = {}
    OBVIOUS
  <2>2. SumTo(f, 0) = Cardinality(In(0)) /\ IsFiniteSet(In(0))
    BY <2>1, SumSteps, FS_EmptySet
  <2> QED
    BY <2>2
<1>2. ASSUME NEW k \in T PROVE k + 1 \in T
  <2>1. SUFFICES ASSUME k + 1 <= n
                 PROVE  IsFiniteSet(In(k + 1)) /\ SumTo(f, k + 1) = Cardinality(In(k + 1))
    OBVIOUS
  <2>2. k \in Nat /\ k + 1 \in 1 .. n /\ k <= n
    BY <2>1
  <2>3. IsFiniteSet(In(k)) /\ SumTo(f, k) = Cardinality(In(k))
    BY <2>2
  <2>4. SumTo(f, k + 1) = SumTo(f, k) + f[k + 1]
    BY <2>2, SumSteps
  <2>5. Cardinality(In(k)) \in Nat
    BY <2>3, FS_CardinalityType
  <2>6. CASE k + 1 \in S
    <3>1. In(k + 1) = In(k) \cup {k + 1} /\ k + 1 \notin In(k)
      BY <2>2, <2>6
    <3>2. IsFiniteSet(In(k + 1)) /\ Cardinality(In(k + 1)) = Cardinality(In(k)) + 1
      BY <2>3, <3>1, FS_AddElement
    <3>3. f[k + 1] = 1
      BY <2>2, <2>6
    <3> QED
      BY <2>3, <2>4, <3>2, <3>3
  <2>7. CASE k + 1 \notin S
    <3>1. In(k + 1) = In(k)
      BY <2>2, <2>7
    <3>2. f[k + 1] = 0
      BY <2>2, <2>7
    <3> QED
      BY <2>3, <2>4, <2>5, <3>1, <3>2
  <2> QED
    BY <2>6, <2>7
<1>3. T \subseteq Nat
  OBVIOUS
<1> HIDE DEF T
<1>4. T = Nat
  BY <1>1, <1>2, <1>3, SetInduction
<1>5. In(n) = S
  OBVIOUS
<1> QED
  BY <1>4, <1>5 DEF T

-----------------------------------------------------------------------------
(***************************************************************************)
(* The days of an interval.                                                *)
(***************************************************************************)
LEMMA Division ==
    ASSUME NEW a \in Int, NEW m \in Nat \ {0}
    PROVE  /\ a \div m \in Int
           /\ a % m \in 0 .. m - 1
           /\ a = m * (a \div m) + (a % m)
  OBVIOUS

LEMMA Quotient ==
    ASSUME NEW a \in Int, NEW q \in Int, NEW m \in Nat \ {0}, q * m <= a, a < (q + 1) * m
    PROVE  a \div m = q
<1>1. a \div m \in Int /\ a % m \in 0 .. m - 1 /\ a = m * (a \div m) + (a % m)
  BY Division
<1> DEFINE p == a \div m
<1>2. p * m <= a /\ a < (p + 1) * m
  BY <1>1
<1> HIDE DEF p
<1>3. p \in Int
  BY <1>1 DEF p
<1>4. ASSUME p < q PROVE FALSE
  <2>1. p + 1 <= q
    BY <1>3, <1>4
  <2>2. (p + 1) * m <= q * m
    BY <2>1, <1>3
  <2> QED
    BY <2>2, <1>2, <1>3
<1>5. ASSUME q < p PROVE FALSE
  <2>1. q + 1 <= p
    BY <1>3, <1>5
  <2>2. (q + 1) * m <= p * m
    BY <2>1, <1>3
  <2> QED
    BY <2>2, <1>2, <1>3
<1> QED
  BY <1>3, <1>4, <1>5 DEF p

\* The days follow one another from the beginning to the end of the interval, each
\* has a part of it, and no part crosses midnight.
LEMMA DaysFollow ==
    ASSUME NEW b \in Int, NEW e \in Int, b < e
    PROVE  /\ Days(b, e) \in Nat \ {0}
           /\ \A d \in 1 .. Days(b, e) :
                /\ From(b, d) \in Int /\ Till(b, e, d) \in Int
                /\ From(b, d) < Till(b, e, d)
                /\ (Till(b, e, d) - 1) \div Day = From(b, d) \div Day
                /\ d > 1 => Till(b, e, d - 1) = From(b, d)
           /\ From(b, 1) = b
           /\ Till(b, e, Days(b, e)) = e
<1> DEFINE p == b \div Day
           q == (e - 1) \div Day
           N == Days(b, e)
<1>1. Day \in Nat \ {0}
  BY DayAssumption
<1>2. p \in Int /\ q \in Int /\ b >= p * Day /\ b < (p + 1) * Day
      /\ e - 1 >= q * Day /\ e - 1 < (q + 1) * Day
  BY <1>1, Division
<1>3. N = q - p + 1
  BY DEF Days
<1>4. \A d : Midnight(b, d) = (p + d) * Day
  BY DEF Midnight
<1> HIDE DEF p, q, N
<1>5. p <= q
  <2>1. SUFFICES ASSUME q < p PROVE FALSE
    BY <1>2
  <2>2. q + 1 <= p
    BY <1>2, <2>1
  <2>3. (q + 1) * Day <= p * Day
    BY <1>1, <1>2, <2>2
  <2> QED
    BY <1>1, <1>2, <2>3
<1>6. N \in Nat \ {0}
  BY <1>2, <1>3, <1>5
<1>7. \A j \in Int, k \in Int : j <= k => j * Day <= k * Day
  BY <1>1
<1>8. ASSUME NEW d \in 1 .. N
      PROVE  /\ From(b, d) = IF d = 1 THEN b ELSE (p + (d - 1)) * Day
             /\ Till(b, e, d) = IF d = N THEN e ELSE (p + d) * Day
             /\ (p + (d - 1)) * Day \in Int /\ (p + d) * Day \in Int
             /\ (p + d) * Day = (p + (d - 1)) * Day + Day
             /\ d > 1 => b < (p + (d - 1)) * Day
             /\ d < N => (p + d) * Day < e
             /\ e <= (p + N) * Day /\ b >= p * Day
             /\ d = N => (p + (d - 1)) * Day < e
  <2>1. d \in Int /\ p + (d - 1) \in Int /\ p + d \in Int
    BY <1>2, <1>6
  <2>2. (p + (d - 1)) * Day \in Int /\ (p + d) * Day \in Int
        /\ (p + d) * Day = (p + (d - 1)) * Day + Day
    <3> DEFINE r == p + (d - 1)
    <3>1. r \in Int /\ p + d = r + 1
      BY <2>1, <1>2
    <3> HIDE DEF r
    <3>2. r * Day \in Int /\ (r + 1) * Day = r * Day + Day
      BY <1>1, <3>1
    <3>3. (p + d) * Day = r * Day + Day
      BY <3>1, <3>2
    <3>4. (p + d) * Day \in Int
      BY <1>1, <3>2, <3>3
    <3> QED
      BY <3>2, <3>3, <3>4 DEF r
  <2>3. d > 1 => b < (p + (d - 1)) * Day
    <3>1. d > 1 => p + 1 <= p + (d - 1)
      BY <2>1, <1>2
    <3>2. d > 1 => (p + 1) * Day <= (p + (d - 1)) * Day
      BY <3>1, <2>1, <1>2, <1>7
    <3> QED
      BY <3>2, <2>2, <1>1, <1>2
  <2>4. d < N => (p + d) * Day < e
    <3>1. d < N => p + d <= q
      BY <2>1, <1>2, <1>3
    <3>2. d < N => (p + d) * Day <= q * Day
      BY <3>1, <2>1, <1>2, <1>7
    <3> QED
      BY <3>2, <2>2, <1>1, <1>2
  <2>5. p + N = q + 1
    BY <1>2, <1>3, <1>6
  <2>6. e <= (p + N) * Day /\ b >= p * Day
    BY <2>5, <1>1, <1>2
  <2>7. d = N => (p + (d - 1)) * Day < e
    <3>1. d = N => p + (d - 1) = q
      BY <2>5, <2>1, <1>2
    <3> QED
      BY <3>1, <1>1, <1>2
  <2>8. From(b, d) = IF d = 1 THEN b ELSE (p + (d - 1)) * Day
    <3>1. From(b, d) = IF b > (p + (d - 1)) * Day THEN b ELSE (p + (d - 1)) * Day
      BY <1>4 DEF From
    <3>2. d = 1 => (p + (d - 1)) * Day <= b
      BY <2>6, <1>1, <1>2
    <3>3. d # 1 => d > 1
      BY <2>1
    <3> QED
      BY <3>1, <3>2, <3>3, <2>2, <2>3
  <2>9. Till(b, e, d) = IF d = N THEN e ELSE (p + d) * Day
    <3>1. Till(b, e, d) = IF e < (p + d) * Day THEN e ELSE (p + d) * Day
      BY <1>4 DEF Till
    <3>2. d # N => d < N
      BY <2>1, <1>6
    <3>3. d = N => e <= (p + d) * Day
      BY <2>6
    <3> QED
      BY <3>1, <3>2, <3>3, <2>2, <2>4
  <2> QED
    BY <2>2, <2>3, <2>4, <2>6, <2>7, <2>8, <2>9
<1>9. ASSUME NEW d \in 1 .. N
      PROVE  /\ From(b, d) \in Int /\ Till(b, e, d) \in Int
             /\ From(b, d) < Till(b, e, d)
             /\ (p + (d - 1)) * Day <= From(b, d)
             /\ Till(b, e, d) <= (p + (d - 1)) * Day + Day
             /\ d > 1 => Till(b, e, d - 1) = From(b, d)
  <2>1. /\ From(b, d) = IF d = 1 THEN b ELSE (p + (d - 1)) * Day
        /\ Till(b, e, d) = IF d = N THEN e ELSE (p + d) * Day
        /\ (p + (d - 1)) * Day \in Int /\ (p + d) * Day \in Int
        /\ (p + d) * Day = (p + (d - 1)) * Day + Day
        /\ d > 1 => b < (p + (d - 1)) * Day
        /\ d < N => (p + d) * Day < e
        /\ e <= (p + N) * Day /\ b >= p * Day
        /\ d = N => (p + (d - 1)) * Day < e
    BY <1>8
  <2>2. d = 1 => (p + (d - 1)) * Day = p * Day
    BY <1>2
  <2>3. From(b, d) \in Int /\ Till(b, e, d) \in Int
    BY <2>1
  <2>4. (p + (d - 1)) * Day <= From(b, d)
    BY <2>1, <2>2
  <2>5. Till(b, e, d) <= (p + (d - 1)) * Day + Day
    BY <2>1
  <2>6. From(b, d) < Till(b, e, d)
    <3>1. d = 1 => b < (p + d) * Day
      BY <1>2
    <3>2. d \in Int
      OBVIOUS
    <3> QED
      BY <2>1, <3>1, <3>2, <1>1
  <2>7. d > 1 => Till(b, e, d - 1) = From(b, d)
    <3>1. SUFFICES ASSUME d > 1 PROVE Till(b, e, d - 1) = From(b, d)
      OBVIOUS
    <3>2. d - 1 \in 1 .. N /\ d - 1 # N /\ d # 1
      BY <3>1, <1>6
    <3>3. Till(b, e, d - 1) = (p + (d - 1)) * Day
      BY <3>2, <1>8
    <3> QED
      BY <3>2, <3>3, <2>1
  <2> QED
    BY <2>3, <2>4, <2>5, <2>6, <2>7
<1>10. ASSUME NEW d \in 1 .. N
       PROVE  (Till(b, e, d) - 1) \div Day = From(b, d) \div Day
  <2> DEFINE r == p + (d - 1)
  <2>1. r \in Int /\ (r + 1) * Day = r * Day + Day /\ r * Day \in Int
    BY <1>1, <1>2
  <2>2. /\ From(b, d) \in Int /\ Till(b, e, d) \in Int /\ From(b, d) < Till(b, e, d)
        /\ r * Day <= From(b, d) /\ Till(b, e, d) <= r * Day + Day
    BY <1>9
  <2> HIDE DEF r
  <2>3. From(b, d) \div Day = r
    BY <1>1, <2>1, <2>2, Quotient
  <2>4. (Till(b, e, d) - 1) \div Day = r
    BY <1>1, <2>1, <2>2, Quotient
  <2> QED
    BY <2>3, <2>4
<1>11. From(b, 1) = b /\ Till(b, e, N) = e
  BY <1>6, <1>8
<1> QED
  BY <1>6, <1>9, <1>10, <1>11 DEF N

-----------------------------------------------------------------------------
(***************************************************************************)
(* Largest remainders: what the floors leave of the count is at most one   *)
(* for each day, and so many days come first in the order of fractions.    *)
(***************************************************************************)
LEMMA RemainderFits ==
    ASSUME NEW b \in Int, NEW e \in Int, b < e, NEW n \in Nat
    PROVE  /\ Remainder(b, e, n) \in 0 .. Days(b, e)
           /\ \A d \in 1 .. Days(b, e) :
                Floor(b, e, n, d) \in Nat /\ Fraction(b, e, n, d) \in Nat
<1> DEFINE N == Days(b, e)
           L == e - b
           fl == [d \in 1 .. N |-> Floor(b, e, n, d)]
           T == {k \in Nat : 1 <= k /\ k <= N =>
                    /\ L * SumTo(fl, k) <= n * (Till(b, e, k) - b)
                    /\ n * (Till(b, e, k) - b) <= L * SumTo(fl, k) + k * L}
<1>1. /\ N \in Nat \ {0}
      /\ \A d \in 1 .. N :
           /\ From(b, d) \in Int /\ Till(b, e, d) \in Int
           /\ From(b, d) < Till(b, e, d)
           /\ d > 1 => Till(b, e, d - 1) = From(b, d)
      /\ From(b, 1) = b /\ Till(b, e, N) = e
  BY DaysFollow
<1>2. L \in Nat \ {0}
  OBVIOUS
<1> HIDE DEF N, L
<1>3. ASSUME NEW d \in 1 .. N
      PROVE  /\ Floor(b, e, n, d) \in Nat /\ Fraction(b, e, n, d) \in 0 .. L - 1
             /\ n * Overlap(b, e, d) = L * Floor(b, e, n, d) + Fraction(b, e, n, d)
  <2> DEFINE o == n * Overlap(b, e, d)
  <2>1. o \in Nat
    <3>1. Overlap(b, e, d) \in Nat
      BY <1>1 DEF Overlap
    <3> QED
      BY <3>1
  <2>2. Floor(b, e, n, d) = o \div L /\ Fraction(b, e, n, d) = o % L
    BY DEF Floor, Fraction, L
  <2> HIDE DEF o
  <2>3. o \div L \in Int /\ o % L \in 0 .. L - 1 /\ o = L * (o \div L) + (o % L)
    BY <1>2, <2>1, Division
  <2>4. o \div L >= 0
    <3>1. SUFFICES ASSUME o \div L < 0 PROVE FALSE
      BY <2>3
    <3> DEFINE q == o \div L
    <3>2. q \in Int /\ q + 1 <= 0
      BY <2>3, <3>1
    <3> HIDE DEF q
    <3>3. L * (q + 1) <= 0 /\ L * (q + 1) = L * q + L
      BY <3>2, <1>2
    <3>4. o = L * q + (o % L)
      BY <2>3 DEF q
    <3> QED
      BY <2>1, <2>3, <3>2, <3>3, <3>4, <1>2
  <2> QED
    BY <2>2, <2>3, <2>4 DEF o
<1>4. \A k \in 1 .. N : fl[k] = Floor(b, e, n, k) /\ fl[k] \in Int
  BY <1>3
<1> HIDE DEF fl
<1>5. \A k \in Nat : k <= N => SumTo(fl, k) \in Int
  <2> SUFFICES ASSUME NEW k \in Nat, k <= N PROVE SumTo(fl, k) \in Int
    OBVIOUS
  <2>1. \A j \in 1 .. k : fl[j] \in Int
    BY <1>1, <1>4
  <2> QED
    BY <2>1, SumIsInt
<1>6. 0 \in T
  OBVIOUS
<1>7. ASSUME NEW k \in T PROVE k + 1 \in T
  <2> DEFINE A == SumTo(fl, k)
             B == Till(b, e, k + 1)
             F == fl[k + 1]
             R == Fraction(b, e, n, k + 1)
             C == From(b, k + 1)
  <2>1. SUFFICES ASSUME k + 1 <= N
                 PROVE  /\ L * SumTo(fl, k + 1) <= n * (B - b)
                        /\ n * (B - b) <= L * SumTo(fl, k + 1) + (k + 1) * L
    OBVIOUS
  <2>2. k \in Nat /\ k + 1 \in 1 .. N /\ k <= N
    BY <1>1, <2>1
  <2>3. SumTo(fl, k + 1) = A + F
    BY <2>2, SumSteps
  <2>4. /\ A \in Int /\ F \in Int /\ B \in Int /\ C \in Int /\ R \in 0 .. L - 1
        /\ n * (B - C) = L * F + R
    BY <1>1, <1>3, <1>4, <1>5, <2>2 DEF Overlap
  <2>5. L * A <= n * (C - b) /\ n * (C - b) <= L * A + k * L
    <3>1. CASE k = 0
      <4>1. A = 0 /\ C = b
        BY <3>1, <1>1, SumSteps
      <4> QED
        BY <4>1, <3>1, <1>2
    <3>2. CASE k # 0
      <4>1. 1 <= k /\ k + 1 > 1 /\ (k + 1) - 1 = k
        BY <3>2, <2>2
      <4>2. C = Till(b, e, k)
        BY <1>1, <2>2, <4>1
      <4> QED
        BY <4>1, <4>2, <2>2
    <3> QED
      BY <3>1, <3>2
  <2> HIDE DEF A, B, F, R, C
  <2>6. n * (B - b) = n * (B - C) + n * (C - b)
    BY <2>4
  <2>7. L * (A + F) = L * A + L * F /\ (k + 1) * L = k * L + L
    BY <2>2, <2>4, <1>2
  <2>8. n * (B - b) \in Int /\ n * (B - C) \in Int /\ n * (C - b) \in Int
        /\ L * A \in Int /\ L * F \in Int /\ k * L \in Int
    BY <2>2, <2>4, <1>2
  <2> QED
    BY <2>3, <2>4, <2>5, <2>6, <2>7, <2>8, <1>2
<1>8. T \subseteq Nat
  OBVIOUS
<1>9. T = Nat
  <2> HIDE DEF T
  <2> QED
    BY <1>6, <1>7, <1>8, SetInduction
<1>10. L * SumTo(fl, N) <= n * L /\ n * L <= L * SumTo(fl, N) + N * L
  <2>1. N \in Nat /\ 1 <= N /\ N <= N
    BY <1>1
  <2>2. N \in T
    BY <2>1, <1>9
  <2>3. Till(b, e, N) - b = L
    BY <1>1 DEF L
  <2> QED
    BY <2>1, <2>2, <2>3
<1> DEFINE S == SumTo(fl, N)
           R == Remainder(b, e, n)
<1>11. S \in Int /\ R = n - S
  BY <1>1, <1>5 DEF Remainder, N, fl
<1> HIDE DEF S, R, T
<1>12. L * S <= n * L /\ n * L <= L * S + N * L
  BY <1>10 DEF S
<1>13. 0 <= R
  <2>1. SUFFICES ASSUME n + 1 <= S PROVE FALSE
    BY <1>11
  <2>2. L * (n + 1) <= L * S /\ L * (n + 1) = n * L + L
    BY <2>1, <1>2, <1>11
  <2> QED
    BY <2>2, <1>2, <1>11, <1>12
<1>14. R <= N
  <2>1. SUFFICES ASSUME S + N + 1 <= n PROVE FALSE
    BY <1>1, <1>11
  <2>2. L * (S + N + 1) <= n * L /\ L * (S + N + 1) = L * S + N * L + L
    BY <2>1, <1>1, <1>2, <1>11
  <2> QED
    BY <2>2, <1>1, <1>2, <1>11, <1>12
<1> QED
  BY <1>1, <1>2, <1>3, <1>11, <1>13, <1>14 DEF R, N

\* The places of the days are the numbers from zero on, each once.
LEMMA FirstPlaces ==
    ASSUME NEW b \in Int, NEW e \in Int, b < e, NEW n \in Nat, NEW r \in 0 .. Days(b, e)
    PROVE  Cardinality({d \in 1 .. Days(b, e) : Place(b, e, n, d) < r}) = r
<1> DEFINE N == Days(b, e)
           frac(d) == Fraction(b, e, n, d)
           before(d) == Before(b, e, n, d)
           place == [d \in 1 .. N |-> Place(b, e, n, d)]
           first == {d \in 1 .. N : Place(b, e, n, d) < r}
<1>1. N \in Nat \ {0}
  BY DaysFollow
<1>2. \A d \in 1 .. N : frac(d) \in Nat
  BY RemainderFits
<1>3. \A d : before(d) = {x \in 1 .. N : \/ frac(x) > frac(d)
                                         \/ frac(x) = frac(d) /\ x < d}
  BY DEF Before
<1>4. \A d : Place(b, e, n, d) = Cardinality(before(d))
  BY DEF Place
<1> HIDE DEF N, frac, before
<1>5. IsFiniteSet(1 .. N) /\ Cardinality(1 .. N) = N
  <2>1. 1 \in Int /\ N \in Int /\ ~(1 > N) /\ N - 1 + 1 = N
    BY <1>1
  <2> QED
    BY <2>1, FS_Interval
<1>6. ASSUME NEW d \in 1 .. N
      PROVE  IsFiniteSet(before(d)) /\ Place(b, e, n, d) \in 0 .. N - 1
  <2>1. before(d) \in SUBSET ((1 .. N) \ {d})
    BY <1>2, <1>3
  <2>2. IsFiniteSet((1 .. N) \ {d}) /\ Cardinality((1 .. N) \ {d}) = N - 1
    BY <1>5, FS_RemoveElement
  <2>3. IsFiniteSet(before(d)) /\ Cardinality(before(d)) <= N - 1
    BY <2>1, <2>2, FS_Subset
  <2>4. Cardinality(before(d)) \in Nat
    BY <2>3, FS_CardinalityType
  <2> QED
    BY <1>1, <1>4, <2>3, <2>4
<1>7. ASSUME NEW c \in 1 .. N, NEW d \in 1 .. N, c # d, c \in before(d)
      PROVE  Place(b, e, n, c) < Place(b, e, n, d)
  <2>1. before(c) \in SUBSET before(d) /\ c \notin before(c)
    BY <1>2, <1>3, <1>7
  <2>2. Cardinality(before(c)) <= Cardinality(before(d))
        /\ (Cardinality(before(c)) = Cardinality(before(d)) => before(c) = before(d))
    BY <1>6, <2>1, FS_Subset
  <2>3. Cardinality(before(c)) # Cardinality(before(d))
    BY <1>7, <2>1, <2>2
  <2>4. Cardinality(before(c)) \in Nat /\ Cardinality(before(d)) \in Nat
    BY <1>6, FS_CardinalityType
  <2> QED
    BY <1>4, <2>2, <2>3, <2>4
<1>8. ASSUME NEW c \in 1 .. N, NEW d \in 1 .. N, c # d
      PROVE  c \in before(d) \/ d \in before(c)
  BY <1>2, <1>3, <1>8
<1>9. place \in Injection(1 .. N, 0 .. N - 1)
  <2>1. place \in [1 .. N -> 0 .. N - 1]
    BY <1>6
  <2>2. ASSUME NEW c \in 1 .. N, NEW d \in 1 .. N, c # d PROVE place[c] # place[d]
    <3>1. Place(b, e, n, c) # Place(b, e, n, d)
      BY <1>6, <1>7, <1>8, <2>2
    <3> QED
      BY <3>1
  <2> HIDE DEF place
  <2> QED
    BY <2>1, <2>2 DEF Injection, IsInjective
<1>10. IsFiniteSet(0 .. N - 1) /\ Cardinality(0 .. N - 1) = N
  <2>1. 0 \in Int /\ N - 1 \in Int /\ ~(0 > N - 1) /\ (N - 1) - 0 + 1 = N
    BY <1>1
  <2> QED
    BY <2>1, FS_Interval
<1>11. place \in Surjection(1 .. N, 0 .. N - 1)
  BY <1>5, <1>9, <1>10, FS_Injection
<1> DEFINE g == [d \in first |-> Place(b, e, n, d)]
<1>12. r \in Nat /\ r <= N
  BY <1>1 DEF N
<1>13. \A d \in 1 .. N : place[d] = Place(b, e, n, d)
  OBVIOUS
<1> HIDE DEF place
<1>14. g \in Bijection(first, 0 .. r - 1)
  <2>1. g \in [first -> 0 .. r - 1]
    BY <1>6, <1>12
  <2>2. \A c, d \in first : g[c] = g[d] => c = d
    BY <1>9, <1>13 DEF Injection, IsInjective
  <2>3. ASSUME NEW k \in 0 .. r - 1 PROVE \E d \in first : g[d] = k
    <3>1. k \in 0 .. N - 1 /\ k < r
      BY <1>1, <1>12
    <3>2. PICK d \in 1 .. N : place[d] = k
      BY <3>1, <1>11 DEF Surjection
    <3>3. Place(b, e, n, d) = k /\ d \in first
      BY <3>1, <3>2, <1>13
    <3> QED
      BY <3>3
  <2> HIDE DEF g, first
  <2>4. g \in Injection(first, 0 .. r - 1)
    BY <2>1, <2>2 DEF Injection, IsInjective
  <2>5. g \in Surjection(first, 0 .. r - 1)
    BY <2>1, <2>3 DEF Surjection
  <2> QED
    BY <2>4, <2>5 DEF Bijection
<1>15. IsFiniteSet(first)
  <2>1. first \in SUBSET (1 .. N)
    OBVIOUS
  <2> HIDE DEF first
  <2> QED
    BY <2>1, <1>5, FS_Subset
<1>16. Cardinality(0 .. r - 1) = Cardinality(first)
  <2> HIDE DEF first, g
  <2> QED
    BY <1>14, <1>15, FS_Bijection DEF ExistsBijection
<1>17. Cardinality(0 .. r - 1) = r
  BY <1>12, FS_Interval
<1> QED
  BY <1>16, <1>17 DEF N

\* The shares of the days are natural numbers that sum to the count.
LEMMA SharesSum ==
    ASSUME NEW b \in Int, NEW e \in Int, b < e, NEW n \in Nat
    PROVE  /\ \A d \in 1 .. Days(b, e) : Share(b, e, n, d) \in Nat
           /\ SumTo([d \in 1 .. Days(b, e) |-> Share(b, e, n, d)], Days(b, e)) = n
<1> DEFINE N == Days(b, e)
           R == Remainder(b, e, n)
           first == {d \in 1 .. N : Place(b, e, n, d) < R}
           fl == [d \in 1 .. N |-> Floor(b, e, n, d)]
           extra == [d \in 1 .. N |-> IF d \in first THEN 1 ELSE 0]
           share == [d \in 1 .. N |-> Share(b, e, n, d)]
<1>1. N \in Nat
  BY DaysFollow
<1>2. R \in 0 .. N /\ \A d \in 1 .. N : Floor(b, e, n, d) \in Nat
  BY RemainderFits
<1>3. Cardinality(first) = R
  BY <1>2, FirstPlaces
<1>4. R = n - SumTo(fl, N)
  BY DEF Remainder
<1> HIDE DEF N, R
<1>5. \A d \in 1 .. N : share[d] = fl[d] + extra[d] /\ fl[d] \in Nat /\ extra[d] \in Nat
  BY <1>2 DEF Share, R
<1>6. SumTo(extra, N) = R
  <2>1. first \in SUBSET (1 .. N)
    OBVIOUS
  <2>2. \A d \in 1 .. N : extra[d] = IF d \in first THEN 1 ELSE 0
    OBVIOUS
  <2> HIDE DEF first, extra
  <2> QED
    BY <1>1, <1>3, <2>1, <2>2, SumOfOnes
<1>7. \A d \in 1 .. N : share[d] = Share(b, e, n, d)
  OBVIOUS
<1> HIDE DEF fl, extra, first, share
<1>8. SumTo(share, N) = SumTo(fl, N) + SumTo(extra, N)
  BY <1>1, <1>5, SumOfSums
<1>9. SumTo(fl, N) \in Int
  BY <1>1, <1>5, SumIsInt
<1>10. SumTo(share, N) = n
  BY <1>2, <1>4, <1>6, <1>8, <1>9
<1>11. \A d \in 1 .. N : Share(b, e, n, d) \in Nat
  BY <1>5, <1>7
<1> QED
  BY <1>10, <1>11 DEF N, share

-----------------------------------------------------------------------------
(***************************************************************************)
(* The buckets.  The recursive function in Buckets satisfies its equation. *)
(***************************************************************************)
IsKept(u, b, e, n, m) ==
    u = [d \in 0 .. m |->
            IF d = 0 THEN <<>>
            ELSE IF Share(b, e, n, d) > 0 THEN Append(u[d - 1], Bucket(b, e, n, d))
            ELSE u[d - 1]]

LEMMA KeptExists ==
    ASSUME NEW b, NEW e, NEW n
    PROVE  \A m \in Nat : \E u : IsKept(u, b, e, n, m)
<1> DEFINE next(s, d) == IF Share(b, e, n, d) > 0 THEN Append(s, Bucket(b, e, n, d)) ELSE s
           T == {m \in Nat : \E u : IsKept(u, b, e, n, m)}
<1>1. ASSUME NEW u, NEW m
      PROVE  IsKept(u, b, e, n, m)
                <=> u = [d \in 0 .. m |-> IF d = 0 THEN <<>> ELSE next(u[d - 1], d)]
  BY DEF IsKept
<1> HIDE DEF next
<1>2. 0 \in T
  <2> DEFINE u == [d \in 0 .. 0 |-> <<>>]
  <2>1. u = [d \in 0 .. 0 |-> IF d = 0 THEN <<>> ELSE next(u[d - 1], d)]
    OBVIOUS
  <2>2. IsKept(u, b, e, n, 0)
    BY <2>1, <1>1
  <2> QED
    BY <2>2
<1>3. ASSUME NEW m \in T PROVE m + 1 \in T
  <2>1. PICK u : IsKept(u, b, e, n, m)
    OBVIOUS
  <2>2. m \in Nat /\ m + 1 \in Nat
    OBVIOUS
  <2>3. u = [d \in 0 .. m |-> IF d = 0 THEN <<>> ELSE next(u[d - 1], d)]
    BY <2>1, <1>1
  <2> DEFINE w == [d \in 0 .. m + 1 |-> IF d = m + 1 THEN next(u[m], m + 1) ELSE u[d]]
  <2>4. ASSUME NEW d \in 0 .. m + 1
        PROVE  w[d] = IF d = 0 THEN <<>> ELSE next(w[d - 1], d)
    <3>1. CASE d = m + 1
      <4>1. d # 0 /\ d - 1 = m /\ m \in 0 .. m + 1 /\ m # m + 1
        BY <3>1, <2>2
      <4>2. w[d] = next(u[m], m + 1) /\ w[m] = u[m]
        BY <3>1, <4>1
      <4> QED
        BY <4>1, <4>2, <3>1
    <3>2. CASE d # m + 1
      <4>1. d \in 0 .. m
        BY <3>2, <2>2
      <4>2. u[d] = IF d = 0 THEN <<>> ELSE next(u[d - 1], d)
        BY <2>3, <4>1
      <4>3. d # 0 => w[d - 1] = u[d - 1]
        BY <2>2, <4>1
      <4> QED
        BY <4>1, <4>2, <4>3, <3>2
    <3> QED
      BY <3>1, <3>2
  <2>5. w = [d \in 0 .. m + 1 |-> IF d = 0 THEN <<>> ELSE next(w[d - 1], d)]
    BY <2>4
  <2>6. IsKept(w, b, e, n, m + 1)
    BY <2>5, <1>1
  <2> QED
    BY <2>6, <2>2
<1>4. T \subseteq Nat
  OBVIOUS
<1> HIDE DEF T
<1>5. T = Nat
  BY <1>2, <1>3, <1>4, SetInduction
<1> QED
  BY <1>5 DEF T

Periods == [begin : Int, end : Int, count : Nat]

\* Each within one day, one after the other.
InOrder(s) ==
    /\ \A j \in 1 .. Len(s) : (s[j].end - 1) \div Day = s[j].begin \div Day
    /\ \A j, k \in 1 .. Len(s) : j < k => s[j].end <= s[k].begin

Counts(s) == [j \in 1 .. Len(s) |-> s[j].count]

(***************************************************************************)
(* _bucket_interval_by_day(), for any interval and count: the buckets      *)
(* follow one another, none crosses midnight, and the counts sum to the    *)
(* count that was distributed, whatever the fractions round to.            *)
(***************************************************************************)
THEOREM BucketsRight ==
    ASSUME NEW b \in Int, NEW e \in Int, b < e, NEW n \in Nat
    PROVE  /\ Buckets(b, e, n) \in Seq(Periods)
           /\ InOrder(Buckets(b, e, n))
           /\ SumTo(Counts(Buckets(b, e, n)), Len(Buckets(b, e, n))) = n
<1> DEFINE N == Days(b, e)
           u == CHOOSE w : IsKept(w, b, e, n, N)
           share == [d \in 1 .. N |-> Share(b, e, n, d)]
<1>1. N \in Nat
  BY DaysFollow
<1>2. u = [d \in 0 .. N |->
              IF d = 0 THEN <<>>
              ELSE IF Share(b, e, n, d) > 0 THEN Append(u[d - 1], Bucket(b, e, n, d))
              ELSE u[d - 1]]
  <2>1. IsKept(u, b, e, n, N)
    BY <1>1, KeptExists, Zenon
  <2> HIDE DEF u
  <2> QED
    BY <2>1 DEF IsKept
<1>3. Buckets(b, e, n) = IF n = 0 THEN <<>> ELSE u[N]
  BY Zenon DEF Buckets, IsKept
<1>4. /\ \A d \in 1 .. N : share[d] = Share(b, e, n, d) /\ share[d] \in Nat
      /\ SumTo(share, N) = n
  BY SharesSum
<1>5. ASSUME NEW d \in 1 .. N
      PROVE  /\ Bucket(b, e, n, d) \in Periods
             /\ Bucket(b, e, n, d).begin = From(b, d)
             /\ Bucket(b, e, n, d).end = Till(b, e, d)
             /\ Bucket(b, e, n, d).count = share[d]
             /\ From(b, d) \in Int /\ Till(b, e, d) \in Int
             /\ From(b, d) < Till(b, e, d)
             /\ (Till(b, e, d) - 1) \div Day = From(b, d) \div Day
             /\ d > 1 => Till(b, e, d - 1) = From(b, d)
  BY <1>4, DaysFollow DEF Bucket, Periods
<1> DEFINE Good(d) ==
              /\ u[d] \in Seq(Periods)
              /\ InOrder(u[d])
              /\ \A j \in 1 .. Len(u[d]) : d > 0 /\ u[d][j].end <= Till(b, e, d)
              /\ SumTo(Counts(u[d]), Len(u[d])) = SumTo(share, d)
           T == {d \in Nat : d <= N => Good(d)}
<1> HIDE DEF N, u, share
<1>6. 0 \in T
  <2>1. u[0] = <<>>
    BY <1>1, <1>2
  <2>2. Len(u[0]) = 0 /\ u[0] \in Seq(Periods)
    BY <2>1
  <2>3. SumTo(Counts(u[0]), Len(u[0])) = 0 /\ SumTo(share, 0) = 0
    BY <2>2, SumSteps
  <2>4. 1 .. 0 = {}
    OBVIOUS
  <2>5. Good(0)
    BY <2>2, <2>3, <2>4 DEF InOrder
  <2> QED
    BY <2>5
<1>7. ASSUME NEW d \in T PROVE d + 1 \in T
  <2>1. SUFFICES ASSUME d + 1 <= N PROVE Good(d + 1)
    OBVIOUS
  <2>2. /\ d \in Nat /\ d <= N /\ d + 1 \in 0 .. N /\ d + 1 # 0 /\ (d + 1) - 1 = d
        /\ d + 1 \in 1 .. N /\ d + 1 > 0
    BY <2>1, <1>1
  <2>3. Good(d)
    BY <2>2
  <2> DEFINE s == u[d]
             x == Bucket(b, e, n, d + 1)
  <2>4. u[d + 1] = IF Share(b, e, n, d + 1) > 0 THEN Append(s, x) ELSE s
    BY <1>2, <2>2
  <2>5. /\ x \in Periods /\ x.begin \in Int /\ x.end = Till(b, e, d + 1) /\ x.end \in Int
        /\ x.begin < x.end /\ (x.end - 1) \div Day = x.begin \div Day
        /\ x.count = share[d + 1] /\ share[d + 1] \in Nat
        /\ d > 0 => Till(b, e, d) = x.begin
    BY <1>4, <1>5, <2>2
  <2>6. /\ s \in Seq(Periods) /\ InOrder(s)
        /\ \A j \in 1 .. Len(s) : s[j].end <= x.begin
        /\ SumTo(Counts(s), Len(s)) = SumTo(share, d)
    BY <2>3, <2>5
  <2>7. SumTo(share, d + 1) = SumTo(share, d) + share[d + 1]
    BY <2>2, SumSteps
  <2>8. SumTo(share, d) \in Int
    <3>1. \A k \in 1 .. d : share[k] \in Int
      BY <1>1, <1>4, <2>2
    <3> QED
      BY <2>2, <3>1, SumIsInt
  <2>9. \A j \in 1 .. Len(s) : s[j] \in Periods
    BY <2>6, ElementOfSeq
  <2>10. Len(s) \in Nat
    BY <2>6, LenProperties
  <2> HIDE DEF s, x
  <2>11. CASE Share(b, e, n, d + 1) > 0
    <3> DEFINE t == Append(s, x)
               m == Len(s)
    <3>1. /\ t \in Seq(Periods) /\ Len(t) = m + 1
          /\ \A j \in 1 .. m : t[j] = s[j]
          /\ t[m + 1] = x
      BY <2>5, <2>6, AppendProperties
    <3>2. u[d + 1] = t
      BY <2>4, <2>11
    <3> HIDE DEF t, m
    <3>3. m \in Nat
      BY <2>10 DEF m
    <3>4. \A j \in 1 .. m + 1 : j \in 1 .. m \/ j = m + 1
      BY <3>3
    <3>5. InOrder(t)
      <4>1. \A j \in 1 .. m + 1 : (t[j].end - 1) \div Day = t[j].begin \div Day
        BY <2>5, <2>6, <3>1, <3>4 DEF InOrder, m
      <4>2. ASSUME NEW j \in 1 .. m + 1, NEW k \in 1 .. m + 1, j < k
            PROVE  t[j].end <= t[k].begin
        <5>1. j \in 1 .. m
          BY <3>3, <4>2
        <5>2. CASE k = m + 1
          BY <5>1, <5>2, <2>6, <3>1 DEF m
        <5>3. CASE k \in 1 .. m
          BY <5>1, <5>3, <4>2, <2>6, <3>1 DEF InOrder, m
        <5> QED
          BY <5>2, <5>3, <3>4
      <4> QED
        BY <3>1, <4>1, <4>2 DEF InOrder
    <3>6. ASSUME NEW j \in 1 .. m + 1 PROVE t[j].end <= Till(b, e, d + 1)
      <4>1. CASE j = m + 1
        BY <4>1, <3>1, <2>5
      <4>2. CASE j \in 1 .. m
        <5>1. s[j].end <= x.begin /\ s[j] \in Periods
          BY <4>2, <2>6, <2>9 DEF m
        <5>2. s[j].end \in Int
          BY <5>1 DEF Periods
        <5> QED
          BY <4>2, <5>1, <5>2, <3>1, <2>5
      <4> QED
        BY <4>1, <4>2, <3>4
    <3>7. SumTo(Counts(t), m + 1) = SumTo(share, d + 1)
      <4>1. Counts(t)[m + 1] = share[d + 1]
        BY <3>1, <3>3, <2>5 DEF Counts
      <4>2. \A j \in 1 .. m : Counts(t)[j] = Counts(s)[j]
        BY <3>1, <3>3 DEF Counts, m
      <4>3. SumTo(Counts(t), m) = SumTo(Counts(s), m)
        BY <4>2, <3>3, SumOfEquals
      <4>4. SumTo(Counts(t), m + 1) = SumTo(Counts(t), m) + Counts(t)[m + 1]
        BY <3>3, SumSteps
      <4> QED
        BY <4>1, <4>3, <4>4, <2>6, <2>7 DEF m
    <3> QED
      BY <2>2, <3>1, <3>2, <3>5, <3>6, <3>7
  <2>12. CASE ~(Share(b, e, n, d + 1) > 0)
    <3>1. u[d + 1] = s
      BY <2>4, <2>12
    <3>2. share[d + 1] = 0
      BY <1>4, <2>2, <2>12
    <3>3. SumTo(share, d + 1) = SumTo(share, d)
      BY <2>7, <2>8, <3>2
    <3>4. ASSUME NEW j \in 1 .. Len(s) PROVE s[j].end <= Till(b, e, d + 1)
      <4>1. s[j].end <= x.begin /\ s[j] \in Periods
        BY <2>6, <2>9
      <4>2. s[j].end \in Int
        BY <4>1 DEF Periods
      <4> QED
        BY <4>1, <4>2, <2>5
    <3> QED
      BY <2>2, <2>6, <3>1, <3>3, <3>4
  <2> QED
    BY <2>11, <2>12
<1>8. T \subseteq Nat
  OBVIOUS
<1> HIDE DEF T
<1>9. T = Nat
  BY <1>6, <1>7, <1>8, SetInduction
<1>10. Good(N)
  BY <1>1, <1>9 DEF T
<1>11. CASE n # 0
  BY <1>3, <1>4, <1>10, <1>11
<1>12. CASE n = 0
  <2>1. Buckets(b, e, n) = <<>>
    BY <1>3, <1>12
  <2>2. Len(Buckets(b, e, n)) = 0 /\ Buckets(b, e, n) \in Seq(Periods)
    BY <2>1
  <2>3. SumTo(Counts(Buckets(b, e, n)), 0) = 0
    BY SumSteps
  <2>4. InOrder(Buckets(b, e, n))
    <3>1. 1 .. 0 = {}
      OBVIOUS
    <3> QED
      BY <2>2, <3>1 DEF InOrder
  <2> QED
    BY <2>2, <2>3, <2>4, <1>12
<1> QED
  BY <1>11, <1>12

-----------------------------------------------------------------------------
(***************************************************************************)
(* The lookups.                                                            *)
(***************************************************************************)
Pointers == {Ptr(a) : a \in Addresses} \cup {None}

Lists == {"bundled", "current"}

Underway == {"dns", "api", "mmdb", "attribute"}

Stages == Underway \cup {"idle", "done", "raised"}

Places == Addresses \cup {None}

Domains == {Base(a, l) : a \in Addresses, l \in Lists} \cup {None}

Replies == Answers \cup {None}

Lookups ==
    [stage : Stages, addr : Places, tries : Nat, ptr : Pointers, base : Domains,
     asn : BOOLEAN, gaveUp : BOOLEAN, answer : Replies]

LookupType ==
    /\ conf \in Configs
    /\ cache \in [Addresses -> Replies]
    /\ map \in Maps /\ overrides \in Lists
    /\ look \in Lookups
    /\ look.stage \in Underway => look.addr \in Addresses
    /\ faults \in Nat
    /\ last \in [Addresses -> Replies]

(***************************************************************************)
(* What Recovers needs: no fallback is in the cache, nor anything for an   *)
(* address whose last answer is one or whose lookup is under way; and what *)
(* DNS has answered is the PTR record.                                     *)
(***************************************************************************)
CacheInv ==
    \A a \in Addresses :
        /\ cache[a] # None => ~WeakFallback(cache[a])
        /\ last[a] # None /\ WeakFallback(last[a]) => cache[a] = None
        /\ look.stage \in Underway /\ look.addr = a => cache[a] = None

AskedInv ==
    look.stage \in {"api", "mmdb", "attribute"} /\ ~conf.offline /\ ~look.gaveUp =>
        look.ptr = Ptr(look.addr)

LookupInv == LookupType /\ CacheInv /\ AskedInv

Recovered ==
    \A a \in Addresses :
        (/\ look.stage # "done" /\ look'.stage = "done" /\ look'.addr = a
         /\ ~look'.gaveUp /\ ~conf.offline
         /\ last[a] # None /\ WeakFallback(last[a]))
           => look'.answer.ptr = Ptr(a)

LEMMA DownloadsType ==
    ASSUME NEW c \in Configs, NEW failing \in BOOLEAN, NEW files \in Downloads(c, failing)
    PROVE  files[1] \in Lists /\ files[2] \in Maps
  BY DEF Downloads, Lists, Maps

LEMMA LoadType ==
    ASSUME NEW c \in Configs, Load(c), faults \in Nat
    PROVE  overrides' \in Lists /\ map' \in Maps /\ faults' \in Nat
  BY DownloadsType DEF Load, Fault

LEMMA AnswerType == LookupType => Answer \in Answers /\ Answer.ptr = look.ptr
<1> SUFFICES ASSUME LookupType PROVE Answer \in Answers /\ Answer.ptr = look.ptr
  OBVIOUS
<1>1. look.ptr \in Pointers
  BY DEF LookupType, Lookups
<1>2. Answer.by \in Attributions /\ Answer = [ptr |-> look.ptr, by |-> Answer.by]
  BY DEF Answer, Attributions
<1> QED
  BY <1>1, <1>2 DEF Answers, Pointers

LEMMA RestingType == Resting \in Lookups /\ Resting.stage = "idle"
<1>1. /\ "idle" \in Stages /\ None \in Places /\ 0 \in Nat /\ None \in Pointers
      /\ None \in Domains /\ None \in Replies /\ FALSE \in BOOLEAN
  BY DEF Stages, Places, Pointers, Domains, Replies
<1> QED
  BY <1>1 DEF Resting, Lookups

LEMMA InitLookup == LookupInit => LookupInv
<1> SUFFICES ASSUME LookupInit PROVE LookupInv
  OBVIOUS
<1>1. /\ look = Resting /\ conf \in Configs /\ map = "empty" /\ overrides = "bundled"
      /\ faults = 0
      /\ cache = [a \in Addresses |-> None] /\ last = [a \in Addresses |-> None]
  BY DEF LookupInit
<1>2. look.stage = "idle" /\ look \in Lookups
  BY <1>1, RestingType
<1> QED
  BY <1>1, <1>2 DEF LookupInv, LookupType, CacheInv, AskedInv, Underway, Lists, Maps, Replies

LEMMA BeginKeeps ==
    ASSUME LookupInv, NEW a \in Addresses, Begin(a)
    PROVE  LookupInv' /\ Recovered
<1>1. LookupType /\ CacheInv /\ AskedInv
  BY DEF LookupInv
<1>2. UNCHANGED <<conf, cache, map, overrides, faults>>
  BY DEF Begin
<1>3. cache \in [Addresses -> Replies] /\ last \in [Addresses -> Replies]
  BY <1>1 DEF LookupType
<1>4. CASE cache[a] # None
  <2>1. /\ look' = [Resting EXCEPT !.stage = "done", !.addr = a, !.answer = cache[a]]
        /\ last' = [last EXCEPT ![a] = cache[a]]
    BY <1>4 DEF Begin
  <2>2. cache[a] \in Replies /\ a \in Places /\ "done" \in Stages
    BY <1>3 DEF Places, Stages
  <2>3. look' \in Lookups /\ look'.stage = "done" /\ look'.addr = a
    BY <2>1, <2>2, RestingType DEF Lookups
  <2>4. LookupType'
    BY <1>1, <1>2, <1>3, <2>1, <2>2, <2>3 DEF LookupType, Underway
  <2>5. CacheInv' /\ AskedInv'
    BY <1>1, <1>2, <1>3, <2>1, <2>3 DEF CacheInv, AskedInv, Underway
  <2>6. Recovered
    BY <1>1, <1>4, <2>3 DEF Recovered, CacheInv
  <2> QED
    BY <2>4, <2>5, <2>6 DEF LookupInv
<1>5. CASE cache[a] = None
  <2> DEFINE s == IF conf.offline THEN AfterDns ELSE "dns"
  <2>1. /\ look' = [Resting EXCEPT !.addr = a, !.stage = s]
        /\ last' = last
    BY <1>5 DEF Begin
  <2>2. s \in {"dns", "api", "mmdb"} /\ (s # "dns" => conf.offline)
    BY DEF AfterDns
  <2> HIDE DEF s
  <2>3. s \in Stages /\ a \in Places
    BY <2>2 DEF Stages, Places, Underway
  <2>4. look' \in Lookups /\ look'.stage = s /\ look'.addr = a
    BY <2>1, <2>3, RestingType DEF Lookups
  <2>5. LookupType'
    BY <1>1, <1>2, <2>1, <2>4 DEF LookupType
  <2>6. CacheInv'
    BY <1>1, <1>2, <1>5, <2>1, <2>4 DEF CacheInv
  <2>7. AskedInv'
    BY <1>2, <2>2, <2>4 DEF AskedInv
  <2>8. Recovered
    BY <2>2, <2>4 DEF Recovered
  <2> QED
    BY <2>5, <2>6, <2>7, <2>8 DEF LookupInv
<1> QED
  BY <1>4, <1>5

\* A step of a lookup that is not its last leaves the cache and the answers.
LEMMA StillUnderway ==
    ASSUME LookupInv, UNCHANGED <<conf, cache, last>>,
           look' \in Lookups, look'.addr = look.addr, look.stage \in Underway,
           look'.stage # "done", look'.stage # "idle",
           map' \in Maps, overrides' \in Lists, faults' \in Nat,
           look'.stage = "dns" \/ look'.stage = "raised" \/ conf.offline
             \/ look'.gaveUp \/ look'.ptr = Ptr(look.addr)
    PROVE  LookupInv' /\ Recovered
<1>1. LookupType /\ CacheInv /\ AskedInv
  BY DEF LookupInv
<1>2. LookupType'
  BY <1>1 DEF LookupType
<1>3. CacheInv'
  BY <1>1 DEF CacheInv
<1>4. AskedInv'
  BY DEF AskedInv
<1>5. Recovered
  BY DEF Recovered
<1> QED
  BY <1>2, <1>3, <1>4, <1>5 DEF LookupInv

LEMMA LookupStepKeeps ==
    ASSUME LookupInv, LookupStep
    PROVE  /\ LookupInv' /\ Recovered
           /\ look.stage \in Underway /\ look'.stage # "idle"
<1>1. LookupType /\ CacheInv /\ AskedInv
  BY DEF LookupInv
<1>2. /\ look \in Lookups /\ faults \in Nat /\ map \in Maps /\ overrides \in Lists
      /\ conf \in Configs /\ conf.asn \in BOOLEAN
      /\ look.stage \in Underway => look.addr \in Addresses
  BY <1>1, LookupAssumption DEF LookupType, Lookups
<1>3. AfterDns \in {"api", "mmdb"}
  BY DEF AfterDns
<1>4. CASE Resolve
  <2>1. /\ look.stage = "dns"
        /\ look' = [look EXCEPT !.stage = AfterDns, !.ptr = Ptr(look.addr),
                                !.tries = look.tries + 1]
        /\ UNCHANGED <<conf, cache, map, overrides, faults, last>>
    BY <1>4 DEF Resolve, At
  <2>2. /\ look.stage \in Underway /\ look.addr \in Addresses
        /\ Ptr(look.addr) \in Pointers /\ AfterDns \in Stages /\ look.tries + 1 \in Nat
    BY <1>2, <1>3, <2>1 DEF Underway, Pointers, Stages, Lookups
  <2>3. /\ look' \in Lookups /\ look'.addr = look.addr /\ look'.stage = AfterDns
        /\ look'.ptr = Ptr(look.addr)
    BY <1>2, <2>1, <2>2 DEF Lookups
  <2> QED
    BY <1>2, <1>3, <2>1, <2>2, <2>3, StillUnderway
<1>5. CASE QueryFails
  <2>1. /\ look.stage = "dns" /\ Fault /\ UNCHANGED <<conf, cache, map, overrides, last>>
        /\ \/ look' = [look EXCEPT !.tries = look.tries + 1]
           \/ \E next \in {AfterDns, "raised"} :
                look' = [look EXCEPT !.tries = look.tries + 1, !.gaveUp = TRUE,
                                     !.stage = next]
    BY <1>5 DEF QueryFails, At
  <2>2. faults' \in Nat
    BY <1>2, <2>1 DEF Fault
  <2>3. CASE look' = [look EXCEPT !.tries = look.tries + 1]
    <3>1. look' \in Lookups /\ look'.addr = look.addr /\ look'.stage = "dns"
      BY <1>2, <2>1, <2>3 DEF Lookups
    <3> QED
      BY <1>2, <2>1, <2>2, <3>1, StillUnderway DEF Underway
  <2>4. ASSUME NEW next \in {AfterDns, "raised"},
               look' = [look EXCEPT !.tries = look.tries + 1, !.gaveUp = TRUE, !.stage = next]
        PROVE  LookupInv' /\ Recovered /\ look'.stage # "idle"
    <3>1. next \in {"api", "mmdb", "raised"} /\ next \in Stages
      BY <1>3 DEF Stages, Underway
    <3> DEFINE asked == [look EXCEPT !.tries = look.tries + 1]
    <3>2. asked \in Lookups /\ asked.addr = look.addr
      BY <1>2 DEF Lookups
    <3>3. look' = [asked EXCEPT !.gaveUp = TRUE, !.stage = next]
      BY <1>2, <2>4 DEF Lookups
    <3> HIDE DEF asked
    <3>4. look' \in Lookups /\ look'.addr = look.addr /\ look'.stage = next /\ look'.gaveUp
      BY <3>1, <3>2, <3>3 DEF Lookups
    <3> QED
      BY <1>2, <2>1, <2>2, <3>1, <3>4, StillUnderway DEF Underway
  <2> QED
    BY <2>1, <2>3, <2>4 DEF Underway
<1>6. ASSUME NEW asn \in BOOLEAN, Recorded(asn), look.stage \in {"api", "mmdb"},
             UNCHANGED <<conf, cache, map, overrides, faults, last>>
      PROVE  LookupInv' /\ Recovered /\ look'.stage # "idle"
  <2> DEFINE base == IF look.ptr = None THEN None ELSE Base(look.addr, overrides)
  <2>1. look' = [look EXCEPT !.stage = "attribute", !.asn = asn, !.base = base]
    BY <1>6 DEF Recorded
  <2>2. look.addr \in Addresses /\ look.stage \in Underway
    BY <1>2, <1>6 DEF Underway
  <2>3. base \in Domains /\ "attribute" \in Stages
    BY <1>2, <2>2 DEF Domains, Stages, Underway
  <2> HIDE DEF base
  <2>4. /\ look' \in Lookups /\ look'.addr = look.addr /\ look'.stage = "attribute"
        /\ look'.ptr = look.ptr /\ look'.gaveUp = look.gaveUp
    BY <1>2, <2>1, <2>3 DEF Lookups
  <2>5. conf.offline \/ look.gaveUp \/ look.ptr = Ptr(look.addr)
    BY <1>1, <1>6 DEF AskedInv
  <2> QED
    BY <1>2, <1>6, <2>2, <2>4, <2>5, StillUnderway
<1>7. CASE ApiAnswers \/ ReadMmdb
  BY <1>2, <1>6, <1>7 DEF ApiAnswers, ReadMmdb, At, Underway
<1>8. CASE ApiUnusable
  <2>1. /\ look.stage = "api" /\ Fault /\ UNCHANGED <<conf, cache, map, overrides, last>>
        /\ look' = [look EXCEPT !.stage = "mmdb"]
    BY <1>8 DEF ApiUnusable, At
  <2>2. /\ look' \in Lookups /\ look'.addr = look.addr /\ look'.stage = "mmdb"
        /\ look'.ptr = look.ptr /\ look'.gaveUp = look.gaveUp
    BY <1>2, <2>1 DEF Lookups, Stages, Underway
  <2>3. conf.offline \/ look.gaveUp \/ look.ptr = Ptr(look.addr)
    BY <1>1, <2>1 DEF AskedInv
  <2>4. faults' \in Nat
    BY <1>2, <2>1 DEF Fault
  <2> QED
    BY <1>2, <2>1, <2>2, <2>3, <2>4, StillUnderway DEF Underway
<1>9. CASE ApiRejects \/ MmdbMissing \/ LoadFails
  <2>1. /\ look.stage \in Underway /\ Fault /\ Raise /\ UNCHANGED <<conf, cache, map, last>>
        /\ overrides' = overrides \/ \E files \in Downloads(conf, TRUE) : overrides' = files[1]
    BY <1>9 DEF ApiRejects, MmdbMissing, LoadFails, At, Underway
  <2>2. overrides' \in Lists
    BY <1>2, <2>1, DownloadsType
  <2>3. look' \in Lookups /\ look'.addr = look.addr /\ look'.stage = "raised"
    BY <1>2, <2>1 DEF Raise, Lookups, Stages
  <2>4. faults' \in Nat
    BY <1>2, <2>1 DEF Fault
  <2> QED
    BY <1>2, <2>1, <2>2, <2>3, <2>4, StillUnderway
<1>10. CASE LoadMap
  <2>1. look.stage = "attribute" /\ Load(conf) /\ UNCHANGED <<conf, cache, look, last>>
    BY <1>10 DEF LoadMap, At
  <2>2. overrides' \in Lists /\ map' \in Maps /\ faults' \in Nat
    BY <1>2, <2>1, LoadType
  <2>3. conf.offline \/ look.gaveUp \/ look.ptr = Ptr(look.addr)
    BY <1>1, <2>1 DEF AskedInv
  <2> QED
    BY <1>2, <2>1, <2>2, <2>3, StillUnderway DEF Underway
<1>11. CASE Attribute
  <2>1. /\ look.stage = "attribute"
        /\ look' = [look EXCEPT !.stage = "done", !.answer = Answer]
        /\ last' = [last EXCEPT ![look.addr] = Answer]
        /\ cache' = IF ~WeakFallback(Answer) THEN [cache EXCEPT ![look.addr] = Answer] ELSE cache
        /\ UNCHANGED <<conf, map, overrides, faults>>
    BY <1>11 DEF Attribute, Conclude, At
  <2>2. look.stage \in Underway /\ look.addr \in Addresses
    BY <1>2, <2>1 DEF Underway
  <2>3. Answer \in Replies /\ "done" \in Stages /\ Answer.ptr = look.ptr
    BY <1>1, AnswerType DEF Replies, Stages
  <2>4. /\ look' \in Lookups /\ look'.stage = "done" /\ look'.addr = look.addr
        /\ look'.gaveUp = look.gaveUp /\ look'.answer = Answer
    BY <1>2, <2>1, <2>3 DEF Lookups
  <2>5. cache \in [Addresses -> Replies] /\ last \in [Addresses -> Replies]
    BY <1>1 DEF LookupType
  <2>6. LookupType'
    BY <1>2, <2>1, <2>2, <2>3, <2>4, <2>5 DEF LookupType, Underway
  <2>7. CacheInv'
    <3>1. cache[look.addr] = None
      BY <1>1, <2>2 DEF CacheInv
    <3>2. \A a \in Addresses : last'[a] = IF a = look.addr THEN Answer ELSE last[a]
      BY <2>1, <2>5
    <3>3. CASE WeakFallback(Answer)
      <4>1. cache' = cache
        BY <2>1, <3>3
      <4> QED
        BY <1>1, <2>4, <3>1, <3>2, <4>1 DEF CacheInv, Underway
    <3>4. CASE ~WeakFallback(Answer)
      <4>1. \A a \in Addresses : cache'[a] = IF a = look.addr THEN Answer ELSE cache[a]
        BY <2>1, <2>5, <3>4
      <4> QED
        BY <1>1, <2>4, <3>2, <3>4, <4>1 DEF CacheInv, Underway
    <3> QED
      BY <3>3, <3>4
  <2>8. AskedInv'
    BY <2>4 DEF AskedInv
  <2>9. Recovered
    BY <1>1, <2>1, <2>3, <2>4 DEF Recovered, AskedInv
  <2> QED
    BY <2>2, <2>4, <2>6, <2>7, <2>8, <2>9 DEF LookupInv
<1> QED
  BY <1>4, <1>5, <1>7, <1>8, <1>9, <1>10, <1>11
     DEF LookupStep, At, Underway, Resolve, QueryFails, ApiAnswers, ApiUnusable, ApiRejects,
         ReadMmdb, MmdbMissing, LoadMap, LoadFails, Attribute, Conclude

\* The caller takes the answer.
LEMMA RestKeeps ==
    ASSUME LookupInv, Rest, UNCHANGED <<conf, cache, map, overrides, last>>, faults' \in Nat
    PROVE  LookupInv' /\ Recovered
<1>1. look' \in Lookups /\ look'.stage = "idle"
  BY RestingType DEF Rest
<1> QED
  BY <1>1 DEF LookupInv, LookupType, CacheInv, AskedInv, Recovered, Underway

LEMMA SameLookKeeps ==
    ASSUME LookupInv, UNCHANGED <<conf, cache, map, overrides, look, last>>, faults' \in Nat
    PROVE  LookupInv' /\ Recovered
  BY DEF LookupInv, LookupType, CacheInv, AskedInv, Recovered

LEMMA ExpireKeeps ==
    ASSUME LookupInv, NEW a \in Addresses, Expire(a)
    PROVE  LookupInv' /\ Recovered
<1>1. /\ cache \in [Addresses -> Replies]
      /\ cache' = [cache EXCEPT ![a] = None]
      /\ UNCHANGED <<conf, map, overrides, look, faults, last>>
  BY DEF Expire, LookupInv, LookupType
<1>2. \A c \in Addresses : cache'[c] = IF c = a THEN None ELSE cache[c]
  BY <1>1
<1>3. cache' \in [Addresses -> Replies]
  BY <1>1 DEF Replies
<1> QED
  BY <1>1, <1>2, <1>3 DEF LookupInv, LookupType, CacheInv, AskedInv, Recovered

LEMMA ReloadKeeps ==
    ASSUME LookupInv, ReloadMap, look.stage = "idle"
    PROVE  LookupInv' /\ Recovered
<1>1. conf' \in Configs /\ Load(conf') /\ UNCHANGED <<cache, look, last>> /\ faults \in Nat
  BY DEF ReloadMap, LookupInv, LookupType
<1>2. overrides' \in Lists /\ map' \in Maps /\ faults' \in Nat
  BY <1>1, LoadType
<1> QED
  BY <1>1, <1>2 DEF LookupInv, LookupType, CacheInv, AskedInv, Recovered

-----------------------------------------------------------------------------
(***************************************************************************)
(* Parsing.                                                                *)
(***************************************************************************)
PlaceOfParsing ==
    /\ stage \in {"idle", "over", "read", "aggregate", "tls", "open", "walk", "failure", "records"}
    /\ stage # "idle" => item \in Items
    /\ part \in Nat
    /\ stage \in {"open", "walk"} => part >= 1
    /\ stage \in {"read", "aggregate"} => item.via = "file"
    /\ stage \notin {"failure", "records"} => look.stage = "idle"

\* What a failure report asks the lookup for is an address.
IsWalk(w) ==
    \E flag, feedback, sample :
        /\ w = [flag |-> flag, feedback |-> feedback, sample |-> sample]
        /\ feedback # None => feedback.addr \in Addresses

IsBody(xml) ==
    /\ xml.begin \in Int /\ xml.end \in Int
    /\ xml.records \in Seq(Records)
    /\ \A k \in DOMAIN xml.records :
          xml.records[k].shape # "noip" => xml.records[k].addr \in Addresses

Rows == [rec : Int, begin : Int, end : Int, count : Int]

Expected(k) ==
    IF body.records[k].shape = "good" /\ k \notin lost THEN body.records[k].count ELSE 0

(***************************************************************************)
(* The records before i are done with: what each should have in the rows,  *)
(* it has, and in order.                                                   *)
(***************************************************************************)
RowsSoFar ==
    /\ IsBody(body)
    /\ i \in 1 .. Len(body.records) + 1
    /\ lost \subseteq 1 .. i - 1
    /\ rows \in Seq(Rows)
    /\ \A j \in 1 .. Len(rows) : rows[j].rec \in 1 .. i - 1
    /\ \A k \in 1 .. i - 1 : Counted(k) = Expected(k)
    /\ \A j, k \in 1 .. Len(rows) : j < k =>
         \/ rows[j].rec < rows[k].rec
         \/ rows[j].rec = rows[k].rec /\ rows[j].end <= rows[k].begin
    /\ Normalized => \A j \in 1 .. Len(rows) :
         (rows[j].end - 1) \div Day = rows[j].begin \div Day

AtRecords ==
    stage = "records" =>
        /\ RowsSoFar
        /\ look.stage # "idle" => i <= Len(body.records) /\ Record.shape # "noip"

AfterRecords ==
    Over /\ outcome = "aggregate" => RowsSoFar /\ i = Len(body.records) + 1

ParseInv == PlaceOfParsing /\ IsWalk(walk) /\ AtRecords /\ AfterRecords

Inv == LookupInv /\ ParseInv

LEMMA RecordsOf ==
    ASSUME NEW xml, IsBody(xml)
    PROVE  /\ Len(xml.records) \in Nat /\ DOMAIN xml.records = 1 .. Len(xml.records)
           /\ \A k \in 1 .. Len(xml.records) :
                /\ xml.records[k] \in Records
                /\ xml.records[k].shape # "noip" => xml.records[k].addr \in Addresses
  BY DEF IsBody

LEMMA PartTyped ==
    ASSUME PlaceOfParsing, NEW types, AtPart(types)
    PROVE  /\ stage = "walk" /\ item \in Items /\ part \in Nat /\ part >= 1
           /\ Part.type \in types
           /\ Part.type = "other" /\ Part.base64 => TypedDocument(Part.blob)
           /\ Part.type \in {"feedback", "claim"} /\ Part.report # None =>
                Part.report.addr \in Addresses
<1>1. /\ stage = "walk" /\ item \in Items /\ part \in Nat /\ part >= 1
      /\ part <= Len(Parts(item)) /\ Part.type \in types
  BY DEF PlaceOfParsing, AtPart
<1>2. Len(Parts(item)) \in Nat /\ DOMAIN Parts(item) = 1 .. Len(Parts(item))
  BY <1>1, ContentAssumption
<1>3. part \in DOMAIN Parts(item)
  BY <1>1, <1>2
<1>4. /\ Part.type = "other" /\ Part.base64 => TypedDocument(Part.blob)
      /\ Part.type \in {"feedback", "claim"} /\ Part.report # None =>
           Part.report.addr \in Addresses
  BY <1>1, <1>3, ContentAssumption DEF Part
<1> QED
  BY <1>1, <1>4

\* Away from the records there is little to keep.
LEMMA Elsewhere ==
    ASSUME stage' \in {"over", "read", "aggregate", "tls", "open", "walk", "failure"},
           item' \in Items, part' \in Nat, IsWalk(walk'),
           stage' \in {"open", "walk"} => part' >= 1,
           stage' \in {"read", "aggregate"} => item'.via = "file",
           stage' # "failure" => look'.stage = "idle",
           stage' = "over" => outcome' # "aggregate"
    PROVE  ParseInv'
  BY DEF ParseInv, PlaceOfParsing, IsWalk, AtRecords, AfterRecords, Over

LEMMA RecordsStart ==
    ASSUME ParseInv, NEW blob, TypedDocument(blob), IsAggregate(blob), stage # "idle",
           StartRecords(blob.body), look'.stage = "idle"
    PROVE  ParseInv'
<1>1. /\ stage' = "records" /\ body' = blob.body /\ i' = 1 /\ rows' = <<>> /\ lost' = {}
      /\ UNCHANGED <<item, part, walk>>
  BY DEF StartRecords
<1>2. IsBody(body')
  BY <1>1 DEF TypedDocument, IsAggregate, IsBody
<1>3. RowsSoFar'
  <2>1. Len(body'.records) \in Nat
    BY <1>2, RecordsOf
  <2>2. rows' \in Seq(Rows) /\ Len(rows') = 0
    BY <1>1
  <2> QED
    BY <1>1, <1>2, <2>1, <2>2 DEF RowsSoFar, IsBody
<1> QED
  BY <1>1, <1>3 DEF ParseInv, PlaceOfParsing, IsWalk, AtRecords, AfterRecords, Over

-----------------------------------------------------------------------------
(***************************************************************************)
(* A record that is left out.                                              *)
(***************************************************************************)
LEMMA Skipped ==
    ASSUME RowsSoFar, i <= Len(body.records), i' = i + 1, UNCHANGED <<body, rows>>,
           \/ lost' = lost /\ Record.shape # "good"
           \/ lost' = lost \cup {i}
    PROVE  RowsSoFar'
<1>1. /\ IsBody(body) /\ i \in 1 .. Len(body.records) + 1 /\ lost \subseteq 1 .. i - 1
      /\ rows \in Seq(Rows) /\ \A j \in 1 .. Len(rows) : rows[j].rec \in 1 .. i - 1
      /\ \A k \in 1 .. i - 1 : Counted(k) = Expected(k)
  BY DEF RowsSoFar
<1>2. Len(body.records) \in Nat /\ i \in Nat \ {0} /\ Len(rows) \in Nat
      /\ DOMAIN rows = 1 .. Len(rows)
  BY <1>1, RecordsOf
<1>3. lost' \subseteq 1 .. i' - 1 /\ i' \in 1 .. Len(body.records) + 1
  <2>1. ASSUME NEW x \in lost' PROVE x \in 1 .. i
    <3>1. x \in lost => x \in 1 .. i - 1
      BY <1>1
    <3>2. i \in Int /\ 1 <= i
      BY <1>2
    <3> QED
      BY <3>1, <3>2
  <2> QED
    BY <1>2, <2>1
<1>4. \A k \in 1 .. i : Counted(k)' = Counted(k)
  BY DEF Counted
<1>5. \A k \in 1 .. i - 1 : Expected(k)' = Expected(k)
  <2>1. \A k \in 1 .. i - 1 : k \in lost' <=> k \in lost
    BY <1>2
  <2> QED
    BY <2>1 DEF Expected
<1>6. \A k \in 1 .. i : k = i => Expected(k)' = 0
  <2> SUFFICES ASSUME NEW k \in 1 .. i, k = i PROVE Expected(k)' = 0
    OBVIOUS
  <2>1. body.records[k].shape # "good" \/ k \in lost'
    BY DEF Record
  <2> QED
    BY <2>1 DEF Expected
<1>7. Counted(i) = 0
  <2> DEFINE f == [j \in DOMAIN rows |-> IF rows[j].rec = i THEN rows[j].count ELSE 0]
  <2>1. \A j \in 1 .. Len(rows) : f[j] = 0
    BY <1>1, <1>2
  <2> HIDE DEF f
  <2>2. SumTo(f, Len(rows)) = 0
    BY <1>2, <2>1, SumOfZeros
  <2> QED
    BY <2>2 DEF f, Counted
<1>8. ASSUME NEW k \in 1 .. i' - 1 PROVE Counted(k)' = Expected(k)'
  <2>1. CASE k = i
    BY <1>2, <1>4, <1>6, <1>7, <2>1
  <2>2. CASE k # i
    BY <1>1, <1>2, <1>4, <1>5, <2>2
  <2> QED
    BY <2>1, <2>2
<1>9. \A j \in 1 .. Len(rows) : rows[j].rec \in 1 .. i' - 1
  BY <1>1, <1>2
<1> QED
  BY <1>1, <1>3, <1>8, <1>9 DEF RowsSoFar, Normalized

(***************************************************************************)
(* The rows of a record: its count, in the days of the report.             *)
(***************************************************************************)
LEMMA NewRowsRight ==
    ASSUME IsBody(body), i \in 1 .. Len(body.records)
    PROVE  /\ NewRows \in Seq(Rows)
           /\ \A j \in 1 .. Len(NewRows) : NewRows[j].rec = i
           /\ SumTo([j \in 1 .. Len(NewRows) |-> NewRows[j].count], Len(NewRows)) = Record.count
           /\ \A j, k \in 1 .. Len(NewRows) : j < k => NewRows[j].end <= NewRows[k].begin
           /\ Normalized => \A j \in 1 .. Len(NewRows) :
                (NewRows[j].end - 1) \div Day = NewRows[j].begin \div Day
<1>1. /\ i \in Int /\ Record.count \in Nat
      /\ body.begin \in Int /\ body.end \in Int
  <2>1. Len(body.records) \in Nat /\ body.records[i] \in Records
    BY RecordsOf
  <2>2. body.begin \in Int /\ body.end \in Int
    BY DEF IsBody
  <2> QED
    BY <2>1, <2>2 DEF Record, Records
<1>2. CASE ~Normalized
  <2> DEFINE row == [rec |-> i, begin |-> body.begin, end |-> body.end, count |-> Record.count]
  <2>1. NewRows = <<row>>
    BY <1>2 DEF NewRows, Row
  <2>2. row \in Rows
    BY <1>1 DEF Rows
  <2>3. NewRows \in Seq(Rows) /\ Len(NewRows) = 1 /\ NewRows[1] = row
    BY <2>1, <2>2
  <2>4. ASSUME NEW f, f[1] = Record.count PROVE SumTo(f, 1) = Record.count
    <3>1. 0 \in Nat /\ 0 + 1 = 1
      OBVIOUS
    <3>2. SumTo(f, 1) = SumTo(f, 0) + f[1] /\ SumTo(f, 0) = 0
      BY <3>1, SumSteps
    <3> QED
      BY <3>2, <2>4, <1>1
  <2> QED
    BY <1>2, <2>3, <2>4
<1>3. CASE Normalized
  <2> DEFINE bs == Buckets(body.begin, body.end, Record.count)
  <2>1. body.begin < body.end
    BY <1>1, <1>3, ParsingAssumption DEF Normalized
  <2>2. /\ bs \in Seq(Periods) /\ InOrder(bs)
        /\ SumTo(Counts(bs), Len(bs)) = Record.count
    BY <1>1, <2>1, BucketsRight
  <2>3. NewRows = [j \in DOMAIN bs |-> Row(bs[j])]
    BY <1>3 DEF NewRows
  <2> HIDE DEF bs
  <2>4. DOMAIN bs = 1 .. Len(bs) /\ Len(bs) \in Nat
    BY <2>2
  <2>5. ASSUME NEW j \in 1 .. Len(bs) PROVE Row(bs[j]) \in Rows
    <3>1. bs[j] \in Periods
      BY <2>2, <2>4
    <3>2. bs[j].begin \in Int /\ bs[j].end \in Int /\ bs[j].count \in Int
      BY <3>1 DEF Periods
    <3> QED
      BY <1>1, <3>2 DEF Rows, Row
  <2>6. NewRows \in [1 .. Len(bs) -> Rows]
    BY <2>3, <2>4, <2>5
  <2>7. NewRows \in Seq(Rows) /\ Len(NewRows) = Len(bs)
    BY <2>4, <2>6
  <2>8. \A j \in 1 .. Len(bs) :
           /\ NewRows[j].rec = i /\ NewRows[j].begin = bs[j].begin
           /\ NewRows[j].end = bs[j].end /\ NewRows[j].count = bs[j].count
    BY <2>3, <2>4 DEF Row
  <2>9. SumTo([j \in 1 .. Len(NewRows) |-> NewRows[j].count], Len(NewRows)) = Record.count
    <3> DEFINE f == [j \in 1 .. Len(NewRows) |-> NewRows[j].count]
    <3>1. \A j \in 1 .. Len(bs) : f[j] = Counts(bs)[j]
      BY <2>7, <2>8 DEF Counts
    <3> HIDE DEF f
    <3>2. SumTo(f, Len(bs)) = SumTo(Counts(bs), Len(bs))
      BY <2>4, <3>1, SumOfEquals
    <3> QED
      BY <2>2, <2>7, <3>2 DEF f
  <2> QED
    BY <2>2, <2>7, <2>8, <2>9 DEF InOrder
<1> QED
  BY <1>2, <1>3

LEMMA Appended ==
    ASSUME RowsSoFar, i <= Len(body.records), Record.shape = "good", i' = i + 1,
           rows' = rows \o NewRows, UNCHANGED <<body, lost>>
    PROVE  RowsSoFar'
<1>1. /\ IsBody(body) /\ i \in 1 .. Len(body.records) + 1 /\ lost \subseteq 1 .. i - 1
      /\ rows \in Seq(Rows) /\ \A j \in 1 .. Len(rows) : rows[j].rec \in 1 .. i - 1
      /\ \A k \in 1 .. i - 1 : Counted(k) = Expected(k)
  BY DEF RowsSoFar
<1>2. Len(body.records) \in Nat /\ i \in Nat \ {0} /\ i \in 1 .. Len(body.records)
  BY <1>1, RecordsOf
<1> DEFINE new == NewRows
           m == Len(rows)
           n == Len(new)
<1>3. /\ new \in Seq(Rows) /\ \A j \in 1 .. n : new[j].rec = i
      /\ SumTo([j \in 1 .. n |-> new[j].count], n) = Record.count
      /\ \A j, k \in 1 .. n : j < k => new[j].end <= new[k].begin
      /\ Normalized => \A j \in 1 .. n : (new[j].end - 1) \div Day = new[j].begin \div Day
  BY <1>1, <1>2, NewRowsRight
<1>4. rows' = rows \o new
  OBVIOUS
<1> HIDE DEF new
<1>5. /\ m \in Nat /\ n \in Nat /\ DOMAIN rows = 1 .. m /\ DOMAIN new = 1 .. n
      /\ rows' \in Seq(Rows) /\ Len(rows') = m + n /\ DOMAIN rows' = 1 .. m + n
      /\ \A j \in 1 .. m : rows'[j] = rows[j]
      /\ \A j \in 1 .. n : rows'[m + j] = new[j]
  BY <1>1, <1>3, <1>4
<1>6. \A j \in 1 .. m + n : j \in 1 .. m \/ (j - m \in 1 .. n /\ rows'[j] = new[j - m])
  <2> SUFFICES ASSUME NEW j \in 1 .. m + n, j \notin 1 .. m
               PROVE  j - m \in 1 .. n /\ rows'[j] = new[j - m]
    OBVIOUS
  <2>1. j - m \in 1 .. n /\ m + (j - m) = j
    BY <1>5
  <2> QED
    BY <1>5, <2>1
<1>7. /\ \A j \in 1 .. m : rows[j].count \in Int
      /\ \A j \in 1 .. n : new[j].count \in Int
  <2>1. /\ \A j \in 1 .. m : rows[j] \in Rows
        /\ \A j \in 1 .. n : new[j] \in Rows
    BY <1>1, <1>3, <1>5
  <2> QED
    BY <2>1 DEF Rows
<1>8. ASSUME NEW k \in 1 .. i' - 1 PROVE Counted(k)' = Expected(k)'
  <2> DEFINE f == [j \in 1 .. m |-> IF rows[j].rec = k THEN rows[j].count ELSE 0]
             g == [j \in 1 .. n |-> IF new[j].rec = k THEN new[j].count ELSE 0]
             h == [j \in DOMAIN rows' |-> IF rows'[j].rec = k THEN rows'[j].count ELSE 0]
  <2>1. ASSUME NEW j \in 1 .. m PROVE f[j] \in Int /\ h[j] = f[j]
    <3>1. j \in DOMAIN rows' /\ rows'[j] = rows[j] /\ rows[j].count \in Int
      BY <1>5, <1>7
    <3> QED
      BY <3>1
  <2>2. ASSUME NEW j \in 1 .. n PROVE g[j] \in Int /\ h[m + j] = g[j]
    <3>1. m + j \in DOMAIN rows' /\ rows'[m + j] = new[j] /\ new[j].count \in Int
      BY <1>5, <1>7
    <3> QED
      BY <3>1
  <2>3. Counted(k)' = SumTo(h, m + n) /\ Counted(k) = SumTo(f, m)
    BY <1>5 DEF Counted
  <2>4. k # i => \A j \in 1 .. n : g[j] = 0
    BY <1>3
  <2>5. k = i => /\ \A j \in 1 .. m : f[j] = 0
                 /\ \A j \in 1 .. n : g[j] = new[j].count
    BY <1>1, <1>2, <1>3
  <2> HIDE DEF f, g, h
  <2>6. SumTo(h, m + n) = SumTo(f, m) + SumTo(g, n)
    <3>1. Joins(h, f, m, g, n)
      BY <2>1, <2>2 DEF Joins
    <3> QED
      BY <1>5, <3>1, SumOfConcatenation
  <2>7. CASE k = i
    <3>1. SumTo(f, m) = 0
      BY <1>5, <2>5, <2>7, SumOfZeros
    <3> DEFINE c == [j \in 1 .. n |-> new[j].count]
    <3>2. \A j \in 1 .. n : g[j] = c[j]
      BY <2>5, <2>7
    <3>3. SumTo(c, n) = Record.count
      BY <1>3
    <3> HIDE DEF c
    <3>4. SumTo(g, n) = Record.count
      BY <1>5, <3>2, <3>3, SumOfEquals
    <3>5. Expected(k)' = Record.count
      BY <1>1, <1>2, <2>7 DEF Expected, Record
    <3>6. Record.count \in Nat
      BY <1>1, <1>2, RecordsOf DEF Record, Records
    <3> QED
      BY <2>3, <2>6, <3>1, <3>4, <3>5, <3>6
  <2>8. CASE k # i
    <3>1. SumTo(g, n) = 0
      BY <1>5, <2>4, <2>8, SumOfZeros
    <3>2. SumTo(f, m) \in Int
      BY <1>5, <2>1, SumIsInt
    <3>3. Counted(k) = Expected(k) /\ Expected(k)' = Expected(k)
      BY <1>1, <1>2, <2>8 DEF Expected
    <3> QED
      BY <2>3, <2>6, <3>1, <3>2, <3>3
  <2> QED
    BY <2>7, <2>8
<1>9. \A j \in 1 .. Len(rows') : rows'[j].rec \in 1 .. i' - 1
  BY <1>1, <1>2, <1>3, <1>5, <1>6
<1>10. ASSUME NEW j \in 1 .. Len(rows'), NEW k \in 1 .. Len(rows'), j < k
       PROVE  \/ rows'[j].rec < rows'[k].rec
              \/ rows'[j].rec = rows'[k].rec /\ rows'[j].end <= rows'[k].begin
  <2>1. CASE k \in 1 .. m
    <3>1. j \in 1 .. m
      BY <1>5, <1>10, <2>1
    <3> QED
      BY <1>5, <1>10, <2>1, <3>1 DEF RowsSoFar
  <2>2. CASE j \in 1 .. m /\ k \notin 1 .. m
    <3>1. rows'[j] = rows[j] /\ rows[j].rec \in 1 .. i - 1
      BY <1>1, <1>5, <2>2
    <3>2. rows'[k].rec = i
      BY <1>3, <1>5, <1>6, <2>2
    <3> QED
      BY <1>2, <3>1, <3>2
  <2>3. CASE j \notin 1 .. m
    <3>1. k \notin 1 .. m
      BY <1>5, <1>10, <2>3
    <3>2. /\ j - m \in 1 .. n /\ rows'[j] = new[j - m]
          /\ k - m \in 1 .. n /\ rows'[k] = new[k - m] /\ j - m < k - m
      BY <1>5, <1>6, <1>10, <2>3, <3>1
    <3> QED
      BY <1>3, <3>2
  <2> QED
    BY <2>1, <2>2, <2>3
<1>11. Normalized' => \A j \in 1 .. Len(rows') :
                        (rows'[j].end - 1) \div Day = rows'[j].begin \div Day
  <2>1. Normalized' <=> Normalized
    BY DEF Normalized
  <2>2. ASSUME Normalized, NEW j \in 1 .. m + n
        PROVE  (rows'[j].end - 1) \div Day = rows'[j].begin \div Day
    <3>1. CASE j \in 1 .. m
      <4>1. rows'[j] = rows[j]
        BY <1>5, <3>1
      <4>2. (rows[j].end - 1) \div Day = rows[j].begin \div Day
        BY <2>2, <3>1 DEF RowsSoFar
      <4> QED
        BY <4>1, <4>2
    <3>2. CASE j \notin 1 .. m
      <4>1. j - m \in 1 .. n /\ rows'[j] = new[j - m]
        BY <1>6, <3>2
      <4>2. (new[j - m].end - 1) \div Day = new[j - m].begin \div Day
        BY <1>3, <2>2, <4>1
      <4> QED
        BY <4>1, <4>2
    <3> QED
      BY <3>1, <3>2
  <2> QED
    BY <1>5, <2>1, <2>2
<1>12. i' \in 1 .. Len(body.records) + 1 /\ lost \subseteq 1 .. i' - 1 /\ rows' \in Seq(Rows)
  BY <1>1, <1>2, <1>5
<1> QED
  BY <1>1, <1>8, <1>9, <1>10, <1>11, <1>12 DEF RowsSoFar

-----------------------------------------------------------------------------
(***************************************************************************)
(* The steps of the parsers.                                               *)
(***************************************************************************)
LEMMA InitParse == Init => Inv
<1> SUFFICES ASSUME Init PROVE Inv
  OBVIOUS
<1>1. LookupInv
  BY InitLookup DEF Init
<1>2. IsWalk(walk)
  BY DEF Init, NewWalk, IsWalk
<1>3. look.stage = "idle"
  BY RestingType DEF Init, LookupInit
<1>4. ParseInv
  BY <1>2, <1>3 DEF Init, ParseInv, PlaceOfParsing, AtRecords, AfterRecords, Over
<1> QED
  BY <1>1, <1>4 DEF Inv

\* The lookup is not touched, or only a fault is counted.
LEMMA LookupUntouched ==
    ASSUME Inv, UNCHANGED <<conf, cache, map, overrides, look, last>>,
           faults' = faults \/ Fault
    PROVE  LookupInv' /\ Recovered
<1>1. faults' \in Nat
  BY DEF Inv, LookupInv, LookupType, Fault
<1> QED
  BY <1>1, SameLookKeeps DEF Inv

LEMMA TakeKeeps ==
    ASSUME Inv, NEW x \in Items, Take(x)
    PROVE  Inv' /\ (Recovered \/ UNCHANGED lookupVars)
<1>1. /\ stage \in {"idle", "over"} /\ item' = x /\ walk' = NewWalk
      /\ stage' = IF x.via = "file" THEN "read" ELSE "open"
      /\ part' = IF x.via = "file" THEN 0 ELSE 1
      /\ UNCHANGED lookupVars
  BY DEF Take
<1>2. look'.stage = "idle"
  BY <1>1 DEF Inv, ParseInv, PlaceOfParsing, lookupVars
<1>3. IsWalk(walk')
  BY <1>1 DEF NewWalk, IsWalk
<1>4. ParseInv'
  BY <1>1, <1>2, <1>3, Elsewhere
<1>5. LookupInv'
  BY <1>1, LookupUntouched DEF lookupVars
<1> QED
  BY <1>1, <1>4, <1>5 DEF Inv

(***************************************************************************)
(* A step that leaves the parser where it does not keep records.           *)
(***************************************************************************)
LEMMA Refused ==
    ASSUME ParseInv, RefuseAggregate, stage # "idle", look'.stage = "idle"
    PROVE  ParseInv'
<1>1. CASE Goto("tls")
  BY <1>1, Elsewhere DEF Goto, ParseInv, PlaceOfParsing
<1>2. CASE Finish("ParserError")
  BY <1>2, Elsewhere DEF Finish, ParseInv, PlaceOfParsing
<1> QED
  BY <1>1, <1>2 DEF RefuseAggregate

LEMMA FileSteps ==
    ASSUME Inv, ReadFile \/ ReadFails \/ TryAggregate \/ TryTls \/ OpenMail \/ ConversionFails
    PROVE  Inv' /\ Recovered
<1>1. /\ stage \in {"read", "aggregate", "tls", "open"} /\ item \in Items /\ part \in Nat
      /\ look.stage = "idle" /\ IsWalk(walk) /\ ParseInv
      /\ stage \in {"open"} => part >= 1
      /\ stage \in {"read", "aggregate"} => item.via = "file"
  BY DEF Inv, ParseInv, PlaceOfParsing, ReadFile, ReadFails, TryAggregate, TryTls, OpenMail,
         ConversionFails
<1>2. /\ UNCHANGED <<conf, cache, map, overrides, look, last>>
      /\ faults' = faults \/ Fault
  BY DEF ReadFile, ReadFails, TryAggregate, TryTls, OpenMail, ConversionFails, lookupVars
<1>3. LookupInv' /\ Recovered /\ look'.stage = "idle"
  BY <1>1, <1>2, LookupUntouched
<1>4. CASE ReadFile
  <2>1. \/ Finish("ParserError")
        \/ Goto("aggregate") /\ stage = "read"
    BY <1>4 DEF ReadFile
  <2>2. UNCHANGED <<item, part, walk>> /\ stage' \in {"over", "aggregate"}
        /\ (stage' = "over" => outcome' = "ParserError") /\ item.via = "file"
    BY <1>1, <1>4, <2>1 DEF Finish, Goto, ReadFile
  <2>3. ParseInv'
    BY <1>1, <1>3, <2>2, Elsewhere
  <2> QED
    BY <1>3, <2>3 DEF Inv
<1>5. CASE ReadFails
  <2>1. ParseInv'
    BY <1>1, <1>3, <1>5, Elsewhere DEF ReadFails, Finish
  <2> QED
    BY <1>3, <2>1 DEF Inv
<1>6. CASE TryAggregate
  <2>1. TypedDocument(item.blob) /\ stage = "aggregate"
    BY <1>1, <1>6, ContentAssumption DEF TryAggregate
  <2>2. CASE IsAggregate(item.blob) /\ StartRecords(item.blob.body)
    <3>1. ParseInv'
      BY <1>1, <1>3, <2>1, <2>2, RecordsStart
    <3> QED
      BY <1>3, <3>1 DEF Inv
  <2>3. CASE RefuseAggregate
    <3>1. ParseInv'
      BY <1>1, <1>3, <2>3, Refused
    <3> QED
      BY <1>3, <3>1 DEF Inv
  <2> QED
    BY <1>6, <2>2, <2>3 DEF TryAggregate
<1>7. CASE TryTls
  <2>1. /\ UNCHANGED <<item, walk>> /\ stage' \in {"over", "open"}
        /\ part' \in Nat /\ (stage' = "open" => part' >= 1)
        /\ (stage' = "over" => outcome' = "smtp_tls")
    BY <1>1, <1>7 DEF TryTls, Finish
  <2>2. ParseInv'
    BY <1>1, <1>3, <2>1, Elsewhere
  <2> QED
    BY <1>3, <2>2 DEF Inv
<1>8. CASE OpenMail
  <2>1. /\ UNCHANGED <<item, part, walk>> /\ stage' \in {"over", "walk"}
        /\ (stage' = "over" => outcome' = "ParserError") /\ part >= 1
    BY <1>1, <1>8 DEF OpenMail, Finish, Goto
  <2>2. ParseInv'
    BY <1>1, <1>3, <2>1, Elsewhere
  <2> QED
    BY <1>3, <2>2 DEF Inv
<1>9. CASE ConversionFails
  <2>1. ParseInv'
    BY <1>1, <1>3, <1>9, Elsewhere DEF ConversionFails, Finish
  <2> QED
    BY <1>3, <2>1 DEF Inv
<1> QED
  BY <1>4, <1>5, <1>6, <1>7, <1>8, <1>9

LEMMA NextPartKeeps ==
    ASSUME ParseInv, stage = "walk", look'.stage = "idle", part' = part + 1, IsWalk(walk'),
           UNCHANGED <<item, stage>>
    PROVE  ParseInv'
  BY Elsewhere DEF ParseInv, PlaceOfParsing

LEMMA EndKeeps ==
    ASSUME ParseInv, stage # "idle", stage' = "over", outcome' # "aggregate",
           look'.stage = "idle", UNCHANGED <<item, part, walk>>
    PROVE  ParseInv'
  BY Elsewhere DEF ParseInv, PlaceOfParsing

LEMMA WalkSteps ==
    ASSUME Inv,
           \/ SkipPart \/ FeedbackPart \/ SamplePart \/ TlsJsonPart \/ TlsGzipPart
           \/ ClaimPart \/ OtherPart \/ NoReport
    PROVE  Inv' /\ Recovered
<1>1. PlaceOfParsing /\ IsWalk(walk) /\ ParseInv
  BY DEF Inv, ParseInv
<1>2. UNCHANGED lookupVars /\ stage = "walk"
  BY DEF SkipPart, FeedbackPart, SamplePart, TlsJsonPart, TlsGzipPart, ClaimPart, OtherPart,
         NoReport, Quiet, AtPart
<1>3. UNCHANGED <<conf, cache, map, overrides, look, last>> /\ faults' = faults
  BY <1>2 DEF lookupVars
<1>4. LookupInv' /\ Recovered /\ look'.stage = "idle" /\ part \in Nat
  BY <1>1, <1>2, <1>3, LookupUntouched DEF PlaceOfParsing
<1>5. PICK flag, feedback, sample :
        /\ walk = [flag |-> flag, feedback |-> feedback, sample |-> sample]
        /\ feedback # None => feedback.addr \in Addresses
  BY <1>1 DEF IsWalk
<1>6. CASE SkipPart
  <2>1. part' = part + 1 /\ UNCHANGED <<walk, item, stage>>
    BY <1>6 DEF SkipPart, NextPart
  <2>2. ParseInv'
    BY <1>1, <1>2, <1>4, <2>1, NextPartKeeps
  <2> QED
    BY <1>4, <2>2 DEF Inv
<1>7. CASE FeedbackPart
  <2>1. /\ part' = part + 1 /\ UNCHANGED <<item, stage>>
        /\ walk' = [walk EXCEPT !.flag = TRUE, !.feedback = Part.report]
    BY <1>7 DEF FeedbackPart, NextPart
  <2>2. Part.report # None => Part.report.addr \in Addresses
    BY <1>1, <1>7, PartTyped DEF FeedbackPart
  <2>3. walk' = [flag |-> TRUE, feedback |-> Part.report, sample |-> sample]
    BY <1>5, <2>1
  <2>4. IsWalk(walk')
    BY <2>2, <2>3 DEF IsWalk
  <2>5. ParseInv'
    BY <1>1, <1>2, <1>4, <2>1, <2>4, NextPartKeeps
  <2> QED
    BY <1>4, <2>5 DEF Inv
<1>8. CASE SamplePart
  <2> DEFINE found == Enclosed(Part)
  <2>1. /\ part' = part + 1 /\ UNCHANGED <<item, stage>>
        /\ walk' = [walk EXCEPT !.sample = found]
    BY <1>8 DEF SamplePart, NextPart
  <2> HIDE DEF found
  <2>3. walk' = [flag |-> flag, feedback |-> feedback, sample |-> found]
    BY <1>5, <2>1
  <2>4. IsWalk(walk')
    BY <1>5, <2>3 DEF IsWalk
  <2>5. ParseInv'
    BY <1>1, <1>2, <1>4, <2>1, <2>4, NextPartKeeps
  <2> QED
    BY <1>4, <2>5 DEF Inv
<1>9. CASE TlsJsonPart \/ TlsGzipPart
  <2>1. stage' = "over" /\ outcome' # "aggregate" /\ UNCHANGED <<item, part, walk>>
    BY <1>9 DEF TlsJsonPart, TlsGzipPart, Finish
  <2>2. ParseInv'
    BY <1>1, <1>2, <1>4, <2>1, EndKeeps
  <2> QED
    BY <1>4, <2>2 DEF Inv
<1>10. CASE ClaimPart
  <2>1. CASE \/ Finish(Described("InvalidDMARCReport"))
             \/ Finish("IndexError")
    <3>1. stage' = "over" /\ outcome' # "aggregate" /\ UNCHANGED <<item, part, walk>>
      BY <2>1 DEF Finish, Described
    <3>2. ParseInv'
      BY <1>1, <1>2, <1>4, <3>1, EndKeeps
    <3> QED
      BY <1>4, <3>2 DEF Inv
  <2>2. CASE NextPart([walk EXCEPT !.feedback = Part.report, !.sample = Part.sample])
    <3>1. /\ part' = part + 1 /\ UNCHANGED <<item, stage>>
          /\ walk' = [walk EXCEPT !.feedback = Part.report, !.sample = Part.sample]
      BY <2>2 DEF NextPart
    <3>2. Part.report # None => Part.report.addr \in Addresses
      BY <1>1, <1>10, PartTyped DEF ClaimPart
    <3>3. walk' = [flag |-> flag, feedback |-> Part.report, sample |-> Part.sample]
      BY <1>5, <3>1
    <3>4. IsWalk(walk')
      BY <3>2, <3>3 DEF IsWalk
    <3>5. ParseInv'
      BY <1>1, <1>2, <1>4, <3>1, <3>4, NextPartKeeps
    <3> QED
      BY <1>4, <3>5 DEF Inv
  <2> QED
    BY <1>10, <2>1, <2>2 DEF ClaimPart
<1>11. CASE OtherPart
  <2>1. CASE Finish("ParserError") \/ Finish("smtp_tls")
    <3>1. stage' = "over" /\ outcome' # "aggregate" /\ UNCHANGED <<item, part, walk>>
      BY <2>1 DEF Finish
    <3>2. ParseInv'
      BY <1>1, <1>2, <1>4, <3>1, EndKeeps
    <3> QED
      BY <1>4, <3>2 DEF Inv
  <2>2. CASE IsAggregate(Part.blob) /\ StartRecords(Part.blob.body)
    <3>1. AtPart({"other"}) /\ Part.base64
      BY <1>11 DEF OtherPart
    <3>2. TypedDocument(Part.blob)
      BY <1>1, <3>1, PartTyped
    <3>3. ParseInv'
      BY <1>1, <1>2, <1>4, <2>2, <3>2, RecordsStart
    <3> QED
      BY <1>4, <3>3 DEF Inv
  <2>3. CASE RefuseAggregate
    <3>1. ParseInv'
      BY <1>1, <1>2, <1>4, <2>3, Refused
    <3> QED
      BY <1>4, <3>1 DEF Inv
  <2>4. CASE NextPart(walk)
    <3>1. part' = part + 1 /\ UNCHANGED <<walk, item, stage>>
      BY <2>4 DEF NextPart
    <3>2. ParseInv'
      BY <1>1, <1>2, <1>4, <3>1, NextPartKeeps
    <3> QED
      BY <1>4, <3>2 DEF Inv
  <2> QED
    BY <1>11, <2>1, <2>2, <2>3, <2>4 DEF OtherPart
<1>12. CASE NoReport
  <2>1. stage' = "over" /\ outcome' # "aggregate" /\ UNCHANGED <<item, part, walk>>
    BY <1>12 DEF NoReport, Finish, Described
  <2>2. ParseInv'
    BY <1>1, <1>2, <1>4, <2>1, EndKeeps
  <2> QED
    BY <1>4, <2>2 DEF Inv
<1> QED
  BY <1>6, <1>7, <1>8, <1>9, <1>10, <1>11, <1>12

LEMMA FailureSteps ==
    ASSUME Inv, StartFailure \/ EndFailure
    PROVE  Inv' /\ Recovered
<1>1. PlaceOfParsing /\ IsWalk(walk) /\ ParseInv /\ LookupInv
  BY DEF Inv, ParseInv
<1>2. CASE StartFailure /\ UNCHANGED lookupVars /\ Finish(Described("InvalidFailureReport"))
  <2>1. /\ stage' = "over" /\ outcome' # "aggregate" /\ UNCHANGED <<item, part, walk>>
        /\ stage = "walk"
    BY <1>2 DEF Finish, Described, StartFailure
  <2>2. UNCHANGED <<conf, cache, map, overrides, look, last>> /\ faults' = faults
    BY <1>2 DEF lookupVars
  <2>3. LookupInv' /\ Recovered /\ look'.stage = "idle"
    BY <1>1, <2>1, <2>2, LookupUntouched DEF PlaceOfParsing
  <2>4. ParseInv'
    BY <1>1, <2>1, <2>3, EndKeeps
  <2> QED
    BY <2>3, <2>4 DEF Inv
<1>3. CASE StartFailure /\ Begin(walk.feedback.addr) /\ Goto("failure")
  <2>1. /\ stage' = "failure" /\ UNCHANGED <<item, part, walk>> /\ stage = "walk"
        /\ walk.feedback # None
    BY <1>3 DEF Goto, StartFailure
  <2>2. walk.feedback.addr \in Addresses
    BY <1>1, <2>1 DEF IsWalk
  <2>3. LookupInv' /\ Recovered
    BY <1>1, <1>3, <2>2, BeginKeeps
  <2>4. ParseInv'
    BY <1>1, <2>1, Elsewhere DEF PlaceOfParsing
  <2> QED
    BY <2>3, <2>4 DEF Inv
<1>4. CASE EndFailure
  <2>1. /\ stage = "failure" /\ stage' = "over" /\ outcome' # "aggregate"
        /\ UNCHANGED <<item, part, walk>>
        /\ Rest /\ UNCHANGED <<conf, cache, map, overrides, last>> /\ faults' = faults
    BY <1>4 DEF EndFailure, Finish, Described
  <2>2. look'.stage = "idle"
    BY <2>1, RestingType DEF Rest
  <2>3. faults' \in Nat
    BY <1>1, <2>1 DEF LookupInv, LookupType
  <2>4. LookupInv' /\ Recovered
    BY <1>1, <2>1, <2>3, RestKeeps
  <2>5. ParseInv'
    BY <1>1, <2>1, <2>2, EndKeeps
  <2> QED
    BY <2>4, <2>5 DEF Inv
<1> QED
  BY <1>2, <1>3, <1>4 DEF StartFailure

-----------------------------------------------------------------------------
\* After the last record or before the next one.
LEMMA RecordDone ==
    ASSUME ParseInv, stage = "records", RowsSoFar', UNCHANGED <<item, stage, part, walk>>,
           look'.stage = "idle"
    PROVE  ParseInv'
  BY DEF ParseInv, PlaceOfParsing, IsWalk, AtRecords, AfterRecords, Over

LEMMA DropKeeps ==
    ASSUME ParseInv, stage = "records", i <= Len(body.records), Drop, look'.stage = "idle",
           \/ lost' = lost /\ Record.shape # "good"
           \/ lost' = lost \cup {i}
    PROVE  ParseInv'
<1>1. CASE i' = i + 1 /\ UNCHANGED <<item, stage, part, walk, body, rows, outcome, parsed>>
  <2>1. RowsSoFar
    BY DEF ParseInv, AtRecords
  <2>2. RowsSoFar'
    BY <1>1, <2>1, Skipped
  <2> QED
    BY <1>1, <2>2, RecordDone
<1>2. CASE RefuseAggregate
  BY <1>2, Refused
<1> QED
  BY <1>1, <1>2 DEF Drop

LEMMA RecordSteps ==
    ASSUME Inv, KeepAliveFails \/ StartRecord \/ AppendRecord \/ LoseRecord \/ EndRecords
    PROVE  Inv' /\ Recovered
<1>1. /\ PlaceOfParsing /\ IsWalk(walk) /\ ParseInv /\ LookupInv /\ stage = "records"
      /\ RowsSoFar /\ faults \in Nat
      /\ look.stage # "idle" => i <= Len(body.records) /\ Record.shape # "noip"
  BY DEF Inv, ParseInv, AtRecords, LookupInv, LookupType, KeepAliveFails, StartRecord,
         AppendRecord, LoseRecord, EndRecords, AtRecord
<1>2. /\ i \in 1 .. Len(body.records) + 1 /\ IsBody(body) /\ Len(body.records) \in Nat
  BY <1>1, RecordsOf DEF RowsSoFar
<1>3. i <= Len(body.records) =>
        /\ Record.shape \in {"good", "noip", "bad"}
        /\ Record.shape # "noip" => Record.addr \in Addresses
  <2> SUFFICES ASSUME i <= Len(body.records)
               PROVE  /\ Record.shape \in {"good", "noip", "bad"}
                      /\ Record.shape # "noip" => Record.addr \in Addresses
    OBVIOUS
  <2>1. i \in 1 .. Len(body.records)
    BY <1>2
  <2>2. /\ body.records[i] \in Records
        /\ body.records[i].shape # "noip" => body.records[i].addr \in Addresses
    BY <1>2, <2>1, RecordsOf
  <2> QED
    BY <2>2 DEF Record, Records
<1>4. CASE KeepAliveFails
  <2>1. /\ RefuseAggregate /\ look.stage = "idle" /\ Fault
        /\ UNCHANGED <<conf, cache, map, overrides, look, last>>
    BY <1>4 DEF KeepAliveFails, AtRecord, At
  <2>2. LookupInv' /\ Recovered /\ look'.stage = "idle"
    BY <2>1, LookupUntouched
  <2>3. ParseInv'
    BY <1>1, <2>1, <2>2, Refused
  <2> QED
    BY <2>2, <2>3 DEF Inv
<1>5. CASE StartRecord
  <2>1. look.stage = "idle" /\ i <= Len(body.records) /\ lost' = lost
    BY <1>5 DEF StartRecord, AtRecord, At, Unhurt
  <2>2. CASE Record.shape = "noip" /\ Drop /\ UNCHANGED lookupVars
    <3>1. UNCHANGED <<conf, cache, map, overrides, look, last>> /\ faults' = faults
      BY <2>2 DEF lookupVars
    <3>2. LookupInv' /\ Recovered /\ look'.stage = "idle"
      BY <2>1, <3>1, LookupUntouched
    <3>3. ParseInv'
      BY <1>1, <2>1, <2>2, <3>2, DropKeeps
    <3> QED
      BY <3>2, <3>3 DEF Inv
  <2>3. CASE Record.shape # "noip" /\ Begin(Record.addr) /\ Goto("records")
    <3>1. Record.addr \in Addresses
      BY <1>3, <2>1, <2>3
    <3>2. LookupInv' /\ Recovered
      BY <1>1, <2>3, <3>1, BeginKeeps
    <3>3. /\ stage' = "records"
          /\ UNCHANGED <<item, part, walk, body, i, rows, outcome, lost>>
      BY <2>1, <2>3 DEF Goto
    <3>4. RowsSoFar' /\ Record' = Record
      BY <1>1, <3>3 DEF RowsSoFar, Counted, Expected, Normalized, Record
    <3>5. ParseInv'
      BY <1>1, <2>1, <2>3, <3>3, <3>4
         DEF ParseInv, PlaceOfParsing, IsWalk, AtRecords, AfterRecords, Over
    <3> QED
      BY <3>2, <3>5 DEF Inv
  <2> QED
    BY <1>5, <2>2, <2>3 DEF StartRecord
<1>6. CASE AppendRecord
  <2>1. /\ look.stage = "done" /\ Rest /\ lost' = lost
        /\ UNCHANGED <<conf, cache, map, overrides, last>> /\ faults' = faults
    BY <1>6 DEF AppendRecord, At, Unhurt
  <2>2. look'.stage = "idle" /\ LookupInv' /\ Recovered
    BY <1>1, <2>1, RestingType, RestKeeps DEF Rest
  <2>3. i <= Len(body.records) /\ Record.shape \in {"good", "bad"}
    BY <1>1, <1>3, <2>1
  <2>4. CASE Record.shape = "bad"
    <3>1. Drop
      BY <1>6, <2>4 DEF AppendRecord
    <3>2. ParseInv'
      BY <1>1, <2>1, <2>2, <2>3, <2>4, <3>1, DropKeeps
    <3> QED
      BY <2>2, <3>2 DEF Inv
  <2>5. CASE Record.shape = "good"
    <3>1. /\ rows' = rows \o NewRows /\ i' = i + 1
          /\ UNCHANGED <<item, stage, part, walk, body>>
      BY <1>6, <2>5 DEF AppendRecord
    <3>2. RowsSoFar'
      BY <1>1, <2>1, <2>3, <2>5, <3>1, Appended
    <3>3. ParseInv'
      BY <1>1, <2>2, <3>1, <3>2, RecordDone
    <3> QED
      BY <2>2, <3>3 DEF Inv
  <2> QED
    BY <2>3, <2>4, <2>5
<1>7. CASE LoseRecord
  <2>1. /\ look.stage = "raised" /\ Rest /\ lost' = lost \cup {i} /\ Drop
        /\ UNCHANGED <<conf, cache, map, overrides, last>> /\ faults' = faults
    BY <1>7 DEF LoseRecord, At
  <2>2. look'.stage = "idle" /\ LookupInv' /\ Recovered
    BY <1>1, <2>1, RestingType, RestKeeps DEF Rest
  <2>3. i <= Len(body.records)
    BY <1>1, <2>1
  <2>4. ParseInv'
    BY <1>1, <2>1, <2>2, <2>3, DropKeeps
  <2> QED
    BY <2>2, <2>4 DEF Inv
<1>8. CASE EndRecords
  <2>1. /\ look.stage = "idle" /\ i > Len(body.records) /\ stage' = "over"
        /\ UNCHANGED <<item, part, walk, body, i, rows, lost>> /\ UNCHANGED lookupVars
    BY <1>8 DEF EndRecords, At, Finish, Quiet, Unhurt
  <2>2. UNCHANGED <<conf, cache, map, overrides, look, last>> /\ faults' = faults
    BY <2>1 DEF lookupVars
  <2>3. LookupInv' /\ Recovered /\ look'.stage = "idle"
    BY <2>1, <2>2, LookupUntouched
  <2>4. i = Len(body.records) + 1
    BY <1>2, <2>1
  <2>5. RowsSoFar'
    BY <1>1, <2>1 DEF RowsSoFar, Counted, Expected, Normalized
  <2>6. ParseInv'
    BY <1>1, <2>1, <2>3, <2>4, <2>5
       DEF ParseInv, PlaceOfParsing, IsWalk, AtRecords, AfterRecords, Over
  <2> QED
    BY <2>3, <2>6 DEF Inv
<1> QED
  BY <1>4, <1>5, <1>6, <1>7, <1>8

-----------------------------------------------------------------------------
(***************************************************************************)
(* The steps of a lookup and what comes between two items.                 *)
(***************************************************************************)
LEMMA SameParse ==
    ASSUME ParseInv, UNCHANGED parseVars,
           stage \in {"failure", "records"} \/ look'.stage = "idle",
           look'.stage # "idle" => look.stage # "idle"
    PROVE  ParseInv'
<1>1. UNCHANGED <<item, stage, part, walk, body, i, rows, outcome, parsed, lost, hurt>>
  BY DEF parseVars
<1>2. /\ RowsSoFar' <=> RowsSoFar
      /\ Record' = Record
  BY <1>1 DEF RowsSoFar, Counted, Expected, Normalized, Record
<1> QED
  BY <1>1, <1>2 DEF ParseInv, PlaceOfParsing, IsWalk, AtRecords, AfterRecords, Over

LEMMA LookupKeeps ==
    ASSUME Inv, Lookup
    PROVE  Inv' /\ Recovered
<1>1. LookupStep /\ UNCHANGED parseVars /\ LookupInv /\ ParseInv
  BY DEF Lookup, Inv
<1>2. LookupInv' /\ Recovered /\ look.stage \in Underway
  BY <1>1, LookupStepKeeps
<1>3. look.stage # "idle"
  BY <1>2 DEF Underway
<1>4. stage \in {"failure", "records"}
  BY <1>1, <1>3 DEF ParseInv, PlaceOfParsing
<1>5. ParseInv'
  BY <1>1, <1>3, <1>4, SameParse
<1> QED
  BY <1>2, <1>5 DEF Inv

LEMMA BetweenKeeps ==
    ASSUME Inv, Between
    PROVE  Inv' /\ Recovered
<1>1. /\ stage \in {"idle", "over"} /\ UNCHANGED parseVars /\ LookupInv /\ ParseInv
      /\ ReloadMap \/ \E a \in Addresses : Expire(a)
  BY DEF Between, Inv
<1>2. look.stage = "idle"
  BY <1>1 DEF ParseInv, PlaceOfParsing
<1>3. LookupInv' /\ Recovered
  BY <1>1, <1>2, ReloadKeeps, ExpireKeeps
<1>4. look' = look
  BY <1>1 DEF ReloadMap, Expire
<1>5. ParseInv'
  BY <1>1, <1>2, <1>4, SameParse
<1> QED
  BY <1>3, <1>5 DEF Inv

LEMMA NextKeeps == Inv /\ [Next]_vars => Inv' /\ (Recovered \/ UNCHANGED lookupVars)
<1> SUFFICES ASSUME Inv, [Next]_vars PROVE Inv' /\ (Recovered \/ UNCHANGED lookupVars)
  OBVIOUS
<1>1. CASE \E x \in Items : Take(x)
  BY <1>1, TakeKeeps
<1>2. CASE ParseStep
  BY <1>2, FileSteps, WalkSteps, FailureSteps, RecordSteps DEF ParseStep
<1>3. CASE Lookup
  BY <1>3, LookupKeeps
<1>4. CASE Between
  BY <1>4, BetweenKeeps
<1>5. CASE UNCHANGED vars
  <2>1. UNCHANGED lookupVars /\ UNCHANGED parseVars
    BY <1>5 DEF vars
  <2>2. UNCHANGED <<conf, cache, map, overrides, look, last>> /\ faults' = faults
    BY <2>1 DEF lookupVars
  <2>3. LookupInv'
    BY <2>2, LookupUntouched
  <2>4. stage \in {"failure", "records"} \/ look'.stage = "idle"
    BY <2>2 DEF Inv, ParseInv, PlaceOfParsing
  <2>5. ParseInv'
    BY <2>1, <2>2, <2>4, SameParse DEF Inv
  <2> QED
    BY <2>1, <2>3, <2>5 DEF Inv
<1> QED
  BY <1>1, <1>2, <1>3, <1>4, <1>5 DEF Next

(***************************************************************************)
(* The state is well typed, the rows made so far are those of the records  *)
(* dealt with, and the cache holds no fallback: the strengthening that the *)
(* theorems below need, of parse_aggregate_report_xml() and                *)
(* get_ip_address_info().                                                  *)
(***************************************************************************)
THEOREM ParsingInvariant == Spec => []Inv
<1>1. Init => Inv
  BY InitParse
<1>2. Inv /\ [Next]_vars => Inv'
  BY NextKeeps
<1> QED
  BY <1>1, <1>2, PTL DEF Spec

(***************************************************************************)
(* What parse_aggregate_report_xml() returns has every well-formed record  *)
(* that was not lost to a failed lookup, with its whole count, in the      *)
(* order of the report and of the days, and nothing else.                  *)
(***************************************************************************)
THEOREM NoRecordLost == Spec => []RowsComplete
<1>1. Inv => RowsComplete
  <2> SUFFICES ASSUME Inv, Over, outcome = "aggregate" PROVE RowsComplete
    BY DEF RowsComplete
  <2>1. RowsSoFar /\ i = Len(body.records) + 1
    BY DEF Inv, ParseInv, AfterRecords
  <2>2. /\ Len(body.records) \in Nat /\ DOMAIN body.records = 1 .. Len(body.records)
        /\ rows \in Seq(Rows)
    BY <2>1, RecordsOf DEF RowsSoFar
  <2>3. DOMAIN rows = 1 .. Len(rows) /\ i - 1 = Len(body.records)
    BY <2>1, <2>2
  <2> QED
    BY <2>1, <2>2, <2>3 DEF RowsSoFar, Expected, RowsComplete
<1> QED
  BY <1>1, ParsingInvariant, PTL

(***************************************************************************)
(* get_ip_address_info(): an address that was attributed to the name of    *)
(* its network while DNS failed gets its PTR record by the next lookup     *)
(* that DNS answers, across reloads and expiry of the cache.               *)
(***************************************************************************)
THEOREM FallbackIsTemporary == Spec => Recovers
<1>1. Inv /\ [Next]_vars => [Recovered]_lookupVars
  BY NextKeeps
<1>2. [][Recovered]_lookupVars => Recovers
  BY PTL DEF Recovered, Recovers
<1> QED
  BY <1>1, <1>2, ParsingInvariant, PTL DEF Spec

-----------------------------------------------------------------------------
(***************************************************************************)
(* What is accepted.  The walk decides part by part, and by what it has    *)
(* kept of the parts before; Contents() speaks of the item as a whole.     *)
(* Parts before the one at hand did not end the walk, and it keeps the     *)
(* last report and the last sample among them.                             *)
(***************************************************************************)
Quietly(x, n) == \A j \in DOMAIN Parts(x) : j < n => ~EndsWalk(Parts(x)[j])

FlagSoFar(x, w, n) ==
    w.flag <=> \E j \in DOMAIN Parts(x) : j < n /\ Parts(x)[j].type = "feedback"

ReportSoFar(x, w, n) ==
    \/ w.feedback = None /\ \A j \in Reporting(x) : n <= j
    \/ \E r \in Reporting(x) :
         /\ r < n /\ w.feedback = Parts(x)[r].report
         /\ \A j \in Reporting(x) : j <= r \/ n <= j

SampleSoFar(x, w, n) ==
    \/ w.sample = None /\ \A j \in Sampling(x) : n <= j
    \/ \E s \in Sampling(x) :
         /\ s < n /\ w.sample = SampleOf(Parts(x)[s])
         /\ \A j \in Sampling(x) : j <= s \/ n <= j

KeptSoFar(x, w, n) == FlagSoFar(x, w, n) /\ ReportSoFar(x, w, n) /\ SampleSoFar(x, w, n)

UndatedItem(x) == IsMail(x) /\ Mail(x).envelope = "undated"

WalkSoFar ==
    /\ stage \in {"walk", "failure"} => KeptSoFar(item, walk, part) /\ ~UndatedItem(item)
    /\ stage \in {"walk", "failure"} \/ (stage = "records" /\ part # 0) => Quietly(item, part)
    /\ stage \in {"read", "aggregate", "tls", "open"} => walk = NewWalk
    /\ stage = "records" /\ part = 0 => walk = NewWalk
    /\ stage \in {"read", "aggregate"} => part = 0
    /\ stage = "open" => part = 1

(***************************************************************************)
(* A file comes to its parts only when it is no report itself.             *)
(***************************************************************************)
FileSoFar ==
    /\ stage \in {"aggregate", "tls", "open", "walk", "failure", "records"} /\ item.via = "file" =>
         Opens(item.blob)
    /\ stage = "tls" => item.via = "file"
    /\ stage \in {"tls", "open", "walk", "failure"} /\ item.via = "file" /\ ~hurt =>
         ~HoldsAggregate(item.blob)
    /\ stage \in {"open", "walk", "failure"} /\ item.via = "file" => ~IsSmtpTls(item.blob)

(***************************************************************************)
(* The records are those of the file, or of the part at hand.              *)
(***************************************************************************)
RecordsFrom(x, n, xml) ==
    /\ n = 0 => x.via = "file" /\ IsAggregate(x.blob) /\ xml = x.blob.body
    /\ n # 0 =>
         /\ n \in DOMAIN Parts(x)
         /\ Parts(x)[n].type = "other" /\ Parts(x)[n].base64
         /\ Opens(Parts(x)[n].blob)
         /\ IsAggregate(Parts(x)[n].blob) /\ xml = Parts(x)[n].blob.body

RecordsSoFar ==
    stage = "records" =>
        /\ RecordsFrom(item, part, body)
        /\ Len(body.records) = 1 /\ i > 1 => body.records[1].shape = "good"

FailureSoFar ==
    stage = "failure" =>
        /\ part > Len(Parts(item))
        /\ walk.feedback # None /\ walk.sample # None /\ walk.feedback.complete

AcceptInv == WalkSoFar /\ FileSoFar /\ RecordsSoFar /\ FailureSoFar /\ RightReport

-----------------------------------------------------------------------------
LEMMA PartsOf ==
    ASSUME NEW x \in Items
    PROVE  Len(Parts(x)) \in Nat /\ DOMAIN Parts(x) = 1 .. Len(Parts(x))
  BY ContentAssumption

\* Reading one byte more than the limit tells what is above it.
LEMMA ReadingDecides ==
    ASSUME NEW blob, blob.size \in Nat, blob.pack # "none"
    PROVE  Extractable(blob) <=> Opens(blob)
  BY ParsingAssumption DEF Extractable, Opens, Read

\* A report was accepted, or refused for a reason.
LEMMA Accepted ==
    ASSUME stage' = "over", item' = item, item \in Items, outcome' \in Contents(item)
    PROVE  AcceptInv'
<1>1. outcome' \in item'.holds
  BY HoldsAssumption
<1> QED
  BY <1>1 DEF AcceptInv, WalkSoFar, FileSoFar, RecordsSoFar, FailureSoFar, RightReport, Over

LEMMA NotAccepted ==
    ASSUME stage' = "over", item' = item, item \in Items, outcome' \notin ReportTypes,
           hurt' = TRUE \/ Contents(item) = {} \/ Shadowed \/ UndatedItem(item)
    PROVE  AcceptInv'
<1>1. item'.holds = Contents(item)
  BY HoldsAssumption
<1>2. Shadowed' <=> Shadowed
  BY DEF Shadowed
<1>3. Undated' <=> UndatedItem(item)
  BY DEF Undated, UndatedItem
<1> QED
  BY <1>1, <1>2, <1>3 DEF AcceptInv, WalkSoFar, FileSoFar, RecordsSoFar, FailureSoFar, RightReport, Over

LEMMA ShadowedBy ==
    ASSUME item \in Items, Quietly(item, part), part \in DOMAIN Parts(item),
           Misleading(Parts(item)[part])
    PROVE  Shadowed
<1>1. \A k \in 1 .. part - 1 : k \in DOMAIN Parts(item) /\ k < part
  BY PartsOf
<1> QED
  BY <1>1 DEF Shadowed, Quietly

LEMMA PartHeld ==
    ASSUME item \in Items, item.via = "file" => Opens(item.blob),
           NEW j \in DOMAIN Parts(item)
    PROVE  /\ AggregatePart(Parts(item)[j]) => "aggregate" \in Contents(item)
           /\ TlsPart(Parts(item)[j]) => "smtp_tls" \in Contents(item)
  BY DEF Contents, ReportTypes

\* A part that holds a report ends the walk.
LEMMA ReportsEndWalk ==
    ASSUME NEW p, AggregatePart(p) \/ TlsPart(p)
    PROVE  EndsWalk(p)
  BY DEF AggregatePart, TlsPart, EndsWalk, HoldsAggregate, IsAggregate, IsSmtpTls

-----------------------------------------------------------------------------
(***************************************************************************)
(* Steps over a part.                                                      *)
(***************************************************************************)
LEMMA NothingYet ==
    ASSUME NEW x \in Items
    PROVE  KeptSoFar(x, NewWalk, 1) /\ Quietly(x, 1)
<1>1. \A j \in DOMAIN Parts(x) : 1 <= j /\ ~(j < 1)
  BY PartsOf
<1>2. \A j \in Reporting(x) \cup Sampling(x) : 1 <= j
  BY <1>1 DEF Reporting, Sampling
<1>3. NewWalk.flag = FALSE /\ NewWalk.feedback = None /\ NewWalk.sample = None
  BY DEF NewWalk
<1> QED
  BY <1>1, <1>2, <1>3 DEF KeptSoFar, FlagSoFar, ReportSoFar, SampleSoFar, Quietly

LEMMA FlagNext ==
    ASSUME NEW x \in Items, NEW n \in DOMAIN Parts(x), NEW w, NEW v, FlagSoFar(x, w, n),
           v.flag <=> w.flag \/ Parts(x)[n].type = "feedback"
    PROVE  FlagSoFar(x, v, n + 1)
<1>1. \A j \in DOMAIN Parts(x) : j < n + 1 <=> j < n \/ j = n
  BY PartsOf
<1> QED
  BY <1>1 DEF FlagSoFar

LEMMA ReportNext ==
    ASSUME NEW x \in Items, NEW n \in DOMAIN Parts(x), NEW w, NEW v, ReportSoFar(x, w, n),
           n \in Reporting(x) => v.feedback = Parts(x)[n].report,
           n \notin Reporting(x) => v.feedback = w.feedback
    PROVE  ReportSoFar(x, v, n + 1)
<1>1. \A j \in Reporting(x) : j \in Int /\ n \in Int
  BY PartsOf DEF Reporting
<1>2. CASE n \in Reporting(x)
  <2>1. \A j \in Reporting(x) : j <= n \/ n + 1 <= j
    BY <1>1
  <2>2. n < n + 1
    BY <1>1, <1>2
  <2> QED
    BY <1>2, <2>1, <2>2 DEF ReportSoFar
<1>3. CASE n \notin Reporting(x)
  <2>1. \A j \in Reporting(x) : n <= j <=> n + 1 <= j
    BY <1>1, <1>3
  <2>2. \A j \in Reporting(x) : j < n => j < n + 1
    BY <1>1
  <2> QED
    BY <1>3, <2>1, <2>2 DEF ReportSoFar
<1> QED
  BY <1>2, <1>3

LEMMA SampleNext ==
    ASSUME NEW x \in Items, NEW n \in DOMAIN Parts(x), NEW w, NEW v, SampleSoFar(x, w, n),
           n \in Sampling(x) => v.sample = SampleOf(Parts(x)[n]),
           n \notin Sampling(x) => v.sample = w.sample
    PROVE  SampleSoFar(x, v, n + 1)
<1>1. \A j \in Sampling(x) : j \in Int /\ n \in Int
  BY PartsOf DEF Sampling
<1>2. CASE n \in Sampling(x)
  <2>1. \A j \in Sampling(x) : j <= n \/ n + 1 <= j
    BY <1>1
  <2>2. n < n + 1
    BY <1>1, <1>2
  <2> QED
    BY <1>2, <2>1, <2>2 DEF SampleSoFar
<1>3. CASE n \notin Sampling(x)
  <2>1. \A j \in Sampling(x) : n <= j <=> n + 1 <= j
    BY <1>1, <1>3
  <2>2. \A j \in Sampling(x) : j < n => j < n + 1
    BY <1>1
  <2> QED
    BY <1>3, <2>1, <2>2 DEF SampleSoFar
<1> QED
  BY <1>2, <1>3

LEMMA QuietNext ==
    ASSUME NEW x \in Items, NEW n \in DOMAIN Parts(x), Quietly(x, n), ~EndsWalk(Parts(x)[n])
    PROVE  Quietly(x, n + 1)
<1>1. \A j \in DOMAIN Parts(x) : j < n + 1 => j < n \/ j = n
  BY PartsOf
<1> QED
  BY <1>1 DEF Quietly

\* What a part at n is to the walk.
LEMMA Roles ==
    ASSUME NEW x \in Items, NEW n \in DOMAIN Parts(x), NEW w, FlagSoFar(x, w, n)
    PROVE  /\ n \in Reporting(x) <=> Parts(x)[n].type = "feedback" \/ IsClaim(Parts(x)[n])
           /\ n \in Sampling(x) <=>
                IsClaim(Parts(x)[n]) \/ (Parts(x)[n].type = "sample" /\ w.flag)
<1>1. n \in Reporting(x) <=> Parts(x)[n].type = "feedback" \/ IsClaim(Parts(x)[n])
  BY DEF Reporting
<1>2. ASSUME NEW k PROVE k \in 1 .. n - 1 <=> k \in DOMAIN Parts(x) /\ k < n
  BY PartsOf
<1>3. (\E k \in 1 .. n - 1 : Parts(x)[k].type = "feedback") <=> w.flag
  BY <1>2 DEF FlagSoFar
<1>4. n \in Sampling(x) <=>
         \/ IsClaim(Parts(x)[n])
         \/ /\ Parts(x)[n].type = "sample"
            /\ \E k \in 1 .. n - 1 : Parts(x)[k].type = "feedback"
  BY DEF Sampling
<1> QED
  BY <1>1, <1>3, <1>4

-----------------------------------------------------------------------------
(***************************************************************************)
(* The steps.                                                              *)
(***************************************************************************)
LEMMA AcceptInit == Init => AcceptInv
  BY DEF Init, AcceptInv, WalkSoFar, FileSoFar, RecordsSoFar, FailureSoFar, RightReport, Over

LEMMA AcceptTake ==
    ASSUME NEW x \in Items, Take(x)
    PROVE  AcceptInv'
<1>1. /\ item' = x /\ stage' = IF x.via = "file" THEN "read" ELSE "open"
      /\ part' = IF x.via = "file" THEN 0 ELSE 1
      /\ walk' = NewWalk
  BY DEF Take
<1>2. item'.via # "file" => stage' = "open"
  BY <1>1
<1>3. item'.via = "file" => stage' = "read" /\ part' = 0
  BY <1>1
<1> QED
  BY <1>1, <1>2, <1>3
     DEF AcceptInv, WalkSoFar, FileSoFar, RecordsSoFar, FailureSoFar, RightReport, Over

\* The item, and what a step of a lookup or between two items leaves of it.
LEMMA SameAccept ==
    ASSUME AcceptInv, UNCHANGED parseVars
    PROVE  AcceptInv'
<1>1. UNCHANGED <<item, stage, part, walk, body, i, rows, outcome, parsed, lost, hurt>>
  BY DEF parseVars
<1>2. /\ Shadowed' <=> Shadowed
      /\ Undated' <=> Undated
  BY <1>1 DEF Shadowed, Undated
<1> QED
  BY <1>1, <1>2 DEF AcceptInv, WalkSoFar, FileSoFar, RecordsSoFar, FailureSoFar, RightReport, Over

\* The aggregate parser refuses what holds no aggregate report, or after a failure.
LEMMA RefusalIsRight ==
    ASSUME Inv, AcceptInv, stage \in {"aggregate", "records", "walk"}, RefuseAggregate,
           hurt' = hurt \/ hurt' = TRUE,
           stage = "walk" => part # 0,
           hurt' = TRUE \/ (part = 0 /\ ~HoldsAggregate(item.blob))
                        \/ (part # 0 /\ Shadowed)
    PROVE  AcceptInv'
<1>1. item \in Items /\ (stage = "aggregate" => item.via = "file")
  BY DEF Inv, ParseInv, PlaceOfParsing
<1>2. CASE part = 0
  <2>1. stage' = "tls" /\ UNCHANGED <<item, part, walk>>
    BY <1>2 DEF RefuseAggregate, Goto
  <2>2. stage # "walk" /\ item.via = "file" /\ walk = NewWalk /\ Opens(item.blob)
    BY <1>1, <1>2 DEF AcceptInv, WalkSoFar, FileSoFar, RecordsSoFar, RecordsFrom
  <2> QED
    BY <1>2, <2>1, <2>2
       DEF AcceptInv, WalkSoFar, FileSoFar, RecordsSoFar, FailureSoFar, RightReport, Over
<1>3. CASE part # 0
  <2>1. stage' = "over" /\ outcome' = "ParserError" /\ item' = item
    BY <1>3 DEF RefuseAggregate, Finish
  <2>2. outcome' \notin ReportTypes
    BY <2>1 DEF ReportTypes
  <2> QED
    BY <1>1, <1>3, <2>1, <2>2, NotAccepted
<1> QED
  BY <1>2, <1>3

LEMMA AcceptFile ==
    ASSUME Inv, AcceptInv,
           ReadFile \/ ReadFails \/ TryAggregate \/ TryTls \/ OpenMail \/ ConversionFails
    PROVE  AcceptInv'
<1>1. /\ item \in Items /\ stage \in {"read", "aggregate", "tls", "open"}
      /\ stage \in {"read", "aggregate", "tls"} => item.via = "file"
      /\ stage \in {"read", "aggregate"} => part = 0
      /\ walk = NewWalk
  BY DEF Inv, ParseInv, PlaceOfParsing, ReadFile, ReadFails, TryAggregate, TryTls, OpenMail,
         ConversionFails, AcceptInv, WalkSoFar, FileSoFar
<1>2. "ParserError" \notin ReportTypes /\ "OSError" \notin ReportTypes
  BY DEF ReportTypes
<1>3. CASE ReadFile
  <2>1. stage = "read" /\ item.via = "file" /\ item.blob.size \in Nat
    BY <1>1, <1>3, ContentAssumption DEF ReadFile
  <2>2. CASE item.blob.pack # "none" /\ ~Extractable(item.blob)
    <3>1. stage' = "over" /\ item' = item /\ outcome' = "ParserError"
      BY <1>3, <2>2 DEF ReadFile, Finish
    <3>2. ~Opens(item.blob)
      BY <2>1, <2>2, ReadingDecides
    <3>3. Contents(item) = {}
      BY <2>1, <3>2 DEF Contents
    <3> QED
      BY <1>1, <1>2, <3>1, <3>3, NotAccepted
  <2>3. CASE ~(item.blob.pack # "none" /\ ~Extractable(item.blob))
    <3>1. stage' = "aggregate" /\ UNCHANGED <<item, part, walk>>
      BY <1>3, <2>3 DEF ReadFile, Goto
    <3>2. Opens(item.blob)
      <4>1. CASE item.blob.pack = "none"
        BY <4>1 DEF Opens
      <4>2. CASE item.blob.pack # "none"
        BY <2>1, <2>3, <4>2, ReadingDecides
      <4> QED
        BY <4>1, <4>2
    <3> QED
      BY <1>1, <2>1, <3>1, <3>2
         DEF AcceptInv, WalkSoFar, FileSoFar, RecordsSoFar, FailureSoFar, RightReport, Over
  <2> QED
    BY <2>2, <2>3
<1>4. CASE ReadFails
  <2>1. stage' = "over" /\ item' = item /\ outcome' = "OSError" /\ hurt' = TRUE
    BY <1>4 DEF ReadFails, Finish
  <2> QED
    BY <1>1, <1>2, <2>1, NotAccepted
<1>5. CASE TryAggregate
  <2>1. stage = "aggregate" /\ item.via = "file" /\ part = 0 /\ Opens(item.blob)
    BY <1>1, <1>5 DEF TryAggregate, AcceptInv, FileSoFar
  <2>2. CASE IsAggregate(item.blob) /\ StartRecords(item.blob.body)
    <3>1. /\ stage' = "records" /\ body' = item.blob.body /\ i' = 1
          /\ UNCHANGED <<item, part, walk>>
      BY <2>2 DEF StartRecords
    <3>2. RecordsFrom(item', part', body')
      BY <2>1, <2>2, <3>1 DEF RecordsFrom
    <3> QED
      BY <1>1, <2>1, <3>1, <3>2
         DEF AcceptInv, WalkSoFar, FileSoFar, RecordsSoFar, FailureSoFar, RightReport, Over
  <2>3. CASE ~IsAggregate(item.blob) /\ RefuseAggregate /\ Unhurt
    <3>1. ~HoldsAggregate(item.blob) /\ hurt' = hurt
      BY <2>3 DEF HoldsAggregate, Unhurt
    <3> QED
      BY <2>1, <2>3, <3>1, RefusalIsRight
  <2> QED
    BY <1>5, <2>2, <2>3 DEF TryAggregate
<1>6. CASE TryTls
  <2>1. stage = "tls" /\ item.via = "file" /\ Opens(item.blob) /\ hurt' = hurt
    BY <1>1, <1>6 DEF TryTls, AcceptInv, FileSoFar, Unhurt
  <2>2. CASE IsSmtpTls(item.blob)
    <3>1. stage' = "over" /\ item' = item /\ outcome' = "smtp_tls"
      BY <1>6, <2>2 DEF TryTls, Finish
    <3>2. "smtp_tls" \in Contents(item)
      BY <2>1, <2>2 DEF Contents, ReportTypes
    <3> QED
      BY <1>1, <3>1, <3>2, Accepted
  <2>3. CASE ~IsSmtpTls(item.blob)
    <3>1. stage' = "open" /\ part' = 1 /\ UNCHANGED <<item, walk>>
      BY <1>6, <2>3 DEF TryTls
    <3> QED
      BY <1>1, <2>1, <2>3, <3>1
         DEF AcceptInv, WalkSoFar, FileSoFar, RecordsSoFar, FailureSoFar, RightReport, Over
  <2> QED
    BY <2>2, <2>3
<1>7. CASE OpenMail
  <2>1. stage = "open" /\ part = 1 /\ hurt' = hurt
    BY <1>7 DEF OpenMail, AcceptInv, WalkSoFar, Unhurt
  <2>2. CASE Undated
    <3>1. stage' = "over" /\ item' = item /\ outcome' = "ParserError"
      BY <1>7, <2>2 DEF OpenMail, Finish
    <3>2. UndatedItem(item)
      BY <2>2 DEF Undated, UndatedItem
    <3> QED
      BY <1>1, <1>2, <3>1, <3>2, NotAccepted
  <2>3. CASE ~Undated
    <3>1. stage' = "walk" /\ UNCHANGED <<item, part, walk>>
      BY <1>7, <2>3 DEF OpenMail, Goto
    <3>2. ~UndatedItem(item)
      BY <2>3 DEF Undated, UndatedItem
    <3>3. KeptSoFar(item', walk', part') /\ Quietly(item', part')
      BY <1>1, <2>1, <3>1, NothingYet
    <3> QED
      BY <2>1, <3>1, <3>2, <3>3
         DEF AcceptInv, WalkSoFar, FileSoFar, RecordsSoFar, FailureSoFar, RightReport, Over
  <2> QED
    BY <2>2, <2>3
<1>8. CASE ConversionFails
  <2>1. stage' = "over" /\ item' = item /\ outcome' = "ParserError" /\ hurt' = TRUE
    BY <1>8 DEF ConversionFails, Finish
  <2> QED
    BY <1>1, <1>2, <2>1, NotAccepted
<1> QED
  BY <1>3, <1>4, <1>5, <1>6, <1>7, <1>8

-----------------------------------------------------------------------------
LEMMA WalkedOn ==
    ASSUME Inv, AcceptInv, stage = "walk", part \in DOMAIN Parts(item), part' = part + 1,
           UNCHANGED <<item, stage, hurt>>, ~EndsWalk(Parts(item)[part]),
           KeptSoFar(item, walk', part + 1)
    PROVE  AcceptInv'
<1>1. item \in Items
  BY DEF Inv, ParseInv, PlaceOfParsing
<1>2. Quietly(item, part)
  BY DEF AcceptInv, WalkSoFar
<1>3. Quietly(item', part') /\ KeptSoFar(item', walk', part')
  BY <1>1, <1>2, QuietNext
<1> QED
  BY <1>3 DEF AcceptInv, WalkSoFar, FileSoFar, RecordsSoFar, FailureSoFar, RightReport, Over

LEMMA AcceptWalk ==
    ASSUME Inv, AcceptInv,
           \/ SkipPart \/ FeedbackPart \/ SamplePart \/ TlsJsonPart \/ TlsGzipPart
           \/ ClaimPart \/ OtherPart
    PROVE  AcceptInv'
<1> DEFINE p == Parts(item)[part]
<1>1. /\ stage = "walk" /\ item \in Items /\ part <= Len(Parts(item)) /\ Part = p
      /\ part \in Nat /\ part >= 1
  BY DEF SkipPart, FeedbackPart, SamplePart, TlsJsonPart, TlsGzipPart, ClaimPart, OtherPart,
         AtPart, Part, Inv, ParseInv, PlaceOfParsing
<1>2. part \in DOMAIN Parts(item) /\ part # 0
  BY <1>1, PartsOf
<1>3. /\ item.via = "file" => Opens(item.blob)
      /\ Quietly(item, part)
      /\ FlagSoFar(item, walk, part) /\ ReportSoFar(item, walk, part)
      /\ SampleSoFar(item, walk, part)
  BY <1>1 DEF AcceptInv, WalkSoFar, FileSoFar, KeptSoFar
<1>4. /\ part \in Reporting(item) <=> p.type = "feedback" \/ IsClaim(p)
      /\ part \in Sampling(item) <=> IsClaim(p) \/ (p.type = "sample" /\ walk.flag)
  BY <1>1, <1>2, <1>3, Roles
<1>5. PICK flag, feedback, sample :
        walk = [flag |-> flag, feedback |-> feedback, sample |-> sample]
  BY DEF Inv, ParseInv, IsWalk
<1>6. /\ AggregatePart(p) => "aggregate" \in Contents(item)
      /\ TlsPart(p) => "smtp_tls" \in Contents(item)
  BY <1>1, <1>2, <1>3, PartHeld
<1>7. Misleading(p) => Shadowed
  BY <1>1, <1>2, <1>3, ShadowedBy
<1>8. p.type = "tls_gzip" \/ p.type = "other" =>
        (p.base64 => p.blob.size \in Nat)
  BY <1>1, <1>2, ContentAssumption
<1> HIDE DEF p
<1>9. ASSUME Finish("smtp_tls"), TlsPart(p) PROVE AcceptInv'
  <2>1. stage' = "over" /\ item' = item /\ outcome' = "smtp_tls"
    BY <1>9 DEF Finish
  <2> QED
    BY <1>1, <1>6, <1>9, <2>1, Accepted
<1>10. ASSUME NEW class, Finish(class), class \notin ReportTypes, Misleading(p) PROVE AcceptInv'
  <2>1. stage' = "over" /\ item' = item /\ outcome' = class
    BY <1>10 DEF Finish
  <2> QED
    BY <1>1, <1>7, <1>10, <2>1, NotAccepted
<1>11. /\ "ParserError" \notin ReportTypes /\ "binascii.Error" \notin ReportTypes
       /\ "InvalidSMTPTLSReport" \notin ReportTypes /\ "IndexError" \notin ReportTypes
       /\ Described("InvalidDMARCReport") \notin ReportTypes
  BY DEF ReportTypes, Described, InvalidDMARCReport
<1>12. ASSUME NextPart(walk), Unhurt, ~EndsWalk(p), part \notin Reporting(item), 
              part \notin Sampling(item), p.type # "feedback"
       PROVE  AcceptInv'
  <2>1. part' = part + 1 /\ walk' = walk /\ UNCHANGED <<item, stage, hurt>>
    BY <1>12 DEF NextPart, Unhurt
  <2>2. /\ FlagSoFar(item, walk', part + 1) /\ ReportSoFar(item, walk', part + 1)
        /\ SampleSoFar(item, walk', part + 1)
    BY <1>1, <1>2, <1>3, <1>12, <2>1, FlagNext, ReportNext, SampleNext DEF p
  <2> QED
    BY <1>1, <1>2, <1>12, <2>1, <2>2, WalkedOn DEF KeptSoFar, p
<1>13. CASE SkipPart
  <2>1. NextPart(walk) /\ Unhurt
    BY <1>13 DEF SkipPart, Quiet
  <2>2. \/ p.type \in {"html", "plain"}
        \/ p.type = "sample" /\ ~walk.flag
        \/ p.type = "other" /\ ~p.base64
    BY <1>1, <1>13 DEF SkipPart, AtPart
  <2>3. ~EndsWalk(p) /\ ~IsClaim(p) /\ p.type # "feedback"
    BY <2>2 DEF EndsWalk, IsClaim
  <2>4. part \notin Reporting(item) /\ part \notin Sampling(item)
    BY <1>4, <2>2, <2>3
  <2> QED
    BY <1>12, <2>1, <2>3, <2>4
<1>14. CASE FeedbackPart
  <2>1. /\ part' = part + 1 /\ UNCHANGED <<item, stage, hurt>> /\ p.type = "feedback"
        /\ walk' = [walk EXCEPT !.flag = TRUE, !.feedback = p.report]
    BY <1>1, <1>14 DEF FeedbackPart, NextPart, AtPart, Quiet, Unhurt
  <2>2. walk'.flag = TRUE /\ walk'.feedback = p.report /\ walk'.sample = walk.sample
    BY <1>5, <2>1
  <2>3. ~EndsWalk(p) /\ ~IsClaim(p)
    BY <2>1 DEF EndsWalk, IsClaim
  <2>4. part \in Reporting(item) /\ part \notin Sampling(item)
    BY <1>4, <2>1, <2>3
  <2>5. FlagSoFar(item, walk', part + 1)
    BY <1>1, <1>2, <1>3, <2>1, <2>2, FlagNext DEF p
  <2>6. ReportSoFar(item, walk', part + 1)
    BY <1>1, <1>2, <1>3, <2>2, <2>4, ReportNext DEF p
  <2>7. SampleSoFar(item, walk', part + 1)
    BY <1>1, <1>2, <1>3, <2>2, <2>4, SampleNext
  <2> QED
    BY <1>1, <1>2, <2>1, <2>3, <2>5, <2>6, <2>7, WalkedOn DEF KeptSoFar, p
<1>15. CASE SamplePart
  <2>1. /\ part' = part + 1 /\ UNCHANGED <<item, stage, hurt>> /\ p.type = "sample" /\ walk.flag
        /\ walk' = [walk EXCEPT !.sample = Enclosed(p)]
    BY <1>1, <1>15 DEF SamplePart, NextPart, AtPart, Quiet, Unhurt
  <2>2. walk'.flag = walk.flag /\ walk'.feedback = walk.feedback /\ walk'.sample = Enclosed(p)
    BY <1>5, <2>1
  <2>3. ~EndsWalk(p) /\ ~IsClaim(p) /\ p.type # "feedback" /\ SampleOf(p) = Enclosed(p)
    BY <2>1 DEF EndsWalk, IsClaim, SampleOf
  <2>4. part \notin Reporting(item) /\ part \in Sampling(item)
    BY <1>4, <2>1, <2>3
  <2>5. FlagSoFar(item, walk', part + 1)
    BY <1>1, <1>2, <1>3, <2>2, <2>3, FlagNext DEF p
  <2>6. ReportSoFar(item, walk', part + 1)
    BY <1>1, <1>2, <1>3, <2>2, <2>4, ReportNext
  <2>7. SampleSoFar(item, walk', part + 1)
    BY <1>1, <1>2, <1>3, <2>2, <2>3, <2>4, SampleNext DEF p
  <2> QED
    BY <1>1, <1>2, <2>1, <2>3, <2>5, <2>6, <2>7, WalkedOn DEF KeptSoFar, p
<1>16. CASE TlsJsonPart
  <2>1. p.type = "tls_json"
    BY <1>1, <1>16 DEF TlsJsonPart, AtPart
  <2>2. TlsPart(p) <=> (p.braced \/ p.base64) /\ IsSmtpTls(p.blob)
    BY <2>1 DEF TlsPart
  <2>3. ~TlsPart(p) => Misleading(p)
    BY <2>1 DEF Misleading, EndsWalk, AggregatePart
  <2>4. \/ Finish("smtp_tls") /\ TlsPart(p)
        \/ ~TlsPart(p) /\ (Finish("binascii.Error") \/ Finish("InvalidSMTPTLSReport"))
    BY <1>1, <1>16, <2>2 DEF TlsJsonPart
  <2> QED
    BY <1>9, <1>10, <1>11, <2>3, <2>4
<1>17. CASE TlsGzipPart
  <2>1. p.type = "tls_gzip"
    BY <1>1, <1>17 DEF TlsGzipPart, AtPart
  <2>2. IsSmtpTls(p.blob) /\ p.base64 => (Extractable(p.blob) <=> Opens(p.blob))
    BY <1>8, <2>1, ReadingDecides DEF IsSmtpTls, Extractable, Opens
  <2>3. TlsPart(p) <=> (p.base64 => Extractable(p.blob)) /\ IsSmtpTls(p.blob)
    BY <2>1, <2>2 DEF TlsPart
  <2>4. ~TlsPart(p) => Misleading(p)
    BY <2>1 DEF Misleading, EndsWalk, AggregatePart
  <2>5. \/ Finish("smtp_tls") /\ TlsPart(p)
        \/ ~TlsPart(p) /\ (Finish("ParserError") \/ Finish("InvalidSMTPTLSReport"))
    BY <1>1, <1>17, <2>3 DEF TlsGzipPart
  <2> QED
    BY <1>9, <1>10, <1>11, <2>4, <2>5
<1>18. CASE ClaimPart
  <2>1. p.type = "claim"
    BY <1>1, <1>18 DEF ClaimPart, AtPart
  <2>2. CASE ~(p.sound /\ p.ended)
    <3>1. Misleading(p)
      BY <2>1, <2>2 DEF Misleading, EndsWalk, IsClaim, AggregatePart, TlsPart
    <3>2. Finish(Described("InvalidDMARCReport")) \/ Finish("IndexError")
      BY <1>1, <1>18, <2>2 DEF ClaimPart
    <3> QED
      BY <1>10, <1>11, <3>1, <3>2
  <2>3. CASE p.sound /\ p.ended
    <3>1. /\ part' = part + 1 /\ UNCHANGED <<item, stage, hurt>>
          /\ walk' = [walk EXCEPT !.feedback = p.report, !.sample = p.sample]
      BY <1>1, <1>18, <2>3 DEF ClaimPart, NextPart, Quiet, Unhurt
    <3>2. walk'.flag = walk.flag /\ walk'.feedback = p.report /\ walk'.sample = p.sample
      BY <1>5, <3>1
    <3>3. ~EndsWalk(p) /\ IsClaim(p) /\ p.type # "feedback" /\ SampleOf(p) = p.sample
      BY <2>1, <2>3 DEF EndsWalk, IsClaim, SampleOf
    <3>4. part \in Reporting(item) /\ part \in Sampling(item)
      BY <1>4, <3>3
    <3>5. FlagSoFar(item, walk', part + 1)
      BY <1>1, <1>2, <1>3, <3>2, <3>3, FlagNext DEF p
    <3>6. ReportSoFar(item, walk', part + 1)
      BY <1>1, <1>2, <1>3, <3>2, <3>4, ReportNext DEF p
    <3>7. SampleSoFar(item, walk', part + 1)
      BY <1>1, <1>2, <1>3, <3>2, <3>3, <3>4, SampleNext DEF p
    <3> QED
      BY <1>1, <1>2, <3>1, <3>3, <3>5, <3>6, <3>7, WalkedOn DEF KeptSoFar, p
  <2> QED
    BY <2>2, <2>3
<1>19. CASE OtherPart
  <2>1. p.type = "other" /\ p.base64
    BY <1>1, <1>19 DEF OtherPart, AtPart
  <2>2. p.blob.pack # "none" => (Extractable(p.blob) <=> Opens(p.blob))
    BY <1>8, <2>1, ReadingDecides
  <2>3. p.blob.pack = "none" => Opens(p.blob)
    BY DEF Opens
  <2>4. CASE ~Opens(p.blob)
    <3>1. Finish("ParserError")
      BY <1>1, <1>19, <2>2, <2>3, <2>4 DEF OtherPart
    <3>2. Misleading(p)
      BY <2>1, <2>4 DEF Misleading, EndsWalk, AggregatePart, TlsPart
    <3> QED
      BY <1>10, <1>11, <3>1, <3>2
  <2>5. CASE Opens(p.blob) /\ p.blob.form = "json"
    <3>1. Finish(IF IsSmtpTls(p.blob) THEN "smtp_tls" ELSE "ParserError")
      BY <1>1, <1>19, <2>2, <2>5 DEF OtherPart, IsAggregate
    <3>2. TlsPart(p) <=> IsSmtpTls(p.blob)
      BY <2>1, <2>5 DEF TlsPart
    <3>3. ~TlsPart(p) => Misleading(p)
      BY <2>1, <2>5 DEF Misleading, EndsWalk, AggregatePart, HoldsAggregate, IsAggregate
    <3>4. \/ Finish("smtp_tls") /\ TlsPart(p)
          \/ Finish("ParserError") /\ ~TlsPart(p)
      <4>1. CASE IsSmtpTls(p.blob)
        BY <3>1, <3>2, <4>1
      <4>2. CASE ~IsSmtpTls(p.blob)
        BY <3>1, <3>2, <4>2
      <4> QED
        BY <4>1, <4>2
    <3> QED
      BY <1>9, <1>10, <1>11, <3>3, <3>4
  <2>6. CASE Opens(p.blob) /\ IsAggregate(p.blob)
    <3>1. StartRecords(p.blob.body)
      BY <1>1, <1>19, <2>2, <2>6 DEF OtherPart, IsAggregate
    <3>2. /\ stage' = "records" /\ body' = p.blob.body /\ i' = 1
          /\ UNCHANGED <<item, part, walk, hurt>>
      BY <3>1 DEF StartRecords
    <3>3. RecordsFrom(item', part', body')
      BY <1>2, <2>1, <2>6, <3>2 DEF RecordsFrom, p
    <3> QED
      BY <1>1, <1>2, <1>3, <3>2, <3>3
         DEF AcceptInv, WalkSoFar, FileSoFar, RecordsSoFar, FailureSoFar, RightReport, Over
  <2>7. CASE Opens(p.blob) /\ p.blob.form = "xml" /\ ~IsAggregate(p.blob)
    <3>1. RefuseAggregate /\ hurt' = hurt
      BY <1>1, <1>19, <2>2, <2>7 DEF OtherPart, Unhurt
    <3>2. Misleading(p)
      BY <2>1, <2>7 DEF Misleading, EndsWalk, AggregatePart, TlsPart, HoldsAggregate, IsSmtpTls
    <3> QED
      BY <1>1, <1>2, <1>7, <3>1, <3>2, RefusalIsRight
  <2>8. CASE Opens(p.blob) /\ p.blob.form \notin {"xml", "json"}
    <3>1. NextPart(walk) /\ Unhurt
      BY <1>1, <1>19, <2>2, <2>8 DEF OtherPart, IsAggregate
    <3>2. ~EndsWalk(p) /\ ~IsClaim(p) /\ p.type # "feedback"
      BY <2>1, <2>8 DEF EndsWalk, IsClaim
    <3>3. part \notin Reporting(item) /\ part \notin Sampling(item)
      BY <1>4, <2>1, <3>2
    <3> QED
      BY <1>12, <3>1, <3>2, <3>3
  <2> QED
    BY <2>4, <2>5, <2>6, <2>7, <2>8 DEF IsAggregate
<1> QED
  BY <1>13, <1>14, <1>15, <1>16, <1>17, <1>18, <1>19

-----------------------------------------------------------------------------
(***************************************************************************)
(* After the walk.                                                         *)
(***************************************************************************)
LEMMA FailureHeld ==
    ASSUME NEW x \in Items, NEW w, NEW n \in Nat, n > Len(Parts(x)),
           x.via = "file" => Opens(x.blob), ReportSoFar(x, w, n), SampleSoFar(x, w, n)
    PROVE  "failure" \in Contents(x) <=> IsFailure(w.feedback, w.sample)
<1>1. \A j \in Reporting(x) \cup Sampling(x) : j \in Nat /\ ~(n <= j)
  BY PartsOf DEF Reporting, Sampling
<1>2. "failure" \in Contents(x) <=> HoldsFailure(x)
  BY DEF Contents, ReportTypes
<1>3. ASSUME HoldsFailure(x) PROVE IsFailure(w.feedback, w.sample)
  <2>1. PICK r \in Reporting(x), s \in Sampling(x) :
           /\ \A j \in Reporting(x) : j <= r
           /\ \A j \in Sampling(x) : j <= s
           /\ IsFailure(Parts(x)[r].report, SampleOf(Parts(x)[s]))
    BY <1>3 DEF HoldsFailure
  <2>2. PICK q \in Reporting(x) :
           w.feedback = Parts(x)[q].report /\ \A j \in Reporting(x) : j <= q
    BY <1>1 DEF ReportSoFar
  <2>3. PICK t \in Sampling(x) :
           w.sample = SampleOf(Parts(x)[t]) /\ \A j \in Sampling(x) : j <= t
    BY <1>1 DEF SampleSoFar
  <2>4. q = r /\ t = s
    BY <1>1, <2>1, <2>2, <2>3
  <2> QED
    BY <2>1, <2>2, <2>3, <2>4
<1>4. ASSUME IsFailure(w.feedback, w.sample) PROVE HoldsFailure(x)
  <2>1. w.feedback # None /\ w.sample # None
    BY <1>4 DEF IsFailure
  <2>2. PICK q \in Reporting(x) :
           w.feedback = Parts(x)[q].report /\ \A j \in Reporting(x) : j <= q
    BY <1>1, <2>1 DEF ReportSoFar
  <2>3. PICK t \in Sampling(x) :
           w.sample = SampleOf(Parts(x)[t]) /\ \A j \in Sampling(x) : j <= t
    BY <1>1, <2>1 DEF SampleSoFar
  <2> QED
    BY <1>4, <2>2, <2>3 DEF HoldsFailure
<1> QED
  BY <1>2, <1>3, <1>4

\* When the walk came to its end, no part was a report by itself.
LEMMA OnlyFailure ==
    ASSUME Inv, AcceptInv, stage \in {"walk", "failure"}, part > Len(Parts(item)), ~hurt
    PROVE  Contents(item) \subseteq {"failure"}
<1>1. item \in Items /\ part \in Nat
  BY DEF Inv, ParseInv, PlaceOfParsing
<1>2. /\ Quietly(item, part)
      /\ item.via = "file" => ~HoldsAggregate(item.blob) /\ ~IsSmtpTls(item.blob)
  BY DEF AcceptInv, WalkSoFar, FileSoFar
<1>3. \A j \in DOMAIN Parts(item) : j < part
  BY <1>1, PartsOf
<1>4. \A j \in DOMAIN Parts(item) :
         ~AggregatePart(Parts(item)[j]) /\ ~TlsPart(Parts(item)[j])
  BY <1>2, <1>3, ReportsEndWalk DEF Quietly
<1> QED
  BY <1>2, <1>4 DEF Contents

LEMMA AcceptFailure ==
    ASSUME Inv, AcceptInv, NoReport \/ StartFailure \/ EndFailure
    PROVE  AcceptInv'
<1>1. /\ item \in Items /\ part \in Nat /\ part > Len(Parts(item))
      /\ stage \in {"walk", "failure"}
  BY DEF Inv, ParseInv, PlaceOfParsing, NoReport, StartFailure, EndFailure, AcceptInv, FailureSoFar
<1>2. /\ KeptSoFar(item, walk, part) /\ Quietly(item, part)
      /\ item.via = "file" => Opens(item.blob)
  BY <1>1 DEF AcceptInv, WalkSoFar, FileSoFar
<1>3. "failure" \in Contents(item) <=> IsFailure(walk.feedback, walk.sample)
  BY <1>1, <1>2, FailureHeld DEF KeptSoFar
<1>4. ~hurt => Contents(item) \subseteq {"failure"}
  BY <1>1, OnlyFailure
<1>5. ASSUME NEW class, Finish(class), class \notin ReportTypes,
             hurt' = TRUE \/ (hurt' = hurt /\ ~IsFailure(walk.feedback, walk.sample))
      PROVE  AcceptInv'
  <2>1. stage' = "over" /\ item' = item /\ outcome' = class
    BY <1>5 DEF Finish
  <2>2. hurt' = TRUE \/ Contents(item) = {}
    <3>1. CASE hurt' = TRUE
      BY <3>1
    <3>2. CASE hurt' = hurt /\ ~IsFailure(walk.feedback, walk.sample)
      <4>1. CASE hurt = TRUE
        BY <3>2, <4>1
      <4>2. CASE hurt # TRUE
        BY <1>3, <1>4, <3>2, <4>2
      <4> QED
        BY <4>1, <4>2
    <3> QED
      BY <1>5, <3>1, <3>2
  <2> QED
    BY <1>1, <1>5, <2>1, <2>2, NotAccepted
<1>6. /\ Described("InvalidDMARCReport") \notin ReportTypes
      /\ Described("InvalidFailureReport") \notin ReportTypes
  BY DEF ReportTypes, Described, InvalidDMARCReport
<1>7. CASE NoReport
  <2>1. Finish(Described("InvalidDMARCReport")) /\ hurt' = hurt
    BY <1>7 DEF NoReport, Quiet, Unhurt
  <2>2. ~IsFailure(walk.feedback, walk.sample)
    BY <1>7 DEF NoReport, IsFailure
  <2> QED
    BY <1>5, <1>6, <2>1, <2>2
<1>8. CASE StartFailure
  <2>1. stage = "walk" /\ walk.feedback # None /\ walk.sample # None /\ hurt' = hurt
    BY <1>8 DEF StartFailure, Unhurt
  <2>2. CASE ~walk.feedback.complete
    <3>1. Finish(Described("InvalidFailureReport"))
      BY <1>8, <2>2 DEF StartFailure
    <3>2. ~IsFailure(walk.feedback, walk.sample)
      BY <2>2 DEF IsFailure
    <3> QED
      BY <1>5, <1>6, <2>1, <3>1, <3>2
  <2>3. CASE walk.feedback.complete
    <3>1. stage' = "failure" /\ UNCHANGED <<item, part, walk>>
      BY <1>8, <2>3 DEF StartFailure, Goto
    <3> QED
      BY <1>1, <2>1, <2>3, <3>1
         DEF AcceptInv, WalkSoFar, FileSoFar, RecordsSoFar, FailureSoFar, RightReport, Over
  <2> QED
    BY <2>2, <2>3
<1>9. CASE EndFailure
  <2>1. walk.feedback # None /\ walk.sample # None /\ walk.feedback.complete
    BY <1>9 DEF EndFailure, AcceptInv, FailureSoFar
  <2>2. IsFailure(walk.feedback, walk.sample) <=>
           walk.feedback.domain \/ FromDomain(walk.sample)
    BY <2>1 DEF IsFailure
  <2>3. CASE At("done") /\ Finish("failure") /\ IsFailure(walk.feedback, walk.sample)
    <3>1. stage' = "over" /\ item' = item /\ outcome' = "failure"
      BY <2>3 DEF Finish
    <3> QED
      BY <1>1, <1>3, <2>3, <3>1, Accepted
  <2>4. CASE /\ Finish(Described("InvalidFailureReport"))
             /\ hurt' = TRUE \/ (hurt' = hurt /\ ~IsFailure(walk.feedback, walk.sample))
    BY <1>5, <1>6, <2>4
  <2> QED
    BY <1>9, <2>2, <2>3, <2>4 DEF EndFailure, Unhurt
<1> QED
  BY <1>7, <1>8, <1>9

-----------------------------------------------------------------------------
(***************************************************************************)
(* The records.                                                            *)
(***************************************************************************)
LEMMA WholeOrNot ==
    ASSUME Inv, AcceptInv, stage = "records"
    PROVE  /\ Len(body.records) \in Nat /\ Len(body.records) >= 1 /\ i \in Nat /\ i >= 1
           /\ part = 0 => /\ item.via = "file"
                          /\ HoldsAggregate(item.blob) <=>
                               (Len(body.records) = 1 => body.records[1].shape = "good")
           /\ part # 0 =>
                /\ part \in DOMAIN Parts(item)
                /\ EndsWalk(Parts(item)[part])
                /\ ~TlsPart(Parts(item)[part])
                /\ AggregatePart(Parts(item)[part]) <=>
                     (Len(body.records) = 1 => body.records[1].shape = "good")
<1>1. /\ IsBody(body) /\ i \in 1 .. Len(body.records) + 1
      /\ RecordsFrom(item, part, body)
  BY DEF Inv, ParseInv, AtRecords, RowsSoFar, AcceptInv, RecordsSoFar
<1>2. Len(body.records) \in Nat /\ body.records \in Seq(Records)
  BY <1>1, RecordsOf DEF IsBody
<1>3. body.records # <<>>
  BY <1>1 DEF RecordsFrom, IsAggregate, Heading
<1>4. Len(body.records) >= 1
  BY <1>2, <1>3, EmptySeq
<1>5. ASSUME part = 0
      PROVE  /\ item.via = "file"
             /\ HoldsAggregate(item.blob) <=>
                  (Len(body.records) = 1 => body.records[1].shape = "good")
  BY <1>1, <1>5 DEF RecordsFrom, HoldsAggregate
<1>6. ASSUME part # 0
      PROVE  /\ part \in DOMAIN Parts(item)
             /\ EndsWalk(Parts(item)[part])
             /\ ~TlsPart(Parts(item)[part])
             /\ AggregatePart(Parts(item)[part]) <=>
                  (Len(body.records) = 1 => body.records[1].shape = "good")
  BY <1>1, <1>6
     DEF RecordsFrom, HoldsAggregate, AggregatePart, EndsWalk, TlsPart, IsAggregate, IsSmtpTls
<1> QED
  BY <1>1, <1>2, <1>4, <1>5, <1>6

LEMMA AcceptRefused ==
    ASSUME Inv, AcceptInv, stage = "records", RefuseAggregate,
           hurt' = hurt \/ hurt' = TRUE,
           hurt' = TRUE \/ (Len(body.records) = 1 /\ body.records[1].shape # "good")
    PROVE  AcceptInv'
<1>1. item \in Items
  BY DEF Inv, ParseInv, PlaceOfParsing
<1>2. CASE hurt' = TRUE
  BY <1>2, RefusalIsRight
<1>3. CASE Len(body.records) = 1 /\ body.records[1].shape # "good" /\ part = 0
  BY <1>3, WholeOrNot, RefusalIsRight
<1>4. CASE Len(body.records) = 1 /\ body.records[1].shape # "good" /\ part # 0
  <2>1. part \in DOMAIN Parts(item) /\ Misleading(Parts(item)[part])
    BY <1>4, WholeOrNot DEF Misleading
  <2>2. Quietly(item, part)
    BY <1>4 DEF AcceptInv, WalkSoFar
  <2>3. Shadowed
    BY <1>1, <2>1, <2>2, ShadowedBy
  <2> QED
    BY <1>4, <2>3, RefusalIsRight
<1> QED
  BY <1>2, <1>3, <1>4

LEMMA NextRecord ==
    ASSUME Inv, AcceptInv, stage = "records", UNCHANGED <<item, stage, part, walk, body>>,
           i' = i \/ (i' = i + 1 /\ (Len(body.records) = 1 => body.records[1].shape = "good"))
    PROVE  AcceptInv'
  BY DEF AcceptInv, WalkSoFar, FileSoFar, RecordsSoFar, FailureSoFar, RightReport, Over

LEMMA AcceptDrop ==
    ASSUME Inv, AcceptInv, stage = "records", i <= Len(body.records), Drop,
           hurt' = hurt \/ hurt' = TRUE,
           hurt' = TRUE \/ Record.shape # "good"
    PROVE  AcceptInv'
<1>1. Len(body.records) \in Nat /\ Len(body.records) >= 1 /\ i \in Nat /\ i >= 1
  BY WholeOrNot
<1>2. CASE Listed
  <2>1. i' = i + 1 /\ UNCHANGED <<item, stage, part, walk, body>>
    BY <1>2 DEF Drop
  <2>2. Len(body.records) = 1 => body.records[1].shape = "good"
    BY <1>1, <1>2 DEF Listed
  <2> QED
    BY <2>1, <2>2, NextRecord
<1>3. CASE ~Listed
  <2>1. RefuseAggregate
    BY <1>3 DEF Drop
  <2>2. Len(body.records) = 1 /\ i = 1
    <3>1. ASSUME NEW n \in Nat, NEW k \in Nat, n >= 1, k >= 1, k <= n, ~(n > 1)
          PROVE  n = 1 /\ k = 1
      BY <3>1
    <3>2. ~(Len(body.records) > 1)
      BY <1>3 DEF Listed
    <3> QED
      BY <1>1, <3>1, <3>2
  <2>3. hurt' = TRUE \/ body.records[1].shape # "good"
    BY <2>2 DEF Record
  <2>4. hurt' = TRUE \/ (Len(body.records) = 1 /\ body.records[1].shape # "good")
    BY <2>2, <2>3
  <2> QED
    BY <2>1, <2>4, AcceptRefused
<1> QED
  BY <1>2, <1>3

LEMMA AcceptRecords ==
    ASSUME Inv, AcceptInv,
           KeepAliveFails \/ StartRecord \/ AppendRecord \/ LoseRecord \/ EndRecords
    PROVE  AcceptInv'
<1>1. /\ stage = "records" /\ item \in Items
      /\ look.stage # "idle" => i <= Len(body.records)
  BY DEF KeepAliveFails, StartRecord, AppendRecord, LoseRecord, EndRecords, AtRecord, Inv,
         ParseInv, PlaceOfParsing, AtRecords
<1>2. Len(body.records) \in Nat /\ Len(body.records) >= 1 /\ i \in Nat /\ i >= 1
  BY <1>1, WholeOrNot
<1>3. CASE KeepAliveFails
  BY <1>1, <1>3, AcceptRefused DEF KeepAliveFails
<1>4. CASE StartRecord
  <2>1. i <= Len(body.records) /\ hurt' = hurt
    BY <1>4 DEF StartRecord, AtRecord, Unhurt
  <2>2. CASE Record.shape = "noip" /\ Drop
    <3>1. Record.shape # "good"
      BY <2>2
    <3> QED
      BY <1>1, <2>1, <2>2, <3>1, AcceptDrop
  <2>3. CASE Goto("records")
    BY <1>1, <2>3, NextRecord DEF Goto
  <2> QED
    BY <1>4, <2>2, <2>3 DEF StartRecord
<1>5. CASE AppendRecord
  <2>1. i <= Len(body.records) /\ hurt' = hurt
    BY <1>1, <1>5 DEF AppendRecord, At, Unhurt
  <2>2. CASE Record.shape = "bad"
    <3>1. Drop
      BY <1>5, <2>2 DEF AppendRecord
    <3> QED
      BY <1>1, <2>1, <2>2, <3>1, AcceptDrop
  <2>3. CASE Record.shape # "bad"
    <3>1. i' = i + 1 /\ UNCHANGED <<item, stage, part, walk, body>>
      BY <1>5, <2>3 DEF AppendRecord
    <3>2. Record.shape = "good"
      <4>1. Record.shape # "noip" /\ IsBody(body) /\ i \in 1 .. Len(body.records)
        BY <1>1, <1>2, <1>5, <2>1 DEF AppendRecord, At, Inv, ParseInv, AtRecords, RowsSoFar
      <4>2. Record \in Records
        BY <4>1, RecordsOf DEF Record
      <4> QED
        BY <2>3, <4>1, <4>2 DEF Records
    <3>3. Len(body.records) = 1 => body.records[1].shape = "good"
      <4>1. Len(body.records) = 1 => i = 1
        BY <1>2, <2>1
      <4> QED
        BY <3>2, <4>1 DEF Record
    <3> QED
      BY <1>1, <3>1, <3>3, NextRecord
  <2> QED
    BY <2>2, <2>3
<1>6. CASE LoseRecord
  <2>1. i <= Len(body.records) /\ hurt' = TRUE /\ Drop
    BY <1>1, <1>6 DEF LoseRecord, At
  <2> QED
    BY <1>1, <2>1, AcceptDrop
<1>7. CASE EndRecords
  <2>1. i > Len(body.records) /\ stage' = "over" /\ item' = item /\ outcome' = "aggregate"
    BY <1>7 DEF EndRecords, Finish
  <2>2. Len(body.records) = 1 => body.records[1].shape = "good"
    BY <1>1, <1>2, <2>1 DEF AcceptInv, RecordsSoFar
  <2>3. item.via = "file" => Opens(item.blob)
    BY <1>1 DEF AcceptInv, FileSoFar
  <2>4. CASE part = 0
    <3>1. item.via = "file" /\ HoldsAggregate(item.blob)
      BY <1>1, <2>2, <2>4, WholeOrNot
    <3>2. "aggregate" \in Contents(item)
      BY <2>3, <3>1 DEF Contents, ReportTypes
    <3> QED
      BY <1>1, <2>1, <3>2, Accepted
  <2>5. CASE part # 0
    <3>1. part \in DOMAIN Parts(item) /\ AggregatePart(Parts(item)[part])
      BY <1>1, <2>2, <2>5, WholeOrNot
    <3>2. "aggregate" \in Contents(item)
      BY <1>1, <2>3, <3>1, PartHeld
    <3> QED
      BY <1>1, <2>1, <3>2, Accepted
  <2> QED
    BY <2>4, <2>5
<1> QED
  BY <1>3, <1>4, <1>5, <1>6, <1>7

LEMMA AcceptNext == Inv /\ AcceptInv /\ [Next]_vars => AcceptInv'
<1> SUFFICES ASSUME Inv, AcceptInv, [Next]_vars PROVE AcceptInv'
  OBVIOUS
<1>1. CASE \E x \in Items : Take(x)
  BY <1>1, AcceptTake
<1>2. CASE ParseStep
  BY <1>2, AcceptFile, AcceptWalk, AcceptFailure, AcceptRecords DEF ParseStep
<1>3. CASE Lookup \/ Between \/ UNCHANGED vars
  BY <1>3, SameAccept DEF Lookup, Between, vars
<1> QED
  BY <1>1, <1>2, <1>3 DEF Next

(***************************************************************************)
(* parse_report_file() and parse_report_email() return a report of a type  *)
(* that is in the file or the message, and refuse one that holds a report  *)
(* only after a failure, for a misleading part, or for its date.           *)
(***************************************************************************)
THEOREM AcceptedIsRight == Spec => []RightReport
<1>1. Init => AcceptInv
  BY AcceptInit
<1>2. Inv /\ AcceptInv /\ [Next]_vars => AcceptInv'
  BY AcceptNext
<1>3. AcceptInv => RightReport
  BY DEF AcceptInv
<1> QED
  BY <1>1, <1>2, <1>3, ParsingInvariant, PTL DEF Spec

=============================================================================
