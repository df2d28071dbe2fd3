----------------------------- MODULE TimelineProofs -----------------------------
(***************************************************************************)
(* Lemmas about the capacity curve and the earliest fit, for every vector  *)
(* of events: what sorting keeps, which segments a window touches, what    *)
(* rangeMin returns, and why the few starts earliestFit tries are enough.  *)
(***************************************************************************)
EXTENDS Timeline, SetInduction, FiniteSetTheorems, SequenceTheorems, TLAPS

-----------------------------------------------------------------------------
(* Sorting.                                                                *)

\* What stands at position k of r is what stands at position b[k] of s, each once.
Rearranged(r, s, b, n) ==
    /\ b \in [1 .. n -> 1 .. n]
    /\ \A k, l \in 1 .. n : b[k] = b[l] => k = l
    /\ \A k \in 1 .. n : r[k] = s[b[k]]

InTimeOrder(r, n) == \A k, l \in 1 .. n : k <= l => r[k].time <= r[l].time

\* Insertion only rearranges, and puts the events in the order of their times.
LEMMA StableSortRearranges ==
    ASSUME NEW s, NEW n \in Nat, n = Len(s), \A i \in 1 .. n : s[i].time \in Int
    PROVE  /\ Len(StableSort(s)) = n
           /\ \A k \in 1 .. n : \E i \in 1 .. n : StableSort(s)[k] = s[i]
           /\ \E b : Rearranged(StableSort(s), s, b, n)
           /\ InTimeOrder(StableSort(s), n)
<1> DEFINE before(i, j) == s[i].time < s[j].time \/ (s[i].time = s[j].time /\ i < j)
           Below(i) == {j \in 1 .. n : before(j, i)}
           position(i) == 1 + Cardinality(Below(i))
           N == 1 .. n
<1>1. IsFiniteSet(N) /\ Cardinality(N) = n
  <2>1. 1 \in Int /\ n \in Int /\ (IF 1 > n THEN 0 ELSE n - 1 + 1) = n
    OBVIOUS
  <2> QED
    BY <2>1, FS_Interval
<1>2. \A i, j \in N : i # j => before(i, j) \/ before(j, i)
  OBVIOUS
<1>3. \A i \in N : ~before(i, i)
  OBVIOUS
<1>4. \A i, j, k \in N : before(i, j) /\ before(j, k) => before(i, k)
  OBVIOUS
<1> HIDE DEF before
<1>5. ASSUME NEW i \in N
      PROVE  IsFiniteSet(Below(i)) /\ Cardinality(Below(i)) \in 0 .. n - 1
  <2>1. IsFiniteSet(N \ {i}) /\ Cardinality(N \ {i}) = n - 1
    BY <1>1, FS_RemoveElement
  <2>2. Below(i) \in SUBSET (N \ {i})
    BY <1>3
  <2> HIDE DEF Below, N
  <2>3. IsFiniteSet(Below(i)) /\ Cardinality(Below(i)) <= n - 1
    BY <2>1, <2>2, FS_Subset
  <2>4. Cardinality(Below(i)) \in Nat
    BY <2>3, FS_CardinalityType
  <2> QED
    BY <2>3, <2>4
<1>6. ASSUME NEW i \in N, NEW j \in N, before(i, j)
      PROVE  position(i) < position(j)
  <2>1. Below(i) \in SUBSET Below(j) /\ i \in Below(j) /\ i \notin Below(i)
    BY <1>3, <1>4, <1>6
  <2> HIDE DEF Below
  <2>2. IsFiniteSet(Below(j)) /\ Cardinality(Below(i)) \in Nat /\ Cardinality(Below(j)) \in Nat
    <3>1. Cardinality(Below(i)) \in 0 .. n - 1 /\ Cardinality(Below(j)) \in 0 .. n - 1
      BY <1>5
    <3> QED
      BY <1>5, <3>1
  <2>3. Cardinality(Below(i)) # Cardinality(Below(j)) /\ Cardinality(Below(i)) <= Cardinality(Below(j))
    BY <2>1, <2>2, FS_Subset
  <2> QED
    BY <2>2, <2>3
<1> DEFINE f == [i \in N |-> position(i)]
<1>7. f \in Injection(N, N)
  <2>1. \A i \in N : position(i) \in N
    <3> HIDE DEF Below
    <3>1. \A i \in N : Cardinality(Below(i)) \in 0 .. n - 1
      BY <1>5
    <3> QED
      BY <3>1
  <2>2. ASSUME NEW i \in N, NEW j \in N, position(i) = position(j)
        PROVE  i = j
    <3>1. position(i) \in Int /\ position(j) \in Int
      BY <2>1
    <3>2. ~(position(i) < position(j)) /\ ~(position(j) < position(i))
      BY <2>2, <3>1
    <3>3. ~before(i, j) /\ ~before(j, i)
      <4> HIDE DEF position, N
      <4> QED
        BY <1>6, <3>2
    <3> QED
      BY <1>2, <3>3
  <2> HIDE DEF position, N
  <2> QED
    BY <2>1, <2>2 DEF Injection, IsInjective
<1>8. f \in Surjection(N, N)
  <2> HIDE DEF f, N
  <2> QED
    BY <1>1, <1>7, FS_Injection
<1>9. \A k \in N : \E i \in N : position(i) = k
  <2> HIDE DEF position, N
  <2> QED
    BY <1>8 DEF Surjection
<1>10. StableSort(s) = [k \in N |-> s[CHOOSE i \in N : position(i) = k]]
  BY DEF StableSort, before
<1> DEFINE b == [k \in N |-> CHOOSE i \in N : position(i) = k]
<1>11. \A k \in N : b[k] \in N /\ position(b[k]) = k
  <2> HIDE DEF position, N
  <2> QED
    BY <1>9
<1>12. \A k \in N : StableSort(s)[k] = s[b[k]]
  <2> HIDE DEF position
  <2> QED
    BY <1>10
<1>13. b \in [N -> N]
  <2>1. \A k \in N : (CHOOSE i \in N : position(i) = k) \in N
    <3> HIDE DEF position, N
    <3> QED
      BY <1>11
  <2> HIDE DEF position, N
  <2> QED
    BY <2>1
<1> HIDE DEF b
<1>14. Len(StableSort(s)) = n
  <2> HIDE DEF position
  <2> QED
    BY <1>10
<1>15. Rearranged(StableSort(s), s, b, n)
  <2>1. \A k, l \in N : b[k] = b[l] => k = l
    <3> HIDE DEF position, N
    <3> QED
      BY <1>11
  <2> HIDE DEF position
  <2> QED
    BY <1>12, <1>13, <2>1 DEF Rearranged
<1>16. InTimeOrder(StableSort(s), n)
  <2> SUFFICES ASSUME NEW k \in N, NEW l \in N, k <= l
               PROVE  s[b[k]].time <= s[b[l]].time
    BY <1>12 DEF InTimeOrder
  <2>1. b[k] \in N /\ b[l] \in N /\ position(b[k]) = k /\ position(b[l]) = l
    BY <1>11
  <2>2. CASE s[b[l]].time < s[b[k]].time
    <3>1. before(b[l], b[k])
      BY <2>2 DEF before
    <3>2. position(b[l]) < position(b[k])
      <4> HIDE DEF position, N
      <4> QED
        BY <1>6, <2>1, <3>1
    <3>3. l < k
      BY <2>1, <3>2
    <3> QED
      BY <3>3
  <2>3. s[b[k]].time \in Int /\ s[b[l]].time \in Int
    BY <2>1
  <2> QED
    BY <2>2, <2>3
<1>17. \A k \in N : \E i \in N : StableSort(s)[k] = s[i]
  BY <1>11, <1>12
<1> QED
  BY <1>14, <1>15, <1>16, <1>17

\* ... and so does sorting, however many events there are.
LEMMA SortRearranges ==
    ASSUME NEW s, NEW n \in Nat, n = Len(s), \A i \in 1 .. n : s[i].time \in Int
    PROVE  /\ Len(Sort(s)) = n
           /\ \A k \in 1 .. n : \E i \in 1 .. n : Sort(s)[k] = s[i]
           /\ \E b : Rearranged(Sort(s), s, b, n)
           /\ InTimeOrder(Sort(s), n)
<1>1. CASE Sort(s) = StableSort(s)
  <2>1. /\ Len(StableSort(s)) = n
        /\ \A k \in 1 .. n : \E i \in 1 .. n : StableSort(s)[k] = s[i]
        /\ InTimeOrder(StableSort(s), n)
    BY StableSortRearranges
  <2>2. \E b : Rearranged(StableSort(s), s, b, n)
    BY StableSortRearranges
  <2> QED
    BY <1>1, <2>1, <2>2
<1>2. CASE Sort(s) # StableSort(s)
  <2>1. PICK r : r = StableSort(s)
    OBVIOUS
  <2>2. InTimeOrder(r, n)
    BY <2>1, StableSortRearranges
  <2>3. PICK b : Rearranged(r, s, b, n)
    BY <2>1, StableSortRearranges
  <2>4. [k \in 1 .. n |-> s[b[k]]] \in TimeOrders(s)
    <3> DEFINE q == [k \in 1 .. n |-> s[b[k]]]
    <3>1. \A k, l \in 1 .. n : k <= l => q[k].time <= q[l].time
      BY <2>2, <2>3 DEF Rearranged, InTimeOrder
    <3>2. b \in {p \in [1 .. n -> 1 .. n] : \A k, l \in 1 .. n : p[k] = p[l] => k = l}
      BY <2>3 DEF Rearranged
    <3> QED
      BY <3>1, <3>2 DEF TimeOrders
  <2>5. Sort(s) \in TimeOrders(s)
    BY <1>2, <2>4 DEF Sort
  <2>6. PICK p \in [1 .. n -> 1 .. n] :
           /\ \A k, l \in 1 .. n : p[k] = p[l] => k = l
           /\ Sort(s) = [k \in 1 .. n |-> s[p[k]]]
           /\ \A k, l \in 1 .. n : k <= l => Sort(s)[k].time <= Sort(s)[l].time
    BY <2>5 DEF TimeOrders
  <2>7. Rearranged(Sort(s), s, p, n) /\ InTimeOrder(Sort(s), n)
    BY <2>6 DEF Rearranged, InTimeOrder
  <2>8. Len(Sort(s)) = n
    BY <2>6
  <2>9. \A k \in 1 .. n : p[k] \in 1 .. n /\ Sort(s)[k] = s[p[k]]
    BY <2>6
  <2> QED
    BY <2>7, <2>8, <2>9
<1> QED
  BY <1>1, <1>2

-----------------------------------------------------------------------------
(* The minimum of two capacities.                                          *)

\* A capacity, or a difference of two.
Amounts == UNION {[S -> Int] : S \in SUBSET Dimensions}

LEMMA AmountsAre ==
    ASSUME NEW c \in Amounts
    PROVE  /\ DOMAIN c \in SUBSET Dimensions
           /\ \A d \in DOMAIN c : c[d] \in Int
           /\ \A d : Amount(c, d) \in Int
<1>1. PICK S \in SUBSET Dimensions : c \in [S -> Int]
  BY DEF Amounts
<1>2. DOMAIN c = S
  BY <1>1
<1> QED
  BY <1>1, <1>2 DEF Amount

LEMMA AmountsIntro ==
    ASSUME NEW S \in SUBSET Dimensions, NEW c \in [S -> Int]
    PROVE  c \in Amounts
BY DEF Amounts

LEMMA CapacityIsAmount == CapacitySpace \subseteq Amounts
<1> SUFFICES ASSUME NEW c \in CapacitySpace
             PROVE  c \in Amounts
  OBVIOUS
<1>1. PICK S \in SUBSET Dimensions : c \in [S -> 0 .. MaxAmount]
  BY DEF CapacitySpace
<1>2. c \in [S -> Int]
  BY <1>1
<1> QED
  BY <1>2, AmountsIntro

LEMMA CapacityNotNegative ==
    ASSUME NEW c \in CapacitySpace, NEW d
    PROVE  c \in Amounts /\ Amount(c, d) \in Int /\ Amount(c, d) >= 0
<1>1. PICK S \in SUBSET Dimensions : c \in [S -> 0 .. MaxAmount]
  BY DEF CapacitySpace
<1>2. DOMAIN c = S /\ \A e \in S : c[e] \in 0 .. MaxAmount
  BY <1>1
<1>3. Amount(c, d) \in Int /\ Amount(c, d) >= 0
  BY <1>2, MaxAmountNat DEF Amount
<1> QED
  BY <1>3, CapacityIsAmount

\* MinCap takes one of the two amounts, and the lesser where the first operand has one.
LEMMA MinCapIs ==
    ASSUME NEW c \in Amounts, NEW o \in Amounts
    PROVE  /\ MinCap(c, o) \in Amounts
           /\ DOMAIN c \subseteq DOMAIN MinCap(c, o)
           /\ \A d : Amount(MinCap(c, o), d) \in {Amount(c, d), Amount(o, d)}
           /\ \A d \in DOMAIN c : /\ Amount(MinCap(c, o), d) <= Amount(c, d)
                                  /\ Amount(MinCap(c, o), d) <= Amount(o, d)
<1>1. /\ DOMAIN c \in SUBSET Dimensions /\ DOMAIN o \in SUBSET Dimensions
      /\ \A d \in DOMAIN c : c[d] \in Int
      /\ \A d \in DOMAIN o : o[d] \in Int
      /\ \A d : Amount(c, d) \in Int /\ Amount(o, d) \in Int
  BY AmountsAre
<1> DEFINE m(d) == IF d \in DOMAIN c THEN Lesser(c[d], Amount(o, d)) ELSE o[d]
<1>2. DOMAIN MinCap(c, o) = DOMAIN c \cup DOMAIN o
      /\ \A d \in DOMAIN c \cup DOMAIN o : MinCap(c, o)[d] = m(d)
  BY DEF MinCap
<1>3. \A d \in DOMAIN c : m(d) \in {Amount(c, d), Amount(o, d)}
                          /\ m(d) <= Amount(c, d) /\ m(d) <= Amount(o, d)
  BY <1>1 DEF Lesser, Amount
<1>4. \A d \in DOMAIN o : d \notin DOMAIN c => m(d) = Amount(o, d)
  BY DEF Amount
<1> HIDE DEF m
<1>5. \A d \in DOMAIN c \cup DOMAIN o : m(d) \in {Amount(c, d), Amount(o, d)} /\ m(d) \in Int
  BY <1>1, <1>3, <1>4
<1>6. MinCap(c, o) = [d \in DOMAIN c \cup DOMAIN o |-> m(d)]
  BY DEF MinCap, m
<1>7. MinCap(c, o) \in Amounts
  <2>1. MinCap(c, o) \in [DOMAIN c \cup DOMAIN o -> Int]
    BY <1>5, <1>6
  <2>2. DOMAIN c \cup DOMAIN o \in SUBSET Dimensions
    BY <1>1
  <2> QED
    BY <2>1, <2>2, AmountsIntro
<1>8. \A d \in DOMAIN c \cup DOMAIN o : Amount(MinCap(c, o), d) = m(d)
  BY <1>2 DEF Amount
<1>9. \A d : d \notin DOMAIN c \cup DOMAIN o => Amount(MinCap(c, o), d) = Amount(c, d)
  BY <1>2 DEF Amount
<1> QED
  BY <1>2, <1>3, <1>5, <1>7, <1>8, <1>9

\* Two capacities that satisfy a requirement have a minimum that does.
LEMMA MinCapSatisfies ==
    ASSUME NEW c \in Amounts, NEW o \in Amounts, NEW q, satisfies(c, q), satisfies(o, q)
    PROVE  satisfies(MinCap(c, o), q)
BY MinCapIs DEF satisfies

-----------------------------------------------------------------------------
(* Segments.                                                               *)

\* A frozen timeline: events at integer times, and a capacity before and after each.
Curve(tl) ==
    /\ Len(tl.events) \in Nat
    /\ \A i \in 1 .. Len(tl.events) : tl.events[i].time \in Int
    /\ \A i \in 0 .. Len(tl.events) : tl.prefix[i] \in Amounts

Upto(tl, t) == {i \in 1 .. Len(tl.events) : tl.events[i].time <= t}

Inside(tl, start, end) ==
    {i \in 1 .. Len(tl.events) : start < tl.events[i].time /\ tl.events[i].time < end}

\* A set of positions has a number of elements, and a subset no more.
LEMMA PositionsCounted ==
    ASSUME NEW n \in Nat, NEW S \in SUBSET (1 .. n)
    PROVE  /\ IsFiniteSet(S) /\ Cardinality(S) \in 0 .. n
           /\ \A T \in SUBSET S : Cardinality(T) <= Cardinality(S)
<1>1. IsFiniteSet(1 .. n) /\ Cardinality(1 .. n) = n
  <2>1. 1 \in Int /\ n \in Int /\ (IF 1 > n THEN 0 ELSE n - 1 + 1) = n
    OBVIOUS
  <2> QED
    BY <2>1, FS_Interval
<1>2. IsFiniteSet(S) /\ Cardinality(S) <= n
  BY <1>1, FS_Subset
<1>3. Cardinality(S) \in Nat
  BY <1>2, FS_CardinalityType
<1>4. \A T \in SUBSET S : Cardinality(T) <= Cardinality(S)
  BY <1>2, FS_Subset
<1> QED
  BY <1>2, <1>3, <1>4

LEMMA PositionsApart ==
    ASSUME NEW n \in Nat, NEW S \in SUBSET (1 .. n), NEW T \in SUBSET (1 .. n), S \cap T = {}
    PROVE  Cardinality(S \cup T) = Cardinality(S) + Cardinality(T)
<1>1. /\ IsFiniteSet(S) /\ IsFiniteSet(T)
      /\ Cardinality(S) \in 0 .. n /\ Cardinality(T) \in 0 .. n
  BY PositionsCounted
<1>2. Cardinality(S \cup T) = Cardinality(S) + Cardinality(T) - Cardinality(S \cap T)
  BY <1>1, FS_Union
<1>3. Cardinality(S \cap T) = 0
  BY FS_EmptySet
<1> QED
  BY <1>1, <1>2, <1>3

\* The segments of a window are among those of the curve, and the instants of the window
\* fall into them.
LEMMA SegmentsOfWindow ==
    ASSUME NEW tl, Curve(tl), NEW a \in Int, NEW b \in Int
    PROVE  LET n == Len(tl.events)
               k == Cardinality(Inside(tl, a, b))
           IN  /\ Applied(tl, a) \in 0 .. n /\ k \in 0 .. n
               /\ Applied(tl, a) + k <= n
               /\ Segments(tl, a, b) = Applied(tl, a) .. (Applied(tl, a) + k)
               /\ \A t \in Int : a <= t /\ t < b => Applied(tl, t) \in Segments(tl, a, b)
<1> DEFINE n == Len(tl.events)
           k == Cardinality(Inside(tl, a, b))
<1>0. n \in Nat /\ \A i \in 1 .. n : tl.events[i].time \in Int
  BY DEF Curve
<1> HIDE DEF n
<1>1. /\ Inside(tl, a, b) \in SUBSET (1 .. n)
      /\ \A t : Upto(tl, t) \in SUBSET (1 .. n)
  BY DEF Inside, Upto, n
<1>2. k \in 0 .. n /\ \A t : Applied(tl, t) = Cardinality(Upto(tl, t)) /\ Applied(tl, t) \in 0 .. n
  BY <1>0, <1>1, PositionsCounted DEF Applied, Upto
<1>3. Applied(tl, a) + k <= n
  <2>1. Upto(tl, a) \cap Inside(tl, a, b) = {}
    BY <1>0 DEF Upto, Inside, n
  <2>2. Cardinality(Upto(tl, a) \cup Inside(tl, a, b)) = Cardinality(Upto(tl, a)) + k
    BY <1>0, <1>1, <2>1, PositionsApart
  <2>3. Upto(tl, a) \cup Inside(tl, a, b) \in SUBSET (1 .. n)
    BY <1>1
  <2>4. Cardinality(Upto(tl, a) \cup Inside(tl, a, b)) \in 0 .. n
    BY <1>0, <2>3, PositionsCounted
  <2> QED
    BY <1>0, <1>2, <2>2, <2>4
<1>4. Segments(tl, a, b) = Applied(tl, a) .. (Applied(tl, a) + k)
  BY DEF Segments, Inside
<1>5. ASSUME NEW t \in Int, a <= t, t < b
      PROVE  Applied(tl, t) \in Segments(tl, a, b)
  <2> DEFINE M == {i \in 1 .. n : a < tl.events[i].time /\ tl.events[i].time <= t}
  <2>1. M \in SUBSET Inside(tl, a, b) /\ M \in SUBSET (1 .. n)
    BY <1>0, <1>5 DEF Inside, n
  <2>2. Upto(tl, t) = Upto(tl, a) \cup M /\ Upto(tl, a) \cap M = {}
    BY <1>0, <1>5 DEF Upto, n
  <2> HIDE DEF M
  <2>3. Cardinality(Upto(tl, t)) = Cardinality(Upto(tl, a)) + Cardinality(M)
    BY <1>0, <1>1, <2>1, <2>2, PositionsApart
  <2>4. Cardinality(M) \in 0 .. n
    BY <1>0, <2>1, PositionsCounted
  <2>5. Cardinality(M) <= k
    BY <1>0, <1>1, <2>1, PositionsCounted
  <2> QED
    BY <1>0, <1>2, <1>4, <2>3, <2>4, <2>5
<1> QED
  BY <1>2, <1>3, <1>4, <1>5 DEF n

\* With no event after u and up to t, a window at u touches no segment that the window of
\* the same length at t does not.
LEMMA EarlierWindow ==
    ASSUME NEW tl, Curve(tl), NEW u \in Int, NEW t \in Int, NEW dur \in Nat, u <= t,
           \A i \in 1 .. Len(tl.events) : ~(u < tl.events[i].time /\ tl.events[i].time <= t)
    PROVE  Segments(tl, u, u + dur) \subseteq Segments(tl, t, t + dur)
<1>0. /\ Len(tl.events) \in Nat
      /\ \A i \in 1 .. Len(tl.events) : tl.events[i].time \in Int
      /\ u + dur \in Int /\ t + dur \in Int
  BY DEF Curve
<1>1. Upto(tl, u) = Upto(tl, t)
  BY <1>0 DEF Upto
<1>2. Inside(tl, u, u + dur) \in SUBSET Inside(tl, t, t + dur)
  BY <1>0 DEF Inside
<1>3. Applied(tl, u) = Applied(tl, t)
  BY <1>1 DEF Applied, Upto
<1>4. PICK n \in Nat, x \in Nat, y \in Nat, z \in Nat :
         /\ n = Len(tl.events)
         /\ x = Applied(tl, t)
         /\ y = Cardinality(Inside(tl, u, u + dur))
         /\ z = Cardinality(Inside(tl, t, t + dur))
         /\ Segments(tl, u, u + dur) = x .. (x + y)
         /\ Segments(tl, t, t + dur) = x .. (x + z)
  <2>1. /\ Cardinality(Inside(tl, u, u + dur)) \in 0 .. Len(tl.events)
        /\ Segments(tl, u, u + dur)
             = Applied(tl, u) .. (Applied(tl, u) + Cardinality(Inside(tl, u, u + dur)))
    BY <1>0, SegmentsOfWindow
  <2>2. /\ Applied(tl, t) \in 0 .. Len(tl.events)
        /\ Cardinality(Inside(tl, t, t + dur)) \in 0 .. Len(tl.events)
        /\ Segments(tl, t, t + dur)
             = Applied(tl, t) .. (Applied(tl, t) + Cardinality(Inside(tl, t, t + dur)))
    BY <1>0, SegmentsOfWindow
  <2>3. /\ Applied(tl, t) \in Nat
        /\ Cardinality(Inside(tl, u, u + dur)) \in Nat
        /\ Cardinality(Inside(tl, t, t + dur)) \in Nat
    BY <1>0, <2>1, <2>2
  <2> QED
    BY <1>0, <1>3, <2>1, <2>2, <2>3
<1>5. y <= z
  <2>1. Inside(tl, t, t + dur) \in SUBSET (1 .. n)
    BY <1>4 DEF Inside
  <2> QED
    BY <1>2, <1>4, <2>1, PositionsCounted
<1> QED
  BY <1>4, <1>5

-----------------------------------------------------------------------------
(* rangeMin.                                                               *)

\* best holds the running minimum over the segments first to last of a curve.
RunningMin(best, tl, first, last) ==
    /\ \A j \in first .. last : best[j] \in Amounts
    /\ best[first] = tl.prefix[first]
    /\ \A j \in first + 1 .. last : best[j] = MinCap(best[j - 1], tl.prefix[j])

LEMMA RangeMinIs ==
    ASSUME NEW tl, Curve(tl), NEW a \in Int, NEW b \in Int
    PROVE  \E first \in Nat, last \in Nat : \E best :
              /\ first = Applied(tl, a) /\ first <= last
              /\ Segments(tl, a, b) = first .. last
              /\ \A j \in first .. last : tl.prefix[j] \in Amounts
              /\ RunningMin(best, tl, first, last)
              /\ rangeMin(tl, a, b) = best[last]
<1>1. PICK first \in Nat, last \in Nat, n \in Nat :
         /\ first = Applied(tl, a) /\ n = Len(tl.events)
         /\ first <= last /\ last <= n
         /\ Segments(tl, a, b) = first .. last
  <2>1. /\ Len(tl.events) \in Nat
        /\ Applied(tl, a) \in 0 .. Len(tl.events)
        /\ Cardinality(Inside(tl, a, b)) \in 0 .. Len(tl.events)
        /\ Applied(tl, a) + Cardinality(Inside(tl, a, b)) <= Len(tl.events)
        /\ Segments(tl, a, b) = Applied(tl, a) .. (Applied(tl, a) + Cardinality(Inside(tl, a, b)))
    BY SegmentsOfWindow DEF Curve
  <2>2. PICK x \in Nat, y \in Nat : x = Applied(tl, a) /\ y = Cardinality(Inside(tl, a, b))
    BY <2>1
  <2>3. x + y \in Nat /\ x <= x + y
    OBVIOUS
  <2> QED
    BY <2>1, <2>2, <2>3
<1>2. \A j \in first .. last : tl.prefix[j] \in Amounts
  BY <1>1 DEF Curve
<1>3. Cardinality(first .. last) = last - first + 1
  BY <1>1, FS_Interval
<1> DEFINE Def(f) == f = [j \in first .. last |-> IF j = first THEN tl.prefix[j]
                                                  ELSE MinCap(f[j - 1], tl.prefix[j])]
<1>4. \E f : Def(f)
  <2> DEFINE G == [j \in first + 1 .. last |-> [x \in Amounts |-> MinCap(x, tl.prefix[j])]]
  <2>1. \A j \in first + 1 .. last : \A x \in Amounts :
           G[j][x] = MinCap(x, tl.prefix[j]) /\ G[j][x] \in Amounts
    BY <1>2, MinCapIs
  <2>2. tl.prefix[first] \in Amounts
    BY <1>1, <1>2
  <2> HIDE DEF G
  <2>3. PICK f \in [first .. last -> Amounts] :
           /\ f[first] = tl.prefix[first]
           /\ \A j \in first + 1 .. last : f[j] = G[j][f[j - 1]]
    <3>1. StepsWithin(G, Amounts, first, last)
      BY <2>1 DEF StepsWithin
    <3>2. PICK v \in Amounts : v = tl.prefix[first]
      BY <2>2
    <3>3. first <= last
      BY <1>1
    <3>4. PICK f \in [first .. last -> Amounts] : Follows(f, v, G, first, last)
      BY <3>1, <3>3, RecursionExists
    <3> QED
      BY <3>2, <3>4 DEF Follows
  <2>4. ASSUME NEW j \in first .. last
        PROVE  f[j] = IF j = first THEN tl.prefix[j] ELSE MinCap(f[j - 1], tl.prefix[j])
    <3>1. CASE j = first
      BY <2>3, <3>1
    <3>2. CASE j # first
      <4>1. j \in first + 1 .. last /\ j - 1 \in first .. last
        BY <3>2
      <4>2. f[j - 1] \in Amounts
        BY <2>3, <4>1
      <4> QED
        BY <2>1, <2>3, <3>2, <4>1, <4>2
    <3> QED
      BY <3>1, <3>2
  <2>5. f = [j \in first .. last |-> f[j]]
    BY <2>3
  <2> QED
    BY <2>4, <2>5
<1> DEFINE best == CHOOSE f : Def(f)
<1>5. Def(best)
  <2> HIDE DEF Def
  <2> QED
    BY <1>4
<1>6. rangeMin(tl, a, b) = best[first + Cardinality(first .. last) - 1]
  BY <1>1 DEF rangeMin
<1> HIDE DEF best
<1>7. rangeMin(tl, a, b) = best[last]
  <2>1. first + (last - first + 1) - 1 = last
    OBVIOUS
  <2> QED
    BY <1>3, <1>6, <2>1
<1>8. \A j \in first .. last : best[j] = IF j = first THEN tl.prefix[j]
                                         ELSE MinCap(best[j - 1], tl.prefix[j])
  BY <1>5
<1> HIDE DEF Def
<1>9. best[first] = tl.prefix[first]
  BY <1>1, <1>8
<1>10. ASSUME NEW j \in first + 1 .. last
       PROVE  best[j] = MinCap(best[j - 1], tl.prefix[j])
  <2>1. j \in first .. last /\ j # first
    OBVIOUS
  <2> QED
    BY <1>8, <2>1
<1>11. \A j \in first .. last : best[j] \in Amounts
  <2> DEFINE T == {j \in Nat : best[j] \in Amounts}
  <2>1. first \in T
    BY <1>1, <1>2, <1>9
  <2>2. ASSUME NEW j \in first + 1 .. last, j - 1 \in T
        PROVE  j \in T
    <3>1. j \in Nat /\ tl.prefix[j] \in Amounts
      BY <1>2
    <3> QED
      BY <1>10, <2>2, <3>1, MinCapIs
  <2>3. \A j \in first .. last : j \in T
    <3> HIDE DEF T
    <3> QED
      BY <2>1, <2>2, IntervalInduction
  <2> QED
    BY <2>3
<1>12. RunningMin(best, tl, first, last)
  BY <1>9, <1>10, <1>11 DEF RunningMin
<1> QED
  BY <1>1, <1>2, <1>7, <1>12

Throughout(tl, q, start, end) ==
    \A j \in Segments(tl, start, end) : satisfies(tl.prefix[j], q)

\* Where every segment satisfies a requirement, rangeMin does.
LEMMA RangeMinSatisfies ==
    ASSUME NEW tl, Curve(tl), NEW a \in Int, NEW b \in Int, NEW q, Throughout(tl, q, a, b)
    PROVE  satisfies(rangeMin(tl, a, b), q)
<1>0. PICK first \in Nat, last \in Nat : \E best :
         /\ first <= last
         /\ Segments(tl, a, b) = first .. last
         /\ \A j \in first .. last : tl.prefix[j] \in Amounts
         /\ RunningMin(best, tl, first, last)
         /\ rangeMin(tl, a, b) = best[last]
  BY RangeMinIs
<1>1. PICK best :
         /\ first <= last
         /\ Segments(tl, a, b) = first .. last
         /\ \A j \in first .. last : tl.prefix[j] \in Amounts
         /\ RunningMin(best, tl, first, last)
         /\ rangeMin(tl, a, b) = best[last]
  BY <1>0
<1> DEFINE T == {j \in Nat : j \in first .. last => satisfies(best[j], q)}
<1>2. first \in T
  BY <1>1 DEF RunningMin, Throughout
<1>3. ASSUME NEW j \in first + 1 .. last, j - 1 \in T
      PROVE  j \in T
  <2>1. j \in Nat /\ j \in first .. last /\ j - 1 \in first .. last
    OBVIOUS
  <2>2. /\ satisfies(best[j - 1], q) /\ satisfies(tl.prefix[j], q)
        /\ best[j - 1] \in Amounts /\ tl.prefix[j] \in Amounts
    BY <1>1, <1>3, <2>1 DEF RunningMin, Throughout
  <2>3. best[j] = MinCap(best[j - 1], tl.prefix[j])
    BY <1>1 DEF RunningMin
  <2> QED
    BY <2>1, <2>2, <2>3, MinCapSatisfies
<1>4. \A j \in first .. last : j \in T
  <2> HIDE DEF T
  <2> QED
    BY <1>2, <1>3, IntervalInduction
<1>5. last \in first .. last
  BY <1>1
<1> QED
  BY <1>1, <1>4, <1>5

\* Nothing of d from the segment i to the segment j.
AbsentIn(tl, d, i, j) == \A k \in i .. j : d \notin DOMAIN tl.prefix[k]

\* What the running minimum shows after the segment j is bounded by each segment before it,
\* unless the dimension is absent from the first segment up to that one.
MinBounds(best, tl, d, first, j) ==
    /\ Amount(best[j], d) <= Amount(tl.prefix[j], d)
    /\ d \notin DOMAIN best[j] => AbsentIn(tl, d, first, j)
    /\ \A i \in first .. j : \/ Amount(best[j], d) <= Amount(tl.prefix[i], d)
                             \/ AbsentIn(tl, d, first, i)

LEMMA MinStep ==
    ASSUME NEW best, NEW tl, NEW d, NEW first \in Nat, NEW last \in Nat,
           RunningMin(best, tl, first, last),
           \A j \in first .. last : tl.prefix[j] \in Amounts,
           NEW j \in first + 1 .. last, MinBounds(best, tl, d, first, j - 1)
    PROVE  MinBounds(best, tl, d, first, j)
<1>0. j \in first .. last /\ j - 1 \in first .. last /\ j \in Int /\ first <= j - 1
  OBVIOUS
<1>1. PICK c \in Amounts, o \in Amounts :
         c = best[j - 1] /\ o = tl.prefix[j] /\ best[j] = MinCap(c, o)
  BY <1>0 DEF RunningMin
<1>2. \A e : Amount(c, e) \in Int /\ Amount(o, e) \in Int /\ Amount(MinCap(c, o), e) \in Int
  BY MinCapIs, AmountsAre
<1>3. /\ Amount(c, d) <= Amount(tl.prefix[j - 1], d)
      /\ d \notin DOMAIN c => AbsentIn(tl, d, first, j - 1)
      /\ \A i \in first .. j - 1 : \/ Amount(c, d) <= Amount(tl.prefix[i], d)
                                   \/ AbsentIn(tl, d, first, i)
  BY <1>1 DEF MinBounds
<1>4. \A i \in first .. j - 1 : Amount(tl.prefix[i], d) \in Int
  BY <1>0, AmountsAre
<1>5. CASE d \in DOMAIN c
  <2>1. /\ d \in DOMAIN MinCap(c, o)
        /\ Amount(MinCap(c, o), d) <= Amount(c, d)
        /\ Amount(MinCap(c, o), d) <= Amount(o, d)
    BY <1>5, MinCapIs
  <2>2. ASSUME NEW i \in first .. j
        PROVE  \/ Amount(MinCap(c, o), d) <= Amount(tl.prefix[i], d)
               \/ AbsentIn(tl, d, first, i)
    <3>1. CASE i = j
      BY <1>1, <2>1, <3>1
    <3>2. CASE i # j
      <4>1. i \in first .. j - 1
        BY <3>2
      <4> QED
        BY <1>2, <1>3, <1>4, <2>1, <4>1
    <3> QED
      BY <3>1, <3>2
  <2> QED
    BY <1>1, <2>1, <2>2 DEF MinBounds
<1>6. CASE d \notin DOMAIN c
  <2>1. AbsentIn(tl, d, first, j - 1)
    BY <1>3, <1>6
  <2>2. \A i \in first .. j - 1 : AbsentIn(tl, d, first, i)
    BY <1>0, <2>1 DEF AbsentIn
  <2>3. /\ d \in DOMAIN MinCap(c, o) <=> d \in DOMAIN o
        /\ d \in DOMAIN o => MinCap(c, o)[d] = o[d]
    BY <1>6 DEF MinCap
  <2>4. Amount(MinCap(c, o), d) = Amount(o, d)
    BY <2>3 DEF Amount
  <2>5. d \notin DOMAIN MinCap(c, o) => AbsentIn(tl, d, first, j)
    <3> SUFFICES ASSUME d \notin DOMAIN o, NEW k \in first .. j
                 PROVE  d \notin DOMAIN tl.prefix[k]
      BY <2>3 DEF AbsentIn
    <3>1. k = j \/ k \in first .. j - 1
      OBVIOUS
    <3> QED
      BY <1>1, <2>1, <3>1 DEF AbsentIn
  <2>6. ASSUME NEW i \in first .. j
        PROVE  \/ Amount(MinCap(c, o), d) <= Amount(tl.prefix[i], d)
               \/ AbsentIn(tl, d, first, i)
    <3>1. i = j \/ i \in first .. j - 1
      OBVIOUS
    <3> QED
      BY <1>1, <1>2, <2>2, <2>4, <3>1
  <2> QED
    BY <1>1, <1>2, <2>4, <2>5, <2>6 DEF MinBounds
<1> QED
  BY <1>5, <1>6

\* Where rangeMin satisfies a requirement, the last segment does, and so does every other in
\* each dimension that has not been absent from the first segment up to it.
LEMMA RangeMinHolds ==
    ASSUME NEW tl, Curve(tl), NEW a \in Int, NEW b \in Int, NEW q \in Amounts,
           satisfies(rangeMin(tl, a, b), q), NEW d \in DOMAIN q
    PROVE  \E first \in Nat, last \in Nat :
              /\ first = Applied(tl, a) /\ first <= last
              /\ Segments(tl, a, b) = first .. last
              /\ Amount(tl.prefix[last], d) >= q[d]
              /\ \A j \in first .. last : \/ Amount(tl.prefix[j], d) >= q[d]
                                          \/ AbsentIn(tl, d, first, j)
<1>0. PICK first \in Nat, last \in Nat : \E best :
         /\ first = Applied(tl, a) /\ first <= last
         /\ Segments(tl, a, b) = first .. last
         /\ \A j \in first .. last : tl.prefix[j] \in Amounts
         /\ RunningMin(best, tl, first, last)
         /\ rangeMin(tl, a, b) = best[last]
  BY RangeMinIs
<1>1. PICK best :
         /\ first = Applied(tl, a) /\ first <= last
         /\ Segments(tl, a, b) = first .. last
         /\ \A j \in first .. last : tl.prefix[j] \in Amounts
         /\ RunningMin(best, tl, first, last)
         /\ rangeMin(tl, a, b) = best[last]
  BY <1>0
<1> DEFINE T == {j \in Nat : MinBounds(best, tl, d, first, j)}
<1>2. first \in T
  <2>1. first \in first .. last
    BY <1>1
  <2>2. best[first] = tl.prefix[first] /\ tl.prefix[first] \in Amounts
    BY <1>1, <2>1 DEF RunningMin
  <2>3. Amount(best[first], d) \in Int /\ \A i \in first .. first : i = first
    BY <2>2, AmountsAre
  <2> QED
    BY <2>2, <2>3 DEF MinBounds, AbsentIn
<1>3. ASSUME NEW j \in first + 1 .. last, j - 1 \in T
      PROVE  j \in T
  <2>1. j \in Nat
    OBVIOUS
  <2> QED
    BY <1>1, <1>3, <2>1, MinStep
<1>4. \A j \in first .. last : j \in T
  <2> HIDE DEF T
  <2> QED
    BY <1>2, <1>3, IntervalInduction
<1>5. last \in first .. last /\ MinBounds(best, tl, d, first, last)
  BY <1>1, <1>4
<1>6. PICK x \in Int : x = Amount(best[last], d) /\ x >= q[d] /\ q[d] \in Int
  BY <1>1, <1>5, AmountsAre DEF satisfies, RunningMin
<1>7. ASSUME NEW j \in first .. last, x <= Amount(tl.prefix[j], d)
      PROVE  Amount(tl.prefix[j], d) >= q[d]
  <2>1. Amount(tl.prefix[j], d) \in Int
    BY <1>1, AmountsAre
  <2> QED
    BY <1>6, <1>7, <2>1
<1>8. \A j \in first .. last : x <= Amount(tl.prefix[j], d) \/ AbsentIn(tl, d, first, j)
  BY <1>5, <1>6 DEF MinBounds
<1>9. x <= Amount(tl.prefix[last], d)
  BY <1>5, <1>6 DEF MinBounds
<1>10. /\ Amount(tl.prefix[last], d) >= q[d]
       /\ \A j \in first .. last : \/ Amount(tl.prefix[j], d) >= q[d]
                                   \/ AbsentIn(tl, d, first, j)
  BY <1>5, <1>7, <1>8, <1>9
<1> QED
  BY <1>1, <1>10

-----------------------------------------------------------------------------
(* The earliest fit.                                                       *)

LEMMA IntMinimum ==
    ASSUME NEW S \in SUBSET Int, S # {}, NEW from \in Int, \A t \in S : from <= t
    PROVE  \E t \in S : \A u \in S : t <= u
<1> DEFINE B == {n \in Nat : from + n \in S}
<1>1. B \in SUBSET Nat /\ B # {}
  <2>1. PICK t \in S : TRUE
    OBVIOUS
  <2>2. t - from \in Nat /\ from + (t - from) = t
    BY <2>1
  <2> QED
    BY <2>2
<1>2. PICK n \in B : \A m \in B : n <= m
  <2> HIDE DEF B
  <2> QED
    BY <1>1, NatMinimum
<1>3. ASSUME NEW u \in S
      PROVE  from + n <= u
  <2>1. u - from \in Nat /\ from + (u - from) = u
    OBVIOUS
  <2>2. n <= u - from
    BY <1>2, <2>1
  <2> QED
    BY <1>2, <2>1, <2>2
<1> QED
  BY <1>2, <1>3

\* The last of the requested start and the event times that is not after t.
LEMMA LatestStart ==
    ASSUME NEW tl, Curve(tl), NEW from \in Int, NEW t \in Int, from <= t
    PROVE  \E u \in {from} \cup {tl.events[i].time : i \in 1 .. Len(tl.events)} :
              /\ u \in Int /\ from <= u /\ u <= t
              /\ \A i \in 1 .. Len(tl.events) : ~(u < tl.events[i].time /\ tl.events[i].time <= t)
<1> DEFINE C == {from} \cup {tl.events[i].time : i \in 1 .. Len(tl.events)}
           B == {n \in Nat : t - n \in C /\ from <= t - n}
<1>0. \A i \in 1 .. Len(tl.events) : tl.events[i].time \in Int /\ tl.events[i].time \in C
  BY DEF Curve
<1>1. B \in SUBSET Nat /\ B # {}
  <2>1. t - from \in Nat /\ t - (t - from) = from
    OBVIOUS
  <2> QED
    BY <2>1
<1>2. PICK n \in B : \A m \in B : n <= m
  <2> HIDE DEF B
  <2> QED
    BY <1>1, NatMinimum
<1>3. n \in Nat /\ t - n \in C /\ from <= t - n /\ t - n \in Int /\ t - n <= t
  BY <1>2
<1>4. ASSUME NEW i \in 1 .. Len(tl.events), t - n < tl.events[i].time, tl.events[i].time <= t
      PROVE  FALSE
  <2>1. PICK e \in Int : e = tl.events[i].time /\ e \in C
    BY <1>0
  <2> HIDE DEF C
  <2>2. t - e \in Nat /\ t - (t - e) = e /\ from <= e /\ t - e < n
    BY <1>3, <1>4, <2>1
  <2>3. t - e \in B
    BY <2>1, <2>2
  <2>4. n <= t - e
    BY <1>2, <2>3
  <2> QED
    BY <1>3, <2>2, <2>4
<1> QED
  BY <1>3, <1>4

\* FirstFit returns the least of the starts at which the requirement is satisfied, if
\* there is one.
LEMMA FirstFitIs ==
    ASSUME NEW tl, NEW q, NEW dur, NEW from \in Int,
           NEW S \in SUBSET Int, \A t \in S : from <= t
    PROVE  \/ /\ FirstFit(tl, q, dur, S) = NoFit
              /\ \A t \in S : ~satisfies(rangeMin(tl, t, t + dur), q)
           \/ \E t \in S :
                 /\ FirstFit(tl, q, dur, S) = FitAt(tl, t, dur)
                 /\ satisfies(rangeMin(tl, t, t + dur), q)
                 /\ \A u \in S : satisfies(rangeMin(tl, u, u + dur), q) => t <= u
<1> DEFINE fits == {t \in S : satisfies(rangeMin(tl, t, t + dur), q)}
           least == CHOOSE t \in fits : \A u \in fits : t <= u
<1>1. FirstFit(tl, q, dur, S) = IF fits = {} THEN NoFit ELSE FitAt(tl, least, dur)
  BY DEF FirstFit
<1>2. CASE fits = {}
  BY <1>1, <1>2
<1>3. CASE fits # {}
  <2>1. fits \in SUBSET Int /\ \A t \in fits : from <= t
    OBVIOUS
  <2>2. least \in fits /\ \A u \in fits : least <= u
    <3> HIDE DEF fits
    <3>1. \E t \in fits : \A u \in fits : t <= u
      BY <1>3, <2>1, IntMinimum
    <3> QED
      BY <3>1
  <2> HIDE DEF least
  <2> QED
    BY <1>1, <1>3, <2>2
<1> QED
  BY <1>2, <1>3

LEMMA CandidatesAre ==
    ASSUME NEW tl, Curve(tl), NEW from \in Int, NEW horizon \in Int, NEW dur \in Nat
    PROVE  /\ candidateStarts(tl, from, horizon, dur) \in SUBSET Int
           /\ \A t \in candidateStarts(tl, from, horizon, dur) : from <= t
           /\ from + dur <= horizon =>
                 \A t \in candidateStarts(tl, from, horizon, dur) : t <= horizon - dur
BY DEF candidateStarts, Curve

\* A start that would do is never missed: the search returns that one or an earlier.
LEMMA FitIsNotLate ==
    ASSUME NEW tl, Curve(tl), NEW q, NEW from \in Int, NEW dur \in Nat, NEW horizon \in Int,
           from < horizon, NEW t \in Int, from <= t, t <= horizon - dur,
           Throughout(tl, q, t, t + dur)
    PROVE  \E u \in candidateStarts(tl, from, horizon, dur) :
              /\ u \in Int /\ u <= t
              /\ earliestFit(tl, q, from, dur, horizon) = FitAt(tl, u, dur)
              /\ satisfies(rangeMin(tl, u, u + dur), q)
<1> DEFINE C == candidateStarts(tl, from, horizon, dur)
<1>0. t + dur \in Int /\ ~(dur < 0 \/ horizon <= from)
  OBVIOUS
<1>1. PICK v \in {from} \cup {tl.events[i].time : i \in 1 .. Len(tl.events)} :
         /\ v \in Int /\ from <= v /\ v <= t
         /\ \A i \in 1 .. Len(tl.events) : ~(v < tl.events[i].time /\ tl.events[i].time <= t)
  BY LatestStart
<1>2. v \in C /\ v \in Int /\ v + dur \in Int
  <2>1. v <= horizon - dur
    BY <1>1
  <2> QED
    BY <1>1, <2>1 DEF candidateStarts
<1>3. satisfies(rangeMin(tl, v, v + dur), q)
  <2>1. Segments(tl, v, v + dur) \subseteq Segments(tl, t, t + dur)
    BY <1>1, EarlierWindow
  <2>2. Throughout(tl, q, v, v + dur)
    BY <2>1 DEF Throughout
  <2> QED
    BY <1>2, <2>2, RangeMinSatisfies
<1>4. C \in SUBSET Int /\ \A u \in C : from <= u
  BY CandidatesAre
<1>5. earliestFit(tl, q, from, dur, horizon) = FirstFit(tl, q, dur, C)
  BY <1>0 DEF earliestFit
<1> HIDE DEF C
<1>6. PICK u \in C :
         /\ FirstFit(tl, q, dur, C) = FitAt(tl, u, dur)
         /\ satisfies(rangeMin(tl, u, u + dur), q)
         /\ \A w \in C : satisfies(rangeMin(tl, w, w + dur), q) => u <= w
  BY <1>2, <1>3, <1>4, FirstFitIs
<1>7. u \in Int /\ u <= v
  BY <1>2, <1>3, <1>4, <1>6
<1>8. u <= t
  BY <1>1, <1>7
<1> QED
  BY <1>5, <1>6, <1>7, <1>8 DEF C


\* What the search returns is a start at which the range minimum satisfies.
LEMMA FitSatisfies ==
    ASSUME NEW tl, Curve(tl), NEW q, NEW from \in Int, NEW dur \in Nat, NEW horizon \in Int,
           earliestFit(tl, q, from, dur, horizon).found
    PROVE  \E u \in Int : /\ earliestFit(tl, q, from, dur, horizon) = FitAt(tl, u, dur)
                          /\ satisfies(rangeMin(tl, u, u + dur), q)
<1> DEFINE C == candidateStarts(tl, from, horizon, dur)
<1>1. NoFit.found = FALSE
  BY DEF NoFit
<1>2. earliestFit(tl, q, from, dur, horizon) = FirstFit(tl, q, dur, C)
  BY <1>1 DEF earliestFit
<1>3. C \in SUBSET Int /\ \A u \in C : from <= u
  BY CandidatesAre
<1> HIDE DEF C
<1>4. PICK u \in C : /\ FirstFit(tl, q, dur, C) = FitAt(tl, u, dur)
                     /\ satisfies(rangeMin(tl, u, u + dur), q)
  BY <1>1, <1>2, <1>3, FirstFitIs
<1> QED
  BY <1>2, <1>3, <1>4

\* The last segment a window touches is the one of its last instant.
LEMMA LastInstant ==
    ASSUME NEW tl, Curve(tl), NEW a \in Int, NEW b \in Int, a < b
    PROVE  Applied(tl, b - 1) = Applied(tl, a) + Cardinality(Inside(tl, a, b))
<1>0. Len(tl.events) \in Nat /\ \A i \in 1 .. Len(tl.events) : tl.events[i].time \in Int
  BY DEF Curve
<1>1. /\ Upto(tl, b - 1) = Upto(tl, a) \cup Inside(tl, a, b)
      /\ Upto(tl, a) \cap Inside(tl, a, b) = {}
      /\ Upto(tl, a) \in SUBSET (1 .. Len(tl.events))
      /\ Inside(tl, a, b) \in SUBSET (1 .. Len(tl.events))
  BY <1>0 DEF Upto, Inside
<1>2. Cardinality(Upto(tl, b - 1)) = Cardinality(Upto(tl, a)) + Cardinality(Inside(tl, a, b))
  BY <1>0, <1>1, PositionsApart
<1> QED
  BY <1>2 DEF Applied, Upto

\* ... and the requirement holds at the last instant of the window, and at each one in every
\* dimension that has not been absent from the start up to it.
LEMMA FitHoldsInWindow ==
    ASSUME NEW tl, Curve(tl), NEW q \in Amounts, NEW u \in Int, NEW dur \in Nat, dur >= 1,
           satisfies(rangeMin(tl, u, u + dur), q), NEW d \in DOMAIN q
    PROVE  /\ Amount(capacityAt(tl, u + dur - 1), d) >= q[d]
           /\ \A t \in u .. (u + dur - 1) :
                 \/ Amount(capacityAt(tl, t), d) >= q[d]
                 \/ \A v \in u .. t : d \notin DOMAIN capacityAt(tl, v)
<1>0. u + dur \in Int /\ u < u + dur /\ (u + dur) - 1 = u + dur - 1
  OBVIOUS
<1>1. PICK first \in Nat, last \in Nat :
         /\ first = Applied(tl, u) /\ first <= last
         /\ Segments(tl, u, u + dur) = first .. last
         /\ Amount(tl.prefix[last], d) >= q[d]
         /\ \A j \in first .. last : \/ Amount(tl.prefix[j], d) >= q[d]
                                     \/ AbsentIn(tl, d, first, j)
  BY <1>0, RangeMinHolds
<1>2. Amount(capacityAt(tl, u + dur - 1), d) >= q[d]
  <2>1. PICK k : k = Cardinality(Inside(tl, u, u + dur))
    OBVIOUS
  <2>2. /\ k \in 0 .. Len(tl.events) /\ Len(tl.events) \in Nat
        /\ Segments(tl, u, u + dur) = first .. (first + k)
    BY <1>0, <1>1, <2>1, SegmentsOfWindow DEF Curve
  <2>3. k \in Nat /\ first + k \in first .. last /\ last \in first .. (first + k)
    BY <1>1, <2>2
  <2>4. last = first + k
    BY <2>3
  <2>5. Applied(tl, u + dur - 1) = last
    BY <1>0, <1>1, <2>1, <2>4, LastInstant
  <2> QED
    BY <1>1, <2>5 DEF capacityAt
<1>3. ASSUME NEW t \in u .. (u + dur - 1)
      PROVE  \/ Amount(capacityAt(tl, t), d) >= q[d]
             \/ \A v \in u .. t : d \notin DOMAIN capacityAt(tl, v)
  <2>1. t \in Int /\ u <= t /\ t < u + dur
    OBVIOUS
  <2>2. Applied(tl, t) \in first .. last
    BY <1>0, <1>1, <2>1, SegmentsOfWindow
  <2>3. ASSUME AbsentIn(tl, d, first, Applied(tl, t)), NEW v \in u .. t
        PROVE  d \notin DOMAIN capacityAt(tl, v)
    <3>1. v \in Int /\ u <= v /\ v < u + dur /\ v <= t /\ t < t + 1 /\ t + 1 \in Int
      BY <2>1
    <3>2. Applied(tl, v) \in first .. last
      BY <1>0, <1>1, <3>1, SegmentsOfWindow
    <3>3. Applied(tl, t) \in Segments(tl, v, t + 1)
      BY <2>1, <3>1, SegmentsOfWindow
    <3>4. /\ Segments(tl, v, t + 1) = Applied(tl, v) .. (Applied(tl, v) + Cardinality(Inside(tl, v, t + 1)))
          /\ Cardinality(Inside(tl, v, t + 1)) \in 0 .. Len(tl.events) /\ Len(tl.events) \in Nat
      BY <3>1, SegmentsOfWindow DEF Curve
    <3>5. Applied(tl, v) <= Applied(tl, t)
      BY <2>2, <3>2, <3>3, <3>4
    <3>6. Applied(tl, v) \in first .. Applied(tl, t)
      BY <2>2, <3>2, <3>5
    <3> QED
      BY <2>3, <3>6 DEF AbsentIn, capacityAt
  <2> QED
    BY <1>1, <2>2, <2>3 DEF capacityAt
<1> QED
  BY <1>2, <1>3

\* The search over the few starts and the one over all of them return the same, unless
\* what the second returns does not hold throughout its window.
LEMMA FitMatchesReference ==
    ASSUME NEW tl, Curve(tl), NEW q, NEW from \in Int, NEW dur \in Nat, NEW horizon \in Int,
           from + dur <= horizon
    PROVE  LET ref == slowReferenceEarliestFit(tl, q, from, dur, horizon)
           IN  \/ earliestFit(tl, q, from, dur, horizon) = ref
               \/ ref.found /\ ~Throughout(tl, q, ref.start, ref.end)
<1> DEFINE C == candidateStarts(tl, from, horizon, dur)
           R == from .. (horizon - dur)
           fit == earliestFit(tl, q, from, dur, horizon)
           ref == slowReferenceEarliestFit(tl, q, from, dur, horizon)
<1>1. CASE horizon <= from
  BY <1>1 DEF earliestFit, slowReferenceEarliestFit
<1>2. CASE from < horizon
  <2>0. ~(dur < 0 \/ horizon <= from)
    BY <1>2
  <2>1. fit = FirstFit(tl, q, dur, C) /\ ref = FirstFit(tl, q, dur, R)
    BY <2>0 DEF earliestFit, slowReferenceEarliestFit
  <2>2. C \in SUBSET Int /\ C \subseteq R /\ \A t \in C : from <= t
    BY CandidatesAre
  <2>3. R \in SUBSET Int /\ \A t \in R : from <= t /\ t <= horizon - dur
    OBVIOUS
  <2> HIDE DEF C, R, fit, ref
  <2>4. CASE /\ FirstFit(tl, q, dur, R) = NoFit
             /\ \A t \in R : ~satisfies(rangeMin(tl, t, t + dur), q)
    <3>1. \A t \in C : ~satisfies(rangeMin(tl, t, t + dur), q)
      BY <2>2, <2>4
    <3>2. FirstFit(tl, q, dur, C) = NoFit
      BY <2>2, <3>1, FirstFitIs
    <3> QED
      BY <2>1, <2>4, <3>2 DEF fit, ref
  <2>5. ASSUME NEW t \in R,
               FirstFit(tl, q, dur, R) = FitAt(tl, t, dur),
               \A u \in R : satisfies(rangeMin(tl, u, u + dur), q) => t <= u
        PROVE  fit = ref \/ (ref.found /\ ~Throughout(tl, q, ref.start, ref.end))
    <3>1. ref.found /\ ref.start = t /\ ref.end = t + dur
      BY <2>1, <2>5 DEF FitAt
    <3>2. SUFFICES ASSUME Throughout(tl, q, t, t + dur)
                   PROVE  fit = ref
      BY <3>1
    <3>3. PICK u \in C : /\ u \in Int /\ u <= t /\ fit = FitAt(tl, u, dur)
                         /\ satisfies(rangeMin(tl, u, u + dur), q)
      BY <1>2, <2>3, <3>2, FitIsNotLate DEF C, fit
    <3>4. t <= u /\ t \in Int
      BY <2>2, <2>3, <2>5, <3>3
    <3>5. u = t
      BY <3>3, <3>4
    <3> QED
      BY <2>1, <2>5, <3>3, <3>5
  <2>6. \/ /\ FirstFit(tl, q, dur, R) = NoFit
           /\ \A t \in R : ~satisfies(rangeMin(tl, t, t + dur), q)
        \/ \E t \in R :
              /\ FirstFit(tl, q, dur, R) = FitAt(tl, t, dur)
              /\ satisfies(rangeMin(tl, t, t + dur), q)
              /\ \A u \in R : satisfies(rangeMin(tl, u, u + dur), q) => t <= u
    BY <2>3, FirstFitIs
  <2> QED
    BY <2>4, <2>5, <2>6 DEF fit, ref
<1> QED
  BY <1>1, <1>2


-----------------------------------------------------------------------------
(* The timeline that is built is a curve.                                  *)

TimedDelta == [time : Int, delta : Amounts]

LEMMA ApplyDeltaIs ==
    ASSUME NEW c \in Amounts, NEW delta \in Amounts
    PROVE  applyDelta(c, delta) \in Amounts
<1> DEFINE next(d) == NonNegative(Amount(c, d) + delta[d])
           D == (DOMAIN c \ DOMAIN delta) \cup {e \in DOMAIN delta : next(e) > 0}
           value(d) == IF d \in DOMAIN delta THEN next(d) ELSE c[d]
<1>1. /\ DOMAIN c \in SUBSET Dimensions /\ DOMAIN delta \in SUBSET Dimensions
      /\ \A d \in DOMAIN c : c[d] \in Int
      /\ \A d \in DOMAIN delta : delta[d] \in Int
      /\ \A d : Amount(c, d) \in Int
  BY AmountsAre
<1>2. applyDelta(c, delta) = [d \in D |-> value(d)]
  BY DEF applyDelta
<1>3. \A d \in DOMAIN delta : next(d) \in Int
  BY <1>1 DEF NonNegative
<1>4. D \in SUBSET Dimensions
  BY <1>1
<1>5. \A d \in D : value(d) \in Int
  BY <1>1, <1>3
<1> HIDE DEF D, value
<1>6. applyDelta(c, delta) \in [D -> Int]
  BY <1>2, <1>5
<1> QED
  BY <1>4, <1>6, AmountsIntro

LEMMA NegateIs ==
    ASSUME NEW delta \in Amounts
    PROVE  negate(delta) \in Amounts
<1>1. DOMAIN delta \in SUBSET Dimensions /\ \A d \in DOMAIN delta : delta[d] \in Int
  BY AmountsAre
<1>2. negate(delta) \in [DOMAIN delta -> Int]
  BY <1>1 DEF negate
<1> QED
  BY <1>1, <1>2, AmountsIntro

\* p is the running capacity over the events r.
Prefixes(p, base, r, n) ==
    /\ p[0] = base
    /\ \A i \in 1 .. n : p[i] = applyDelta(p[i - 1], r[i].delta)
    /\ \A i \in 0 .. n : p[i] \in Amounts

\* freeze sorts the events and records the running capacity.
LEMMA FreezeIs ==
    ASSUME NEW base \in Amounts, NEW events \in Seq(TimedDelta), NEW n \in Nat, n = Len(events)
    PROVE  /\ Len(Sort(events)) = n
           /\ \A k \in 1 .. n : Sort(events)[k] \in TimedDelta
           /\ \E p : /\ freeze(base, events) = [events |-> Sort(events), prefix |-> p]
                     /\ Prefixes(p, base, Sort(events), n)
<1> DEFINE sorted == Sort(events)
           Def(f) == f = [i \in 0 .. n |-> IF i = 0 THEN base
                                           ELSE applyDelta(f[i - 1], sorted[i].delta)]
           prefix == CHOOSE f : Def(f)
<1>2. freeze(base, events) = [events |-> sorted, prefix |-> prefix]
  BY DEF freeze
<1>3. Len(sorted) = n /\ \A k \in 1 .. n : sorted[k] \in TimedDelta
  <2>1. \A i \in 1 .. n : events[i] \in TimedDelta
    OBVIOUS
  <2>2. \A i \in 1 .. n : events[i].time \in Int
    BY <2>1 DEF TimedDelta
  <2>3. Len(sorted) = n /\ \A k \in 1 .. n : \E i \in 1 .. n : sorted[k] = events[i]
    BY <2>2, SortRearranges
  <2> QED
    BY <2>1, <2>3
<1> HIDE DEF sorted
<1>d. \A k \in 1 .. n : sorted[k].delta \in Amounts
  BY <1>3 DEF TimedDelta
<1>4. \E f : Def(f)
  <2> DEFINE G == [i \in 0 + 1 .. n |-> [x \in Amounts |-> applyDelta(x, sorted[i].delta)]]
  <2>0. 0 + 1 = 1 /\ 0 <= n /\ 0 \in Nat
    OBVIOUS
  <2>1. \A i \in 1 .. n : \A x \in Amounts :
           G[i][x] = applyDelta(x, sorted[i].delta) /\ G[i][x] \in Amounts
    BY <1>d, ApplyDeltaIs
  <2> HIDE DEF G
  <2>2. StepsWithin(G, Amounts, 0, n)
    BY <2>1 DEF StepsWithin
  <2>3. PICK f \in [0 .. n -> Amounts] : Follows(f, base, G, 0, n)
    BY <2>0, <2>2, RecursionExists
  <2>4. ASSUME NEW i \in 0 .. n
        PROVE  f[i] = IF i = 0 THEN base ELSE applyDelta(f[i - 1], sorted[i].delta)
    <3>1. CASE i = 0
      BY <2>3, <3>1 DEF Follows
    <3>2. CASE i # 0
      <4>1. i \in 1 .. n /\ i \in 0 + 1 .. n /\ i - 1 \in 0 .. n
        BY <3>2
      <4>2. f[i - 1] \in Amounts /\ f[i] = G[i][f[i - 1]]
        BY <2>3, <4>1 DEF Follows
      <4> QED
        BY <2>1, <3>2, <4>1, <4>2
    <3> QED
      BY <3>1, <3>2
  <2>5. f = [i \in 0 .. n |-> f[i]]
    BY <2>3
  <2> QED
    BY <2>4, <2>5
<1>5. Def(prefix)
  <2> HIDE DEF Def
  <2> QED
    BY <1>4
<1> HIDE DEF prefix
<1>6. \A i \in 0 .. n : prefix[i] = IF i = 0 THEN base
                                    ELSE applyDelta(prefix[i - 1], sorted[i].delta)
  BY <1>5
<1> HIDE DEF Def
<1> DEFINE T == {i \in Nat : prefix[i] \in Amounts}
<1>7. 0 \in T
  <2>1. 0 \in 0 .. n
    OBVIOUS
  <2>2. prefix[0] = base
    BY <1>6, <2>1
  <2> QED
    BY <2>2
<1>8. ASSUME NEW i \in 0 + 1 .. n, i - 1 \in T
      PROVE  i \in T
  <2>1. i \in 0 .. n /\ i # 0 /\ i \in 1 .. n /\ i \in Nat
    OBVIOUS
  <2>2. prefix[i] = applyDelta(prefix[i - 1], sorted[i].delta)
    BY <1>6, <2>1
  <2> QED
    BY <1>d, <1>8, <2>1, <2>2, ApplyDeltaIs
<1>9. \A i \in 0 .. n : prefix[i] \in Amounts
  <2>1. \A i \in 0 .. n : i \in T
    <3> HIDE DEF T
    <3> QED
      BY <1>7, <1>8, IntervalInduction
  <2> QED
    BY <2>1
<1>10. Prefixes(prefix, base, sorted, n)
  <2>1. 0 \in 0 .. n
    OBVIOUS
  <2>2. prefix[0] = base
    BY <1>6, <2>1
  <2>3. ASSUME NEW i \in 1 .. n
        PROVE  prefix[i] = applyDelta(prefix[i - 1], sorted[i].delta)
    <3>1. i \in 0 .. n /\ i # 0
      OBVIOUS
    <3> QED
      BY <1>6, <3>1
  <2> QED
    BY <1>9, <2>2, <2>3 DEF Prefixes
<1> QED
  BY <1>2, <1>3, <1>10 DEF sorted

\* freeze turns any vector of events into a curve.
LEMMA FreezeIsCurve ==
    ASSUME NEW base \in Amounts, NEW events \in Seq(TimedDelta)
    PROVE  Curve(freeze(base, events))
<1>1. PICK n \in Nat : n = Len(events)
  OBVIOUS
<1> DEFINE sorted == Sort(events)
<1>2. Len(sorted) = n /\ \A k \in 1 .. n : sorted[k] \in TimedDelta
  BY <1>1, FreezeIs
<1>3. PICK p : /\ freeze(base, events) = [events |-> sorted, prefix |-> p]
               /\ Prefixes(p, base, sorted, n)
  BY <1>1, FreezeIs
<1> HIDE DEF sorted
<1>4. \A k \in 1 .. n : sorted[k].time \in Int
  BY <1>2 DEF TimedDelta
<1> QED
  BY <1>2, <1>3, <1>4 DEF Curve, Prefixes

\* A reservation and a release at integer times.
TimedHold(r) == r.interval.start \in Int /\ r.interval.end \in Int /\ r.hold \in Amounts

TimedRelease(e) ==
    e.at.time \in Int /\ e.at.earliest \in Int /\ e.at.latest \in Int /\ e.release \in Amounts

LEMMA AddReservationIs ==
    ASSUME NEW events \in Seq(TimedDelta), NEW r, TimedHold(r)
    PROVE  addReservation(events, r) \in Seq(TimedDelta)
<1> DEFINE x == [time |-> r.interval.start, delta |-> negate(r.hold)]
           y == [time |-> r.interval.end, delta |-> r.hold]
<1>1. negate(r.hold) \in Amounts
  BY NegateIs DEF TimedHold
<1>2. x \in TimedDelta /\ y \in TimedDelta
  BY <1>1 DEF TimedHold, TimedDelta
<1>3. addReservation(events, r) = events \o <<x, y>>
  BY DEF addReservation
<1> HIDE DEF x, y
<1>4. <<x, y>> \in Seq(TimedDelta)
  BY <1>2
<1> QED
  BY <1>3, <1>4

LEMMA AddReleaseIs ==
    ASSUME NEW events \in Seq(TimedDelta), NEW e, TimedRelease(e), NEW mode
    PROVE  addRelease(events, e, mode) \in Seq(TimedDelta)
<1>1. releaseTime(e, mode) \in Int
  BY DEF TimedRelease, releaseTime
<1> DEFINE x == [time |-> releaseTime(e, mode), delta |-> e.release]
<1>2. x \in TimedDelta
  BY <1>1 DEF TimedRelease, TimedDelta
<1>3. addRelease(events, e, mode) = Append(events, x)
  BY DEF addRelease
<1> HIDE DEF x
<1> QED
  BY <1>2, <1>3


\* buildTimeline's two vectors: the events of the counted reservations, in their order,
\* and those followed by the events of the releases.
HeldEvents(rsv, mode, n) ==
    CHOOSE f : f = [i \in 0 .. n |->
        IF i = 0 THEN <<>>
        ELSE IF Counted(rsv[i], mode) THEN addReservation(f[i - 1], rsv[i])
        ELSE f[i - 1]]

AllEvents(first, rel, mode, m) ==
    CHOOSE f : f = [i \in 0 .. m |->
        IF i = 0 THEN first ELSE addRelease(f[i - 1], rel[i], mode)]

HeldSteps(held, rsv, mode, n) ==
    /\ held[0] = <<>>
    /\ \A i \in 1 .. n : held[i] = IF Counted(rsv[i], mode) THEN addReservation(held[i - 1], rsv[i])
                                   ELSE held[i - 1]
    /\ \A i \in 0 .. n : held[i] \in Seq(TimedDelta)

AllSteps(all, first, rel, mode, m) ==
    /\ all[0] = first
    /\ \A i \in 1 .. m : all[i] = addRelease(all[i - 1], rel[i], mode)
    /\ \A i \in 0 .. m : all[i] \in Seq(TimedDelta)

LEMMA HeldEventsAre ==
    ASSUME NEW rsv, NEW mode, NEW n \in Nat, \A i \in 1 .. n : TimedHold(rsv[i])
    PROVE  HeldSteps(HeldEvents(rsv, mode, n), rsv, mode, n)
<1> DEFINE held == HeldEvents(rsv, mode, n)
           S == Seq(TimedDelta)
           step(x, i) == IF Counted(rsv[i], mode) THEN addReservation(x, rsv[i]) ELSE x
           Def(f) == f = [i \in 0 .. n |-> IF i = 0 THEN <<>> ELSE step(f[i - 1], i)]
<1>1. <<>> \in S
  OBVIOUS
<1>2. \A i \in 1 .. n : \A x \in S : step(x, i) \in S
  BY AddReservationIs
<1>3. held = CHOOSE f : Def(f)
  BY DEF HeldEvents
<1> HIDE DEF S, step, held
<1>4. \E f : Def(f)
  <2> DEFINE G == [i \in 0 + 1 .. n |-> [x \in S |-> step(x, i)]]
  <2>0. 0 + 1 = 1 /\ 0 <= n /\ 0 \in Nat
    OBVIOUS
  <2>1. \A i \in 1 .. n : \A x \in S : G[i][x] = step(x, i) /\ G[i][x] \in S
    BY <1>2
  <2> HIDE DEF G
  <2>2. StepsWithin(G, S, 0, n)
    BY <2>1 DEF StepsWithin
  <2>3. PICK f \in [0 .. n -> S] : Follows(f, <<>>, G, 0, n)
    BY <1>1, <2>0, <2>2, RecursionExists
  <2>4. ASSUME NEW i \in 0 .. n
        PROVE  f[i] = IF i = 0 THEN <<>> ELSE step(f[i - 1], i)
    <3>1. CASE i = 0
      BY <2>3, <3>1 DEF Follows
    <3>2. CASE i # 0
      <4>1. i \in 1 .. n /\ i \in 0 + 1 .. n /\ i - 1 \in 0 .. n
        BY <3>2
      <4>2. f[i - 1] \in S /\ f[i] = G[i][f[i - 1]]
        BY <2>3, <4>1 DEF Follows
      <4> QED
        BY <2>1, <3>2, <4>1, <4>2
    <3> QED
      BY <3>1, <3>2
  <2>5. f = [i \in 0 .. n |-> f[i]]
    BY <2>3
  <2> QED
    BY <2>4, <2>5
<1>5. Def(held)
  <2> HIDE DEF Def
  <2> QED
    BY <1>3, <1>4
<1>6. \A i \in 0 .. n : held[i] = IF i = 0 THEN <<>> ELSE step(held[i - 1], i)
  BY <1>5
<1> HIDE DEF Def
<1> DEFINE T == {i \in Nat : held[i] \in S}
<1>7. 0 \in T
  <2>1. 0 \in 0 .. n
    OBVIOUS
  <2>2. held[0] = <<>>
    BY <1>6, <2>1
  <2> QED
    BY <1>1, <2>2
<1>8. ASSUME NEW i \in 0 + 1 .. n, i - 1 \in T
      PROVE  i \in T
  <2>1. i \in 0 .. n /\ i # 0 /\ i \in 1 .. n /\ i \in Nat
    OBVIOUS
  <2>2. held[i] = step(held[i - 1], i)
    BY <1>6, <2>1
  <2> QED
    BY <1>2, <1>8, <2>1, <2>2
<1>9. \A i \in 0 .. n : i \in T
  <2> HIDE DEF T
  <2> QED
    BY <1>7, <1>8, IntervalInduction
<1>10. held[0] = <<>>
  <2>1. 0 \in 0 .. n
    OBVIOUS
  <2> QED
    BY <1>6, <2>1
<1>11. ASSUME NEW i \in 1 .. n
       PROVE  held[i] = step(held[i - 1], i)
  <2>1. i \in 0 .. n /\ i # 0
    OBVIOUS
  <2> QED
    BY <1>6, <2>1
<1> QED
  BY <1>9, <1>10, <1>11 DEF S, held, step, HeldSteps

LEMMA AllEventsAre ==
    ASSUME NEW first \in Seq(TimedDelta), NEW rel, NEW mode,
           NEW m \in Nat, \A i \in 1 .. m : TimedRelease(rel[i])
    PROVE  AllSteps(AllEvents(first, rel, mode, m), first, rel, mode, m)
<1> DEFINE all == AllEvents(first, rel, mode, m)
           S == Seq(TimedDelta)
           step(x, i) == addRelease(x, rel[i], mode)
           Def(f) == f = [i \in 0 .. m |-> IF i = 0 THEN first ELSE step(f[i - 1], i)]
<1>1. first \in S
  OBVIOUS
<1>2. \A i \in 1 .. m : \A x \in S : step(x, i) \in S
  BY AddReleaseIs
<1>3. all = CHOOSE f : Def(f)
  BY DEF AllEvents
<1> HIDE DEF S, step, all
<1>4. \E f : Def(f)
  <2> DEFINE G == [i \in 0 + 1 .. m |-> [x \in S |-> step(x, i)]]
  <2>0. 0 + 1 = 1 /\ 0 <= m /\ 0 \in Nat
    OBVIOUS
  <2>1. \A i \in 1 .. m : \A x \in S : G[i][x] = step(x, i) /\ G[i][x] \in S
    BY <1>2
  <2> HIDE DEF G
  <2>2. StepsWithin(G, S, 0, m)
    BY <2>1 DEF StepsWithin
  <2>3. PICK f \in [0 .. m -> S] : Follows(f, first, G, 0, m)
    BY <1>1, <2>0, <2>2, RecursionExists
  <2>4. ASSUME NEW i \in 0 .. m
        PROVE  f[i] = IF i = 0 THEN first ELSE step(f[i - 1], i)
    <3>1. CASE i = 0
      BY <2>3, <3>1 DEF Follows
    <3>2. CASE i # 0
      <4>1. i \in 1 .. m /\ i \in 0 + 1 .. m /\ i - 1 \in 0 .. m
        BY <3>2
      <4>2. f[i - 1] \in S /\ f[i] = G[i][f[i - 1]]
        BY <2>3, <4>1 DEF Follows
      <4> QED
        BY <2>1, <3>2, <4>1, <4>2
    <3> QED
      BY <3>1, <3>2
  <2>5. f = [i \in 0 .. m |-> f[i]]
    BY <2>3
  <2> QED
    BY <2>4, <2>5
<1>5. Def(all)
  <2> HIDE DEF Def
  <2> QED
    BY <1>3, <1>4
<1>6. \A i \in 0 .. m : all[i] = IF i = 0 THEN first ELSE step(all[i - 1], i)
  BY <1>5
<1> HIDE DEF Def
<1> DEFINE T == {i \in Nat : all[i] \in S}
<1>7. 0 \in T
  <2>1. 0 \in 0 .. m
    OBVIOUS
  <2>2. all[0] = first
    BY <1>6, <2>1
  <2> QED
    BY <1>1, <2>2
<1>8. ASSUME NEW i \in 0 + 1 .. m, i - 1 \in T
      PROVE  i \in T
  <2>1. i \in 0 .. m /\ i # 0 /\ i \in 1 .. m /\ i \in Nat
    OBVIOUS
  <2>2. all[i] = step(all[i - 1], i)
    BY <1>6, <2>1
  <2> QED
    BY <1>2, <1>8, <2>1, <2>2
<1>9. \A i \in 0 .. m : i \in T
  <2> HIDE DEF T
  <2> QED
    BY <1>7, <1>8, IntervalInduction
<1>10. all[0] = first
  <2>1. 0 \in 0 .. m
    OBVIOUS
  <2> QED
    BY <1>6, <2>1
<1>11. ASSUME NEW i \in 1 .. m
       PROVE  all[i] = step(all[i - 1], i)
  <2>1. i \in 0 .. m /\ i # 0
    OBVIOUS
  <2> QED
    BY <1>6, <2>1
<1> QED
  BY <1>9, <1>10, <1>11 DEF S, all, step, AllSteps

LEMMA BuildIsCurve ==
    ASSUME NEW base \in Amounts, NEW rsv, NEW rel, NEW mode,
           NEW n \in Nat, n = Len(rsv), \A i \in 1 .. n : TimedHold(rsv[i]),
           NEW m \in Nat, m = Len(rel), \A i \in 1 .. m : TimedRelease(rel[i])
    PROVE  Curve(buildTimeline(base, rsv, rel, mode))
<1> DEFINE first == HeldEvents(rsv, mode, n)[n]
<1>1. buildTimeline(base, rsv, rel, mode) = freeze(base, AllEvents(first, rel, mode, m)[m])
  BY DEF buildTimeline, HeldEvents, AllEvents
<1>2. first \in Seq(TimedDelta)
  <2>1. n \in 0 .. n /\ HeldSteps(HeldEvents(rsv, mode, n), rsv, mode, n)
    BY HeldEventsAre
  <2> QED
    BY <2>1 DEF HeldSteps
<1> HIDE DEF first
<1>3. AllEvents(first, rel, mode, m)[m] \in Seq(TimedDelta)
  <2>1. m \in 0 .. m /\ AllSteps(AllEvents(first, rel, mode, m), first, rel, mode, m)
    BY <1>2, AllEventsAre
  <2> QED
    BY <2>1 DEF AllSteps
<1> QED
  BY <1>1, <1>3, FreezeIsCurve

-----------------------------------------------------------------------------
(* What the curve shows, as a sum over the events.  A weight is a function *)
(* of an event.                                                            *)

Flow(w, s, n) == SumOf([k \in 1 .. n |-> w[s[k]]])

\* What the events up to t change, and the least that those before u and some of those
\* at u can have changed.
Happened(t, d) == [e \in TimedDelta |-> IF e.time <= t THEN Amount(e.delta, d) ELSE 0]

Worst(u, d) ==
    [e \in TimedDelta |->
        IF e.time < u \/ (e.time = u /\ Amount(e.delta, d) < 0) THEN Amount(e.delta, d) ELSE 0]

\* What the first i events change.
Partial(r, d, i, n) == SumOf([k \in 1 .. n |-> IF k <= i THEN Amount(r[k].delta, d) ELSE 0])

LEMMA EventIs ==
    ASSUME NEW e \in TimedDelta, NEW d
    PROVE  e.time \in Int /\ e.delta \in Amounts /\ Amount(e.delta, d) \in Int
BY AmountsAre DEF TimedDelta

LEMMA WeightsAre ==
    ASSUME NEW t, NEW d
    PROVE  Happened(t, d) \in [TimedDelta -> Int] /\ Worst(t, d) \in [TimedDelta -> Int]
BY EventIs DEF Happened, Worst

LEMMA PositionsFinite ==
    ASSUME NEW n \in Nat
    PROVE  IsFiniteSet(1 .. n)
BY FS_Interval

\* Sorting changes no flow.
LEMMA FlowSorted ==
    ASSUME NEW w \in [TimedDelta -> Int], NEW n \in Nat, NEW r, NEW s, NEW b, Rearranged(r, s, b, n),
           \A k \in 1 .. n : s[k] \in TimedDelta
    PROVE  Flow(w, r, n) = Flow(w, s, n)
<1> DEFINE N == 1 .. n
           f == [k \in N |-> w[r[k]]]
           g == [k \in N |-> w[s[k]]]
<1>1. IsFiniteSet(N)
  BY PositionsFinite
<1>2. b \in [N -> N] /\ (\A k, l \in N : b[k] = b[l] => k = l) /\ \A k \in N : r[k] = s[b[k]]
  BY DEF Rearranged
<1>3. \A e \in N : \E k \in N : b[k] = e
  <2> HIDE DEF N
  <2>1. b \in Injection(N, N)
    BY <1>2 DEF Injection, IsInjective
  <2>2. b \in Surjection(N, N)
    BY <1>1, <2>1, FS_Injection
  <2> QED
    BY <2>2 DEF Surjection
<1>4. \A k \in N : s[k] \in TimedDelta
  OBVIOUS
<1> HIDE DEF N
<1>5. \A k \in N : b[k] \in N /\ r[k] \in TimedDelta
  BY <1>2, <1>4
<1>6. f \in [N -> Int] /\ g \in [N -> Int]
  BY <1>4, <1>5
<1>7. \A k \in N : g[b[k]] = f[k]
  BY <1>2, <1>5
<1> HIDE DEF f, g
<1>8. N \in SUBSET N /\ CountsAt(b, N, f, N, g, N)
  BY <1>2, <1>3, <1>7 DEF CountsAt
<1>9. SumOf(f) = SumOf(g)
  BY <1>1, <1>2, <1>6, <1>8, SumReindex
<1> QED
  BY <1>9 DEF Flow, f, g, N

\* The events up to t are the first ones.
LEMMA AppliedFirst ==
    ASSUME NEW tl, NEW n \in Nat, n = Len(tl.events), InTimeOrder(tl.events, n),
           \A k \in 1 .. n : tl.events[k].time \in Int, NEW t \in Int
    PROVE  /\ Applied(tl, t) \in 0 .. n
           /\ \A k \in 1 .. n : tl.events[k].time <= t <=> k <= Applied(tl, t)
<1> DEFINE U == {k \in 1 .. n : tl.events[k].time <= t}
           B == {k \in Nat : k + 1 \notin U}
<1>1. PICK x \in B : \A y \in B : x <= y
  <2>1. n \in B /\ B \in SUBSET Nat
    OBVIOUS
  <2> HIDE DEF B
  <2> QED
    BY <2>1, NatMinimum
<1>2. ASSUME NEW k \in 1 .. n, k <= x
      PROVE  k \in U
  <2>1. k - 1 \in Nat /\ k - 1 < x /\ (k - 1) + 1 = k /\ x \in Nat
    BY <1>1, <1>2
  <2>2. k - 1 \notin B
    <3>1. CASE k - 1 \in B
      <4>1. x <= k - 1
        BY <1>1, <3>1
      <4> QED
        BY <2>1, <4>1
    <3> QED
      BY <3>1
  <2> QED
    BY <2>1, <2>2
<1>3. ASSUME NEW k \in U
      PROVE  k <= x
  <2>0. x \in Nat /\ x + 1 \notin U
    BY <1>1
  <2>1. CASE x + 1 <= k
    <3>1. x + 1 \in 1 .. n /\ k \in 1 .. n
      BY <2>0, <2>1
    <3>2. tl.events[x + 1].time <= tl.events[k].time
      BY <2>1, <3>1 DEF InTimeOrder
    <3>3. tl.events[x + 1].time \in Int /\ tl.events[k].time \in Int /\ tl.events[k].time <= t
      BY <3>1
    <3>4. tl.events[x + 1].time <= t
      BY <3>2, <3>3
    <3> QED
      BY <2>0, <3>1, <3>4
  <2> QED
    BY <2>0, <2>1
<1>4. x \in 0 .. n
  <2>1. n \in B
    OBVIOUS
  <2> QED
    BY <1>1, <2>1
<1>5. U = 1 .. x
  <2>1. \A k \in 1 .. x : k \in 1 .. n /\ k <= x
    BY <1>4
  <2>2. \A k \in U : k \in 1 .. x
    BY <1>3, <1>4
  <2> HIDE DEF U
  <2> QED
    BY <1>2, <2>1, <2>2
<1>6. Cardinality(1 .. x) = x
  <2>1. x \in Nat /\ 1 \in Int /\ x \in Int /\ (IF 1 > x THEN 0 ELSE x - 1 + 1) = x
    BY <1>4
  <2> QED
    BY <2>1, FS_Interval
<1>7. Applied(tl, t) = x
  BY <1>5, <1>6 DEF Applied
<1>8. \A k \in 1 .. n : tl.events[k].time <= t <=> k \in U
  OBVIOUS
<1> HIDE DEF U, B
<1> QED
  BY <1>2, <1>3, <1>4, <1>7, <1>8

\* One event: never less than the change, exactly that unless the clamp is reached, and
\* then nothing is left.
LEMMA ApplyDeltaAmount ==
    ASSUME NEW c \in Amounts, NEW delta \in Amounts, NEW d
    PROVE  /\ Amount(applyDelta(c, delta), d) >= Amount(c, d) + Amount(delta, d)
           /\ Amount(c, d) + Amount(delta, d) >= 0 /\ Amount(c, d) >= 0
                => Amount(applyDelta(c, delta), d) = Amount(c, d) + Amount(delta, d)
           /\ Amount(c, d) + Amount(delta, d) < 0 /\ Amount(c, d) >= 0
                => Amount(applyDelta(c, delta), d) = 0
           /\ Amount(c, d) >= 0 => Amount(applyDelta(c, delta), d) >= 0
<1> DEFINE next(e) == NonNegative(Amount(c, e) + delta[e])
           D == (DOMAIN c \ DOMAIN delta) \cup {e \in DOMAIN delta : next(e) > 0}
           value(e) == IF e \in DOMAIN delta THEN next(e) ELSE c[e]
<1>1. Amount(c, d) \in Int /\ Amount(delta, d) \in Int
  BY AmountsAre
<1>2. applyDelta(c, delta) = [e \in D |-> value(e)]
  BY DEF applyDelta
<1>3. Amount(applyDelta(c, delta), d) = IF d \in D THEN value(d) ELSE 0
  <2> HIDE DEF D, value
  <2> QED
    BY <1>2 DEF Amount
<1>4. CASE d \in DOMAIN delta
  <2>1. Amount(delta, d) = delta[d]
    BY <1>4 DEF Amount
  <2>2. d \in D <=> next(d) > 0
    BY <1>4
  <2>3. value(d) = next(d) /\ next(d) = NonNegative(Amount(c, d) + Amount(delta, d))
    BY <1>4, <2>1
  <2> HIDE DEF D, value, next
  <2>4. next(d) = IF Amount(c, d) + Amount(delta, d) > 0 THEN Amount(c, d) + Amount(delta, d) ELSE 0
    BY <2>3 DEF NonNegative
  <2>5. PICK a \in Int : a = Amount(c, d) + Amount(delta, d)
    BY <1>1
  <2>6. Amount(applyDelta(c, delta), d) = IF a > 0 THEN a ELSE 0
    BY <1>3, <2>2, <2>3, <2>4, <2>5
  <2> QED
    BY <2>5, <2>6
<1>5. CASE d \notin DOMAIN delta
  <2>1. Amount(delta, d) = 0
    BY <1>5 DEF Amount
  <2>2. (d \in D <=> d \in DOMAIN c) /\ value(d) = c[d]
    BY <1>5
  <2> HIDE DEF D, value
  <2>3. Amount(applyDelta(c, delta), d) = Amount(c, d)
    BY <1>3, <2>2 DEF Amount
  <2> QED
    BY <1>1, <2>1, <2>3
<1> QED
  BY <1>4, <1>5

\* The sum of the first i changes, one more at a time.
LEMMA PartialSteps ==
    ASSUME NEW n \in Nat, NEW r, \A k \in 1 .. n : r[k] \in TimedDelta, NEW d
    PROVE  /\ Partial(r, d, 0, n) = 0
           /\ \A i \in 0 .. n : Partial(r, d, i, n) \in Int
           /\ \A i \in 1 .. n :
                 Partial(r, d, i, n) = Partial(r, d, i - 1, n) + Amount(r[i].delta, d)
<1> DEFINE v == [k \in 1 .. n |-> Amount(r[k].delta, d)]
<1>1. v \in [1 .. n -> Int] /\ \A k \in 1 .. n : v[k] = Amount(r[k].delta, d)
  BY EventIs
<1>2. \A i \in Int : Partial(r, d, i, n) = Running(v, i, n)
  <2> SUFFICES ASSUME NEW i \in Int
               PROVE  [k \in 1 .. n |-> IF k <= i THEN Amount(r[k].delta, d) ELSE 0]
                        = [k \in 1 .. n |-> IF k <= i THEN v[k] ELSE 0]
    BY DEF Partial, Running
  <2> QED
    BY <1>1
<1> HIDE DEF v
<1>3. RunsUp(v, n)
  BY <1>1, RunningSum
<1> QED
  BY <1>1, <1>2, <1>3 DEF RunsUp

\* The running capacity is never below the base and the changes.  It is equal to them, or
\* above them by at most what was lacking after some event so far.
LEMMA PrefixBounds ==
    ASSUME NEW base \in Amounts, NEW n \in Nat, NEW r, \A k \in 1 .. n : r[k] \in TimedDelta,
           NEW p, Prefixes(p, base, r, n), NEW d, Amount(base, d) >= 0, NEW m \in 0 .. n
    PROVE  /\ Amount(p[m], d) >= Amount(base, d) + Partial(r, d, m, n)
           /\ Amount(p[m], d) >= 0
           /\ \/ Amount(p[m], d) = Amount(base, d) + Partial(r, d, m, n)
              \/ \E i \in 1 .. m :
                    Amount(p[m], d) <= Partial(r, d, m, n) - Partial(r, d, i, n)
<1> DEFINE P(i) == Partial(r, d, i, n)
           a(i) == Amount(p[i], d)
           W == {i \in Nat : /\ a(i) >= Amount(base, d) + P(i)
                             /\ a(i) >= 0
                             /\ \/ a(i) = Amount(base, d) + P(i)
                                \/ \E j \in 1 .. i : a(i) <= P(i) - P(j)}
<1>1. P(0) = 0
  BY PartialSteps
<1>2. ASSUME NEW i \in 0 .. n
      PROVE  P(i) \in Int /\ a(i) \in Int /\ p[i] \in Amounts
  BY PartialSteps, AmountsAre DEF Prefixes
<1>3. ASSUME NEW i \in 1 .. n
      PROVE  P(i) = P(i - 1) + Amount(r[i].delta, d) /\ r[i].delta \in Amounts
  BY PartialSteps, EventIs
<1>4. a(0) = Amount(base, d) /\ Amount(base, d) \in Int
  BY AmountsAre DEF Prefixes
<1>5. ASSUME NEW i \in 1 .. n
      PROVE  p[i] = applyDelta(p[i - 1], r[i].delta)
  BY DEF Prefixes
<1>6. 0 \in W
  BY <1>1, <1>4
<1>7. ASSUME NEW i \in 0 + 1 .. m, i - 1 \in W
      PROVE  i \in W
  <2>1. i \in 1 .. n /\ i - 1 \in 0 .. n /\ i \in Nat /\ i \in 0 .. n
    OBVIOUS
  <2>2. PICK x \in Int : x = Amount(r[i].delta, d)
    BY <1>3, <2>1, AmountsAre
  <2>3. P(i) = P(i - 1) + x /\ P(i - 1) \in Int /\ a(i - 1) \in Int
    BY <1>2, <1>3, <2>1, <2>2
  <2>4. /\ a(i) >= a(i - 1) + x
        /\ a(i - 1) + x >= 0 /\ a(i - 1) >= 0 => a(i) = a(i - 1) + x
        /\ a(i - 1) + x < 0 /\ a(i - 1) >= 0 => a(i) = 0
        /\ a(i - 1) >= 0 => a(i) >= 0
    BY <1>2, <1>3, <1>5, <2>1, <2>2, ApplyDeltaAmount
  <2>5. /\ a(i - 1) >= Amount(base, d) + P(i - 1)
        /\ a(i - 1) >= 0
        /\ \/ a(i - 1) = Amount(base, d) + P(i - 1)
           \/ \E j \in 1 .. i - 1 : a(i - 1) <= P(i - 1) - P(j)
    BY <1>7
  <2>6. a(i) \in Int /\ P(i) \in Int /\ \A j \in 1 .. i : P(j) \in Int
    BY <1>2, <2>1
  <2> HIDE DEF P, a
  <2>7. a(i) >= Amount(base, d) + P(i) /\ a(i) >= 0
    BY <1>4, <2>3, <2>4, <2>5, <2>6
  <2>8. \/ a(i) = Amount(base, d) + P(i)
        \/ \E j \in 1 .. i : a(i) <= P(i) - P(j)
    <3>1. CASE a(i - 1) + x < 0
      <4>1. i \in 1 .. i /\ a(i) = 0 /\ P(i) - P(i) = 0
        BY <2>1, <2>4, <2>5, <2>6, <3>1
      <4>2. a(i) <= P(i) - P(i)
        BY <4>1
      <4> QED
        BY <4>1, <4>2
    <3>2. CASE ~(a(i - 1) + x < 0)
      <4>1. a(i) = a(i - 1) + x
        BY <2>2, <2>3, <2>4, <2>5, <3>2
      <4>2. CASE a(i - 1) = Amount(base, d) + P(i - 1)
        BY <1>4, <2>2, <2>3, <2>6, <4>1, <4>2
      <4>3. ASSUME NEW j \in 1 .. i - 1, a(i - 1) <= P(i - 1) - P(j)
            PROVE  \E k \in 1 .. i : a(i) <= P(i) - P(k)
        <5>1. j \in 1 .. i /\ P(j) \in Int
          BY <2>1, <2>6
        <5>2. a(i) <= P(i) - P(j)
          BY <2>2, <2>3, <2>6, <4>1, <4>3, <5>1
        <5> QED
          BY <5>1, <5>2
      <4> QED
        BY <2>5, <4>2, <4>3
    <3> QED
      BY <3>1, <3>2
  <2> QED
    BY <2>1, <2>7, <2>8
<1>8. m \in W
  <2>1. m \in 0 .. m /\ m \in Nat
    OBVIOUS
  <2> HIDE DEF W
  <2> QED
    BY <1>6, <1>7, <2>1, IntervalInduction
<1> QED
  BY <1>8

\* What the curve shows at t: never negative, never less than the base and what has
\* happened, and above that by at most what some order of the events of one instant so far
\* leaves lacking.
LEMMA CurveBounds ==
    ASSUME NEW base \in Amounts, NEW events \in Seq(TimedDelta), NEW n \in Nat, n = Len(events),
           NEW d, Amount(base, d) >= 0, NEW t \in Int
    PROVE  LET shown == Amount(capacityAt(freeze(base, events), t), d)
               left  == Amount(base, d) + Flow(Happened(t, d), events, n)
           IN  /\ shown \in Int /\ left \in Int /\ shown >= left /\ shown >= 0
               /\ \/ shown = left
                  \/ \E i \in 1 .. n :
                        /\ events[i].time <= t
                        /\ shown <= left - (Amount(base, d) + Flow(Worst(events[i].time, d), events, n))
<1> DEFINE r == Sort(events)
           tl == freeze(base, events)
           m == Applied(tl, t)
<1>1. Len(r) = n /\ \A k \in 1 .. n : r[k] \in TimedDelta
  BY FreezeIs
<1>2. PICK p : tl = [events |-> r, prefix |-> p] /\ Prefixes(p, base, r, n)
  BY FreezeIs
<1>3. \A k \in 1 .. n : events[k] \in TimedDelta /\ events[k].time \in Int
  <2>1. \A k \in 1 .. n : events[k] \in TimedDelta
    OBVIOUS
  <2> QED
    BY <2>1, EventIs
<1>4. InTimeOrder(r, n)
  BY <1>3, SortRearranges
<1>5. PICK b : Rearranged(r, events, b, n)
  BY <1>3, SortRearranges
<1> HIDE DEF r, tl
<1>6. \A k \in 1 .. n : r[k].time \in Int
  BY <1>1 DEF TimedDelta
<1>7. m \in 0 .. n /\ \A k \in 1 .. n : r[k].time <= t <=> k <= m
  <2>1. tl.events = r
    BY <1>2
  <2> QED
    BY <1>1, <1>4, <1>6, <2>1, AppliedFirst
<1>8. capacityAt(tl, t) = p[m]
  BY <1>2 DEF capacityAt
<1> HIDE DEF m
<1> DEFINE N == 1 .. n
           F(i) == [k \in N |-> IF k <= i THEN Amount(r[k].delta, d) ELSE 0]
<1>9. IsFiniteSet(N) /\ (\A k \in N : Amount(r[k].delta, d) \in Int)
  BY <1>1, EventIs, PositionsFinite
<1>10. \A w \in [TimedDelta -> Int] : Flow(w, r, n) = Flow(w, events, n)
  BY <1>3, <1>5, FlowSorted
<1>11. Partial(r, d, m, n) = Flow(Happened(t, d), events, n)
  <2>1. ASSUME NEW k \in N
        PROVE  Happened(t, d)[r[k]] = IF k <= m THEN Amount(r[k].delta, d) ELSE 0
    <3>1. r[k] \in TimedDelta /\ (r[k].time <= t <=> k <= m)
      BY <1>1, <1>7
    <3> QED
      BY <3>1 DEF Happened
  <2>2. [k \in N |-> Happened(t, d)[r[k]]] = F(m)
    BY <2>1
  <2>3. Partial(r, d, m, n) = Flow(Happened(t, d), r, n)
    BY <2>2 DEF Partial, Flow
  <2> QED
    BY <1>10, <2>3, WeightsAre
<1>12. /\ Amount(p[m], d) >= Amount(base, d) + Partial(r, d, m, n)
       /\ Amount(p[m], d) >= 0
       /\ \/ Amount(p[m], d) = Amount(base, d) + Partial(r, d, m, n)
          \/ \E i \in 1 .. m : Amount(p[m], d) <= Partial(r, d, m, n) - Partial(r, d, i, n)
  BY <1>1, <1>2, <1>7, PrefixBounds
<1>13. ASSUME NEW i \in 1 .. m
       PROVE  \E j \in 1 .. n : /\ events[j].time <= t
                                /\ Partial(r, d, i, n) >= Flow(Worst(events[j].time, d), events, n)
  <2>1. i \in N /\ i <= m /\ m <= n /\ i \in 0 .. n
    BY <1>7
  <2>2. b[i] \in 1 .. n /\ r[i] = events[b[i]]
    BY <1>5, <2>1 DEF Rearranged
  <2>3. PICK u \in Int : u = r[i].time
    BY <1>6, <2>1
  <2>4. u <= t
    BY <1>7, <2>1, <2>3
  <2> DEFINE w == Worst(u, d)
             G == [k \in N |-> w[r[k]]]
  <2>5. w \in [TimedDelta -> Int]
    BY WeightsAre
  <2>6. G \in [N -> Int] /\ F(i) \in [N -> Int]
    BY <1>1, <1>9, <2>5
  <2>7. ASSUME NEW k \in N
        PROVE  G[k] <= F(i)[k]
    <3>1. PICK x \in Int : x = Amount(r[k].delta, d)
      BY <1>9
    <3>2. PICK v \in Int : v = r[k].time
      BY <1>6
    <3>3. G[k] = IF v < u \/ (v = u /\ x < 0) THEN x ELSE 0
      BY <1>1, <3>1, <3>2 DEF Worst
    <3>4. F(i)[k] = IF k <= i THEN x ELSE 0
      BY <3>1
    <3>5. (k <= i => v <= u) /\ (i <= k => u <= v)
      BY <1>4, <2>1, <2>3, <3>2 DEF InTimeOrder
    <3> HIDE DEF G, F
    <3>6. CASE k <= i
      BY <3>3, <3>4, <3>5, <3>6
    <3>7. CASE ~(k <= i)
      <4>1. i <= k
        BY <3>7
      <4>2. u <= v
        BY <3>5, <4>1
      <4> QED
        BY <3>3, <3>4, <3>7, <4>2
    <3> QED
      BY <3>6, <3>7
  <2>8. SumOf(G) <= SumOf(F(i))
    <3> HIDE DEF G, F, N
    <3>1. PICK H \in [N -> Int] : H = F(i)
      BY <2>6
    <3>2. \A k \in N : G[k] <= H[k]
      BY <2>7, <3>1
    <3>3. SumOf(G) <= SumOf(H)
      BY <1>9, <2>6, <3>2, SumMonotone
    <3> QED
      BY <3>1, <3>3
  <2>9. SumOf(G) = Flow(w, events, n)
    BY <1>10, <2>5 DEF Flow
  <2>10. Partial(r, d, i, n) = SumOf(F(i))
    BY DEF Partial
  <2>11. SumOf(G) \in Int /\ SumOf(F(i)) \in Int
    <3> HIDE DEF G, F, N
    <3> QED
      BY <1>9, <2>6, SumType
  <2>12. Partial(r, d, i, n) >= Flow(w, events, n)
    <3> HIDE DEF G, F, N, w
    <3> QED
      BY <2>8, <2>9, <2>10, <2>11
  <2> QED
    BY <2>2, <2>3, <2>4, <2>12
<1>14. Amount(base, d) \in Int /\ Amount(p[m], d) \in Int /\ \A i \in 0 .. n : Partial(r, d, i, n) \in Int
  <2>1. p[m] \in Amounts
    BY <1>2, <1>7 DEF Prefixes
  <2> QED
    BY <1>1, <2>1, AmountsAre, PartialSteps
<1>15. ASSUME NEW i \in 1 .. m, Amount(p[m], d) <= Partial(r, d, m, n) - Partial(r, d, i, n)
       PROVE  \E j \in 1 .. n :
                 /\ events[j].time <= t
                 /\ Amount(p[m], d) <= (Amount(base, d) + Partial(r, d, m, n))
                       - (Amount(base, d) + Flow(Worst(events[j].time, d), events, n))
  <2>1. PICK j \in 1 .. n : /\ events[j].time <= t
                            /\ Partial(r, d, i, n) >= Flow(Worst(events[j].time, d), events, n)
    BY <1>13
  <2>2. PICK f \in Int : f = Flow(Worst(events[j].time, d), events, n)
    <3>1. IsFiniteSet(1 .. n) /\ Worst(events[j].time, d) \in [TimedDelta -> Int]
      BY <1>9, WeightsAre
    <3>2. [k \in 1 .. n |-> Worst(events[j].time, d)[events[k]]] \in [1 .. n -> Int]
      BY <1>3, <3>1
    <3> QED
      BY <3>1, <3>2, SumType DEF Flow
  <2>3. Partial(r, d, i, n) >= f
    BY <2>1, <2>2
  <2>4. Partial(r, d, i, n) \in Int /\ Partial(r, d, m, n) \in Int
    <3>1. i \in 0 .. n /\ m \in 0 .. n
      BY <1>7
    <3> QED
      BY <1>14, <3>1
  <2>5. Amount(p[m], d) <= (Amount(base, d) + Partial(r, d, m, n)) - (Amount(base, d) + f)
    BY <1>14, <1>15, <2>3, <2>4
  <2> QED
    BY <2>1, <2>2, <2>5
<1>16. /\ Amount(capacityAt(tl, t), d) = Amount(p[m], d)
       /\ Flow(Happened(t, d), events, n) = Partial(r, d, m, n)
       /\ Partial(r, d, m, n) \in Int
  BY <1>7, <1>8, <1>11, <1>14
<1> HIDE DEF F, N
<1>17. \/ Amount(p[m], d) = Amount(base, d) + Partial(r, d, m, n)
       \/ \E j \in 1 .. n :
             /\ events[j].time <= t
             /\ Amount(p[m], d) <= (Amount(base, d) + Partial(r, d, m, n))
                   - (Amount(base, d) + Flow(Worst(events[j].time, d), events, n))
  BY <1>12, <1>15
<1> QED
  BY <1>12, <1>14, <1>16, <1>17 DEF tl

-----------------------------------------------------------------------------
(* The flow of the events that buildTimeline adds, fact by fact.           *)

StartOf(r) == [time |-> r.interval.start, delta |-> negate(r.hold)]
EndOf(r) == [time |-> r.interval.end, delta |-> r.hold]
DueOf(e, mode) == [time |-> releaseTime(e, mode), delta |-> e.release]

LEMMA FlowAppend ==
    ASSUME NEW w \in [TimedDelta -> Int], NEW s \in Seq(TimedDelta), NEW x \in TimedDelta
    PROVE  /\ Flow(w, s, Len(s)) \in Int
           /\ Flow(w, Append(s, x), Len(Append(s, x))) = Flow(w, s, Len(s)) + w[x]
<1>1. PICK n \in Nat : n = Len(s)
  OBVIOUS
<1> DEFINE a == Append(s, x)
           f == [k \in 1 .. n + 1 |-> w[a[k]]]
           g == [k \in 1 .. n |-> w[s[k]]]
<1>2. \A k \in 1 .. n : s[k] \in TimedDelta /\ a[k] = s[k]
  BY <1>1
<1>3. Len(a) = n + 1 /\ a[n + 1] = x
  BY <1>1
<1> HIDE DEF a
<1>4. \A k \in 1 .. n + 1 : a[k] \in TimedDelta
  <2> SUFFICES ASSUME NEW k \in 1 .. n + 1
               PROVE  a[k] \in TimedDelta
    OBVIOUS
  <2>1. CASE k = n + 1
    BY <1>3, <2>1
  <2>2. CASE k # n + 1
    <3>1. k \in 1 .. n
      BY <2>2
    <3> QED
      BY <1>2, <3>1
  <2> QED
    BY <2>1, <2>2
<1>5. f \in [1 .. n + 1 -> Int] /\ g \in [1 .. n -> Int]
  BY <1>2, <1>4
<1>6. SameOn(g, f, 1 .. n) /\ f[n + 1] = w[x]
  BY <1>2, <1>3 DEF SameOn
<1> HIDE DEF f, g
<1>7. SumOf(f) = SumOf(g) + f[n + 1]
  BY <1>5, <1>6, SumAppend
<1>8. SumOf(g) \in Int
  BY <1>5, PositionsFinite, SumType
<1> QED
  BY <1>1, <1>3, <1>6, <1>7, <1>8 DEF Flow, f, g, a

LEMMA FlowAddReservation ==
    ASSUME NEW w \in [TimedDelta -> Int], NEW s \in Seq(TimedDelta), NEW r, TimedHold(r)
    PROVE  LET a == addReservation(s, r)
           IN  Flow(w, a, Len(a)) = Flow(w, s, Len(s)) + (w[StartOf(r)] + w[EndOf(r)])
<1>1. PICK x \in TimedDelta : x = StartOf(r)
  BY NegateIs DEF TimedHold, TimedDelta, StartOf
<1>2. PICK y \in TimedDelta : y = EndOf(r)
  BY DEF TimedHold, TimedDelta, EndOf
<1>3. addReservation(s, r) = s \o <<x, y>>
  BY <1>1, <1>2 DEF addReservation, StartOf, EndOf
<1>4. s \o <<x, y>> = Append(Append(s, x), y)
  OBVIOUS
<1> DEFINE c == Append(s, x)
<1>5. c \in Seq(TimedDelta)
  OBVIOUS
<1>6. Flow(w, c, Len(c)) = Flow(w, s, Len(s)) + w[x] /\ Flow(w, s, Len(s)) \in Int
  BY FlowAppend
<1> HIDE DEF c
<1>7. Flow(w, Append(c, y), Len(Append(c, y))) = Flow(w, c, Len(c)) + w[y]
  BY <1>5, FlowAppend
<1>8. w[x] \in Int /\ w[y] \in Int
  OBVIOUS
<1>9. Flow(w, s, Len(s)) + w[x] + w[y] = Flow(w, s, Len(s)) + (w[x] + w[y])
  BY <1>6, <1>8
<1> QED
  BY <1>1, <1>2, <1>3, <1>4, <1>6, <1>7, <1>9 DEF c

\* What the counted reservations and the releases contribute.
HoldFlow(w, rsv, mode, n) ==
    [i \in 1 .. n |-> IF Counted(rsv[i], mode) THEN w[StartOf(rsv[i])] + w[EndOf(rsv[i])] ELSE 0]

DueFlow(w, rel, mode, m) == [i \in 1 .. m |-> w[DueOf(rel[i], mode)]]

LEMMA FactFlows ==
    ASSUME NEW w \in [TimedDelta -> Int], NEW mode, NEW rsv, NEW rel,
           NEW n \in Nat, \A i \in 1 .. n : TimedHold(rsv[i]),
           NEW m \in Nat, \A i \in 1 .. m : TimedRelease(rel[i])
    PROVE  /\ HoldFlow(w, rsv, mode, n) \in [1 .. n -> Int]
           /\ DueFlow(w, rel, mode, m) \in [1 .. m -> Int]
           /\ \A i \in 1 .. n : StartOf(rsv[i]) \in TimedDelta /\ EndOf(rsv[i]) \in TimedDelta
           /\ \A i \in 1 .. m : DueOf(rel[i], mode) \in TimedDelta
<1>1. ASSUME NEW i \in 1 .. n
      PROVE  StartOf(rsv[i]) \in TimedDelta /\ EndOf(rsv[i]) \in TimedDelta
  BY NegateIs DEF TimedHold, TimedDelta, StartOf, EndOf
<1>2. ASSUME NEW i \in 1 .. m
      PROVE  DueOf(rel[i], mode) \in TimedDelta
  BY DEF TimedRelease, TimedDelta, DueOf, releaseTime
<1> QED
  BY <1>1, <1>2 DEF HoldFlow, DueFlow

LEMMA HeldFlows ==
    ASSUME NEW w \in [TimedDelta -> Int], NEW mode, NEW rsv, NEW n \in Nat,
           \A i \in 1 .. n : TimedHold(rsv[i]), NEW held, HeldSteps(held, rsv, mode, n)
    PROVE  Flow(w, held[n], Len(held[n])) = SumOf(HoldFlow(w, rsv, mode, n))
<1> DEFINE v == HoldFlow(w, rsv, mode, n)
           F(i) == Flow(w, held[i], Len(held[i]))
           W == {i \in Nat : F(i) = Running(v, i, n)}
<1>1. v \in [1 .. n -> Int]
  <2>1. PICK m \in Nat : m = 0
    OBVIOUS
  <2>2. \A i \in 1 .. m : TimedRelease(<<>>[i])
    BY <2>1
  <2> QED
    BY <2>2, FactFlows
<1>2. RunsUp(v, n)
  <2> HIDE DEF v
  <2> QED
    BY <1>1, RunningSum
<1>3. 0 \in W
  <2>1. held[0] = <<>> /\ Len(held[0]) = 0
    BY DEF HeldSteps
  <2>2. F(0) = SumOf([k \in 1 .. 0 |-> w[held[0][k]]])
    BY <2>1 DEF Flow
  <2>3. [k \in 1 .. 0 |-> w[held[0][k]]] \in [{} -> Int]
    OBVIOUS
  <2>4. F(0) = 0
    BY <2>2, <2>3, SumEmpty
  <2> QED
    BY <1>2, <2>4 DEF RunsUp
<1>4. ASSUME NEW i \in 0 + 1 .. n, i - 1 \in W
      PROVE  i \in W
  <2>1. i \in 1 .. n /\ i \in Nat /\ i - 1 \in 0 .. n
    OBVIOUS
  <2>2. /\ held[i - 1] \in Seq(TimedDelta)
        /\ held[i] = IF Counted(rsv[i], mode) THEN addReservation(held[i - 1], rsv[i])
                     ELSE held[i - 1]
    BY <2>1 DEF HeldSteps
  <2>3. /\ F(i - 1) = Running(v, i - 1, n)
        /\ Running(v, i, n) = Running(v, i - 1, n) + v[i]
        /\ Running(v, i - 1, n) \in Int
    BY <1>2, <1>4, <2>1 DEF RunsUp
  <2>4. CASE Counted(rsv[i], mode)
    <3>1. v[i] = w[StartOf(rsv[i])] + w[EndOf(rsv[i])]
      BY <2>1, <2>4 DEF HoldFlow
    <3>2. F(i) = F(i - 1) + (w[StartOf(rsv[i])] + w[EndOf(rsv[i])])
      BY <2>1, <2>2, <2>4, FlowAddReservation
    <3> HIDE DEF F, v
    <3>3. F(i) = Running(v, i, n)
      BY <2>3, <3>1, <3>2
    <3> QED
      BY <2>1, <3>3
  <2>5. CASE ~Counted(rsv[i], mode)
    <3>1. v[i] = 0
      BY <2>1, <2>5 DEF HoldFlow
    <3>2. F(i) = F(i - 1)
      BY <2>2, <2>5
    <3> HIDE DEF F, v
    <3>3. F(i) = Running(v, i, n)
      BY <2>3, <3>1, <3>2
    <3> QED
      BY <2>1, <3>3
  <2> QED
    BY <2>4, <2>5
<1>5. n \in W
  <2>1. n \in 0 .. n
    OBVIOUS
  <2> HIDE DEF W
  <2> QED
    BY <1>3, <1>4, <2>1, IntervalInduction
<1> QED
  BY <1>2, <1>5 DEF RunsUp

TimedReleases(rel, m) == \A i \in 1 .. m : TimedRelease(rel[i])

LEMMA AllFlows ==
    ASSUME NEW w \in [TimedDelta -> Int], NEW mode, NEW rel, NEW m \in Nat,
           TimedReleases(rel, m), NEW first \in Seq(TimedDelta),
           NEW all, AllSteps(all, first, rel, mode, m)
    PROVE  Flow(w, all[m], Len(all[m]))
             = Flow(w, first, Len(first)) + SumOf(DueFlow(w, rel, mode, m))
<1> DEFINE v == DueFlow(w, rel, mode, m)
           b == Flow(w, first, Len(first))
           F(i) == Flow(w, all[i], Len(all[i]))
           W == {i \in Nat : F(i) = b + Running(v, i, m)}
<1>1. v \in [1 .. m -> Int] /\ \A i \in 1 .. m : DueOf(rel[i], mode) \in TimedDelta
  <2>1. PICK n \in Nat : n = 0
    OBVIOUS
  <2>2. \A i \in 1 .. n : TimedHold(<<>>[i])
    BY <2>1
  <2>3. \A i \in 1 .. m : TimedRelease(rel[i])
    BY DEF TimedReleases
  <2> QED
    BY <2>2, <2>3, FactFlows
<1>2. RunsUp(v, m)
  <2> HIDE DEF v
  <2> QED
    BY <1>1, RunningSum
<1>3. b \in Int
  <2>1. [k \in 1 .. Len(first) |-> w[first[k]]] \in [1 .. Len(first) -> Int]
    OBVIOUS
  <2>2. IsFiniteSet(1 .. Len(first))
    BY PositionsFinite
  <2> QED
    BY <2>1, <2>2, SumType DEF Flow
<1>4. 0 \in W
  <2>1. F(0) = b /\ Running(v, 0, m) = 0
    BY <1>2 DEF AllSteps, RunsUp
  <2> HIDE DEF F, b, v
  <2> QED
    BY <1>3, <2>1
<1>5. ASSUME NEW i \in 0 + 1 .. m, i - 1 \in W
      PROVE  i \in W
  <2>1. i \in 1 .. m /\ i \in Nat /\ i - 1 \in 0 .. m
    OBVIOUS
  <2>2. all[i - 1] \in Seq(TimedDelta) /\ all[i] = Append(all[i - 1], DueOf(rel[i], mode))
    BY <2>1 DEF AllSteps, addRelease, DueOf
  <2>3. /\ F(i - 1) = b + Running(v, i - 1, m)
        /\ Running(v, i, m) = Running(v, i - 1, m) + v[i]
        /\ Running(v, i - 1, m) \in Int
    BY <1>2, <1>5, <2>1 DEF RunsUp
  <2>4. v[i] = w[DueOf(rel[i], mode)] /\ v[i] \in Int
    BY <1>1, <2>1 DEF DueFlow
  <2>5. F(i) = F(i - 1) + w[DueOf(rel[i], mode)]
    BY <1>1, <2>1, <2>2, FlowAppend
  <2> HIDE DEF F, b, v
  <2>6. F(i) = b + Running(v, i, m)
    BY <1>3, <2>3, <2>4, <2>5
  <2> QED
    BY <2>1, <2>6
<1>6. m \in W
  <2>1. m \in 0 .. m
    OBVIOUS
  <2> HIDE DEF W
  <2> QED
    BY <1>4, <1>5, <2>1, IntervalInduction
<1> QED
  BY <1>2, <1>6 DEF RunsUp

\* What the curve shows, fact by fact.
LEMMA BuildBounds ==
    ASSUME NEW base \in Amounts, NEW rsv, NEW rel, NEW mode,
           NEW n \in Nat, n = Len(rsv), \A i \in 1 .. n : TimedHold(rsv[i]),
           NEW m \in Nat, m = Len(rel), \A i \in 1 .. m : TimedRelease(rel[i]),
           NEW d, Amount(base, d) >= 0, NEW t \in Int
    PROVE  LET shown == Amount(capacityAt(buildTimeline(base, rsv, rel, mode), t), d)
               after(w) == Amount(base, d) + (SumOf(HoldFlow(w, rsv, mode, n))
                                               + SumOf(DueFlow(w, rel, mode, m)))
           IN  /\ shown \in Int /\ shown >= 0
               /\ shown >= after(Happened(t, d))
               /\ \/ shown = after(Happened(t, d))
                  \/ \E u \in Int : u <= t /\ shown <= after(Happened(t, d)) - after(Worst(u, d))
<1> DEFINE held == HeldEvents(rsv, mode, n)
           first == held[n]
           all == AllEvents(first, rel, mode, m)
           events == all[m]
           after(w) == Amount(base, d) + (SumOf(HoldFlow(w, rsv, mode, n))
                                           + SumOf(DueFlow(w, rel, mode, m)))
<1>1. buildTimeline(base, rsv, rel, mode) = freeze(base, events)
  BY DEF buildTimeline, HeldEvents, AllEvents
<1>2. HeldSteps(held, rsv, mode, n)
  BY HeldEventsAre
<1>3. first \in Seq(TimedDelta)
  <2>1. n \in 0 .. n
    OBVIOUS
  <2> HIDE DEF held
  <2> QED
    BY <1>2, <2>1 DEF HeldSteps
<1>4. AllSteps(all, first, rel, mode, m)
  <2> HIDE DEF first
  <2> QED
    BY <1>3, AllEventsAre
<1>5. events \in Seq(TimedDelta)
  <2>1. m \in 0 .. m
    OBVIOUS
  <2> HIDE DEF all
  <2> QED
    BY <1>4, <2>1 DEF AllSteps
<1>6. ASSUME NEW w \in [TimedDelta -> Int]
      PROVE  Amount(base, d) + Flow(w, events, Len(events)) = after(w)
  <2>1. Flow(w, first, Len(first)) = SumOf(HoldFlow(w, rsv, mode, n))
    <3> HIDE DEF held
    <3> QED
      BY <1>2, HeldFlows
  <2>2. Flow(w, events, Len(events)) = Flow(w, first, Len(first)) + SumOf(DueFlow(w, rel, mode, m))
    <3> HIDE DEF all, first
    <3>1. Flow(w, all[m], Len(all[m])) = Flow(w, first, Len(first)) + SumOf(DueFlow(w, rel, mode, m))
      <4> HIDE DEF events, after, held
      <4>1. TimedReleases(rel, m)
        BY DEF TimedReleases
      <4> QED
        BY <1>3, <1>4, <4>1, AllFlows
    <3> QED
      BY <3>1
  <2> QED
    BY <2>1, <2>2
<1> HIDE DEF events, after
<1>7. PICK k \in Nat : k = Len(events)
  BY <1>5
<1> DEFINE shown == Amount(capacityAt(freeze(base, events), t), d)
           left == Amount(base, d) + Flow(Happened(t, d), events, k)
<1>8. /\ shown \in Int /\ left \in Int /\ shown >= left /\ shown >= 0
      /\ \/ shown = left
         \/ \E i \in 1 .. k :
               /\ events[i].time <= t
               /\ shown <= left - (Amount(base, d) + Flow(Worst(events[i].time, d), events, k))
  BY <1>5, <1>7, CurveBounds
<1>9. left = after(Happened(t, d))
  BY <1>6, <1>7, WeightsAre
<1>10. ASSUME NEW i \in 1 .. k, events[i].time <= t,
              shown <= left - (Amount(base, d) + Flow(Worst(events[i].time, d), events, k))
       PROVE  \E u \in Int : u <= t /\ shown <= left - after(Worst(u, d))
  <2>1. PICK u \in Int : u = events[i].time
    <3>1. events[i] \in TimedDelta
      BY <1>5, <1>7
    <3> QED
      BY <3>1, EventIs
  <2>2. Amount(base, d) + Flow(Worst(u, d), events, k) = after(Worst(u, d))
    BY <1>6, <1>7, WeightsAre
  <2> HIDE DEF shown, left
  <2> QED
    BY <1>10, <2>1, <2>2
<1> HIDE DEF left
<1> QED
  BY <1>1, <1>8, <1>9, <1>10 DEF after

\* The holds that last at t, those that end at t, and the releases due by t.
HoldsAt(rsv, mode, t, d, n) ==
    [i \in 1 .. n |-> IF /\ Counted(rsv[i], mode)
                         /\ rsv[i].interval.start <= t /\ t < rsv[i].interval.end
                      THEN Amount(rsv[i].hold, d) ELSE 0]

EndsAt(rsv, mode, t, d, n) ==
    [i \in 1 .. n |-> IF Counted(rsv[i], mode) /\ rsv[i].interval.end = t
                      THEN Amount(rsv[i].hold, d) ELSE 0]

DueBy(rel, mode, t, d, m) ==
    [i \in 1 .. m |-> IF releaseTime(rel[i], mode) <= t THEN Amount(rel[i].release, d) ELSE 0]

\* A reservation as the constructor of Interval leaves it, with a hold that is not negative.
ProperHold(r) ==
    TimedHold(r) /\ r.interval.start <= r.interval.end /\ \A d : Amount(r.hold, d) >= 0

ProperRelease(e) == TimedRelease(e) /\ \A d : Amount(e.release, d) >= 0

LEMMA NegateAmount ==
    ASSUME NEW delta \in Amounts, NEW d
    PROVE  Amount(negate(delta), d) = -Amount(delta, d)
<1>1. DOMAIN negate(delta) = DOMAIN delta /\ \A e \in DOMAIN delta : negate(delta)[e] = -delta[e]
  BY DEF negate
<1> QED
  BY <1>1 DEF Amount

LEMMA HoldFlowIs ==
    ASSUME NEW rsv, NEW mode, NEW n \in Nat, \A i \in 1 .. n : ProperHold(rsv[i]),
           NEW t \in Int, NEW d
    PROVE  /\ HoldsAt(rsv, mode, t, d, n) \in [1 .. n -> Int]
           /\ EndsAt(rsv, mode, t, d, n) \in [1 .. n -> Int]
           /\ \A i \in 1 .. n : HoldsAt(rsv, mode, t, d, n)[i] >= 0 /\ EndsAt(rsv, mode, t, d, n)[i] >= 0
           /\ SumOf(HoldFlow(Happened(t, d), rsv, mode, n)) = 0 - SumOf(HoldsAt(rsv, mode, t, d, n))
           /\ SumOf(HoldFlow(Worst(t, d), rsv, mode, n))
                = 0 - (SumOf(HoldsAt(rsv, mode, t, d, n)) + SumOf(EndsAt(rsv, mode, t, d, n)))
<1> DEFINE N == 1 .. n
           H == HoldsAt(rsv, mode, t, d, n)
           E == EndsAt(rsv, mode, t, d, n)
           F == HoldFlow(Happened(t, d), rsv, mode, n)
           G == HoldFlow(Worst(t, d), rsv, mode, n)
           S == [i \in N |-> H[i] + E[i]]
<1>0. IsFiniteSet(N) /\ \A i \in N : TimedHold(rsv[i])
  BY PositionsFinite DEF ProperHold
<1>1. F \in [N -> Int] /\ G \in [N -> Int]
  <2>1. PICK m \in Nat : m = 0
    OBVIOUS
  <2>2. \A i \in 1 .. m : TimedRelease(<<>>[i])
    BY <2>1
  <2> QED
    BY <1>0, <2>2, FactFlows, WeightsAre
<1>2. ASSUME NEW i \in N
      PROVE  /\ H[i] \in Int /\ E[i] \in Int /\ H[i] >= 0 /\ E[i] >= 0
             /\ F[i] = 0 - H[i] /\ G[i] = 0 - (H[i] + E[i])
  <2> DEFINE r == rsv[i]
  <2>0. TimedHold(r) /\ r.interval.start <= r.interval.end /\ Amount(r.hold, d) >= 0
    BY DEF ProperHold
  <2>1. PICK h \in Int : h = Amount(r.hold, d)
    BY <2>0, AmountsAre DEF TimedHold
  <2>2. PICK a \in Int : a = r.interval.start
    BY <2>0 DEF TimedHold
  <2>3. PICK b \in Int : b = r.interval.end
    BY <2>0 DEF TimedHold
  <2>4. h >= 0 /\ a <= b
    BY <2>0, <2>1, <2>2, <2>3
  <2>5. /\ H[i] = IF Counted(r, mode) /\ a <= t /\ t < b THEN h ELSE 0
        /\ E[i] = IF Counted(r, mode) /\ b = t THEN h ELSE 0
    BY <2>1, <2>2, <2>3 DEF HoldsAt, EndsAt
  <2>6. /\ StartOf(r) \in TimedDelta /\ StartOf(r).time = a /\ Amount(StartOf(r).delta, d) = -h
        /\ EndOf(r) \in TimedDelta /\ EndOf(r).time = b /\ Amount(EndOf(r).delta, d) = h
    <3>1. r.hold \in Amounts /\ negate(r.hold) \in Amounts
      BY <2>0, NegateIs DEF TimedHold
    <3>2. Amount(negate(r.hold), d) = -h
      BY <2>1, <3>1, NegateAmount
    <3> HIDE DEF r
    <3> QED
      BY <2>1, <2>2, <2>3, <3>1, <3>2 DEF StartOf, EndOf, TimedDelta
  <2>7. /\ Happened(t, d)[StartOf(r)] = IF a <= t THEN -h ELSE 0
        /\ Happened(t, d)[EndOf(r)] = IF b <= t THEN h ELSE 0
        /\ Worst(t, d)[StartOf(r)] = IF a < t \/ (a = t /\ -h < 0) THEN -h ELSE 0
        /\ Worst(t, d)[EndOf(r)] = IF b < t \/ (b = t /\ h < 0) THEN h ELSE 0
    <3> HIDE DEF r
    <3> QED
      BY <2>6 DEF Happened, Worst
  <2>8. /\ F[i] = IF Counted(r, mode) THEN Happened(t, d)[StartOf(r)] + Happened(t, d)[EndOf(r)] ELSE 0
        /\ G[i] = IF Counted(r, mode) THEN Worst(t, d)[StartOf(r)] + Worst(t, d)[EndOf(r)] ELSE 0
    BY DEF HoldFlow
  <2> HIDE DEF H, E, F, G, r
  <2>9. CASE Counted(r, mode)
    <3>1. F[i] = (IF a <= t THEN -h ELSE 0) + (IF b <= t THEN h ELSE 0)
      BY <2>7, <2>8, <2>9
    <3>2. G[i] = (IF a < t \/ (a = t /\ -h < 0) THEN -h ELSE 0) + (IF b < t \/ (b = t /\ h < 0) THEN h ELSE 0)
      BY <2>7, <2>8, <2>9
    <3>3. H[i] = (IF a <= t /\ t < b THEN h ELSE 0) /\ E[i] = (IF b = t THEN h ELSE 0)
      BY <2>5, <2>9
    <3> QED
      BY <2>4, <3>1, <3>2, <3>3
  <2>10. CASE ~Counted(r, mode)
    <3>1. H[i] = 0 /\ E[i] = 0 /\ F[i] = 0 /\ G[i] = 0
      BY <2>5, <2>8, <2>10
    <3> QED
      BY <3>1
  <2> QED
    BY <2>9, <2>10
<1>3. H = [i \in N |-> H[i]] /\ E = [i \in N |-> E[i]]
  BY DEF HoldsAt, EndsAt
<1> HIDE DEF H, E, F, G
<1>4. H \in [N -> Int] /\ E \in [N -> Int]
  BY <1>2, <1>3
<1>5. S \in [N -> Int] /\ (\A i \in N : S[i] = H[i] + E[i]) /\ \A i \in N : G[i] = 0 - S[i]
  BY <1>2
<1>6. \A i \in N : F[i] = 0 - H[i]
  BY <1>2
<1> HIDE DEF N, S
<1>7. SumOf(F) = 0 - SumOf(H)
  BY <1>0, <1>1, <1>4, <1>6, SumNegate
<1>8. SumOf(S) = SumOf(H) + SumOf(E)
  <2>1. AddsUp(S, H, E, N)
    BY <1>5 DEF AddsUp
  <2> QED
    BY <1>0, <1>4, <1>5, <2>1, SumPlus
<1>9. SumOf(G) = 0 - SumOf(S)
  BY <1>0, <1>1, <1>5, SumNegate
<1> QED
  BY <1>2, <1>4, <1>7, <1>8, <1>9 DEF H, E, F, G, N

LEMMA DueFlowIs ==
    ASSUME NEW rel, NEW mode, NEW m \in Nat, \A i \in 1 .. m : ProperRelease(rel[i]),
           NEW t \in Int, NEW d
    PROVE  /\ DueBy(rel, mode, t, d, m) \in [1 .. m -> Int]
           /\ \A i \in 1 .. m : DueBy(rel, mode, t, d, m)[i] >= 0
           /\ DueFlow(Happened(t, d), rel, mode, m) = DueBy(rel, mode, t, d, m)
           /\ DueFlow(Worst(t, d), rel, mode, m) = DueBy(rel, mode, t - 1, d, m)
<1>1. ASSUME NEW i \in 1 .. m
      PROVE  /\ DueBy(rel, mode, t, d, m)[i] \in Int
             /\ DueBy(rel, mode, t, d, m)[i] >= 0
             /\ DueFlow(Happened(t, d), rel, mode, m)[i] = DueBy(rel, mode, t, d, m)[i]
             /\ DueFlow(Worst(t, d), rel, mode, m)[i] = DueBy(rel, mode, t - 1, d, m)[i]
  <2> DEFINE e == rel[i]
  <2>0. TimedRelease(e) /\ Amount(e.release, d) >= 0
    BY DEF ProperRelease
  <2>1. PICK h \in Int : h = Amount(e.release, d)
    BY <2>0, AmountsAre DEF TimedRelease
  <2>2. PICK a \in Int : a = releaseTime(e, mode)
    BY <2>0 DEF TimedRelease, releaseTime
  <2>3. DueOf(e, mode) \in TimedDelta /\ DueOf(e, mode).time = a /\ Amount(DueOf(e, mode).delta, d) = h
    BY <2>0, <2>1, <2>2 DEF DueOf, TimedRelease, TimedDelta
  <2>4. /\ DueBy(rel, mode, t, d, m)[i] = IF a <= t THEN h ELSE 0
        /\ DueBy(rel, mode, t - 1, d, m)[i] = IF a <= t - 1 THEN h ELSE 0
        /\ DueFlow(Happened(t, d), rel, mode, m)[i] = Happened(t, d)[DueOf(e, mode)]
        /\ DueFlow(Worst(t, d), rel, mode, m)[i] = Worst(t, d)[DueOf(e, mode)]
    BY <2>1, <2>2 DEF DueBy, DueFlow
  <2>5. /\ Happened(t, d)[DueOf(e, mode)] = IF a <= t THEN h ELSE 0
        /\ Worst(t, d)[DueOf(e, mode)] = IF a < t \/ (a = t /\ h < 0) THEN h ELSE 0
    BY <2>3 DEF Happened, Worst
  <2>6. h >= 0
    BY <2>0, <2>1
  <2> HIDE DEF e
  <2> QED
    BY <2>4, <2>5, <2>6
<1>2. /\ DueBy(rel, mode, t, d, m) = [i \in 1 .. m |-> DueBy(rel, mode, t, d, m)[i]]
      /\ DueBy(rel, mode, t - 1, d, m) = [i \in 1 .. m |-> DueBy(rel, mode, t - 1, d, m)[i]]
      /\ DueFlow(Happened(t, d), rel, mode, m)
           = [i \in 1 .. m |-> DueFlow(Happened(t, d), rel, mode, m)[i]]
      /\ DueFlow(Worst(t, d), rel, mode, m)
           = [i \in 1 .. m |-> DueFlow(Worst(t, d), rel, mode, m)[i]]
  BY DEF DueBy, DueFlow
<1> QED
  BY <1>1, <1>2

=============================================================================
