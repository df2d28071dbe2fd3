------------------------------ MODULE SetInduction ------------------------------
(***************************************************************************)
(* Induction and recursion on the naturals and on the subsets of a finite  *)
(* set, and sums over finite sets, in a form that speaks of sets and       *)
(* functions, and so needs no operator for a parameter.  The proofs about  *)
(* recursive functions and about totals rest on it.                        *)
(***************************************************************************)
EXTENDS Sums, WellFoundedInduction, FiniteSetTheorems, TLAPS

\* A set of naturals that is not empty has a least element.
LEMMA NatMinimum ==
    ASSUME NEW T \in SUBSET Nat, T # {}
    PROVE  \E x \in T : \A y \in T : x <= y
<1> DEFINE R == {ss \in Nat \X Nat : ss[1] < ss[2]}
<1>1. IsWellFoundedOn(R, Nat)
  BY NatLessThanWellFounded, Zenon DEF OpToRel
<1>2. PICK x \in T : \A y \in T : ~(<<y, x>> \in R)
  <2> HIDE DEF R
  <2> QED
    BY <1>1, WFMin
<1>3. ASSUME NEW y \in T
      PROVE  x <= y
  <2>1. ~(<<y, x>> \in R) /\ y \in Nat /\ x \in Nat
    BY <1>2
  <2>2. <<y, x>> \in Nat \X Nat /\ <<y, x>>[1] = y /\ <<y, x>>[2] = x
    BY <2>1
  <2>3. ~(y < x)
    BY <2>1, <2>2, Zenon
  <2> QED
    BY <2>1, <2>3
<1> QED
  BY <1>3

\* A set that holds 0 and the successor of each natural it holds, holds them all.
LEMMA NatSetInduction ==
    ASSUME NEW T, 0 \in T, \A n \in Nat : n \in T => n + 1 \in T
    PROVE  Nat \subseteq T
<1> SUFFICES ASSUME NEW m \in Nat, m \notin T
             PROVE  FALSE
  OBVIOUS
<1> DEFINE B == {n \in Nat : n \notin T}
<1>1. PICK x \in B : \A y \in B : x <= y
  <2>1. B \in SUBSET Nat /\ B # {}
    OBVIOUS
  <2> HIDE DEF B
  <2> QED
    BY <2>1, NatMinimum
<1>2. x # 0 /\ x \in Nat /\ x - 1 \in Nat /\ x - 1 \notin B
  BY <1>1
<1>3. x - 1 \in T
  BY <1>2
<1> QED
  BY <1>1, <1>2, <1>3

\* The same from lo up to hi.
LEMMA IntervalInduction ==
    ASSUME NEW T, NEW lo \in Nat, NEW hi \in Nat,
           lo \in T, \A i \in lo + 1 .. hi : i - 1 \in T => i \in T
    PROVE  \A i \in lo .. hi : i \in T
<1> DEFINE U == {n \in Nat : lo + n <= hi => lo + n \in T}
<1>1. 0 \in U
  OBVIOUS
<1>2. ASSUME NEW n \in Nat, n \in U
      PROVE  n + 1 \in U
  <2> SUFFICES ASSUME lo + (n + 1) <= hi
               PROVE  lo + (n + 1) \in T
    OBVIOUS
  <2>1. lo + n <= hi /\ lo + (n + 1) \in lo + 1 .. hi /\ (lo + (n + 1)) - 1 = lo + n
    OBVIOUS
  <2>2. lo + n \in T
    BY <1>2, <2>1
  <2> QED
    BY <2>1, <2>2
<1>3. \A n \in Nat : n \in U
  <2> HIDE DEF U
  <2> QED
    BY <1>1, <1>2, NatSetInduction
<1>4. ASSUME NEW i \in lo .. hi
      PROVE  i \in T
  <2>1. i - lo \in Nat /\ lo + (i - lo) = i /\ i <= hi
    OBVIOUS
  <2>2. i - lo \in U
    BY <1>3, <2>1
  <2> QED
    BY <2>1, <2>2
<1> QED
  BY <1>4

\* The step G from one value to the next, from lo up to hi, stays within A.
StepsWithin(G, A, lo, hi) == \A i \in lo + 1 .. hi, x \in A : G[i][x] \in A

\* f starts with a and takes every step.
Follows(f, a, G, lo, hi) == f[lo] = a /\ \A i \in lo + 1 .. hi : f[i] = G[i][f[i - 1]]

\* A function is defined from lo up to hi by its first value a and such a step.
LEMMA RecursionExists ==
    ASSUME NEW A, NEW a \in A, NEW lo \in Nat, NEW hi \in Nat, lo <= hi,
           NEW G, StepsWithin(G, A, lo, hi)
    PROVE  \E f \in [lo .. hi -> A] : Follows(f, a, G, lo, hi)
<1> DEFINE Upto(n, f) == /\ f \in [lo .. n -> A]
                         /\ f[lo] = a
                         /\ \A i \in lo + 1 .. n : f[i] = G[i][f[i - 1]]
           T == {n \in Nat : \E f : Upto(n, f)}
<1>1. lo \in T
  <2> DEFINE f == [i \in lo .. lo |-> a]
  <2>1. Upto(lo, f)
    OBVIOUS
  <2> QED
    BY <2>1
<1>2. ASSUME NEW n \in lo + 1 .. hi, n - 1 \in T
      PROVE  n \in T
  <2>1. PICK f : Upto(n - 1, f)
    BY <1>2
  <2> DEFINE y == G[n][f[n - 1]]
             g == [i \in lo .. n |-> IF i = n THEN y ELSE f[i]]
  <2>2. y \in A
    BY <2>1 DEF StepsWithin
  <2> HIDE DEF y
  <2>3. g \in [lo .. n -> A] /\ g[lo] = a
    BY <2>1, <2>2
  <2>4. ASSUME NEW i \in lo + 1 .. n
        PROVE  g[i] = G[i][g[i - 1]]
    <3>1. CASE i = n
      <4>1. g[i] = y /\ g[i - 1] = f[n - 1]
        BY <3>1
      <4> HIDE DEF g
      <4> QED
        BY <3>1, <4>1 DEF y
    <3>2. CASE i # n
      <4>1. g[i] = f[i] /\ g[i - 1] = f[i - 1] /\ i \in lo + 1 .. n - 1
        BY <3>2
      <4> HIDE DEF g
      <4> QED
        BY <2>1, <4>1
    <3> QED
      BY <3>1, <3>2
  <2>5. n \in Nat
    OBVIOUS
  <2>6. Upto(n, g)
    <3> HIDE DEF g
    <3> QED
      BY <2>3, <2>4
  <2> QED
    BY <2>5, <2>6
<1>3. hi \in T
  <2>1. hi \in lo .. hi
    OBVIOUS
  <2> HIDE DEF T
  <2> QED
    BY <1>1, <1>2, <2>1, IntervalInduction
<1> QED
  BY <1>3 DEF Follows

-----------------------------------------------------------------------------
(* Subsets of a finite set.                                                *)

\* A set that holds a subset of D whenever it holds the smaller ones, holds them all.
LEMMA SubsetInduction ==
    ASSUME NEW D, IsFiniteSet(D), NEW T,
           \A s \in SUBSET D : (\A u \in SUBSET s : u # s => u \in T) => s \in T
    PROVE  \A s \in SUBSET D : s \in T
<1> DEFINE B == {n \in Nat : \E s \in SUBSET D : s \notin T /\ Cardinality(s) = n}
<1>0. \A s \in SUBSET D : IsFiniteSet(s) /\ Cardinality(s) \in Nat
  BY FS_Subset, FS_CardinalityType
<1> SUFFICES ASSUME NEW s \in SUBSET D, s \notin T
             PROVE  FALSE
  OBVIOUS
<1>1. B \in SUBSET Nat /\ B # {}
  BY <1>0
<1>2. PICK n \in B : \A m \in B : n <= m
  <2> HIDE DEF B
  <2> QED
    BY <1>1, NatMinimum
<1>3. PICK r \in SUBSET D : r \notin T /\ Cardinality(r) = n
  BY <1>2
<1>4. ASSUME NEW u \in SUBSET r, u # r
      PROVE  u \in T
  <2>1. IsFiniteSet(r) /\ u \in SUBSET D
    BY <1>0
  <2>2. Cardinality(u) < Cardinality(r)
    <3>1. Cardinality(u) <= Cardinality(r) /\ Cardinality(u) # Cardinality(r)
      BY <1>4, <2>1, FS_Subset
    <3>2. Cardinality(u) \in Nat /\ Cardinality(r) \in Nat
      BY <1>0, <2>1
    <3> QED
      BY <3>1, <3>2
  <2>3. CASE u \notin T
    <3>1. Cardinality(u) \in B
      BY <1>0, <2>1, <2>3
    <3>2. n <= Cardinality(u) /\ n \in Nat /\ Cardinality(u) \in Nat
      BY <1>0, <1>2, <2>1, <3>1
    <3> QED
      BY <1>3, <2>2, <3>2
  <2> QED
    BY <2>3
<1> QED
  BY <1>3, <1>4

-----------------------------------------------------------------------------
(* Sums.                                                                   *)

Pick(s) == CHOOSE y \in s : TRUE

\* Two families that have the same summands in S, and one whose summands outside A are zero.
SameOn(f, g, S) == \A x \in S : f[x] = g[x]
ZeroOutside(f, A, D) == \A x \in D : x \notin A => f[x] = 0

\* T gives the sum of v over each subset of D.
SumTable(T, v, D) ==
    \A s \in SUBSET D : T[s] = IF s = {} THEN 0 ELSE v[Pick(s)] + T[s \ {Pick(s)}]

LEMMA PickIs ==
    ASSUME NEW s, s # {}
    PROVE  Pick(s) \in s
BY DEF Pick

LEMMA SumTableExists ==
    ASSUME NEW D, IsFiniteSet(D), NEW v \in [D -> Int]
    PROVE  \E T \in [SUBSET D -> Int] : SumTable(T, v, D)
<1>1. PICK n \in Nat : n = Cardinality(D)
  BY FS_CardinalityType
<1> DEFINE A == [SUBSET D -> Int]
           next(g) == [s \in SUBSET D |-> IF s = {} THEN 0 ELSE v[Pick(s)] + g[s \ {Pick(s)}]]
           zero == [s \in SUBSET D |-> 0]
           G == [i \in 0 + 1 .. n |-> [g \in A |-> next(g)]]
<1>2. \A g \in A : next(g) \in A
  <2> SUFFICES ASSUME NEW g \in A, NEW s \in SUBSET D, s # {}
               PROVE  v[Pick(s)] + g[s \ {Pick(s)}] \in Int
    OBVIOUS
  <2> QED
    BY PickIs
<1>3. zero \in A
  OBVIOUS
<1>4. \A i \in 0 + 1 .. n : \A g \in A : G[i][g] = next(g)
  OBVIOUS
<1> HIDE DEF G
<1>5. PICK f \in [0 .. n -> A] : Follows(f, zero, G, 0, n)
  <2>1. StepsWithin(G, A, 0, n)
    BY <1>2, <1>4 DEF StepsWithin
  <2>2. 0 \in Nat /\ 0 <= n
    OBVIOUS
  <2> HIDE DEF A, zero
  <2> QED
    BY <1>3, <2>1, <2>2, RecursionExists
<1>6. /\ f[0] = zero
      /\ \A i \in 1 .. n : f[i] = next(f[i - 1]) /\ f[i - 1] \in A
  <2>1. f[0] = zero
    BY <1>5 DEF Follows
  <2>2. ASSUME NEW i \in 1 .. n
        PROVE  f[i] = next(f[i - 1]) /\ f[i - 1] \in A
    <3>1. i \in 0 + 1 .. n /\ i - 1 \in 0 .. n
      OBVIOUS
    <3>2. f[i - 1] \in A /\ f[i] = G[i][f[i - 1]]
      BY <1>5, <3>1 DEF Follows
    <3> QED
      BY <1>4, <3>1, <3>2
  <2> QED
    BY <2>1, <2>2
<1>7. /\ \A s \in SUBSET D : f[0][s] = 0
      /\ \A i \in 1 .. n : \A s \in SUBSET D :
            f[i][s] = IF s = {} THEN 0 ELSE v[Pick(s)] + f[i - 1][s \ {Pick(s)}]
  <2>1. \A s \in SUBSET D : f[0][s] = 0
    BY <1>6
  <2>2. ASSUME NEW i \in 1 .. n, NEW s \in SUBSET D
        PROVE  f[i][s] = IF s = {} THEN 0 ELSE v[Pick(s)] + f[i - 1][s \ {Pick(s)}]
    <3> DEFINE g == f[i - 1]
    <3>1. f[i] = next(g)
      BY <1>6
    <3> HIDE DEF g
    <3>2. f[i][s] = IF s = {} THEN 0 ELSE v[Pick(s)] + g[s \ {Pick(s)}]
      BY <3>1
    <3> QED
      BY <3>2 DEF g
  <2> QED
    BY <2>1, <2>2
<1> HIDE DEF A, next, zero
<1>8. ASSUME NEW s \in SUBSET D, s # {}
      PROVE  /\ s \ {Pick(s)} \in SUBSET D
             /\ Cardinality(s) \in Nat /\ Cardinality(s) # 0 /\ Cardinality(s) <= n
             /\ Cardinality(s \ {Pick(s)}) = Cardinality(s) - 1
  <2>1. IsFiniteSet(s) /\ Cardinality(s) \in Nat /\ Cardinality(s) <= n
    BY <1>1, FS_Subset, FS_CardinalityType
  <2>2. Cardinality(s \ {Pick(s)}) = Cardinality(s) - 1
    BY <1>8, <2>1, PickIs, FS_RemoveElement
  <2>3. Cardinality(s) # 0
    BY <1>8, <2>1, FS_EmptySet
  <2> QED
    BY <2>1, <2>2, <2>3
<1>smaller.
      ASSUME NEW s \in SUBSET D, NEW k \in Nat, Cardinality(s) <= k
      PROVE  /\ k = 0 => s = {}
             /\ s # {} => s \ {Pick(s)} \in SUBSET D /\ Cardinality(s \ {Pick(s)}) <= k - 1
  <2>1. CASE s = {}
    BY <2>1
  <2>2. CASE s # {}
    <3>1. PICK m \in Nat : m = Cardinality(s)
      BY <1>8, <2>2
    <3>2. m # 0 /\ s \ {Pick(s)} \in SUBSET D /\ Cardinality(s \ {Pick(s)}) = m - 1
      BY <1>8, <2>2, <3>1
    <3>3. m <= k
      BY <1>smaller, <3>1
    <3>4. k # 0 /\ m - 1 <= k - 1
      BY <3>2, <3>3
    <3> QED
      BY <3>2, <3>4
  <2> QED
    BY <2>1, <2>2
<1> DEFINE W == {i \in Nat : i + 1 <= n =>
                    \A s \in SUBSET D : Cardinality(s) <= i => f[i][s] = f[i + 1][s]}
<1>9. 0 \in W
  <2> SUFFICES ASSUME 1 <= n, NEW s \in SUBSET D, Cardinality(s) <= 0
               PROVE  f[0][s] = f[0 + 1][s]
    OBVIOUS
  <2>1. s = {}
    BY <1>smaller
  <2>2. 1 \in 1 .. n /\ 0 + 1 = 1
    OBVIOUS
  <2> QED
    BY <1>7, <2>1, <2>2
<1>10. ASSUME NEW i \in 0 + 1 .. n, i - 1 \in W
       PROVE  i \in W
  <2> SUFFICES ASSUME i + 1 <= n, NEW s \in SUBSET D, Cardinality(s) <= i
               PROVE  f[i][s] = f[i + 1][s]
    OBVIOUS
  <2>1. i \in 1 .. n /\ i + 1 \in 1 .. n /\ (i + 1) - 1 = i /\ (i - 1) + 1 = i /\ i <= n
    OBVIOUS
  <2>2. CASE s = {}
    BY <1>7, <2>1, <2>2
  <2>3. CASE s # {}
    <3> DEFINE r == s \ {Pick(s)}
    <3>1. r \in SUBSET D /\ Cardinality(r) <= i - 1
      <4>1. i \in Nat
        OBVIOUS
      <4> QED
        BY <1>smaller, <2>3, <4>1
    <3> HIDE DEF r
    <3>2. f[i - 1][r] = f[i][r]
      BY <1>10, <2>1, <3>1
    <3>3. f[i][s] = v[Pick(s)] + f[i - 1][r] /\ f[i + 1][s] = v[Pick(s)] + f[i][r]
      BY <1>7, <2>1, <2>3 DEF r
    <3> QED
      BY <3>2, <3>3
  <2> QED
    BY <2>2, <2>3
<1>11. \A i \in 0 .. n : i \in W
  <2>1. PICK lo \in Nat : lo = 0
    OBVIOUS
  <2>2. \A i \in lo + 1 .. n : i - 1 \in W => i \in W
    BY <1>10, <2>1
  <2>3. lo \in W
    BY <1>9, <2>1
  <2>4. \A i \in lo .. n : i \in W
    <3> HIDE DEF W
    <3> QED
      BY <2>2, <2>3, IntervalInduction
  <2> QED
    BY <2>1, <2>4
<1>12. f[n] \in [SUBSET D -> Int]
  <2>1. n \in 0 .. n
    OBVIOUS
  <2> QED
    BY <1>5, <2>1 DEF A
<1>13. SumTable(f[n], v, D)
  <2> SUFFICES ASSUME NEW s \in SUBSET D
               PROVE  f[n][s] = IF s = {} THEN 0 ELSE v[Pick(s)] + f[n][s \ {Pick(s)}]
    BY DEF SumTable
  <2>1. CASE n = 0
    <3>1. s = {}
      BY <1>1, <1>8, <2>1
    <3> QED
      BY <1>7, <2>1, <3>1
  <2>2. CASE n # 0
    <3>1. n \in 1 .. n /\ n - 1 \in 0 .. n /\ (n - 1) + 1 = n /\ n <= n /\ n - 1 \in Nat
      BY <2>2
    <3>2. CASE s = {}
      BY <1>7, <3>1, <3>2
    <3>3. CASE s # {}
      <4> DEFINE r == s \ {Pick(s)}
      <4>0. Cardinality(s) <= n
        BY <1>8, <3>3
      <4>1. r \in SUBSET D /\ Cardinality(r) <= n - 1
        BY <1>smaller, <3>3, <4>0
      <4> HIDE DEF r
      <4>2. n - 1 \in W
        BY <1>11, <3>1
      <4>3. f[n - 1][r] = f[n][r]
        BY <3>1, <4>1, <4>2
      <4> QED
        BY <1>7, <3>1, <3>3, <4>3 DEF r
    <3> QED
      BY <3>2, <3>3
  <2> QED
    BY <2>1, <2>2
<1> QED
  BY <1>12, <1>13

\* A table of sums is fixed by the numbers it adds.
LEMMA TablesAgree ==
    ASSUME NEW D, IsFiniteSet(D), NEW E \in SUBSET D, NEW T, NEW U, NEW v, NEW w,
           SumTable(T, v, D), SumTable(U, w, E), \A x \in E : v[x] = w[x]
    PROVE  \A s \in SUBSET E : T[s] = U[s]
<1> DEFINE W == {s \in SUBSET E : T[s] = U[s]}
<1>1. ASSUME NEW s \in SUBSET E, \A u \in SUBSET s : u # s => u \in W
      PROVE  s \in W
  <2>1. CASE s = {}
    BY <2>1 DEF SumTable
  <2>2. CASE s # {}
    <3>1. PICK p \in s : p = Pick(s)
      BY <2>2, PickIs
    <3> DEFINE r == s \ {p}
    <3>2. r \in SUBSET s /\ r # s
      OBVIOUS
    <3>3. T[s] = v[p] + T[r] /\ U[s] = w[p] + U[r]
      BY <2>2, <3>1 DEF SumTable
    <3>4. T[r] = U[r]
      <4> HIDE DEF r
      <4> QED
        BY <1>1, <3>2
    <3>5. v[p] = w[p]
      OBVIOUS
    <3> QED
      BY <3>3, <3>4, <3>5
  <2> QED
    BY <2>1, <2>2
<1>2. IsFiniteSet(E)
  BY FS_Subset
<1>3. \A s \in SUBSET E : s \in W
  <2> HIDE DEF W
  <2> QED
    BY <1>1, <1>2, SubsetInduction
<1> QED
  BY <1>3

\* T gives the sums of f over the subsets of D, whichever summand is taken out first.
Totals(T, f, D) ==
    T[{}] = 0 /\ \A s \in SUBSET D : \A x \in s : T[s] = f[x] + T[s \ {x}]

LEMMA TableRemove ==
    ASSUME NEW D, IsFiniteSet(D), NEW v \in [D -> Int], NEW T \in [SUBSET D -> Int],
           SumTable(T, v, D)
    PROVE  Totals(T, v, D)
<1> DEFINE W == {s \in SUBSET D : \A x \in s : T[s] = v[x] + T[s \ {x}]}
<1>1. ASSUME NEW s \in SUBSET D, \A u \in SUBSET s : u # s => u \in W
      PROVE  s \in W
  <2> SUFFICES ASSUME NEW x \in s
               PROVE  T[s] = v[x] + T[s \ {x}]
    OBVIOUS
  <2>1. PICK p \in s : p = Pick(s)
    BY PickIs
  <2>2. T[s] = v[p] + T[s \ {p}]
    BY <2>1 DEF SumTable
  <2>3. CASE p = x
    BY <2>2, <2>3
  <2>4. CASE p # x
    <3>1. /\ s \ {p} \in SUBSET s /\ s \ {p} # s /\ x \in s \ {p}
          /\ s \ {x} \in SUBSET s /\ s \ {x} # s /\ p \in s \ {x}
      BY <2>4
    <3>2. s \ {p} \in W /\ s \ {x} \in W
      BY <1>1, <3>1
    <3>3. T[s \ {p}] = v[x] + T[(s \ {p}) \ {x}] /\ T[s \ {x}] = v[p] + T[(s \ {x}) \ {p}]
      BY <3>1, <3>2
    <3>4. (s \ {p}) \ {x} = (s \ {x}) \ {p} /\ (s \ {p}) \ {x} \in SUBSET D
      OBVIOUS
    <3>5. PICK t \in Int : t = T[(s \ {p}) \ {x}]
      BY <3>4
    <3>6. v[x] \in Int /\ v[p] \in Int
      OBVIOUS
    <3>7. T[s] = v[p] + (v[x] + t) /\ T[s \ {x}] = v[p] + t
      BY <2>2, <3>3, <3>4, <3>5
    <3> QED
      BY <3>5, <3>6, <3>7
  <2> QED
    BY <2>3, <2>4
<1>2. \A s \in SUBSET D : s \in W
  <2> HIDE DEF W
  <2> QED
    BY <1>1, SubsetInduction
<1>3. T[{}] = 0
  BY DEF SumTable
<1> QED
  BY <1>2, <1>3 DEF Totals

\* SumOf is the entry of such a table for the whole set.
LEMMA SumOfTable ==
    ASSUME NEW D, IsFiniteSet(D), NEW f \in [D -> Int]
    PROVE  \E T \in [SUBSET D -> Int] : SumTable(T, f, D) /\ SumOf(f) = T[D]
<1> DEFINE step(T) == [s \in SUBSET D |-> IF s = {} THEN 0 ELSE f[Pick(s)] + T[s \ {Pick(s)}]]
           iter == CHOOSE T : T = step(T)
<1>1. PICK T \in [SUBSET D -> Int] : SumTable(T, f, D)
  BY SumTableExists
<1>2. T = step(T)
  BY <1>1 DEF SumTable
<1>3. iter = step(iter)
  <2> HIDE DEF step
  <2> QED
    BY <1>2
<1>4. SumTable(iter, f, D)
  <2> HIDE DEF iter
  <2> QED
    BY <1>3 DEF SumTable
<1>5. T[D] = iter[D]
  <2> HIDE DEF iter
  <2>1. D \in SUBSET D
    OBVIOUS
  <2>2. \A s \in SUBSET D : T[s] = iter[s]
    BY <1>1, <1>4, <2>1, TablesAgree
  <2> QED
    BY <2>1, <2>2
<1>6. SumOf(f) = iter[D]
  BY DEF SumOf, MapThenSumSet, MapThenFoldSet, Pick
<1> QED
  BY <1>1, <1>5, <1>6

LEMMA SumType ==
    ASSUME NEW D, IsFiniteSet(D), NEW f \in [D -> Int]
    PROVE  SumOf(f) \in Int
<1>1. PICK T \in [SUBSET D -> Int] : SumTable(T, f, D) /\ SumOf(f) = T[D]
  BY SumOfTable
<1> QED
  BY <1>1

LEMMA SumEmpty ==
    ASSUME NEW f \in [{} -> Int]
    PROVE  SumOf(f) = 0
<1>1. IsFiniteSet({})
  BY FS_EmptySet
<1>2. PICK T \in [SUBSET {} -> Int] : SumTable(T, f, {}) /\ SumOf(f) = T[{}]
  BY <1>1, SumOfTable
<1> QED
  BY <1>2 DEF SumTable

\* One summand apart.
LEMMA SumRemove ==
    ASSUME NEW D, IsFiniteSet(D), NEW f \in [D -> Int], NEW x \in D,
           NEW g \in [D \ {x} -> Int], SameOn(g, f, D \ {x})
    PROVE  SumOf(f) = f[x] + SumOf(g)
<1> DEFINE E == D \ {x}
<1>1. E \in SUBSET D /\ IsFiniteSet(E) /\ g \in [E -> Int]
  BY FS_Subset
<1>2. PICK T \in [SUBSET D -> Int] : SumTable(T, f, D) /\ SumOf(f) = T[D]
  BY SumOfTable
<1>3. PICK U \in [SUBSET E -> Int] : SumTable(U, g, E) /\ SumOf(g) = U[E]
  <2> HIDE DEF E
  <2> QED
    BY <1>1, SumOfTable
<1>4. T[E] = U[E]
  <2>1. \A y \in E : f[y] = g[y]
    BY DEF SameOn
  <2> HIDE DEF E
  <2> QED
    BY <1>1, <1>2, <1>3, <2>1, TablesAgree
<1>5. T[D] = f[x] + T[E]
  <2>1. Totals(T, f, D)
    <3> HIDE DEF E
    <3> QED
      BY <1>2, TableRemove
  <2>2. D \in SUBSET D
    OBVIOUS
  <2> QED
    BY <2>1, <2>2 DEF Totals
<1> QED
  BY <1>2, <1>3, <1>4, <1>5

LEMMA SumTotals ==
    ASSUME NEW D, IsFiniteSet(D), NEW f \in [D -> Int]
    PROVE  \E T \in [SUBSET D -> Int] : Totals(T, f, D) /\ SumOf(f) = T[D]
<1>1. PICK T \in [SUBSET D -> Int] : SumTable(T, f, D) /\ SumOf(f) = T[D]
  BY SumOfTable
<1>2. Totals(T, f, D)
  BY <1>1, TableRemove
<1> QED
  BY <1>1, <1>2

LEMMA SumMonotone ==
    ASSUME NEW D, IsFiniteSet(D), NEW f \in [D -> Int], NEW g \in [D -> Int],
           \A x \in D : f[x] <= g[x]
    PROVE  SumOf(f) <= SumOf(g)
<1>f. PICK F \in [SUBSET D -> Int] : Totals(F, f, D) /\ SumOf(f) = F[D]
  BY SumTotals
<1>g. PICK G \in [SUBSET D -> Int] : Totals(G, g, D) /\ SumOf(g) = G[D]
  BY SumTotals
<1> DEFINE W == {s \in SUBSET D : F[s] <= G[s]}
<1>1. ASSUME NEW s \in SUBSET D, \A u \in SUBSET s : u # s => u \in W
      PROVE  s \in W
  <2>1. CASE s = {}
    BY <1>f, <1>g, <2>1 DEF Totals
  <2>2. CASE s # {}
    <3>1. PICK x \in s : TRUE
      BY <2>2
    <3> DEFINE r == s \ {x}
    <3>2. r \in SUBSET s /\ r # s /\ r \in SUBSET D
      OBVIOUS
    <3>3. F[s] = f[x] + F[r] /\ G[s] = g[x] + G[r]
      BY <1>f, <1>g DEF Totals
    <3> HIDE DEF r
    <3>4. F[r] <= G[r] /\ F[r] \in Int /\ G[r] \in Int
      BY <1>1, <3>2
    <3>5. f[x] <= g[x] /\ f[x] \in Int /\ g[x] \in Int
      OBVIOUS
    <3> QED
      BY <3>3, <3>4, <3>5
  <2> QED
    BY <2>1, <2>2
<1>2. \A s \in SUBSET D : s \in W
  <2> HIDE DEF W
  <2> QED
    BY <1>1, SubsetInduction
<1>3. D \in SUBSET D
  OBVIOUS
<1> QED
  BY <1>2, <1>3, <1>f, <1>g

AddsUp(h, f, g, D) == \A x \in D : h[x] = f[x] + g[x]

LEMMA SumPlus ==
    ASSUME NEW D, IsFiniteSet(D), NEW f \in [D -> Int], NEW g \in [D -> Int],
           NEW h \in [D -> Int], AddsUp(h, f, g, D)
    PROVE  SumOf(h) = SumOf(f) + SumOf(g)
<1>f. PICK F \in [SUBSET D -> Int] : Totals(F, f, D) /\ SumOf(f) = F[D]
  BY SumTotals
<1>g. PICK G \in [SUBSET D -> Int] : Totals(G, g, D) /\ SumOf(g) = G[D]
  BY SumTotals
<1>h. PICK H \in [SUBSET D -> Int] : Totals(H, h, D) /\ SumOf(h) = H[D]
  BY SumTotals
<1> DEFINE W == {s \in SUBSET D : H[s] = F[s] + G[s]}
<1>1. ASSUME NEW s \in SUBSET D, \A u \in SUBSET s : u # s => u \in W
      PROVE  s \in W
  <2>1. CASE s = {}
    BY <1>f, <1>g, <1>h, <2>1 DEF Totals
  <2>2. CASE s # {}
    <3>1. PICK x \in s : TRUE
      BY <2>2
    <3> DEFINE r == s \ {x}
    <3>2. r \in SUBSET s /\ r # s /\ r \in SUBSET D
      OBVIOUS
    <3>3. F[s] = f[x] + F[r] /\ G[s] = g[x] + G[r] /\ H[s] = h[x] + H[r]
      BY <1>f, <1>g, <1>h DEF Totals
    <3> HIDE DEF r
    <3>4. H[r] = F[r] + G[r] /\ F[r] \in Int /\ G[r] \in Int
      BY <1>1, <3>2
    <3>5. f[x] \in Int /\ g[x] \in Int /\ h[x] = f[x] + g[x]
      BY DEF AddsUp
    <3> QED
      BY <3>3, <3>4, <3>5
  <2> QED
    BY <2>1, <2>2
<1>2. \A s \in SUBSET D : s \in W
  <2> HIDE DEF W
  <2> QED
    BY <1>1, SubsetInduction
<1>3. D \in SUBSET D
  OBVIOUS
<1> QED
  BY <1>2, <1>3, <1>f, <1>g, <1>h

\* Each summand of f in A is counted in g at the place b sends it to; the others are zero.
CountsAt(b, A, f, D, g, E) ==
    /\ \A x, y \in A : b[x] = b[y] => x = y
    /\ \A x \in A : g[b[x]] = f[x]
    /\ \A x \in D : x \notin A => f[x] = 0
    /\ \A e \in E : (\E x \in A : b[x] = e) \/ g[e] = 0

LEMMA SumReindex ==
    ASSUME NEW D, IsFiniteSet(D), NEW E, IsFiniteSet(E),
           NEW f \in [D -> Int], NEW g \in [E -> Int], NEW A \in SUBSET D, NEW b \in [A -> E],
           CountsAt(b, A, f, D, g, E)
    PROVE  SumOf(f) = SumOf(g)
<1> USE DEF CountsAt
<1>f. PICK F \in [SUBSET D -> Int] : Totals(F, f, D) /\ SumOf(f) = F[D]
  BY SumTotals
<1>g. PICK G \in [SUBSET E -> Int] : Totals(G, g, E) /\ SumOf(g) = G[E]
  BY SumTotals
<1> DEFINE image(s) == {b[x] : x \in s \cap A}
           W == {s \in SUBSET D : F[s] = G[image(s)]}
<1>0. \A s \in SUBSET D : image(s) \in SUBSET E
  OBVIOUS
<1>1. ASSUME NEW s \in SUBSET D, \A u \in SUBSET s : u # s => u \in W
      PROVE  s \in W
  <2>1. CASE s = {}
    <3>1. image(s) = {}
      BY <2>1
    <3> HIDE DEF image
    <3> QED
      BY <1>f, <1>g, <2>1, <3>1 DEF Totals
  <2>2. CASE s # {}
    <3>1. PICK x \in s : TRUE
      BY <2>2
    <3> DEFINE r == s \ {x}
    <3>2. r \in SUBSET s /\ r # s /\ r \in SUBSET D
      OBVIOUS
    <3>3. F[s] = f[x] + F[r]
      BY <1>f DEF Totals
    <3>4. F[r] = G[image(r)] /\ F[r] \in Int
      <4> HIDE DEF r, image
      <4> QED
        BY <1>1, <3>2
    <3>5. CASE x \in A
      <4>1. b[x] \in image(s) /\ image(r) = image(s) \ {b[x]}
        BY <3>5
      <4>2. G[image(s)] = g[b[x]] + G[image(s) \ {b[x]}]
        <5> HIDE DEF image
        <5> QED
          BY <1>0, <1>g, <4>1 DEF Totals
      <4>3. g[b[x]] = f[x]
        BY <3>5
      <4> HIDE DEF image, r
      <4> QED
        BY <3>3, <3>4, <4>1, <4>2, <4>3
    <3>6. CASE x \notin A
      <4>1. image(r) = image(s) /\ f[x] = 0
        BY <3>6
      <4> HIDE DEF image, r
      <4> QED
        BY <3>3, <3>4, <4>1
    <3> QED
      BY <3>5, <3>6
  <2> QED
    BY <2>1, <2>2
<1>2. \A s \in SUBSET D : s \in W
  <2> HIDE DEF W
  <2> QED
    BY <1>1, SubsetInduction
<1>3. F[D] = G[image(D)]
  <2>1. D \in SUBSET D
    OBVIOUS
  <2> QED
    BY <1>2, <2>1
<1> DEFINE V == {s \in SUBSET E : image(D) \subseteq s => G[s] = G[image(D)]}
<1>4. ASSUME NEW s \in SUBSET E, \A u \in SUBSET s : u # s => u \in V
      PROVE  s \in V
  <2> SUFFICES ASSUME image(D) \subseteq s, s # image(D)
               PROVE  G[s] = G[image(D)]
    OBVIOUS
  <2>1. PICK e \in s : e \notin image(D)
    <3> HIDE DEF image
    <3> QED
      OBVIOUS
  <2> DEFINE r == s \ {e}
  <2>2. r \in SUBSET s /\ r # s /\ r \in SUBSET E /\ image(D) \subseteq r
    <3> HIDE DEF image
    <3> QED
      BY <2>1
  <2>3. G[s] = g[e] + G[r]
    BY <1>g DEF Totals
  <2>4. g[e] = 0
    BY <2>1
  <2>5. G[r] = G[image(D)] /\ G[r] \in Int
    <3> HIDE DEF r, image
    <3> QED
      BY <1>4, <2>2
  <2> QED
    BY <2>3, <2>4, <2>5
<1>5. \A s \in SUBSET E : s \in V
  <2> HIDE DEF V
  <2> QED
    BY <1>4, SubsetInduction
<1>6. G[E] = G[image(D)]
  <2>1. E \in SUBSET E /\ image(D) \subseteq E
    OBVIOUS
  <2> HIDE DEF image
  <2> QED
    BY <1>5, <2>1
<1> QED
  BY <1>3, <1>6, <1>f, <1>g

LEMMA SumZero ==
    ASSUME NEW D, IsFiniteSet(D), NEW f \in [D -> Int], \A x \in D : f[x] = 0
    PROVE  SumOf(f) = 0
<1>0. PICK Z : Z = {}
  OBVIOUS
<1> DEFINE b == [x \in Z |-> x]
           g == [x \in Z |-> 0]
<1>1. IsFiniteSet(Z) /\ g \in [Z -> Int] /\ Z \in SUBSET D /\ b \in [Z -> Z]
  BY <1>0, FS_EmptySet
<1>2. SumOf(g) = 0
  BY <1>0, <1>1, SumEmpty
<1> HIDE DEF b, g
<1>3. CountsAt(b, Z, f, D, g, Z)
  BY <1>0 DEF CountsAt
<1>4. SumOf(f) = SumOf(g)
  BY <1>1, <1>3, SumReindex
<1> QED
  BY <1>2, <1>4

\* Summands that are zero may be left out.
LEMMA SumFilter ==
    ASSUME NEW D, IsFiniteSet(D), NEW A \in SUBSET D, NEW f \in [D -> Int], NEW g \in [A -> Int],
           SameOn(g, f, A), ZeroOutside(f, A, D)
    PROVE  SumOf(f) = SumOf(g)
<1> DEFINE b == [x \in A |-> x]
<1>1. IsFiniteSet(A) /\ b \in [A -> A] /\ \A x \in A : b[x] = x
  BY FS_Subset
<1> HIDE DEF b
<1>2. CountsAt(b, A, f, D, g, A)
  BY <1>1 DEF CountsAt, SameOn, ZeroOutside
<1> QED
  BY <1>1, <1>2, SumReindex

\* One summand more.
OneMore(f, g, x, D) == g[x] = 0 /\ SameOn(g, f, D \ {x})

LEMMA SumStep ==
    ASSUME NEW D, IsFiniteSet(D), NEW f \in [D -> Int], NEW g \in [D -> Int], NEW x \in D,
           OneMore(f, g, x, D)
    PROVE  SumOf(f) = SumOf(g) + f[x]
<1> USE DEF OneMore
<1> DEFINE h == [y \in D \ {x} |-> f[y]]
<1>1. h \in [D \ {x} -> Int] /\ SameOn(h, f, D \ {x}) /\ SameOn(h, g, D \ {x})
  BY DEF SameOn
<1>2. IsFiniteSet(D \ {x})
  BY FS_Subset
<1> HIDE DEF h
<1>3. SumOf(h) \in Int
  BY <1>1, <1>2, SumType
<1>4. SumOf(f) = f[x] + SumOf(h) /\ SumOf(g) = g[x] + SumOf(h)
  BY <1>1, SumRemove
<1>5. f[x] \in Int
  OBVIOUS
<1> QED
  BY <1>3, <1>4, <1>5

\* One summand taken away.
LEMMA SumWithout ==
    ASSUME NEW D, IsFiniteSet(D), NEW E, NEW x \in D, E = D \ {x},
           NEW f \in [D -> Int], NEW g \in [E -> Int], SameOn(g, f, E)
    PROVE  SumOf(f) = SumOf(g) + f[x]
<1>1. SumOf(f) = f[x] + SumOf(g)
  BY SumRemove
<1>2. SumOf(g) \in Int /\ f[x] \in Int
  <2>1. IsFiniteSet(E)
    BY FS_Subset
  <2> QED
    BY <2>1, SumType
<1> QED
  BY <1>1, <1>2

\* The same for a family of positions.
LEMMA SumAppend ==
    ASSUME NEW n \in Nat, NEW f \in [1 .. n + 1 -> Int], NEW g \in [1 .. n -> Int],
           SameOn(g, f, 1 .. n)
    PROVE  SumOf(f) = SumOf(g) + f[n + 1]
<1>1. n + 1 \in 1 .. n + 1 /\ 1 .. n = (1 .. n + 1) \ {n + 1}
  OBVIOUS
<1>2. IsFiniteSet(1 .. n + 1)
  BY FS_Interval
<1> QED
  BY <1>1, <1>2, SumWithout

\* The sum of the first i positions.
Running(f, i, n) == SumOf([k \in 1 .. n |-> IF k <= i THEN f[k] ELSE 0])

RunsUp(f, n) ==
    /\ Running(f, 0, n) = 0
    /\ \A i \in 0 .. n : Running(f, i, n) \in Int
    /\ \A i \in 1 .. n : Running(f, i, n) = Running(f, i - 1, n) + f[i]
    /\ Running(f, n, n) = SumOf(f)

LEMMA RunningSum ==
    ASSUME NEW n \in Nat, NEW v \in [1 .. n -> Int]
    PROVE  RunsUp(v, n)
<1> DEFINE N == 1 .. n
           f(i) == [k \in N |-> IF k <= i THEN v[k] ELSE 0]
<1>1. IsFiniteSet(N)
  BY FS_Interval
<1>2. \A k \in N : v[k] \in Int
  OBVIOUS
<1>3. \A i \in Int : f(i) \in [N -> Int]
  BY <1>2
<1>4. \A i : Running(v, i, n) = SumOf(f(i))
  BY DEF Running
<1>5. Running(v, 0, n) = 0
  <2>1. f(0) \in [N -> Int] /\ \A k \in N : f(0)[k] = 0
    BY <1>3
  <2> HIDE DEF f, N
  <2>2. SumOf(f(0)) = 0
    BY <1>1, <2>1, SumZero
  <2> QED
    BY <1>4, <2>2
<1>6. ASSUME NEW i \in 0 .. n
      PROVE  Running(v, i, n) \in Int
  <2>1. f(i) \in [N -> Int]
    BY <1>3
  <2> HIDE DEF f, N
  <2> QED
    BY <1>1, <1>4, <2>1, SumType
<1>7. ASSUME NEW i \in 1 .. n
      PROVE  Running(v, i, n) = Running(v, i - 1, n) + v[i]
  <2>1. /\ f(i) \in [N -> Int] /\ f(i - 1) \in [N -> Int] /\ i \in N
        /\ f(i - 1)[i] = 0 /\ f(i)[i] = v[i]
    BY <1>3
  <2>2. SameOn(f(i - 1), f(i), N \ {i})
    BY DEF SameOn
  <2>3. PICK F \in [N -> Int] : F = f(i)
    BY <2>1
  <2>4. PICK G \in [N -> Int] : G = f(i - 1)
    BY <2>1
  <2>5. G[i] = 0 /\ SameOn(G, F, N \ {i}) /\ F[i] = v[i] /\ i \in N
    BY <2>1, <2>2, <2>3, <2>4
  <2> HIDE DEF f, N
  <2>6. OneMore(F, G, i, N) /\ IsFiniteSet(N) /\ F \in [N -> Int] /\ G \in [N -> Int] /\ i \in N
    BY <1>1, <2>3, <2>4, <2>5 DEF OneMore
  <2>7. SumOf(F) = SumOf(G) + F[i]
    BY <2>6, SumStep, Zenon
  <2> QED
    BY <1>4, <2>3, <2>4, <2>5, <2>7
<1>8. f(n) = v
  OBVIOUS
<1> HIDE DEF f, N
<1> QED
  BY <1>4, <1>5, <1>6, <1>7, <1>8 DEF RunsUp

LEMMA SumNegate ==
    ASSUME NEW D, IsFiniteSet(D), NEW f \in [D -> Int], NEW g \in [D -> Int],
           \A x \in D : g[x] = 0 - f[x]
    PROVE  SumOf(g) = 0 - SumOf(f)
<1> DEFINE z == [x \in D |-> 0]
<1>1. z \in [D -> Int] /\ \A x \in D : z[x] = 0
  OBVIOUS
<1>a. AddsUp(z, f, g, D)
  BY DEF AddsUp
<1> HIDE DEF z
<1>2. SumOf(z) = 0
  BY <1>1, SumZero
<1>b. z \in [D -> Int]
  BY <1>1
<1>3. SumOf(z) = SumOf(f) + SumOf(g)
  BY <1>a, <1>b, SumPlus
<1>4. SumOf(f) \in Int /\ SumOf(g) \in Int
  BY SumType
<1> QED
  BY <1>2, <1>3, <1>4

=============================================================================
