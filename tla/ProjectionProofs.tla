---------------------------- MODULE ProjectionProofs ----------------------------
(***************************************************************************)
(* Theorems of ProjectedCapacity: what the earliest-fit search returns, in *)
(* every state of the ledger, for every fleet, requirement and window.     *)
(***************************************************************************)
EXTENDS ProjectedCapacity, TimelineProofs

-----------------------------------------------------------------------------
(* The published facts.                                                    *)

FactsTyped == reservations \in Seq(Reservation) /\ releases \in Seq(ReleaseEvent)

LEMMA EraseTyped ==
    ASSUME NEW S, NEW s \in Seq(S), NEW i
    PROVE  Erase(s, i) \in Seq(S)
<1> DEFINE e(j) == IF j < i THEN s[j] ELSE s[j + 1]
<1>1. CASE i \notin 1 .. Len(s)
  BY <1>1 DEF Erase
<1>2. CASE i \in 1 .. Len(s)
  <2>1. Len(s) - 1 \in Nat
    BY <1>2, LenProperties
  <2>2. \A j \in 1 .. Len(s) - 1 : e(j) \in S
    BY <1>2, ElementOfSeq
  <2>3. Erase(s, i) = [j \in 1 .. Len(s) - 1 |-> e(j)]
    BY <1>2 DEF Erase, Without
  <2> HIDE DEF e
  <2> QED
    BY <2>1, <2>2, <2>3, IsASeq
<1> QED
  BY <1>1, <1>2

LEMMA FactsTypedStep ==
    ASSUME FactsTyped, [Next]_ledgerVars
    PROVE  FactsTyped'
<1>1. CASE UNCHANGED ledgerVars
  BY <1>1 DEF FactsTyped, ledgerVars
<1>2. CASE ReservationNext
  <2>1. PICK id \in ReservationIds, g \in FactGens, v \in Intervals, h \in Holds, s \in Strengths :
           publishReservation([id |-> id, gen |-> g, interval |-> v, hold |-> h, strength |-> s])
    BY <1>2 DEF ReservationNext
  <2> DEFINE res == [id |-> id, gen |-> g, interval |-> v, hold |-> h, strength |-> s]
             kept == Erase(reservations, ReservationIndex(reservations, res.id))
  <2>2. res \in Reservation
    BY FactBounds, FactAmounts DEF Reservation
  <2>3. reservations' = Append(kept, res) /\ releases' = releases
    BY <2>1 DEF publishReservation
  <2>4. kept \in Seq(Reservation)
    BY EraseTyped DEF FactsTyped
  <2> HIDE DEF res, kept
  <2> QED
    BY <2>2, <2>3, <2>4 DEF FactsTyped
<1>3. CASE ReleaseNext
  <2>1. PICK src \in ReleaseSources, t \in ReleaseTimes, c \in Credits :
           publishRelease([src |-> src, at |-> t, release |-> c])
    BY <1>3 DEF ReleaseNext
  <2> DEFINE rel == [src |-> src, at |-> t, release |-> c]
             kept == Erase(releases, ReleaseIndex(releases, rel.src))
  <2>2. rel \in ReleaseEvent
    BY FactAmounts DEF ReleaseEvent
  <2>3. releases' = Append(kept, rel) /\ reservations' = reservations
    BY <2>1 DEF publishRelease
  <2>4. kept \in Seq(ReleaseEvent)
    BY EraseTyped DEF FactsTyped
  <2> HIDE DEF rel, kept
  <2> QED
    BY <2>2, <2>3, <2>4 DEF FactsTyped
<1> QED
  BY <1>1, <1>2, <1>3 DEF Next

\* Publishing and replacing keep the two vectors vectors of reservations and releases
\* (publishReservation, publishRelease).
LEMMA FactsAlwaysTyped == Spec => []FactsTyped
<1>1. Init => FactsTyped
  BY DEF Init, LedgerInit, FactsTyped
<1>2. FactsTyped /\ [Next]_ledgerVars => FactsTyped'
  BY FactsTypedStep
<1> QED
  BY <1>1, <1>2, PTL DEF Spec

\* In every mode the queries read a curve.
LEMMA QueriesReadACurve ==
    ASSUME FactsTyped, NEW mode
    PROVE  Curve(queryTimeline(mode))
<1>1. Base \in Amounts
  BY BaseAndHorizon, CapacityIsAmount
<1>2. PICK n \in Nat, m \in Nat : n = Len(reservations) /\ m = Len(releases)
  BY DEF FactsTyped
<1>3. ASSUME NEW i \in 1 .. n
      PROVE  TimedHold(reservations[i])
  <2>1. reservations[i] \in Reservation
    BY <1>2 DEF FactsTyped
  <2>2. reservations[i].interval \in Intervals /\ reservations[i].hold \in CapacitySpace
    BY <2>1 DEF Reservation
  <2> QED
    BY <2>2, IntegerTimes, CapacityIsAmount DEF TimedHold
<1>4. ASSUME NEW i \in 1 .. m
      PROVE  TimedRelease(releases[i])
  <2>1. releases[i] \in ReleaseEvent
    BY <1>2 DEF FactsTyped
  <2>2. releases[i].at \in ReleaseTimes /\ releases[i].release \in CapacitySpace
    BY <2>1 DEF ReleaseEvent
  <2> QED
    BY <2>2, IntegerTimes, CapacityIsAmount DEF TimedRelease
<1> QED
  BY <1>1, <1>2, <1>3, <1>4, BuildIsCurve DEF queryTimeline

-----------------------------------------------------------------------------
(* Theorems.                                                               *)

LEMMA EarliestInState ==
    ASSUME FactsTyped
    PROVE  FitIsEarliest
<1> SUFFICES ASSUME NEW mode \in Modes, NEW q \in Requirements,
                    NEW from \in 0 .. (Horizon - 1), NEW dur \in 0 .. Horizon,
                    NEW t \in from .. (Horizon - dur),
                    FitsThroughout(queryTimeline(mode), q, t, t + dur)
             PROVE  LET fit == earliestFit(queryTimeline(mode), q, from, dur, Horizon)
                    IN  fit.found /\ fit.start <= t
  BY DEF FitIsEarliest
<1> DEFINE tl == queryTimeline(mode)
<1>1. Curve(tl)
  BY QueriesReadACurve
<1>2. Throughout(tl, q, t, t + dur)
  BY DEF FitsThroughout, Throughout
<1>3. /\ from \in Int /\ dur \in Nat /\ Horizon \in Int /\ t \in Int
      /\ from < Horizon /\ from <= t /\ t <= Horizon - dur
  BY BaseAndHorizon
<1> HIDE DEF tl
<1>4. PICK u \in candidateStarts(tl, from, Horizon, dur) :
         /\ u \in Int /\ u <= t
         /\ earliestFit(tl, q, from, dur, Horizon) = FitAt(tl, u, dur)
         /\ satisfies(rangeMin(tl, u, u + dur), q)
  BY <1>1, <1>2, <1>3, FitIsNotLate
<1> QED
  BY <1>4 DEF FitAt, tl

LEMMA HoldsInState ==
    ASSUME FactsTyped
    PROVE  FitHolds
<1> SUFFICES ASSUME NEW mode \in Modes, NEW q \in Requirements,
                    NEW from \in Instants, NEW dur \in 1 .. Horizon,
                    earliestFit(queryTimeline(mode), q, from, dur, Horizon).found,
                    NEW d \in DOMAIN q
             PROVE  LET tl  == queryTimeline(mode)
                        fit == earliestFit(tl, q, from, dur, Horizon)
                    IN  /\ Amount(capacityAt(tl, fit.end - 1), d) >= q[d]
                        /\ \A t \in fit.start .. (fit.end - 1) :
                              \/ Amount(capacityAt(tl, t), d) >= q[d]
                              \/ \A u \in fit.start .. t : d \notin DOMAIN capacityAt(tl, u)
  BY DEF FitHolds
<1> DEFINE tl == queryTimeline(mode)
<1>1. Curve(tl)
  BY QueriesReadACurve
<1>2. from \in Int /\ dur \in Nat /\ dur >= 1 /\ Horizon \in Int /\ q \in Amounts
  BY BaseAndHorizon, CapacityIsAmount DEF Instants
<1>3. earliestFit(tl, q, from, dur, Horizon).found
  OBVIOUS
<1> HIDE DEF tl
<1>4. PICK u \in Int : /\ earliestFit(tl, q, from, dur, Horizon) = FitAt(tl, u, dur)
                       /\ satisfies(rangeMin(tl, u, u + dur), q)
  BY <1>1, <1>2, <1>3, FitSatisfies
<1>5. FitAt(tl, u, dur).start = u /\ FitAt(tl, u, dur).end = u + dur
  BY DEF FitAt
<1>6. /\ Amount(capacityAt(tl, u + dur - 1), d) >= q[d]
      /\ \A t \in u .. (u + dur - 1) :
            \/ Amount(capacityAt(tl, t), d) >= q[d]
            \/ \A v \in u .. t : d \notin DOMAIN capacityAt(tl, v)
  BY <1>1, <1>2, <1>4, FitHoldsInWindow
<1> QED
  BY <1>4, <1>5, <1>6 DEF tl

\* In every state and mode, for every requirement and window: no start before the one
\* earliestFit returns would have held the requirement for the whole duration, although it
\* tries only the requested start and the event times.  What it returns meets the
\* requirement at its last instant, and can fall short before it only from its first
\* instant on, in a dimension of which the curve shows nothing until then: rangeMin takes
\* an absent dimension for an unknown one (earliest_fit.hpp, rangeMin of timeline.hpp,
\* Capacity::min).
THEOREM EarliestFitIsSound == Spec => []FitIsSound
<1>1. FactsTyped => FitIsSound
  BY EarliestInState, HoldsInState DEF FitIsSound
<1> QED
  BY <1>1, FactsAlwaysTyped, PTL

\* In every state, for every window that can end before the horizon, earliestFit returns
\* what the exhaustive reference returns, unless the reference's own answer does not hold
\* throughout its window (earliestFit, slowReferenceEarliestFit).
THEOREM EarliestFitMatchesReference == Spec => []MatchesReference
<1>1. ASSUME FactsTyped
      PROVE  MatchesReference
  <2> SUFFICES ASSUME NEW mode \in Modes, NEW q \in Requirements,
                      NEW from \in Instants, NEW dur \in 0 .. Horizon, from + dur <= Horizon
               PROVE  LET tl  == queryTimeline(mode)
                          ref == slowReferenceEarliestFit(tl, q, from, dur, Horizon)
                      IN  \/ earliestFit(tl, q, from, dur, Horizon) = ref
                          \/ ref.found /\ ~FitsThroughout(tl, q, ref.start, ref.end)
    BY DEF MatchesReference
  <2> DEFINE tl == queryTimeline(mode)
  <2>1. Curve(tl)
    BY <1>1, QueriesReadACurve
  <2>2. from \in Int /\ dur \in Nat /\ Horizon \in Int
    BY BaseAndHorizon DEF Instants
  <2>3. \A s, e : FitsThroughout(tl, q, s, e) = Throughout(tl, q, s, e)
    BY DEF FitsThroughout, Throughout
  <2> HIDE DEF tl
  <2>4. LET ref == slowReferenceEarliestFit(tl, q, from, dur, Horizon)
        IN  \/ earliestFit(tl, q, from, dur, Horizon) = ref
            \/ ref.found /\ ~Throughout(tl, q, ref.start, ref.end)
    BY <2>1, <2>2, FitMatchesReference
  <2> QED
    BY <2>3, <2>4 DEF tl
<1> QED
  BY <1>1, FactsAlwaysTyped, PTL

-----------------------------------------------------------------------------
(* What the curve shows.                                                   *)

\* The published facts are as the constructors leave them.
LEMMA FactsProper ==
    ASSUME FactsTyped
    PROVE  /\ \A i \in 1 .. Len(reservations) :
                 ProperHold(reservations[i]) /\ reservations[i].interval.start >= 0
           /\ \A i \in 1 .. Len(releases) : ProperRelease(releases[i])
<1>1. ASSUME NEW i \in 1 .. Len(reservations)
      PROVE  ProperHold(reservations[i]) /\ reservations[i].interval.start >= 0
  <2>1. reservations[i] \in Reservation
    BY DEF FactsTyped
  <2>2. reservations[i].interval \in Intervals /\ reservations[i].hold \in CapacitySpace
    BY <2>1 DEF Reservation
  <2>3. reservations[i].hold \in Amounts /\ \A d : Amount(reservations[i].hold, d) >= 0
    BY <2>2, CapacityNotNegative
  <2> QED
    BY <2>2, <2>3, IntegerTimes DEF ProperHold, TimedHold
<1>2. ASSUME NEW i \in 1 .. Len(releases)
      PROVE  ProperRelease(releases[i])
  <2>1. releases[i] \in ReleaseEvent
    BY DEF FactsTyped
  <2>2. releases[i].at \in ReleaseTimes /\ releases[i].release \in CapacitySpace
    BY <2>1 DEF ReleaseEvent
  <2>3. releases[i].release \in Amounts /\ \A d : Amount(releases[i].release, d) >= 0
    BY <2>2, CapacityNotNegative
  <2> QED
    BY <2>2, <2>3, IntegerTimes DEF ProperRelease, TimedRelease
<1> QED
  BY <1>1, <1>2

\* The sums of the reference, over all the facts with zeroes for those that do not count.
LEMMA SumsInState ==
    ASSUME FactsTyped, NEW mode, NEW t \in Int, NEW d,
           NEW n \in Nat, n = Len(reservations), NEW m \in Nat, m = Len(releases)
    PROVE  /\ Held(mode, t, d) = SumOf(HoldsAt(reservations, mode, t, d, n))
           /\ Ending(mode, t, d) = SumOf(EndsAt(reservations, mode, t, d, n))
           /\ Credited(mode, t, d) = SumOf(DueBy(releases, mode, t, d, m))
<1>0. /\ \A i \in 1 .. n : ProperHold(reservations[i])
      /\ \A i \in 1 .. m : ProperRelease(releases[i])
  BY FactsProper
<1>1. IsFiniteSet(1 .. n) /\ IsFiniteSet(1 .. m)
  BY PositionsFinite
<1>2. /\ HoldsAt(reservations, mode, t, d, n) \in [1 .. n -> Int]
      /\ EndsAt(reservations, mode, t, d, n) \in [1 .. n -> Int]
  BY <1>0, HoldFlowIs
<1>3. DueBy(releases, mode, t, d, m) \in [1 .. m -> Int]
  BY <1>0, DueFlowIs
<1>h. Held(mode, t, d) = SumOf(HoldsAt(reservations, mode, t, d, n))
  <2> DEFINE f == HoldsAt(reservations, mode, t, d, n)
             A == {j \in 1 .. n : /\ Counted(reservations[j], mode)
                                  /\ reservations[j].interval.start <= t
                                  /\ t < reservations[j].interval.end}
             g == [i \in A |-> Amount(reservations[i].hold, d)]
  <2>1. Held(mode, t, d) = SumOf(g)
    BY DEF Held
  <2>2. A \in SUBSET (1 .. n) /\ (\A i \in A : g[i] = f[i]) /\ ZeroOutside(f, A, 1 .. n)
    BY DEF HoldsAt, ZeroOutside
  <2>3. g \in [A -> Int]
    <3>1. g = [i \in A |-> f[i]]
      BY <2>2
    <3> HIDE DEF g, f
    <3> QED
      BY <1>2, <2>2, <3>1 DEF f
  <2>4. SameOn(g, f, A)
    BY <2>2 DEF SameOn
  <2>5. PICK N : N = 1 .. n
    OBVIOUS
  <2>6. f \in [N -> Int] /\ IsFiniteSet(N) /\ A \in SUBSET N /\ ZeroOutside(f, A, N)
    BY <1>1, <1>2, <2>2, <2>5
  <2> HIDE DEF f, g, A
  <2>7. SumOf(f) = SumOf(g)
    BY <2>3, <2>4, <2>6, SumFilter
  <2> QED
    BY <2>1, <2>7 DEF f
<1>e. Ending(mode, t, d) = SumOf(EndsAt(reservations, mode, t, d, n))
  <2> DEFINE f == EndsAt(reservations, mode, t, d, n)
             A == {j \in 1 .. n : Counted(reservations[j], mode) /\ reservations[j].interval.end = t}
             g == [i \in A |-> Amount(reservations[i].hold, d)]
  <2>1. Ending(mode, t, d) = SumOf(g)
    BY DEF Ending
  <2>2. A \in SUBSET (1 .. n) /\ (\A i \in A : g[i] = f[i]) /\ ZeroOutside(f, A, 1 .. n)
    BY DEF EndsAt, ZeroOutside
  <2>3. g \in [A -> Int]
    <3>1. g = [i \in A |-> f[i]]
      BY <2>2
    <3> HIDE DEF g, f
    <3> QED
      BY <1>2, <2>2, <3>1 DEF f
  <2>4. SameOn(g, f, A)
    BY <2>2 DEF SameOn
  <2>5. PICK N : N = 1 .. n
    OBVIOUS
  <2>6. f \in [N -> Int] /\ IsFiniteSet(N) /\ A \in SUBSET N /\ ZeroOutside(f, A, N)
    BY <1>1, <1>2, <2>2, <2>5
  <2> HIDE DEF f, g, A
  <2>7. SumOf(f) = SumOf(g)
    BY <2>3, <2>4, <2>6, SumFilter
  <2> QED
    BY <2>1, <2>7 DEF f
<1>c. Credited(mode, t, d) = SumOf(DueBy(releases, mode, t, d, m))
  <2> DEFINE f == DueBy(releases, mode, t, d, m)
             A == {j \in 1 .. m : releaseTime(releases[j], mode) <= t}
             g == [i \in A |-> Amount(releases[i].release, d)]
  <2>1. Credited(mode, t, d) = SumOf(g)
    BY DEF Credited
  <2>2. A \in SUBSET (1 .. m) /\ (\A i \in A : g[i] = f[i]) /\ ZeroOutside(f, A, 1 .. m)
    BY DEF DueBy, ZeroOutside
  <2>3. g \in [A -> Int]
    <3>1. g = [i \in A |-> f[i]]
      BY <2>2
    <3> HIDE DEF g, f
    <3> QED
      BY <1>3, <2>2, <3>1 DEF f
  <2>4. SameOn(g, f, A)
    BY <2>2 DEF SameOn
  <2>5. PICK N : N = 1 .. m
    OBVIOUS
  <2>6. f \in [N -> Int] /\ IsFiniteSet(N) /\ A \in SUBSET N /\ ZeroOutside(f, A, N)
    BY <1>1, <1>3, <2>2, <2>5
  <2> HIDE DEF f, g, A
  <2>7. SumOf(f) = SumOf(g)
    BY <2>3, <2>4, <2>6, SumFilter
  <2> QED
    BY <2>1, <2>7 DEF f
<1> QED
  BY <1>h, <1>e, <1>c

LEMMA SumsAreNumbers ==
    ASSUME FactsTyped, NEW mode, NEW t \in Int, NEW d
    PROVE  /\ Held(mode, t, d) \in Int /\ Ending(mode, t, d) \in Int /\ Credited(mode, t, d) \in Int
           /\ Credited(mode, t, d) >= 0
           /\ t < 0 => Held(mode, t, d) = 0 /\ Ending(mode, t, d) = 0
<1>1. PICK n \in Nat, m \in Nat : n = Len(reservations) /\ m = Len(releases)
  BY DEF FactsTyped
<1> DEFINE H == HoldsAt(reservations, mode, t, d, n)
           E == EndsAt(reservations, mode, t, d, n)
           C == DueBy(releases, mode, t, d, m)
<1>2. /\ Held(mode, t, d) = SumOf(H) /\ Ending(mode, t, d) = SumOf(E)
      /\ Credited(mode, t, d) = SumOf(C)
  BY <1>1, SumsInState
<1>3. PICK N, M : N = 1 .. n /\ M = 1 .. m
  OBVIOUS
<1>4. H \in [N -> Int] /\ E \in [N -> Int] /\ IsFiniteSet(N)
  BY <1>1, <1>3, FactsProper, HoldFlowIs, PositionsFinite
<1>5. C \in [M -> Int] /\ IsFiniteSet(M) /\ \A i \in M : C[i] >= 0
  BY <1>1, <1>3, FactsProper, DueFlowIs, PositionsFinite
<1>6. SumOf(H) \in Int /\ SumOf(E) \in Int /\ SumOf(C) \in Int
  <2> HIDE DEF H, E, C
  <2> QED
    BY <1>4, <1>5, SumType
<1>7. SumOf(C) >= 0
  <2> DEFINE z == [i \in M |-> 0]
  <2>1. z \in [M -> Int] /\ (\A i \in M : z[i] = 0) /\ \A i \in M : z[i] <= C[i]
    <3> HIDE DEF C
    <3> QED
      BY <1>5
  <2> HIDE DEF z, C
  <2>2. SumOf(z) = 0
    BY <1>5, <2>1, SumZero
  <2>3. SumOf(z) <= SumOf(C)
    <3>1. z \in [M -> Int] /\ \A i \in M : z[i] <= C[i]
      BY <2>1
    <3> QED
      BY <1>5, <3>1, SumMonotone
  <2> QED
    BY <1>6, <2>2, <2>3
<1>8. ASSUME t < 0
      PROVE  SumOf(H) = 0 /\ SumOf(E) = 0
  <2>1. ASSUME NEW i \in N
        PROVE  H[i] = 0 /\ E[i] = 0
    <3>1. /\ reservations[i].interval.start >= 0 /\ ProperHold(reservations[i])
          /\ reservations[i].interval.start \in Int /\ reservations[i].interval.end \in Int
          /\ reservations[i].interval.start <= reservations[i].interval.end
      BY <1>1, <1>3, FactsProper DEF ProperHold, TimedHold
    <3>2. ~(reservations[i].interval.start <= t) /\ reservations[i].interval.end # t
      BY <1>8, <3>1
    <3> QED
      BY <1>3, <3>2 DEF HoldsAt, EndsAt
  <2> HIDE DEF H, E
  <2> QED
    BY <1>4, <2>1, SumZero
<1> QED
  BY <1>2, <1>6, <1>7, <1>8

\* The flows of the timeline's events, as the sums of the abstract accounting.
LEMMA HoldFlowInState ==
    ASSUME FactsTyped, NEW mode, NEW t \in Int, NEW d
    PROVE  LET n == Len(reservations)
           IN  /\ SumOf(HoldFlow(Happened(t, d), reservations, mode, n)) = 0 - Held(mode, t, d)
               /\ SumOf(HoldFlow(Worst(t, d), reservations, mode, n))
                    = 0 - (Held(mode, t, d) + Ending(mode, t, d))
<1>1. PICK n \in Nat, m \in Nat : n = Len(reservations) /\ m = Len(releases)
  BY DEF FactsTyped
<1>2. \A i \in 1 .. n : ProperHold(reservations[i])
  BY <1>1, FactsProper DEF ProperHold
<1>3. /\ Held(mode, t, d) = SumOf(HoldsAt(reservations, mode, t, d, n))
      /\ Ending(mode, t, d) = SumOf(EndsAt(reservations, mode, t, d, n))
  BY <1>1, SumsInState
<1>4. /\ SumOf(HoldFlow(Happened(t, d), reservations, mode, n))
           = 0 - SumOf(HoldsAt(reservations, mode, t, d, n))
      /\ SumOf(HoldFlow(Worst(t, d), reservations, mode, n))
           = 0 - (SumOf(HoldsAt(reservations, mode, t, d, n))
                   + SumOf(EndsAt(reservations, mode, t, d, n)))
  BY <1>2, HoldFlowIs
<1> QED
  BY <1>1, <1>3, <1>4

LEMMA CreditedInState ==
    ASSUME FactsTyped, NEW mode, NEW t \in Int, NEW d
    PROVE  Credited(mode, t, d) = SumOf(DueBy(releases, mode, t, d, Len(releases)))
<1>1. PICK n \in Nat, m \in Nat : n = Len(reservations) /\ m = Len(releases)
  BY DEF FactsTyped
<1>2. Credited(mode, t, d) = SumOf(DueBy(releases, mode, t, d, m))
  BY <1>1, SumsInState
<1> QED
  BY <1>1, <1>2

LEMMA DueFlowInState ==
    ASSUME FactsTyped, NEW mode, NEW t \in Int, NEW d
    PROVE  LET m == Len(releases)
           IN  /\ SumOf(DueFlow(Happened(t, d), releases, mode, m)) = Credited(mode, t, d)
               /\ SumOf(DueFlow(Worst(t, d), releases, mode, m)) = Credited(mode, t - 1, d)
<1>1. PICK n \in Nat, m \in Nat : n = Len(reservations) /\ m = Len(releases)
  BY DEF FactsTyped
<1>2. \A i \in 1 .. m : ProperRelease(releases[i])
  BY <1>1, FactsProper DEF ProperRelease
<1>3. /\ DueFlow(Happened(t, d), releases, mode, m) = DueBy(releases, mode, t, d, m)
      /\ DueFlow(Worst(t, d), releases, mode, m) = DueBy(releases, mode, t - 1, d, m)
  <2>1. PICK rel : rel = releases /\ \A i \in 1 .. m : ProperRelease(rel[i])
    BY <1>2
  <2>2. DueFlow(Happened(t, d), rel, mode, m) = DueBy(rel, mode, t, d, m)
    BY <2>1, DueFlowIs
  <2>3. DueFlow(Worst(t, d), rel, mode, m) = DueBy(rel, mode, t - 1, d, m)
    BY <2>1, DueFlowIs
  <2> QED
    BY <2>1, <2>2, <2>3
<1>4. \A v \in Int : Credited(mode, v, d) = SumOf(DueBy(releases, mode, v, d, m))
  BY <1>1, CreditedInState
<1>5. t - 1 \in Int
  OBVIOUS
<1> QED
  BY <1>1, <1>3, <1>4, <1>5

LEMMA AfterIs ==
    ASSUME FactsTyped, NEW mode, NEW t \in Int, NEW d
    PROVE  LET after(w) == Amount(Base, d) + (SumOf(HoldFlow(w, reservations, mode, Len(reservations)))
                                               + SumOf(DueFlow(w, releases, mode, Len(releases))))
           IN  after(Happened(t, d)) = Exact(mode, t, d) /\ after(Worst(t, d)) = AtWorst(mode, t, d)
<1>1. /\ SumOf(HoldFlow(Happened(t, d), reservations, mode, Len(reservations))) = 0 - Held(mode, t, d)
      /\ SumOf(HoldFlow(Worst(t, d), reservations, mode, Len(reservations)))
           = 0 - (Held(mode, t, d) + Ending(mode, t, d))
  BY HoldFlowInState
<1>2. /\ SumOf(DueFlow(Happened(t, d), releases, mode, Len(releases))) = Credited(mode, t, d)
      /\ SumOf(DueFlow(Worst(t, d), releases, mode, Len(releases))) = Credited(mode, t - 1, d)
  BY DueFlowInState
<1>3. /\ Held(mode, t, d) \in Int /\ Ending(mode, t, d) \in Int /\ Credited(mode, t, d) \in Int
  BY SumsAreNumbers
<1>4. \A u \in Int : Credited(mode, u, d) \in Int
  BY SumsAreNumbers
<1>5. Credited(mode, t - 1, d) \in Int
  BY <1>4
<1>6. Amount(Base, d) \in Int
  BY BaseAndHorizon, CapacityNotNegative
<1> QED
  BY <1>1, <1>2, <1>3, <1>5, <1>6 DEF Exact, AtWorst

LEMMA CurveInState ==
    ASSUME FactsTyped, NEW mode, NEW t \in Int, NEW d
    PROVE  /\ Amount(queryCapacity(mode, t), d) \in Int
           /\ Exact(mode, t, d) \in Int
           /\ Amount(queryCapacity(mode, t), d) >= Exact(mode, t, d)
           /\ \/ Amount(queryCapacity(mode, t), d) = Exact(mode, t, d)
              \/ \E u \in Int : /\ u <= t
                               /\ Amount(queryCapacity(mode, t), d)
                                    <= Exact(mode, t, d) - AtWorst(mode, u, d)
<1>1. PICK n \in Nat, m \in Nat : n = Len(reservations) /\ m = Len(releases)
  BY DEF FactsTyped
<1>2. /\ \A i \in 1 .. n : ProperHold(reservations[i]) /\ TimedHold(reservations[i])
      /\ \A i \in 1 .. m : ProperRelease(releases[i]) /\ TimedRelease(releases[i])
  BY <1>1, FactsProper DEF ProperHold, ProperRelease
<1>3. Base \in Amounts /\ Amount(Base, d) >= 0 /\ Amount(Base, d) \in Int
  BY BaseAndHorizon, CapacityNotNegative
<1> DEFINE after(w) == Amount(Base, d) + (SumOf(HoldFlow(w, reservations, mode, n))
                                           + SumOf(DueFlow(w, releases, mode, m)))
           shown == Amount(queryCapacity(mode, t), d)
<1>4. /\ shown \in Int /\ shown >= after(Happened(t, d))
      /\ \/ shown = after(Happened(t, d))
         \/ \E u \in Int : u <= t /\ shown <= after(Happened(t, d)) - after(Worst(u, d))
  BY <1>1, <1>2, <1>3, BuildBounds DEF queryCapacity, queryTimeline
<1>5. \A u \in Int : after(Happened(u, d)) = Exact(mode, u, d) /\ after(Worst(u, d)) = AtWorst(mode, u, d)
  BY <1>1, AfterIs
<1>6. Exact(mode, t, d) \in Int
  BY <1>3, SumsAreNumbers DEF Exact
<1> HIDE DEF after, shown
<1> QED
  BY <1>4, <1>5, <1>6 DEF shown

\* Before the first instant nothing is held, so nothing is lacking.
LEMMA NothingLacksBefore ==
    ASSUME FactsTyped, NEW mode, NEW u \in Int, NEW d
    PROVE  AtWorst(mode, u, d) \in Int /\ (u < 0 => AtWorst(mode, u, d) >= 0)
<1>1. u - 1 \in Int
  OBVIOUS
<1>2. Credited(mode, u - 1, d) >= 0 /\ Credited(mode, u - 1, d) \in Int
  BY <1>1, SumsAreNumbers
<1>3. /\ Held(mode, u, d) \in Int /\ Ending(mode, u, d) \in Int
      /\ u < 0 => Held(mode, u, d) = 0 /\ Ending(mode, u, d) = 0
  BY SumsAreNumbers
<1>4. Amount(Base, d) >= 0 /\ Amount(Base, d) \in Int
  BY BaseAndHorizon, CapacityNotNegative
<1> QED
  BY <1>2, <1>3, <1>4 DEF AtWorst

\* What the curve shows beyond what is left, some instant of the run has lacked.
LEMMA ExcessInState ==
    ASSUME FactsTyped, NEW mode, NEW t \in Instants, NEW d
    PROVE  LET excess == Amount(queryCapacity(mode, t), d) - Exact(mode, t, d)
           IN  /\ excess \in Int
               /\ excess = 0 \/ (excess > 0 /\ Lacked(mode, t, d, excess))
<1>0. t \in Int /\ t >= 0
  BY BaseAndHorizon DEF Instants
<1>1. PICK shown \in Int, left \in Int :
         /\ shown = Amount(queryCapacity(mode, t), d) /\ left = Exact(mode, t, d)
         /\ shown >= left
         /\ \/ shown = left
            \/ \E u \in Int : u <= t /\ shown <= left - AtWorst(mode, u, d)
  BY <1>0, CurveInState
<1>2. ASSUME shown # left
      PROVE  Lacked(mode, t, d, shown - left)
  <2>1. PICK u \in Int : u <= t /\ shown <= left - AtWorst(mode, u, d)
    BY <1>1, <1>2
  <2>2. PICK w \in Int : w = AtWorst(mode, u, d) /\ (u < 0 => w >= 0)
    BY NothingLacksBefore
  <2>3. w <= -(shown - left) /\ u >= 0
    BY <1>1, <1>2, <2>1, <2>2
  <2>4. u \in 0 .. t
    BY <1>0, <2>1, <2>3
  <2> QED
    BY <2>2, <2>3, <2>4 DEF Lacked
<1>3. /\ shown - left \in Int
      /\ shown - left = 0 \/ (shown - left > 0 /\ Lacked(mode, t, d, shown - left))
  BY <1>1, <1>2
<1> QED
  BY <1>1, <1>3

\* In every state the publications can reach, in whatever order, and in every mode: the
\* capacity that queryCapacity reports at an instant is the free capacity less the holds
\* that last then plus the releases due by then, or more than that by no more than some
\* instant so far lacked when its ending holds are still kept and its releases withheld.
\* No hypothesis is made on the holds; where no instant lacks anything in that sense, the
\* report is exact (applyDelta, freeze, addReservation, buildTimeline).
THEOREM ReportedCapacityIsSound == Spec => []CurveIsSound
<1>1. FactsTyped => CurveIsSound
  BY ExcessInState DEF CurveIsSound
<1> QED
  BY <1>1, FactsAlwaysTyped, PTL

\* A mode that dates no release later credits no less; the holds of the three modes are
\* the same.
LEMMA LaterCreditsLess ==
    ASSUME FactsTyped, BoundsInOrder, NEW t \in Int, NEW d
    PROVE  /\ Exact("Conservative", t, d) <= Exact("Expected", t, d)
           /\ Exact("Expected", t, d) <= Exact("Optimistic", t, d)
<1>1. PICK n \in Nat, m \in Nat : n = Len(reservations) /\ m = Len(releases)
  BY DEF FactsTyped
<1>2. /\ Held("Conservative", t, d) = Held("Expected", t, d)
      /\ Held("Expected", t, d) = Held("Optimistic", t, d)
  BY DEF Held, Counted
<1> DEFINE C(mode) == DueBy(releases, mode, t, d, m)
<1>3. PICK M : M = 1 .. m
  OBVIOUS
<1>4. ASSUME NEW mode
      PROVE  C(mode) \in [M -> Int] /\ Credited(mode, t, d) = SumOf(C(mode))
  <2>1. \A i \in 1 .. m : ProperRelease(releases[i])
    BY <1>1, FactsProper
  <2>2. C(mode) \in [1 .. m -> Int]
    BY <2>1, DueFlowIs
  <2>3. Credited(mode, t, d) = SumOf(C(mode))
    BY <1>1, SumsInState
  <2> QED
    BY <1>3, <2>2, <2>3
<1>5. ASSUME NEW i \in M
      PROVE  C("Conservative")[i] <= C("Expected")[i] /\ C("Expected")[i] <= C("Optimistic")[i]
  <2> DEFINE e == releases[i]
  <2>0. TimedRelease(e) /\ Amount(e.release, d) >= 0
    BY <1>1, <1>3, FactsProper DEF ProperRelease
  <2>1. PICK h \in Int : h = Amount(e.release, d)
    BY <2>0, AmountsAre DEF TimedRelease
  <2>2. /\ e.at.earliest \in Int /\ e.at.time \in Int /\ e.at.latest \in Int
        /\ e.at.earliest <= e.at.time /\ e.at.time <= e.at.latest
    BY <1>1, <1>3, <2>0 DEF TimedRelease, BoundsInOrder
  <2>3. /\ C("Conservative")[i] = IF e.at.latest <= t THEN h ELSE 0
        /\ C("Expected")[i] = IF e.at.time <= t THEN h ELSE 0
        /\ C("Optimistic")[i] = IF e.at.earliest <= t THEN h ELSE 0
    BY <1>3, <2>1 DEF DueBy, releaseTime
  <2>4. h >= 0
    BY <2>0, <2>1
  <2> HIDE DEF C, e
  <2> QED
    BY <2>2, <2>3, <2>4
<1>6. IsFiniteSet(M)
  BY <1>3, PositionsFinite
<1>7. /\ SumOf(C("Conservative")) <= SumOf(C("Expected"))
      /\ SumOf(C("Expected")) <= SumOf(C("Optimistic"))
  <2>1. PICK a \in [M -> Int], b \in [M -> Int], c \in [M -> Int] :
           a = C("Conservative") /\ b = C("Expected") /\ c = C("Optimistic")
    BY <1>4
  <2> HIDE DEF C
  <2>2. (\A i \in M : a[i] <= b[i]) /\ \A i \in M : b[i] <= c[i]
    BY <1>5, <2>1
  <2>3. SumOf(a) <= SumOf(b)
    BY <1>6, <2>2, SumMonotone
  <2>4. SumOf(b) <= SumOf(c)
    BY <1>6, <2>2, SumMonotone
  <2> QED
    BY <2>1, <2>3, <2>4
<1>8. ASSUME NEW mode
      PROVE  Held(mode, t, d) \in Int /\ Credited(mode, t, d) \in Int
  BY SumsAreNumbers
<1>9. Amount(Base, d) \in Int
  BY BaseAndHorizon, CapacityNotNegative
<1> HIDE DEF C
<1> QED
  BY <1>2, <1>4, <1>7, <1>8, <1>9 DEF Exact

\* A mode that credits no more than another shows more only by what it has lacked itself.
LEMMA LowerModeShows ==
    ASSUME FactsTyped, NEW low, NEW high, NEW t \in Instants, NEW d,
           Exact(low, t, d) <= Exact(high, t, d)
    PROVE  LET shown(mode) == Amount(queryCapacity(mode, t), d)
           IN  shown(low) <= shown(high) \/ Lacked(low, t, d, shown(low) - shown(high))
<1>0. t \in Int
  BY BaseAndHorizon DEF Instants
<1>1. PICK a \in Int, x \in Int, b \in Int, y \in Int :
         /\ a = Amount(queryCapacity(low, t), d) /\ x = Exact(low, t, d)
         /\ b = Amount(queryCapacity(high, t), d) /\ y = Exact(high, t, d)
         /\ b >= y /\ x <= y
  BY <1>0, CurveInState
<1>2. a - x = 0 \/ Lacked(low, t, d, a - x)
  BY <1>1, ExcessInState
<1>3. CASE a - x = 0
  BY <1>1, <1>3
<1>4. ASSUME Lacked(low, t, d, a - x)
      PROVE  Lacked(low, t, d, a - b)
  <2>1. PICK u \in 0 .. t : AtWorst(low, u, d) <= -(a - x)
    BY <1>4 DEF Lacked
  <2>2. u \in Int
    BY <1>0
  <2>3. AtWorst(low, u, d) \in Int
    BY <2>2, NothingLacksBefore
  <2>4. AtWorst(low, u, d) <= -(a - b)
    BY <1>1, <2>1, <2>3
  <2> QED
    BY <2>4 DEF Lacked
<1> QED
  BY <1>1, <1>2, <1>3, <1>4

\* In every state in which each release lies within its own bounds: at every instant the
\* conservative answer to queryCapacity exceeds the expected one, and the expected one the
\* optimistic one, by no more than some instant so far lacked in the lower of the two modes
\* when its ending holds are still kept and its releases withheld (releaseTime,
\* buildTimeline, freeze).
THEOREM ModesAreOrdered == Spec => []ModesOrdered
<1>1. ASSUME FactsTyped
      PROVE  ModesOrdered
  <2> SUFFICES ASSUME BoundsInOrder, NEW t \in Instants, NEW d \in Dimensions
               PROVE  LET shown(mode) == Amount(queryCapacity(mode, t), d)
                          ordered(low, high) ==
                              \/ shown(low) <= shown(high)
                              \/ Lacked(low, t, d, shown(low) - shown(high))
                      IN  ordered("Conservative", "Expected") /\ ordered("Expected", "Optimistic")
    BY DEF ModesOrdered
  <2>1. t \in Int
    BY BaseAndHorizon DEF Instants
  <2>2. /\ Exact("Conservative", t, d) <= Exact("Expected", t, d)
        /\ Exact("Expected", t, d) <= Exact("Optimistic", t, d)
    BY <1>1, <2>1, LaterCreditsLess
  <2> QED
    BY <1>1, <2>2, LowerModeShows
<1> QED
  BY <1>1, FactsAlwaysTyped, PTL

=============================================================================
