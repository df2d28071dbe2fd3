--------------------------- MODULE ProjectedCapacity ---------------------------
(***************************************************************************)
(* CapacityModel's queries about the future (queryCapacity and             *)
(* queryEarliestFit, src/model/model.cpp), asked in every state that the   *)
(* publications of reservations and releases can reach: the order of the   *)
(* publications is the order of the events in the timeline, and the curve  *)
(* depends on it.  The fleet's available capacity is fixed.                *)
(***************************************************************************)
EXTENDS Ledger, Timeline, Sums

CONSTANTS Base,           \* view.available: free capacity of the fresh fleet
          Horizon,        \* bound: instants 0 .. Horizon are queried
          Requirements    \* demand requirements asked about

ASSUME BaseAndHorizon ==
    Base \in CapacitySpace /\ Horizon \in Nat /\ Requirements \subseteq CapacitySpace

\* TimePoint counts nanoseconds.  The constructor of Interval refuses a negative start and
\* an end that is not after it (the default one is [0, 0)); no code checks a release.
ASSUME IntegerTimes ==
    /\ \A v \in Intervals : v.start \in Nat /\ v.end \in Int /\ v.start <= v.end
    /\ \A t \in ReleaseTimes : t.time \in Int /\ t.earliest \in Int /\ t.latest \in Int

Instants == 0 .. Horizon

queryTimeline(mode) == buildTimeline(Base, reservations, releases, mode)

queryCapacity(mode, t) == capacityAt(queryTimeline(mode), t)

queryEarliestFit(requirement, mode, earliestStart, duration) ==
    earliestFit(queryTimeline(mode), requirement, earliestStart, duration, Horizon)

Init == LedgerInit

Next == ReservationNext \/ ReleaseNext

Spec == Init /\ [][Next]_ledgerVars

-----------------------------------------------------------------------------
(* The reference: sums over the published facts, with no events, no order  *)
(* and no clamping.  The two Boolean parameters say whether the ends of a  *)
(* hold and the instant of a release count.                                *)

Held(mode, t, d) ==
    LET holds(i) == /\ Counted(reservations[i], mode)
                    /\ reservations[i].interval.start <= t
                    /\ t < reservations[i].interval.end
    IN  SumOf([i \in {j \in 1 .. Len(reservations) : holds(j)} |->
                 Amount(reservations[i].hold, d)])

Credited(mode, t, d) ==
    SumOf([i \in {j \in 1 .. Len(releases) : releaseTime(releases[j], mode) <= t} |->
             Amount(releases[i].release, d)])

\* What is left at t when each hold lasts from its start up to its end.
Exact(mode, t, d) == Amount(Base, d) + Credited(mode, t, d) - Held(mode, t, d)

\* The holds of the reservations that end at t.
Ending(mode, t, d) ==
    LET ends(i) == Counted(reservations[i], mode) /\ reservations[i].interval.end = t
    IN  SumOf([i \in {j \in 1 .. Len(reservations) : ends(j)} |->
                 Amount(reservations[i].hold, d)])

NotOvercommitted(mode) ==
    \A t \in Instants, d \in Dimensions : Exact(mode, t, d) >= 0

\* What is left at t in the worst order of its events: the holds that end at t are still
\* kept, and the releases due at t have not come.
AtWorst(mode, t, d) ==
    Amount(Base, d) + Credited(mode, t - 1, d) - Held(mode, t, d) - Ending(mode, t, d)

\* At some instant up to t that order lacks x or more.
Lacked(mode, t, d, x) == \E u \in 0 .. t : AtWorst(mode, u, d) <= -x

\* Every segment the window touches satisfies the requirement.
FitsThroughout(tl, requirement, start, end) ==
    \A j \in Segments(tl, start, end) : satisfies(tl.prefix[j], requirement)

-----------------------------------------------------------------------------
(* Properties.                                                             *)

\* Whatever the holds and the order of their publication, the curve never shows less
\* than is really left, and what it shows beyond that is no more than some instant so far
\* lacked in the worst order of its events: the clamp at zero and the arbitrary order of
\* simultaneous events err upwards only, and are bounded (applyDelta, addReservation,
\* freeze, capacityAt).
CurveIsSound ==
    \A mode \in Modes, t \in Instants, d \in Dimensions :
        LET excess == Amount(queryCapacity(mode, t), d) - Exact(mode, t, d)
        IN  excess = 0 \/ (excess > 0 /\ Lacked(mode, t, d, excess))

\* No release is forecast outside its own bounds; publishRelease does not check it.
BoundsInOrder ==
    \A i \in 1 .. Len(releases) :
        releases[i].at.earliest <= releases[i].at.time /\ releases[i].at.time <= releases[i].at.latest

\* With every release within its bounds, a conservative answer exceeds the expected one,
\* and an expected answer the optimistic one, by no more than some instant so far lacked
\* in the lower mode, in the worst order of its events; where none did, the answers are in
\* order (releaseTime, buildTimeline, freeze).
ModesOrdered ==
    BoundsInOrder =>
        \A t \in Instants, d \in Dimensions :
            LET shown(mode) == Amount(queryCapacity(mode, t), d)
                ordered(low, high) ==
                    \/ shown(low) <= shown(high)
                    \/ Lacked(low, t, d, shown(low) - shown(high))
            IN  ordered("Conservative", "Expected") /\ ordered("Expected", "Optimistic")

\* earliestFit tries only the requested start and the event times, and yet no start
\* before the one it returns (none at all, if it finds nothing) would have held the
\* requirement for the whole duration (candidateStarts, earliestFit).
FitIsEarliest ==
    \A mode \in Modes :
        LET tl == queryTimeline(mode)
        IN  \A q \in Requirements, from \in 0 .. (Horizon - 1), dur \in 0 .. Horizon :
                LET fit == earliestFit(tl, q, from, dur, Horizon)
                IN  \A t \in from .. (Horizon - dur) :
                        FitsThroughout(tl, q, t, t + dur) => fit.found /\ fit.start <= t

\* Where a fit found falls short, it does so from its first instant on, in a dimension of
\* which there is nothing at all, until some of it appears; from there to the end, and at
\* the last instant in any case, the requirement is met (rangeMin, Capacity::min).
FitHolds ==
    \A mode \in Modes :
        LET tl == queryTimeline(mode)
        IN  \A q \in Requirements, from \in Instants, dur \in 1 .. Horizon :
                LET fit == earliestFit(tl, q, from, dur, Horizon)
                    met(t, d)  == Amount(capacityAt(tl, t), d) >= q[d]
                    none(t, d) == d \notin DOMAIN capacityAt(tl, t)
                IN  fit.found =>
                      \A d \in DOMAIN q :
                          /\ met(fit.end - 1, d)
                          /\ \A t \in fit.start .. (fit.end - 1) :
                                met(t, d) \/ \A u \in fit.start .. t : none(u, d)

\* No start before the one found would do, and the one found does, except at its
\* beginning in a dimension that is exhausted there (earliestFit).
FitIsSound == FitIsEarliest /\ FitHolds

\* For a window that can end before the horizon, earliestFit returns what its slow
\* reference returns, start, end and capacity, unless the reference's own fit does not
\* hold throughout (candidateStarts, earliestFit, slowReferenceEarliestFit).
MatchesReference ==
    \A mode \in Modes :
        LET tl == queryTimeline(mode)
        IN  \A q \in Requirements, from \in Instants, dur \in 0 .. Horizon :
                LET ref == slowReferenceEarliestFit(tl, q, from, dur, Horizon)
                IN  from + dur <= Horizon =>
                      \/ earliestFit(tl, q, from, dur, Horizon) = ref
                      \/ ref.found /\ ~FitsThroughout(tl, q, ref.start, ref.end)

-----------------------------------------------------------------------------
(* What the comments, the tests and the README say of the same queries;    *)
(* the code does not keep these.                                           *)

\* timeline.hpp: a hard reservation "subtracts the held amount during [start, end) and
\* returns it at end", even with nothing overcommitted (addReservation, freeze).
HoldsAreExact ==
    \A mode \in Modes : NotOvercommitted(mode) =>
        \A t \in Instants, d \in Dimensions :
            Amount(queryCapacity(mode, t), d) = Exact(mode, t, d)

\* tests/test_property.cpp: "conservative <= expected <= optimistic at a common horizon,
\* under the same reservations", here with nothing overcommitted and every release
\* within its bounds (releaseTime, freeze).
ConservativeBelowExpected ==
    BoundsInOrder /\ (\A mode \in Modes : NotOvercommitted(mode)) =>
        \A t \in Instants, d \in Dimensions :
            /\ Amount(queryCapacity("Conservative", t), d)
                 <= Amount(queryCapacity("Expected", t), d)
            /\ Amount(queryCapacity("Expected", t), d)
                 <= Amount(queryCapacity("Optimistic", t), d)

\* earliest_fit.hpp: earliestFit "evaluates the window minimum per requested dimension;
\* returns the first start that satisfies every dimension".
FitHoldsThroughout ==
    \A mode \in Modes :
        LET tl == queryTimeline(mode)
        IN  \A q \in Requirements, from \in Instants, dur \in 1 .. Horizon :
                LET fit == earliestFit(tl, q, from, dur, Horizon)
                IN  fit.found =>
                      \A t \in fit.start .. (fit.end - 1) : satisfies(capacityAt(tl, t), q)

\* timeline.hpp on rangeMin: "the min of the values on the segments that intersect
\* the window".
RangeMinIsMinimum ==
    \A mode \in Modes, s \in Instants, e \in Instants, d \in Dimensions :
        LET tl == queryTimeline(mode)
        IN  s < e => \A t \in s .. (e - 1) :
                Amount(rangeMin(tl, s, e), d) <= Amount(capacityAt(tl, t), d)

=============================================================================
