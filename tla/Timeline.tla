------------------------------- MODULE Timeline -------------------------------
(***************************************************************************)
(* The capacity curve and the earliest fit: timeline/timeline.hpp,         *)
(* forecast/forecast.hpp and query/earliest_fit.hpp.  A timeline is        *)
(* built from a base capacity, the reservations and the releases and is    *)
(* then only read, so everything here is an operator.                      *)
(*                                                                         *)
(* freeze sorts with std::sort by time alone.  Up to 16 events the library *)
(* sorts by insertion, which keeps events of equal time in the order they  *)
(* were added; with more of them the order at one instant is the           *)
(* library's own, the same for the same vector.                            *)
(***************************************************************************)
EXTENDS Capacity, Sequences, FiniteSets

\* WhatIf and Synthetic build the same timeline as Expected.
Modes == {"Guaranteed", "Conservative", "Expected", "Optimistic"}

StableSort(s) ==
    LET before(i, j) == s[i].time < s[j].time \/ (s[i].time = s[j].time /\ i < j)
        position(i)  == 1 + Cardinality({j \in 1 .. Len(s) : before(j, i)})
    IN  [k \in 1 .. Len(s) |-> s[CHOOSE i \in 1 .. Len(s) : position(i) = k]]

\* The vectors that hold what s holds, in the order of time.
TimeOrders(s) ==
    LET N == 1 .. Len(s)
        shuffles == {p \in [N -> N] : \A k, l \in N : p[k] = p[l] => k = l}
    IN  {r \in {[k \in N |-> s[p[k]]] : p \in shuffles} :
            \A k, l \in N : k <= l => r[k].time <= r[l].time}

\* libstdc++'s threshold: longer vectors are partitioned first.
InsertionLimit == 16

\* std::sort
Sort(s) ==
    IF Len(s) <= InsertionLimit THEN StableSort(s) ELSE CHOOSE r \in TimeOrders(s) : TRUE

-----------------------------------------------------------------------------
(* Building the curve.                                                     *)

\* Mutant of addReservation: the hold is never returned.
addReservationForever(events, r) ==
    Append(events, [time |-> r.interval.start, delta |-> negate(r.hold)])

addReservation(events, r) ==
    events \o << [time |-> r.interval.start, delta |-> negate(r.hold)],
                 [time |-> r.interval.end,   delta |-> r.hold] >>

\* Mutant of releaseTime: the bounds are swapped.
releaseTimeSwapped(e, mode) ==
    CASE mode = "Optimistic" -> e.at.latest
      [] mode \in {"Guaranteed", "Conservative"} -> e.at.earliest
      [] OTHER -> e.at.time

releaseTime(e, mode) ==
    CASE mode = "Optimistic" -> e.at.earliest
      [] mode \in {"Guaranteed", "Conservative"} -> e.at.latest
      [] OTHER -> e.at.time

addRelease(events, e, mode) ==
    Append(events, [time |-> releaseTime(e, mode), delta |-> e.release])

\* buildTimeline's filter: soft holds do not count against guaranteed capacity.
Counted(r, mode) == (r.strength = "Hard" \/ mode # "Guaranteed") /\ DOMAIN r.hold # {}

\* Sorts the events and records the running, clamped capacity after each of
\* them; prefix[0] is the base.
freeze(base, events) ==
    LET sorted == Sort(events)
        prefix[i \in 0 .. Len(events)] ==
            IF i = 0 THEN base ELSE applyDelta(prefix[i - 1], sorted[i].delta)
    IN  [events |-> sorted, prefix |-> prefix]

buildTimeline(base, rsv, rel, mode) ==
    LET held[i \in 0 .. Len(rsv)] ==
            IF i = 0 THEN <<>>
            ELSE IF Counted(rsv[i], mode) THEN addReservation(held[i - 1], rsv[i])
            ELSE held[i - 1]
        all[i \in 0 .. Len(rel)] ==
            IF i = 0 THEN held[Len(rsv)] ELSE addRelease(all[i - 1], rel[i], mode)
    IN  freeze(base, all[Len(rel)])

-----------------------------------------------------------------------------
(* Reading it.                                                             *)

\* upperBound: how many events have happened at t.
Applied(tl, t) == Cardinality({i \in 1 .. Len(tl.events) : tl.events[i].time <= t})

capacityAt(tl, t) == tl.prefix[Applied(tl, t)]

\* The segments rangeMin's walk visits: the one at start, and the one after each
\* event strictly inside (start, end), those at one instant each on its own.
Segments(tl, start, end) ==
    Applied(tl, start) ..
        (Applied(tl, start)
          + Cardinality({i \in 1 .. Len(tl.events) :
                            start < tl.events[i].time /\ tl.events[i].time < end}))

\* Mutant of rangeMin: only the start of the window is looked at.
rangeMinAtStart(tl, start, end) == capacityAt(tl, start)

rangeMin(tl, start, end) ==
    LET first == Applied(tl, start)
        best[j \in Segments(tl, start, end)] ==
            IF j = first THEN tl.prefix[j] ELSE MinCap(best[j - 1], tl.prefix[j])
    IN  best[first + Cardinality(Segments(tl, start, end)) - 1]

-----------------------------------------------------------------------------
(* The earliest start at which a requirement fits for a duration.          *)

NoFit == [found |-> FALSE]

FitAt(tl, t, duration) ==
    [found |-> TRUE, start |-> t, end |-> t + duration,
     capacityAtFit |-> rangeMin(tl, t, t + duration)]

\* Both searches return the first of the starts they try that satisfies.
FirstFit(tl, requirement, duration, starts) ==
    LET fits == {t \in starts : satisfies(rangeMin(tl, t, t + duration), requirement)}
    IN  IF fits = {} THEN NoFit
        ELSE FitAt(tl, CHOOSE t \in fits : \A u \in fits : t <= u, duration)

\* Mutant of candidateStarts: an event at the last possible start is not tried.
candidateStartsStrict(tl, earliestStart, horizon, duration) ==
    {earliestStart} \cup
    {t \in {tl.events[i].time : i \in 1 .. Len(tl.events)} :
        earliestStart <= t /\ t < horizon - duration}

candidateStarts(tl, earliestStart, horizon, duration) ==
    {earliestStart} \cup
    {t \in {tl.events[i].time : i \in 1 .. Len(tl.events)} :
        earliestStart <= t /\ t <= horizon - duration}

earliestFit(tl, requirement, earliestStart, duration, horizon) ==
    IF duration < 0 \/ horizon <= earliestStart THEN NoFit
    ELSE FirstFit(tl, requirement, duration,
                  candidateStarts(tl, earliestStart, horizon, duration))

\* The differential-testing reference, with its grid step of 1.
slowReferenceEarliestFit(tl, requirement, earliestStart, duration, horizon) ==
    IF duration < 0 \/ horizon <= earliestStart THEN NoFit
    ELSE FirstFit(tl, requirement, duration, earliestStart .. (horizon - duration))

=============================================================================
