----------------------------- MODULE Generations -----------------------------
(***************************************************************************)
(* GenerationTracker (include/capacity_fabric/model/freshness.hpp) and the *)
(* map update the stores use.  A tracker is a total function from ids to   *)
(* generations: an id never recorded is at 0, the invalid generation,      *)
(* which is what current() returns for it.                                 *)
(***************************************************************************)
EXTENDS Integers

\* The publishers' test before they call advance: older than a valid record.
Stale(cur, next) == cur # 0 /\ next < cur

\* GenerationTracker::advance: a regression between two valid generations is
\* refused, anything else (an equal or an invalid generation too) is stored.
advance(tracker, id, next) ==
    IF next # 0 /\ Stale(tracker[id], next)
      THEN tracker
      ELSE [tracker EXCEPT ![id] = next]

\* map[key] = value
Put(f, k, v) == [x \in DOMAIN f \cup {k} |-> IF x = k THEN v ELSE f[x]]

=============================================================================
