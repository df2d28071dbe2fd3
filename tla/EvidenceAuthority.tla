--------------------------- MODULE EvidenceAuthority ---------------------------
(***************************************************************************)
(* What CapacityModel promises about evidence, without trackers, sources   *)
(* or files.  Each worker has at most one incarnation that holds authority.*)
(* Evidence for a resource comes from an incarnation that holds it at that *)
(* moment; what an incarnation published is replaced only by something at  *)
(* least as new, and only a restart drops it.  A restart revokes every     *)
(* authority and leaves at most unattributed evidence, which any holder    *)
(* may replace.                                                            *)
(***************************************************************************)
EXTENDS Integers

CONSTANTS Workers, Boots, ResourceIds, NoWorker, NoBoot

VARIABLES holder,     \* worker -> the incarnation with authority, or NoBoot
          evidence    \* resource -> [worker, boot, gen]

authorityVars == <<holder, evidence>>

Init ==
    /\ holder = [w \in Workers |-> NoBoot]
    /\ DOMAIN evidence = {}

Attributed(r) == r \in DOMAIN evidence /\ evidence[r].worker # NoWorker

\* Only r changes, to gen and, when the boot is given, to its new author.
Replaced(r, w, b, g) ==
    evidence' = [x \in DOMAIN evidence \cup {r} |->
                    IF x = r THEN [worker |-> w, boot |-> b, gen |-> g] ELSE evidence[x]]

Grant(w, b) ==
    /\ holder[w] \in {NoBoot, b}
    /\ holder' = [holder EXCEPT ![w] = b]
    /\ UNCHANGED evidence

Revoke(w) ==
    /\ holder' = [holder EXCEPT ![w] = NoBoot]
    /\ UNCHANGED evidence

Accept(r, w, b) ==
    /\ holder[w] = b
    /\ r \in DOMAIN evidence'
    /\ Attributed(r) => evidence'[r].gen >= evidence[r].gen
    /\ Replaced(r, w, b, evidence'[r].gen)
    /\ UNCHANGED holder

Renew(r) ==
    /\ r \in DOMAIN evidence
    /\ r \in DOMAIN evidence'
    /\ Attributed(r) => evidence'[r].gen = evidence[r].gen + 1
    /\ Replaced(r, evidence[r].worker, evidence[r].boot, evidence'[r].gen)
    /\ UNCHANGED holder

Restart ==
    /\ holder' = [w \in Workers |-> NoBoot]
    /\ DOMAIN evidence' \subseteq ResourceIds
    /\ \A r \in DOMAIN evidence' : evidence'[r].worker = NoWorker

Next ==
    \/ \E w \in Workers, b \in Boots : Grant(w, b)
    \/ \E w \in Workers : Revoke(w)
    \/ \E r \in ResourceIds, w \in Workers, b \in Boots : Accept(r, w, b)
    \/ \E r \in ResourceIds : Renew(r)
    \/ Restart

Spec == Init /\ [][Next]_authorityVars

=============================================================================
