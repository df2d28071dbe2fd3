----------------------------- MODULE EvidenceProofs -----------------------------
(***************************************************************************)
(* Lemmas about Evidence and the trackers, for every value of the          *)
(* constants.  CapacityModelProofs and DeploymentProofs build on them.     *)
(***************************************************************************)
EXTENDS Evidence, SetInduction, TLAPS

-----------------------------------------------------------------------------
(* Trackers and evidence.                                                  *)

\* A tracker stays a tracker, and after a publication that is not stale it records
\* the published generation.
LEMMA AdvanceRecords ==
    ASSUME NEW I, NEW tracker \in [I -> Nat], NEW id \in I, NEW next \in Nat
    PROVE  /\ advance(tracker, id, next) \in [I -> Nat]
           /\ \A x \in I : x # id => advance(tracker, id, next)[x] = tracker[x]
           /\ ~Stale(tracker[id], next) => advance(tracker, id, next)[id] = next
BY DEF advance, Stale

\* Every operation on the evidence keeps its types.
LEMMA EvidenceTypes ==
    ASSUME EvidenceTypeOK, EvidenceNext
    PROVE  EvidenceTypeOK'
<1>1. ASSUME NEW w \in Workers, NEW b \in Boots, registerWorker(w, b)
      PROVE  EvidenceTypeOK'
  BY <1>1 DEF registerWorker, EvidenceTypeOK, Put, Source
<1>2. ASSUME NEW w \in Workers, markWorkerDead(w)
      PROVE  EvidenceTypeOK'
  BY <1>2 DEF markWorkerDead, EvidenceTypeOK, Source
<1>3. ASSUME NEW r \in ResourceIds, NEW w \in Workers, NEW b \in Boots, NEW g \in Gens,
             NEW p \in Reports, publishResource(r, w, b, g, p)
      PROVE  EvidenceTypeOK'
  <2>1. g \in Nat
    BY MaxGenNat DEF Gens
  <2>2. p \in ReportSpace /\ p.device \in DeviceIds /\ p.health \in HealthStates
    BY ReportsAreReports DEF ReportSpace
  <2>3. resourceGen' \in [ResourceIds -> Nat]
    BY <1>3, <2>1, AdvanceRecords DEF publishResource, EvidenceTypeOK
  <2>4. /\ DOMAIN resources' \subseteq ResourceIds
        /\ \A x \in DOMAIN resources' : resources'[x] \in ResourceRecord
    BY <1>3, <2>1, <2>2 DEF publishResource, EvidenceTypeOK, Put, ResourceRecord
  <2>5. /\ DOMAIN devices' \subseteq DeviceIds
        /\ \A x \in DOMAIN devices' : devices'[x] \in Device
    BY <1>3, <2>1, <2>2 DEF publishResource, EvidenceTypeOK, Put, Device
  <2> QED
    BY <1>3, <2>3, <2>4, <2>5 DEF publishResource, EvidenceTypeOK
<1>4. ASSUME NEW r \in ResourceIds, advanceResourceGeneration(r)
      PROVE  EvidenceTypeOK'
  <2> DEFINE next == resourceGen[r] + 1
  <2>1. next \in Nat
    BY DEF EvidenceTypeOK
  <2>2. resourceGen' \in [ResourceIds -> Nat]
    BY <1>4, <2>1, AdvanceRecords DEF advanceResourceGeneration, EvidenceTypeOK
  <2>3. /\ DOMAIN resources' \subseteq ResourceIds
        /\ \A x \in DOMAIN resources' : resources'[x] \in ResourceRecord
    BY <1>4, <2>1 DEF advanceResourceGeneration, EvidenceTypeOK, ResourceRecord
  <2>4. /\ DOMAIN devices' \subseteq DeviceIds
        /\ \A x \in DOMAIN devices' : devices'[x] \in Device
    BY <1>4, <2>1 DEF advanceResourceGeneration, EvidenceTypeOK, Device
  <2> QED
    BY <1>4, <2>2, <2>3, <2>4 DEF advanceResourceGeneration, EvidenceTypeOK
<1>5. ASSUME NEW d \in DeviceIds, NEW h \in HealthStates, NEW g \in Gens, setHealth(d, h, g)
      PROVE  EvidenceTypeOK'
  <2>1. g \in Nat
    BY MaxGenNat DEF Gens
  <2>2. healthGen' \in [DeviceIds -> Nat]
    BY <1>5, <2>1, AdvanceRecords DEF setHealth, EvidenceTypeOK
  <2>3. /\ DOMAIN devices' \subseteq DeviceIds
        /\ \A x \in DOMAIN devices' : devices'[x] \in Device
    BY <1>5 DEF setHealth, EvidenceTypeOK, Device
  <2> QED
    BY <1>5, <2>2, <2>3 DEF setHealth, EvidenceTypeOK
<1> QED
  BY <1>1, <1>2, <1>3, <1>4, <1>5 DEF EvidenceNext

=============================================================================
