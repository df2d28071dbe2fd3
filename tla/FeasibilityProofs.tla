--------------------------- MODULE FeasibilityProofs ---------------------------
(***************************************************************************)
(* Theorems about the queries of Feasibility: what they answer in every    *)
(* state of the model, after restarts too, for every fleet, every demand   *)
(* and every scenario of the kinds the properties name.                    *)
(***************************************************************************)
EXTENDS Feasibility, CapacityModelProofs, TimelineProofs

-----------------------------------------------------------------------------
(* Totals of capacities.                                                   *)

\* A capacity whose amounts are not negative.
Positive(c) == c \in Amounts /\ \A d : Amount(c, d) >= 0

\* A family of such capacities.
Capacities(f, D) == DOMAIN f = D /\ \A i \in D : Positive(f[i])

LEMMA PositiveIs ==
    ASSUME NEW c, Positive(c)
    PROVE  /\ DOMAIN c \in SUBSET Dimensions
           /\ \A d : Amount(c, d) \in Int /\ Amount(c, d) >= 0
BY AmountsAre DEF Positive

LEMMA CapacityIsPositive ==
    ASSUME NEW c \in CapacitySpace
    PROVE  Positive(c)
BY CapacityNotNegative DEF Positive

\* The amounts of a dimension, one for each member of the family.
Column(f, d) == [i \in DOMAIN f |-> Amount(f[i], d)]

LEMMA ColumnIs ==
    ASSUME NEW D, NEW f, Capacities(f, D), NEW d
    PROVE  Column(f, d) \in [D -> Int] /\ \A i \in D : Column(f, d)[i] >= 0
<1>1. \A i \in D : Amount(f[i], d) \in Int /\ Amount(f[i], d) >= 0
  BY PositiveIs DEF Capacities
<1> QED
  BY <1>1 DEF Column, Capacities

\* A sum of numbers that are not negative is not negative.
LEMMA SumNotNegative ==
    ASSUME NEW D, IsFiniteSet(D), NEW f \in [D -> Int], \A i \in D : f[i] >= 0
    PROVE  SumOf(f) \in Int /\ SumOf(f) >= 0
<1> DEFINE z == [i \in D |-> 0]
<1>1. z \in [D -> Int] /\ (\A i \in D : z[i] = 0) /\ \A i \in D : z[i] <= f[i]
  OBVIOUS
<1> HIDE DEF z
<1>2. SumOf(z) = 0
  BY <1>1, SumZero
<1>3. SumOf(z) <= SumOf(f)
  <2>1. z \in [D -> Int] /\ \A i \in D : z[i] <= f[i]
    BY <1>1
  <2> QED
    BY <2>1, SumMonotone
<1>4. SumOf(f) \in Int
  BY SumType
<1> QED
  BY <1>2, <1>3, <1>4

\* Fewer of them sum to no more.
LEMMA SumOfFewer ==
    ASSUME NEW D, IsFiniteSet(D), NEW A \in SUBSET D, NEW f \in [D -> Int], NEW g \in [A -> Int],
           SameOn(g, f, A), \A i \in D : f[i] >= 0
    PROVE  SumOf(g) <= SumOf(f)
<1> DEFINE h == [i \in D |-> IF i \in A THEN f[i] ELSE 0]
<1>1. h \in [D -> Int] /\ (\A i \in D : h[i] <= f[i]) /\ SameOn(g, h, A) /\ ZeroOutside(h, A, D)
  BY DEF SameOn, ZeroOutside
<1> HIDE DEF h
<1>2. SumOf(h) = SumOf(g)
  BY <1>1, SumFilter
<1>3. SumOf(h) <= SumOf(f)
  <2>1. h \in [D -> Int] /\ \A i \in D : h[i] <= f[i]
    BY <1>1
  <2> QED
    BY <2>1, SumMonotone
<1> QED
  BY <1>2, <1>3

\* The total has the sum of the amounts, in the dimensions no member lists too.
LEMMA TotalIs ==
    ASSUME NEW D, IsFiniteSet(D), NEW f, Capacities(f, D)
    PROVE  /\ Positive(Total(f))
           /\ DOMAIN Total(f) = UNION {DOMAIN f[i] : i \in D}
           /\ \A d : Amount(Total(f), d) = SumOf(Column(f, d))
<1>1. DOMAIN Total(f) = UNION {DOMAIN f[i] : i \in D}
  BY DEF Total, Capacities
<1>2. ASSUME NEW d
      PROVE  SumOf(Column(f, d)) \in Int /\ SumOf(Column(f, d)) >= 0
  <2>1. Column(f, d) \in [D -> Int] /\ \A i \in D : Column(f, d)[i] >= 0
    BY ColumnIs
  <2> QED
    BY <2>1, SumNotNegative
<1>3. ASSUME NEW d
      PROVE  Amount(Total(f), d) = SumOf(Column(f, d))
  <2>1. CASE d \in DOMAIN Total(f)
    BY <2>1 DEF Total, Amount, Column
  <2>2. CASE d \notin DOMAIN Total(f)
    <3>1. \A i \in D : Column(f, d)[i] = 0
      BY <1>1, <2>2 DEF Column, Amount, Capacities
    <3>2. Column(f, d) \in [D -> Int]
      BY ColumnIs
    <3>3. SumOf(Column(f, d)) = 0
      BY <3>1, <3>2, SumZero
    <3> QED
      BY <2>2, <3>3 DEF Amount
  <2> QED
    BY <2>1, <2>2
<1>4. Total(f) \in Amounts
  <2>1. DOMAIN Total(f) \in SUBSET Dimensions
    <3>1. \A i \in D : DOMAIN f[i] \in SUBSET Dimensions
      BY PositiveIs DEF Capacities
    <3> QED
      BY <1>1, <3>1
  <2>2. \A d \in DOMAIN Total(f) : Total(f)[d] \in Int
    BY <1>2, <1>3 DEF Amount
  <2>3. Total(f) \in [DOMAIN Total(f) -> Int]
    <3>1. Total(f) = [d \in DOMAIN Total(f) |-> Total(f)[d]]
      BY DEF Total
    <3> QED
      BY <2>2, <3>1
  <2> QED
    BY <2>1, <2>3, AmountsIntro
<1> QED
  BY <1>1, <1>2, <1>3, <1>4 DEF Positive

\* A part of the family has no more of anything.
LEMMA TotalOfFewer ==
    ASSUME NEW D, IsFiniteSet(D), NEW f, Capacities(f, D), NEW A \in SUBSET D,
           NEW g, Capacities(g, A), SameOn(g, f, A)
    PROVE  \A d : Amount(Total(g), d) <= Amount(Total(f), d)
<1> SUFFICES ASSUME NEW d
             PROVE  Amount(Total(g), d) <= Amount(Total(f), d)
  OBVIOUS
<1>1. IsFiniteSet(A)
  BY FS_Subset
<1>2. Amount(Total(f), d) = SumOf(Column(f, d)) /\ Amount(Total(g), d) = SumOf(Column(g, d))
  BY <1>1, TotalIs
<1>3. PICK F \in [D -> Int] : F = Column(f, d) /\ \A i \in D : F[i] >= 0
  BY ColumnIs
<1>4. PICK G \in [A -> Int] : G = Column(g, d)
  BY ColumnIs
<1>5. SameOn(G, F, A)
  BY <1>3, <1>4 DEF SameOn, Column, Capacities
<1>6. SumOf(G) <= SumOf(F)
  BY <1>3, <1>5, SumOfFewer
<1> QED
  BY <1>2, <1>3, <1>4, <1>6

-----------------------------------------------------------------------------
(* Subtracting.                                                            *)

LEMMA SubtractIs ==
    ASSUME NEW c, Positive(c), NEW o, Positive(o)
    PROVE  /\ Positive(subtractClamp(c, o))
           /\ DOMAIN subtractClamp(c, o) = DOMAIN c \cup DOMAIN o
           /\ \A d : Amount(subtractClamp(c, o), d) = NonNegative(Amount(c, d) - Amount(o, d))
<1>1. DOMAIN subtractClamp(c, o) = DOMAIN c \cup DOMAIN o
  BY DEF subtractClamp
<1>2. /\ DOMAIN c \in SUBSET Dimensions /\ DOMAIN o \in SUBSET Dimensions
      /\ \A d : Amount(c, d) \in Int /\ Amount(o, d) \in Int /\ Amount(o, d) >= 0
  BY PositiveIs
<1>3. ASSUME NEW d
      PROVE  Amount(subtractClamp(c, o), d) = NonNegative(Amount(c, d) - Amount(o, d))
  BY <1>1 DEF subtractClamp, Amount, NonNegative
<1>4. \A d : NonNegative(Amount(c, d) - Amount(o, d)) \in Int /\ NonNegative(Amount(c, d) - Amount(o, d)) >= 0
  BY <1>2 DEF NonNegative
<1>5. subtractClamp(c, o) \in [DOMAIN c \cup DOMAIN o -> Int]
  BY <1>4 DEF subtractClamp
<1>6. DOMAIN c \cup DOMAIN o \in SUBSET Dimensions
  BY <1>2
<1>7. subtractClamp(c, o) \in Amounts
  BY <1>5, <1>6, AmountsIntro
<1> QED
  BY <1>1, <1>3, <1>4, <1>7 DEF Positive

-----------------------------------------------------------------------------
(* Which views a demand fits in.                                           *)

Usable(view, q) == {i \in DOMAIN view.devices : deviceCurrentlyUsable(view.devices[i], q)}

\* The tests of evaluateNow that look at the devices, and at the amounts.
DevicesFit(view, q) ==
    /\ \A n \in q.topologyGroupSize : HasGroup(view.devices, Usable(view, q), n)
    /\ ~(Cardinality(Usable(view, q)) < q.minAccelerators)
    /\ q.requiresContiguousVram =>
          \E i \in Usable(view, q) :
              shapeSatisfiable(view.devices[i].freeBlocks, q.minContiguousVram)

AmountsFit(view, q) ==
    /\ satisfies(Effective(view), q.requirements)
    /\ q.sloHeadroom > 0 => SloHeadroomLeft(Effective(view), q)

Unfragmented(view, q) ==
    \A limit \in q.maxAcceptableFragmentation : ~TooFragmented(view.devices, q, limit)

Fitting(view, q) ==
    /\ validDemand(q)
    /\ view.freshness = "Fresh"
    /\ DevicesFit(view, q)
    /\ AmountsFit(view, q)
    /\ Unfragmented(view, q)

\* A requirement is satisfied when no dimension is missing.
LEMMA NothingMissing ==
    ASSUME NEW c, Positive(c), NEW r, Positive(r)
    PROVE  missingDimensions(c, r) = {} <=> satisfies(c, r)
<1>1. \A d \in DOMAIN r : Amount(c, d) \in Int /\ r[d] \in Int
  BY PositiveIs DEF Amount
<1>2. \A d \in DOMAIN r : Amount(c, d) < r[d] <=> ~(Amount(c, d) >= r[d])
  BY <1>1
<1> QED
  BY <1>2 DEF missingDimensions, satisfies

Freshnesses == {"InsufficientEvidence", "RevalidationRequired", "Fresh"}

\* evaluateNow says yes exactly when every test passes.
LEMMA FitsWhen ==
    ASSUME NEW view, view.freshness \in Freshnesses, Positive(Effective(view)),
           NEW q, Positive(q.requirements)
    PROVE  evaluateNow(view, q) \in Fits <=> Fitting(view, q)
<1>1. missingDimensions(Effective(view), q.requirements) = {}
        <=> satisfies(Effective(view), q.requirements)
  BY NothingMissing
<1>2. Shortage(missingDimensions(Effective(view), q.requirements)) \notin Fits
  BY DEF Shortage, Fits
<1>3. view.freshness # "Fresh" => view.freshness \notin Fits
  BY DEF Freshnesses, Fits
<1>4. /\ "FitNow" \in Fits /\ "Unknown" \notin Fits /\ "NoFitTopology" \notin Fits
      /\ "NoFitCapacity" \notin Fits /\ "NoFitFragmentation" \notin Fits
      /\ "NoFitSloHeadroom" \notin Fits
  BY DEF Fits
<1> QED
  BY <1>1, <1>2, <1>3, <1>4
     DEF evaluateNow, Fitting, DevicesFit, AmountsFit, Unfragmented, Usable

\* Without fresh evidence nothing fits, whatever else is in the view.
LEMMA StaleNeverFits ==
    ASSUME NEW view, view.freshness \in Freshnesses, view.freshness # "Fresh", NEW q
    PROVE  evaluateNow(view, q) \notin Fits
BY DEF evaluateNow, Freshnesses, Fits

-----------------------------------------------------------------------------
(* Scenarios of no, one and two actions.                                   *)

\* The recursive function of applyScenario.
Done(base, actions, N) ==
    CHOOSE f : f = [n \in 0 .. N |-> IF n = 0 THEN base ELSE applyAction(f[n - 1], actions[n])]

LEMMA DoneIs ==
    ASSUME NEW base, NEW actions, NEW N \in 0 .. 2
    PROVE  /\ Done(base, actions, N)[0] = base
           /\ \A n \in 1 .. N :
                 Done(base, actions, N)[n] = applyAction(Done(base, actions, N)[n - 1], actions[n])
<1> DEFINE one == applyAction(base, actions[1])
           two == applyAction(one, actions[2])
           g == [n \in 0 .. N |-> IF n = 0 THEN base ELSE IF n = 1 THEN one ELSE two]
           f == Done(base, actions, N)
<1>1. g = [n \in 0 .. N |-> IF n = 0 THEN base ELSE applyAction(g[n - 1], actions[n])]
  <2>1. ASSUME NEW n \in 0 .. N
        PROVE  g[n] = IF n = 0 THEN base ELSE applyAction(g[n - 1], actions[n])
    <3>1. CASE n = 0
      BY <3>1
    <3>2. CASE n = 1
      <4>1. g[0] = base /\ g[1] = one
        BY <3>2
      <4> HIDE DEF g
      <4> QED
        BY <3>2, <4>1
    <3>3. CASE n = 2
      <4>1. g[1] = one /\ g[2] = two
        BY <3>3
      <4> HIDE DEF g, one
      <4> QED
        BY <3>3, <4>1
    <3> QED
      BY <3>1, <3>2, <3>3
  <2>2. DOMAIN g = 0 .. N
    OBVIOUS
  <2>3. g = [n \in 0 .. N |-> g[n]]
    OBVIOUS
  <2> HIDE DEF g
  <2> QED
    BY <2>1, <2>3
<1>2. f = [n \in 0 .. N |-> IF n = 0 THEN base ELSE applyAction(f[n - 1], actions[n])]
  <2> HIDE DEF g
  <2> QED
    BY <1>1 DEF Done
<1>3. DOMAIN f = 0 .. N /\ \A n \in 0 .. N : f[n] = IF n = 0 THEN base ELSE applyAction(f[n - 1], actions[n])
  <2> HIDE DEF f
  <2> QED
    BY <1>2
<1> HIDE DEF f
<1> QED
  BY <1>3 DEF f

LEMMA ScenarioDone ==
    ASSUME NEW base, NEW actions
    PROVE  applyScenario(base, actions)
             = Reaggregated(Done(base, actions, Len(actions))[Len(actions)])
BY DEF applyScenario, Done

LEMMA ScenarioOfNone ==
    ASSUME NEW base
    PROVE  applyScenario(base, <<>>) = Reaggregated(base)
<1>1. Len(<<>>) = 0
  OBVIOUS
<1>2. Done(base, <<>>, 0)[0] = base
  BY DoneIs
<1> QED
  BY <1>1, <1>2, ScenarioDone

LEMMA ScenarioOfOne ==
    ASSUME NEW base, NEW a
    PROVE  applyScenario(base, <<a>>) = Reaggregated(applyAction(base, a))
<1>s. PICK s : s = <<a>>
  OBVIOUS
<1>1. s = <<a>> /\ Len(s) = 1 /\ s[1] = a
  BY <1>s
<1>2. Done(base, s, 1)[0] = base
  BY DoneIs
<1>3. Done(base, s, 1)[1] = applyAction(Done(base, s, 1)[0], s[1])
  BY DoneIs
<1> QED
  BY <1>1, <1>2, <1>3, ScenarioDone

LEMMA ScenarioOfTwo ==
    ASSUME NEW base, NEW a, NEW b
    PROVE  applyScenario(base, <<a, b>>) = Reaggregated(applyAction(applyAction(base, a), b))
<1>s. PICK s : s = <<a, b>>
  OBVIOUS
<1>1. s = <<a, b>> /\ Len(s) = 2 /\ s[1] = a /\ s[2] = b
  BY <1>s
<1>2. Done(base, s, 2)[0] = base
  BY DoneIs
<1>3. \A n \in 1 .. 2 : Done(base, s, 2)[n] = applyAction(Done(base, s, 2)[n - 1], s[n])
  BY DoneIs
<1>4. Done(base, s, 2)[1] = applyAction(Done(base, s, 2)[0], s[1])
  BY <1>3
<1>5. Done(base, s, 2)[2] = applyAction(Done(base, s, 2)[1], s[2])
  BY <1>3
<1> QED
  BY <1>1, <1>2, <1>4, <1>5, ScenarioDone

-----------------------------------------------------------------------------
(* The fields of a view.                                                   *)

ViewFields ==
    {"devices", "resources", "available", "nominal", "committed", "unavailable", "currentUse",
     "reservations", "releases", "now", "freshness"}

IsView(v) == DOMAIN v = ViewFields

LEMMA ViewIs ==
    ASSUME NEW current, NEW now
    PROVE  LET v == View(current, now)
           IN  /\ IsView(v)
               /\ v.devices = viewDevices
               /\ v.resources = [r \in DOMAIN resources |-> [id |-> r, report |-> Report(r)]]
               /\ v.available = available(current)
               /\ v.reservations = reservations /\ v.releases = releases /\ v.now = now
               /\ v.freshness = freshness(current) /\ v.freshness \in Freshnesses
BY DEF View, IsView, ViewFields, freshness, Freshnesses

LEMMA ViewParts ==
    \A current, now :
        /\ View(current, now).devices = viewDevices
        /\ View(current, now).available = available(current)
        /\ View(current, now).reservations = reservations
        /\ View(current, now).now = now
        /\ View(current, now).freshness = freshness(current)
        /\ View(current, now).freshness \in Freshnesses
BY DEF View, freshness, Freshnesses

\* The scenario's view: what it aggregates again, and what it keeps.
Described(v) ==
    [i \in DOMAIN v.resources |->
        LET p == v.resources[i].report IN DeviceInfo(p, p.drained, p.maintenance)]

UsableIn(v) == {i \in DOMAIN v.resources : ScenarioUsable(v.resources[i].report)}

FreeIn(v) == [i \in UsableIn(v) |-> v.resources[i].report.free]

LEMMA ReaggregatedIs ==
    ASSUME NEW v, IsView(v)
    PROVE  LET w == Reaggregated(v)
           IN  /\ IsView(w)
               /\ w.devices = Described(v)
               /\ w.available = Total(FreeIn(v))
               /\ w.reservations = v.reservations /\ w.releases = v.releases /\ w.now = v.now
               /\ w.freshness = v.freshness
BY DEF Reaggregated, IsView, ViewFields, Described, FreeIn, UsableIn

\* What each action leaves alone and changes.
LEMMA ActionIs ==
    ASSUME NEW v, IsView(v), NEW a, a.kind \in {"RemoveResource", "AddResource", "CancelReservation",
               "AddReservation", "DelayRelease", "DegradeDevice"}
    PROVE  LET w == applyAction(v, a)
           IN  /\ IsView(w)
               /\ w.freshness = v.freshness /\ w.now = v.now
               /\ a.kind \notin {"RemoveResource", "AddResource", "DegradeDevice"} =>
                     w.resources = v.resources
               /\ a.kind \notin {"CancelReservation", "AddReservation"} =>
                     w.reservations = v.reservations
<1>1. CASE a.kind = "RemoveResource"
  <2>1. applyAction(v, a) = RemoveResource(v, a.resource)
    BY <1>1 DEF applyAction
  <2> QED
    BY <1>1, <2>1 DEF RemoveResource, IsView, ViewFields
<1>2. CASE a.kind = "AddResource"
  <2>1. applyAction(v, a) = AddResource(v, a.added)
    BY <1>2 DEF applyAction
  <2> QED
    BY <1>2, <2>1 DEF AddResource, IsView, ViewFields
<1>3. CASE a.kind = "CancelReservation"
  <2>1. applyAction(v, a) = CancelReservation(v, a.reservation)
    BY <1>3 DEF applyAction
  <2> QED
    BY <1>3, <2>1 DEF CancelReservation, IsView, ViewFields
<1>4. CASE a.kind = "AddReservation"
  <2>1. applyAction(v, a) = AddReservation(v, a.addReservation)
    BY <1>4 DEF applyAction
  <2> QED
    BY <1>4, <2>1 DEF AddReservation, IsView, ViewFields
<1>5. CASE a.kind = "DelayRelease"
  <2>1. applyAction(v, a) = DelayRelease(v, a.source, a.delay)
    BY <1>5 DEF applyAction
  <2> QED
    BY <1>5, <2>1 DEF DelayRelease, IsView, ViewFields
<1>6. CASE a.kind = "DegradeDevice"
  <2>1. applyAction(v, a) = DegradeDevice(v)
    BY <1>6 DEF applyAction
  <2> QED
    BY <1>6, <2>1 DEF DegradeDevice, IsView, ViewFields
<1> QED
  BY <1>1, <1>2, <1>3, <1>4, <1>5, <1>6

-----------------------------------------------------------------------------
(* Without current evidence.                                               *)

\* Without one current resource no demand fits, now, later in any mode, or in a scenario
\* that adds a resource.
LEMMA StaleEvidenceRefuses ==
    ASSUME CurrentResources = {}, NEW q
    PROVE  /\ \A mode \in Modes, t \in 0 .. Horizon : queryFeasibility(q, mode, t) \notin Fits
           /\ \A a \in Adding : evaluateScenario(<<a>>, q) \notin Fits
<1>1. ASSUME NEW now
      PROVE  /\ buildView(now).freshness \in Freshnesses
             /\ buildView(now).freshness # "Fresh"
             /\ IsView(buildView(now))
  BY ViewIs DEF buildView, freshness, View
<1>2. ASSUME NEW mode, NEW t \in 0 .. Horizon
      PROVE  queryFeasibility(q, mode, t) \notin Fits
  <2>1. evaluateNow(buildView(t), q) \notin Fits
    BY <1>1, StaleNeverFits
  <2>2. buildView(t).freshness # "Fresh"
    BY <1>1
  <2>3. "RevalidationRequired" \notin Fits
    BY DEF Fits
  <2> QED
    BY <2>1, <2>2, <2>3 DEF queryFeasibility
<1>3. ASSUME NEW a \in Adding
      PROVE  evaluateScenario(<<a>>, q) \notin Fits
  <2>1. a.kind = "AddResource"
    BY DEF Adding
  <2>2. PICK v : v = buildView(0)
    OBVIOUS
  <2>3. IsView(v) /\ v.freshness \in Freshnesses /\ v.freshness # "Fresh"
    BY <1>1, <2>2
  <2>4. IsView(applyAction(v, a)) /\ applyAction(v, a).freshness = v.freshness
    BY <2>1, <2>3, ActionIs
  <2>5. Reaggregated(applyAction(v, a)).freshness = v.freshness
    BY <2>4, ReaggregatedIs
  <2>6. evaluateNow(Reaggregated(applyAction(v, a)), q) \notin Fits
    BY <2>3, <2>5, StaleNeverFits
  <2> QED
    BY <2>2, <2>6, ScenarioOfOne DEF evaluateScenario
<1> QED
  BY <1>2, <1>3

-----------------------------------------------------------------------------
(* What the state of the model gives the queries.                          *)

LEMMA ReportsTyped ==
    ASSUME TypeOK
    PROVE  /\ IsFiniteSet(DOMAIN resources) /\ DOMAIN resources \in SUBSET Nat
           /\ \A r \in DOMAIN resources : Report(r) \in ReportSpace
<1>1. DOMAIN resources \subseteq ResourceIds /\ \A r \in DOMAIN resources : resources[r] \in ResourceRecord
  BY DEF TypeOK, EvidenceTypeOK
<1>2. IsFiniteSet(DOMAIN resources)
  BY <1>1, ResourceIdsOrdered, FS_Subset
<1> QED
  BY <1>1, <1>2, ResourceIdsOrdered DEF ResourceRecord, Report

LEMMA ReportIs ==
    ASSUME NEW p \in ReportSpace
    PROVE  Positive(p.free) /\ Positive(p.nominal) /\ Positive(p.committed) /\ Positive(p.unavailable)
<1>1. /\ p.free \in CapacitySpace /\ p.nominal \in CapacitySpace
      /\ p.committed \in CapacitySpace /\ p.unavailable \in CapacitySpace
  BY DEF ReportSpace
<1> QED
  BY <1>1, CapacityIsPositive

LEMMA FreeIsCapacities ==
    ASSUME TypeOK, NEW current \in SUBSET DOMAIN resources
    PROVE  /\ IsFiniteSet(current)
           /\ Capacities([r \in current |-> Report(r).free], current)
           /\ Positive(available(current))
<1>1. IsFiniteSet(current)
  BY ReportsTyped, FS_Subset
<1>2. \A r \in current : Positive(Report(r).free)
  BY ReportsTyped, ReportIs
<1>3. Capacities([r \in current |-> Report(r).free], current)
  BY <1>2 DEF Capacities
<1> QED
  BY <1>1, <1>3, TotalIs DEF available

LEMMA FactsAreProper ==
    ASSUME TypeOK
    PROVE  \E n \in Nat, m \in Nat :
              /\ n = Len(reservations) /\ m = Len(releases)
              /\ \A i \in 1 .. n : /\ ProperHold(reservations[i]) /\ TimedHold(reservations[i])
                                   /\ reservations[i].strength \in Strengths
                                   /\ Positive(reservations[i].hold)
              /\ \A i \in 1 .. m : ProperRelease(releases[i]) /\ TimedRelease(releases[i])
<1>1. PICK n \in Nat, m \in Nat : n = Len(reservations) /\ m = Len(releases)
  BY DEF TypeOK, LedgerTypeOK
<1>2. ASSUME NEW i \in 1 .. n
      PROVE  /\ ProperHold(reservations[i]) /\ TimedHold(reservations[i])
             /\ reservations[i].strength \in Strengths /\ Positive(reservations[i].hold)
  <2>1. reservations[i] \in Reservation
    BY <1>1 DEF TypeOK, LedgerTypeOK
  <2>2. /\ reservations[i].interval \in Intervals /\ reservations[i].hold \in CapacitySpace
        /\ reservations[i].strength \in Strengths
    BY <2>1 DEF Reservation
  <2>3. Positive(reservations[i].hold)
    BY <2>2, CapacityIsPositive
  <2>4. /\ reservations[i].interval.start \in Int /\ reservations[i].interval.end \in Int
        /\ reservations[i].interval.start <= reservations[i].interval.end
    BY <2>2, IntegerTimes
  <2> QED
    BY <2>2, <2>3, <2>4 DEF ProperHold, TimedHold, Positive
<1>3. ASSUME NEW i \in 1 .. m
      PROVE  ProperRelease(releases[i]) /\ TimedRelease(releases[i])
  <2>1. releases[i] \in ReleaseEvent
    BY <1>1 DEF TypeOK, LedgerTypeOK
  <2>2. releases[i].at \in ReleaseTimes /\ releases[i].release \in CapacitySpace
    BY <2>1 DEF ReleaseEvent
  <2>3. Positive(releases[i].release)
    BY <2>2, CapacityIsPositive
  <2>4. /\ releases[i].at.time \in Int /\ releases[i].at.earliest \in Int
        /\ releases[i].at.latest \in Int
    BY <2>2, IntegerTimes
  <2> QED
    BY <2>3, <2>4 DEF ProperRelease, TimedRelease, Positive
<1> QED
  BY <1>1, <1>2, <1>3

LEMMA ViewTimelineIs ==
    ASSUME TypeOK, NEW now, NEW mode
    PROVE  /\ viewTimeline(buildView(now), mode)
                = buildTimeline(available(CurrentResources), reservations, releases, mode)
           /\ Curve(viewTimeline(buildView(now), mode))
<1>1. viewTimeline(buildView(now), mode)
        = buildTimeline(available(CurrentResources), reservations, releases, mode)
  BY ViewIs DEF viewTimeline, buildView
<1>2. available(CurrentResources) \in Amounts
  <2>1. CurrentResources \in SUBSET DOMAIN resources
    BY DEF CurrentResources
  <2> QED
    BY <2>1, FreeIsCapacities DEF Positive
<1>3. PICK n \in Nat, m \in Nat :
         /\ n = Len(reservations) /\ m = Len(releases)
         /\ \A i \in 1 .. n : TimedHold(reservations[i])
         /\ \A i \in 1 .. m : TimedRelease(releases[i])
  BY FactsAreProper
<1>4. Curve(buildTimeline(available(CurrentResources), reservations, releases, mode))
  BY <1>2, <1>3, BuildIsCurve
<1> QED
  BY <1>1, <1>4

\* One instant is one segment of the curve.
LEMMA OneInstant ==
    ASSUME NEW tl, Curve(tl), NEW q, NEW t \in Int, satisfies(capacityAt(tl, t), q)
    PROVE  Throughout(tl, q, t, t + 1)
<1>1. t + 1 \in Int
  OBVIOUS
<1>2. Inside(tl, t, t + 1) = {}
  BY DEF Inside, Curve
<1>3. Cardinality(Inside(tl, t, t + 1)) = 0
  BY <1>2, FS_EmptySet
<1>4. /\ Applied(tl, t) \in Int
      /\ Segments(tl, t, t + 1) = Applied(tl, t) .. (Applied(tl, t) + Cardinality(Inside(tl, t, t + 1)))
  BY <1>1, SegmentsOfWindow DEF Curve
<1>5. \A j \in Segments(tl, t, t + 1) : j = Applied(tl, t)
  BY <1>3, <1>4
<1> QED
  BY <1>5 DEF Throughout, capacityAt

LEMMA InstantIsFound ==
    ASSUME NEW tl, Curve(tl), NEW q, NEW t \in Int, satisfies(capacityAt(tl, t), q),
           NEW horizon \in Int, 0 <= t, t <= horizon - 1
    PROVE  \E u \in Int : u <= t /\ earliestFit(tl, q, 0, 1, horizon) = FitAt(tl, u, 1)
<1>1. PICK from \in Int, dur \in Nat : from = 0 /\ dur = 1
  OBVIOUS
<1>2. from < horizon /\ from <= t /\ t <= horizon - dur
  BY <1>1
<1>3. Throughout(tl, q, t, t + dur)
  BY <1>1, OneInstant
<1>4. PICK u \in candidateStarts(tl, from, horizon, dur) :
         /\ u \in Int /\ u <= t
         /\ earliestFit(tl, q, from, dur, horizon) = FitAt(tl, u, dur)
         /\ satisfies(rangeMin(tl, u, u + dur), q)
  BY <1>2, <1>3, FitIsNotLate
<1> QED
  BY <1>1, <1>4

\* In every state and mode: where queryFeasibility accepts a demand at a later instant, the
\* earliest-fit search from now for that instant's length finds a start, and no later one
\* (queryFeasibility and queryEarliestFit read the same curve in two ways).
THEOREM FutureFitsHaveStarts == Spec => []FutureFitHasStart
<1>1. ASSUME TypeOK
      PROVE  FutureFitHasStart
  <2> SUFFICES ASSUME NEW q \in Demands, NEW mode \in Modes, NEW t \in 1 .. Horizon,
                      queryFeasibility(q, mode, t) \in Fits
               PROVE  LET fit == queryEarliestFit(q, mode, 0, 1, Horizon + 1)
                      IN  fit.found /\ fit.start <= t
    BY DEF FutureFitHasStart
  <2>1. PICK tl : /\ tl = viewTimeline(buildView(t), mode)
                  /\ tl = viewTimeline(buildView(0), mode)
                  /\ Curve(tl)
    BY <1>1, ViewTimelineIs
  <2>2. t \in Int /\ Horizon \in Nat /\ ~(t <= 0) /\ 0 <= t
    BY HorizonNat
  <2>3. satisfies(capacityAt(tl, t), q.requirements)
    BY <2>1, <2>2 DEF queryFeasibility, Fits
  <2>5. PICK at \in Int, horizon \in Int :
           at = t /\ horizon = Horizon + 1 /\ 0 <= at /\ at <= horizon - 1
    <3>1. Horizon + 1 \in Int
      BY <2>2
    <3> QED
      BY <2>2, <3>1
  <2>6. PICK u \in Int : u <= at /\ earliestFit(tl, q.requirements, 0, 1, horizon) = FitAt(tl, u, 1)
    <3>1. satisfies(capacityAt(tl, at), q.requirements)
      BY <2>3, <2>5
    <3> QED
      BY <2>1, <2>5, <3>1, InstantIsFound
  <2> QED
    BY <2>1, <2>5, <2>6 DEF queryEarliestFit, FitAt
<1> QED
  BY <1>1, TypeCorrect, PTL

\* From nothing, with no release due and no hold ended by t, the curve shows nothing at t.
LEMMA NothingComesOfNothing ==
    ASSUME TypeOK, CurrentResources = {}, NEW mode, NEW d, NEW t \in Int,
           ~ComesFree(mode, d, t + 1)
    PROVE  Amount(capacityAt(viewTimeline(buildView(0), mode), t), d) = 0
<1>1. PICK n \in Nat, m \in Nat :
         /\ n = Len(reservations) /\ m = Len(releases)
         /\ \A i \in 1 .. n : ProperHold(reservations[i]) /\ TimedHold(reservations[i])
         /\ \A i \in 1 .. m : ProperRelease(releases[i]) /\ TimedRelease(releases[i])
  BY FactsAreProper
<1>2. PICK a, N, M : a = available(CurrentResources) /\ N = 1 .. n /\ M = 1 .. m
  OBVIOUS
<1>3. IsFiniteSet(N) /\ IsFiniteSet(M)
  BY <1>2, PositionsFinite
<1>4. a \in Amounts /\ Amount(a, d) = 0
  <2>1. Positive(a)
    BY <1>2, FreeIsCapacities
  <2>2. DOMAIN a = {}
    BY <1>2 DEF available, Total
  <2> QED
    BY <2>1, <2>2 DEF Positive, Amount
<1> DEFINE H(u) == HoldsAt(reservations, mode, u, d, n)
           E(u) == EndsAt(reservations, mode, u, d, n)
           D(u) == DueBy(releases, mode, u, d, m)
           after(w) == Amount(a, d) + (SumOf(HoldFlow(w, reservations, mode, n))
                                        + SumOf(DueFlow(w, releases, mode, m)))
<1>5. PICK shown : shown = Amount(capacityAt(buildTimeline(a, reservations, releases, mode), t), d)
  OBVIOUS
<1>6. /\ shown \in Int /\ shown >= 0
      /\ \/ shown = after(Happened(t, d))
         \/ \E u \in Int : u <= t /\ shown <= after(Happened(t, d)) - after(Worst(u, d))
  BY <1>1, <1>4, <1>5, BuildBounds
<1>7. ASSUME NEW u \in Int
      PROVE  /\ H(u) \in [N -> Int] /\ E(u) \in [N -> Int] /\ \A i \in N : H(u)[i] >= 0
             /\ SumOf(H(u)) \in Int /\ SumOf(E(u)) \in Int
             /\ SumOf(HoldFlow(Happened(u, d), reservations, mode, n)) = 0 - SumOf(H(u))
             /\ SumOf(HoldFlow(Worst(u, d), reservations, mode, n)) = 0 - (SumOf(H(u)) + SumOf(E(u)))
  <2>1. /\ H(u) \in [N -> Int] /\ E(u) \in [N -> Int] /\ \A i \in N : H(u)[i] >= 0
        /\ SumOf(HoldFlow(Happened(u, d), reservations, mode, n)) = 0 - SumOf(H(u))
        /\ SumOf(HoldFlow(Worst(u, d), reservations, mode, n)) = 0 - (SumOf(H(u)) + SumOf(E(u)))
    <3>1. n \in Nat /\ \A i \in 1 .. n : ProperHold(reservations[i])
      BY <1>1
    <3>2. /\ H(u) \in [1 .. n -> Int] /\ E(u) \in [1 .. n -> Int]
          /\ \A i \in 1 .. n : H(u)[i] >= 0 /\ E(u)[i] >= 0
          /\ SumOf(HoldFlow(Happened(u, d), reservations, mode, n)) = 0 - SumOf(H(u))
          /\ SumOf(HoldFlow(Worst(u, d), reservations, mode, n))
               = 0 - (SumOf(H(u)) + SumOf(E(u)))
      BY <1>7, <3>1, HoldFlowIs, ZenonT(30)
    <3> HIDE DEF H, E
    <3> QED
      BY <1>2, <3>2
  <2> HIDE DEF H, E
  <2>2. SumOf(H(u)) \in Int /\ SumOf(E(u)) \in Int
    BY <1>3, <2>1, SumType
  <2> QED
    BY <2>1, <2>2
<1>8. ASSUME NEW u \in Int
      PROVE  /\ D(u) \in [M -> Int] /\ SumOf(D(u)) \in Int /\ SumOf(D(u)) >= 0
             /\ DueFlow(Happened(u, d), releases, mode, m) = D(u)
             /\ DueFlow(Worst(u, d), releases, mode, m) = D(u - 1)
  <2>1. /\ D(u) \in [M -> Int] /\ \A i \in M : D(u)[i] >= 0
        /\ DueFlow(Happened(u, d), releases, mode, m) = D(u)
        /\ DueFlow(Worst(u, d), releases, mode, m) = D(u - 1)
    <3>1. m \in Nat /\ \A i \in 1 .. m : ProperRelease(releases[i])
      BY <1>1
    <3>2. /\ D(u) \in [1 .. m -> Int] /\ \A i \in 1 .. m : D(u)[i] >= 0
          /\ DueFlow(Happened(u, d), releases, mode, m) = D(u)
          /\ DueFlow(Worst(u, d), releases, mode, m) = D(u - 1)
      BY <1>8, <3>1, DueFlowIs
    <3> HIDE DEF D
    <3> QED
      BY <1>2, <3>2
  <2> HIDE DEF D
  <2>2. SumOf(D(u)) \in Int /\ SumOf(D(u)) >= 0
    BY <1>3, <2>1, SumNotNegative
  <2> QED
    BY <2>1, <2>2
<1>9. SumOf(D(t)) = 0
  <2>1. ASSUME NEW i \in M
        PROVE  D(t)[i] = 0
    <3>1. PICK h \in Int, x \in Int : /\ h = Amount(releases[i].release, d) /\ h >= 0
                                      /\ x = releaseTime(releases[i], mode)
      BY <1>1, <1>2, AmountsAre DEF ProperRelease, TimedRelease, releaseTime
    <3>2. ~(x < t + 1 /\ h > 0)
      BY <1>1, <1>2, <3>1 DEF ComesFree
    <3>3. D(t)[i] = IF x <= t THEN h ELSE 0
      BY <1>2, <3>1 DEF DueBy
    <3> QED
      BY <3>1, <3>2, <3>3
  <2> HIDE DEF D
  <2> QED
    BY <1>3, <1>8, <2>1, SumZero
<1>10. ASSUME NEW u \in Int, u <= t
       PROVE  SumOf(E(u)) = 0 /\ SumOf(H(u)) <= SumOf(H(t))
  <2>1. ASSUME NEW i \in N
        PROVE  E(u)[i] = 0 /\ H(u)[i] <= H(t)[i]
    <3> DEFINE r == reservations[i]
    <3>1. PICK h \in Int, x \in Int, y \in Int :
             /\ h = Amount(r.hold, d) /\ h >= 0
             /\ x = r.interval.start /\ y = r.interval.end
      BY <1>1, <1>2, AmountsAre DEF ProperHold, TimedHold
    <3>2. ~(Counted(r, mode) /\ y < t + 1 /\ h > 0)
      BY <1>1, <1>2, <3>1 DEF ComesFree
    <3>3. /\ E(u)[i] = IF Counted(r, mode) /\ y = u THEN h ELSE 0
          /\ H(u)[i] = IF Counted(r, mode) /\ x <= u /\ u < y THEN h ELSE 0
          /\ H(t)[i] = IF Counted(r, mode) /\ x <= t /\ t < y THEN h ELSE 0
      BY <1>2, <3>1 DEF HoldsAt, EndsAt
    <3> HIDE DEF r, H, E
    <3>4. CASE Counted(r, mode)
      BY <1>10, <3>1, <3>2, <3>3, <3>4
    <3>5. CASE ~Counted(r, mode)
      BY <3>3, <3>5
    <3> QED
      BY <3>4, <3>5
  <2>2. /\ E(u) \in [N -> Int] /\ H(u) \in [N -> Int] /\ H(t) \in [N -> Int]
    BY <1>7
  <2> HIDE DEF H, E
  <2>3. SumOf(E(u)) = 0
    BY <1>3, <2>1, <2>2, SumZero
  <2>4. SumOf(H(u)) <= SumOf(H(t))
    <3>1. PICK f \in [N -> Int], g \in [N -> Int] : f = H(u) /\ g = H(t)
      BY <2>2
    <3>2. \A i \in N : f[i] <= g[i]
      BY <2>1, <3>1
    <3>3. SumOf(f) <= SumOf(g)
      BY <1>3, <3>2, SumMonotone
    <3> QED
      BY <3>1, <3>3
  <2> QED
    BY <2>3, <2>4
<1>11. after(Happened(t, d)) = 0 - SumOf(H(t)) /\ SumOf(H(t)) \in Int
  BY <1>4, <1>7, <1>8, <1>9
<1>12. ASSUME NEW u \in Int, u <= t
       PROVE  after(Worst(u, d)) \in Int /\ after(Worst(u, d)) >= 0 - SumOf(H(t))
  <2>1. u - 1 \in Int
    OBVIOUS
  <2>2. SumOf(D(u - 1)) \in Int /\ SumOf(D(u - 1)) >= 0
    BY <1>8, <2>1
  <2>3. SumOf(DueFlow(Worst(u, d), releases, mode, m)) = SumOf(D(u - 1))
    BY <1>8
  <2>4. /\ SumOf(HoldFlow(Worst(u, d), reservations, mode, n)) = 0 - (SumOf(H(u)) + SumOf(E(u)))
        /\ SumOf(H(u)) \in Int
    BY <1>7
  <2>5. SumOf(E(u)) = 0 /\ SumOf(H(u)) <= SumOf(H(t))
    BY <1>10, <1>12
  <2> HIDE DEF H, E, D
  <2> QED
    BY <1>4, <1>11, <2>2, <2>3, <2>4, <2>5
<1>13. SumOf(H(t)) >= 0
  <2> HIDE DEF H
  <2> QED
    BY <1>3, <1>7, SumNotNegative
<1> HIDE DEF after, H
<1>14. shown = 0
  <2>1. CASE shown = after(Happened(t, d))
    BY <1>6, <1>11, <1>13, <2>1
  <2>2. ASSUME NEW u \in Int, u <= t, shown <= after(Happened(t, d)) - after(Worst(u, d))
        PROVE  shown = 0
    BY <1>6, <1>11, <1>12, <2>2
  <2> QED
    BY <1>6, <2>1, <2>2
<1>15. viewTimeline(buildView(0), mode) = buildTimeline(a, reservations, releases, mode)
  BY <1>2, ViewTimelineIs
<1> QED
  BY <1>5, <1>14, <1>15

\* In every state, whatever was published, died or was loaded from a file: without one
\* current resource no demand fits, now, later in any mode, or in a scenario that adds a
\* resource; and where queryEarliestFit, which does not ask for evidence, finds a start all
\* the same, each dimension required comes free before the end of the window, by a release
\* or by the end of a hold (buildView's freshness, evaluateNow, queryFeasibility,
\* evaluateScenario, queryEarliestFit).
THEOREM NoFitWithoutEvidence == Spec => []NoEvidenceNoFit
<1>1. ASSUME TypeOK, CurrentResources = {}, NEW q \in Demands, NEW mode \in Modes,
             NEW from \in 0 .. Horizon, NEW dur \in 1 .. Horizon,
             queryEarliestFit(q, mode, from, dur, Horizon).found,
             NEW d \in DOMAIN q.requirements, q.requirements[d] > 0
      PROVE  ComesFree(mode, d, queryEarliestFit(q, mode, from, dur, Horizon).end)
  <2>1. PICK tl : tl = viewTimeline(buildView(0), mode) /\ Curve(tl)
    BY <1>1, ViewTimelineIs
  <2>2. /\ from \in Int /\ dur \in Nat /\ dur >= 1 /\ Horizon \in Int
        /\ q.requirements \in Amounts /\ q.requirements[d] \in Int
    <3>1. q.requirements \in Amounts
      BY QuestionsTyped, CapacityIsAmount
    <3> QED
      BY <1>1, <3>1, HorizonNat, AmountsAre
  <2>3. queryEarliestFit(q, mode, from, dur, Horizon)
          = earliestFit(tl, q.requirements, from, dur, Horizon)
    BY <2>1 DEF queryEarliestFit
  <2>4. PICK u \in Int :
           /\ earliestFit(tl, q.requirements, from, dur, Horizon) = FitAt(tl, u, dur)
           /\ satisfies(rangeMin(tl, u, u + dur), q.requirements)
    BY <1>1, <2>1, <2>2, <2>3, FitSatisfies
  <2>5. queryEarliestFit(q, mode, from, dur, Horizon).end = u + dur
    BY <2>3, <2>4 DEF FitAt
  <2>6. Amount(capacityAt(tl, u + dur - 1), d) >= q.requirements[d]
    BY <1>1, <2>1, <2>2, <2>4, FitHoldsInWindow
  <2>7. u + dur - 1 \in Int /\ (u + dur - 1) + 1 = u + dur
    BY <2>2
  <2>8. ASSUME ~ComesFree(mode, d, u + dur)
        PROVE  FALSE
    <3>1. Amount(capacityAt(tl, u + dur - 1), d) = 0
      BY <1>1, <2>1, <2>7, <2>8, NothingComesOfNothing
    <3> QED
      BY <1>1, <2>2, <2>6, <3>1
  <2> QED
    BY <2>5, <2>8
<1>2. TypeOK => NoEvidenceNoFit
  <2>1. ASSUME TypeOK, CurrentResources = {}, NEW q \in Demands
        PROVE  /\ \A mode \in Modes, t \in 0 .. Horizon : queryFeasibility(q, mode, t) \notin Fits
               /\ \A a \in Adding : evaluateScenario(<<a>>, q) \notin Fits
    BY <2>1, StaleEvidenceRefuses
  <2>2. ASSUME TypeOK, CurrentResources = {}, NEW q \in Demands
        PROVE  \A mode \in Modes, from \in 0 .. Horizon, dur \in 1 .. Horizon :
                  LET fit == queryEarliestFit(q, mode, from, dur, Horizon)
                  IN  fit.found =>
                        \A d \in DOMAIN q.requirements :
                            q.requirements[d] > 0 => ComesFree(mode, d, fit.end)
    BY <1>1, <2>2, Zenon
  <2> QED
    BY <2>1, <2>2, Zenon DEF NoEvidenceNoFit
<1> QED
  BY <1>2, TypeCorrect, PTL

-----------------------------------------------------------------------------
(* The effective capacity, and how a demand takes to more of it.           *)

LEMMA TakenIs ==
    ASSUME NEW c, Positive(c)
    PROVE  /\ Positive(Taken(c)) /\ DOMAIN Taken(c) \subseteq DOMAIN c
           /\ \A d : Amount(Taken(c), d) = Amount(c, d)
<1>1. DOMAIN c \in SUBSET Dimensions /\ \A d : Amount(c, d) \in Int /\ Amount(c, d) >= 0
  BY PositiveIs
<1>2. DOMAIN Taken(c) = {e \in DOMAIN c : c[e] # 0}
  BY DEF Taken
<1>3. \A d : Amount(Taken(c), d) = Amount(c, d)
  BY <1>2 DEF Taken, Amount
<1>4. \A d \in DOMAIN Taken(c) : Taken(c)[d] \in Int
  BY <1>1, <1>2 DEF Taken, Amount
<1>5. DOMAIN Taken(c) \in SUBSET Dimensions
  BY <1>1, <1>2
<1>6. Taken(c) \in [DOMAIN Taken(c) -> Int]
  BY <1>4 DEF Taken
<1>7. Taken(c) \in Amounts
  BY <1>5, <1>6, AmountsIntro
<1> QED
  BY <1>1, <1>2, <1>3, <1>7 DEF Positive

\* The reservations of a view hold capacities.
Holding(v) ==
    \E n \in Nat : n = Len(v.reservations) /\ \A i \in 1 .. n : Positive(v.reservations[i].hold)

HoldsOf(v) == [i \in HeldNow(v) |-> Taken(v.reservations[i].hold)]

LEMMA HoldsAre ==
    ASSUME NEW v, Holding(v)
    PROVE  /\ IsFiniteSet(HeldNow(v)) /\ Capacities(HoldsOf(v), HeldNow(v))
           /\ Positive(Total(HoldsOf(v)))
<1>1. PICK n \in Nat : n = Len(v.reservations) /\ \A i \in 1 .. n : Positive(v.reservations[i].hold)
  BY DEF Holding
<1>2. HeldNow(v) \in SUBSET (1 .. n)
  BY <1>1 DEF HeldNow
<1>3. IsFiniteSet(HeldNow(v))
  BY <1>2, PositionsFinite, FS_Subset
<1>4. \A i \in HeldNow(v) : Positive(Taken(v.reservations[i].hold))
  BY <1>1, <1>2, TakenIs
<1>5. Capacities(HoldsOf(v), HeldNow(v))
  BY <1>4 DEF Capacities, HoldsOf
<1> QED
  BY <1>3, <1>5, TotalIs

LEMMA EffectiveIs ==
    ASSUME NEW v, Holding(v), Positive(v.available)
    PROVE  /\ Effective(v) = subtractClamp(v.available, Total(HoldsOf(v)))
           /\ Positive(Effective(v))
           /\ DOMAIN Effective(v) = DOMAIN v.available \cup DOMAIN Total(HoldsOf(v))
           /\ \A d : Amount(Effective(v), d)
                       = NonNegative(Amount(v.available, d) - Amount(Total(HoldsOf(v)), d))
<1>1. Effective(v) = subtractClamp(v.available, Total(HoldsOf(v)))
  BY DEF Effective, HoldsOf
<1>2. PICK a, o : a = v.available /\ o = Total(HoldsOf(v)) /\ Positive(a) /\ Positive(o)
  BY HoldsAre
<1>3. /\ Positive(subtractClamp(a, o)) /\ DOMAIN subtractClamp(a, o) = DOMAIN a \cup DOMAIN o
      /\ \A d : Amount(subtractClamp(a, o), d) = NonNegative(Amount(a, d) - Amount(o, d))
  BY <1>2, SubtractIs
<1> QED
  BY <1>1, <1>2, <1>3

\* c has no more of anything than e.
NoMore(c, e) == \A d : Amount(c, d) <= Amount(e, d)

\* Of what e lists and c does not, e has some.
SomeOfTheRest(c, e) == \A d \in DOMAIN e : d \in DOMAIN c \/ Amount(e, d) > 0

LEMMA MoreSatisfies ==
    ASSUME NEW c, Positive(c), NEW e, Positive(e), NEW r, Positive(r), NoMore(c, e), satisfies(c, r)
    PROVE  satisfies(e, r)
<1>1. ASSUME NEW d \in DOMAIN r
      PROVE  Amount(e, d) >= r[d]
  <2>1. Amount(c, d) \in Int /\ Amount(e, d) \in Int
    BY PositiveIs
  <2>2. r[d] \in Int
    BY PositiveIs DEF Amount
  <2>3. Amount(c, d) >= r[d] /\ Amount(c, d) <= Amount(e, d)
    BY DEF satisfies, NoMore
  <2> QED
    BY <2>1, <2>2, <2>3
<1> QED
  BY <1>1 DEF satisfies

LEMMA MoreLeavesHeadroom ==
    ASSUME NEW c, Positive(c), NEW e, Positive(e), NEW q, Positive(q.requirements),
           NoMore(c, e), SomeOfTheRest(c, e), SloHeadroomLeft(c, q)
    PROVE  SloHeadroomLeft(e, q)
<1> DEFINE r == q.requirements
           less == subtractClamp(c, r)
           more == subtractClamp(e, r)
<1>1. /\ DOMAIN less = DOMAIN c \cup DOMAIN r /\ DOMAIN more = DOMAIN e \cup DOMAIN r
      /\ \A d : Amount(less, d) = NonNegative(Amount(c, d) - Amount(r, d))
      /\ \A d : Amount(more, d) = NonNegative(Amount(e, d) - Amount(r, d))
  BY SubtractIs
<1>2. (\A d \in DOMAIN less : less[d] > 0) /\ q.sloHeadroom <= 50
  BY DEF SloHeadroomLeft
<1>3. ASSUME NEW d \in DOMAIN more
      PROVE  more[d] > 0
  <2>1. /\ Amount(c, d) \in Int /\ Amount(e, d) \in Int /\ Amount(r, d) \in Int
        /\ Amount(c, d) <= Amount(e, d)
    BY PositiveIs DEF NoMore
  <2>2. more[d] = NonNegative(Amount(e, d) - Amount(r, d))
    <3> HIDE DEF more
    <3> QED
      BY <1>1 DEF Amount
  <2>3. CASE d \in DOMAIN less
    <3>1. NonNegative(Amount(c, d) - Amount(r, d)) > 0
      <4> HIDE DEF less
      <4> QED
        BY <1>1, <1>2, <2>3 DEF Amount
    <3> QED
      BY <2>1, <2>2, <3>1 DEF NonNegative
  <2>4. CASE d \notin DOMAIN less
    <3>1. d \in DOMAIN e /\ d \notin DOMAIN c /\ d \notin DOMAIN r
      <4> HIDE DEF less, more
      <4> QED
        BY <1>1, <2>4
    <3>2. Amount(e, d) > 0 /\ Amount(r, d) = 0
      BY <3>1 DEF SomeOfTheRest, Amount
    <3> QED
      BY <2>1, <2>2, <3>2 DEF NonNegative
  <2> QED
    BY <2>3, <2>4
<1> QED
  BY <1>2, <1>3 DEF SloHeadroomLeft

LEMMA LessSubtracted ==
    ASSUME NEW c, Positive(c), NEW e, Positive(e), NEW o, Positive(o), NEW p, Positive(p),
           NoMore(c, e), NoMore(p, o)
    PROVE  NoMore(subtractClamp(c, o), subtractClamp(e, p))
<1>1. ASSUME NEW d
      PROVE  Amount(subtractClamp(c, o), d) <= Amount(subtractClamp(e, p), d)
  <2>1. /\ Amount(c, d) \in Int /\ Amount(e, d) \in Int /\ Amount(o, d) \in Int /\ Amount(p, d) \in Int
    BY PositiveIs
  <2>2. Amount(c, d) <= Amount(e, d) /\ Amount(p, d) <= Amount(o, d)
    BY DEF NoMore
  <2>3. Amount(subtractClamp(c, o), d) = NonNegative(Amount(c, d) - Amount(o, d))
    BY SubtractIs
  <2>4. Amount(subtractClamp(e, p), d) = NonNegative(Amount(e, d) - Amount(p, d))
    BY SubtractIs
  <2> QED
    BY <2>1, <2>2, <2>3, <2>4 DEF NonNegative
<1> QED
  BY <1>1 DEF NoMore

LEMMA SameIsNoMore ==
    ASSUME NEW c, Positive(c)
    PROVE  NoMore(c, c)
BY PositiveIs DEF NoMore

\* A demand that the amounts of v allow is allowed by those of w, which has the same holds
\* and no less available.
LEMMA MoreAvailable ==
    ASSUME NEW v, Holding(v), Positive(v.available), NEW w, Holding(w), Positive(w.available),
           Total(HoldsOf(v)) = Total(HoldsOf(w)), NoMore(v.available, w.available),
           NEW q, Positive(q.requirements), q.sloHeadroom \in Nat,
           q.sloHeadroom = 0 \/ SomeOfTheRest(v.available, w.available),
           AmountsFit(v, q)
    PROVE  AmountsFit(w, q)
<1>1. PICK H, a, b : H = Total(HoldsOf(v)) /\ a = v.available /\ b = w.available
  OBVIOUS
<1>2. Positive(H) /\ Positive(a) /\ Positive(b) /\ NoMore(a, b)
  BY <1>1, HoldsAre
<1>3. /\ Positive(Effective(v)) /\ Effective(v) = subtractClamp(a, H)
      /\ DOMAIN Effective(v) = DOMAIN a \cup DOMAIN H
  BY <1>1, EffectiveIs
<1>4. /\ Positive(Effective(w)) /\ Effective(w) = subtractClamp(b, H)
      /\ DOMAIN Effective(w) = DOMAIN b \cup DOMAIN H
      /\ \A d : Amount(Effective(w), d) = NonNegative(Amount(b, d) - Amount(H, d))
  BY <1>1, EffectiveIs
<1>5. NoMore(Effective(v), Effective(w))
  <2>1. NoMore(H, H)
    BY <1>2, SameIsNoMore
  <2> QED
    BY <1>2, <1>3, <1>4, <2>1, LessSubtracted
<1>6. satisfies(Effective(v), q.requirements) /\ (q.sloHeadroom > 0 => SloHeadroomLeft(Effective(v), q))
  BY DEF AmountsFit
<1>7. satisfies(Effective(w), q.requirements)
  BY <1>3, <1>4, <1>5, <1>6, MoreSatisfies
<1>8. ASSUME q.sloHeadroom > 0
      PROVE  SloHeadroomLeft(Effective(w), q)
  <2>1. SomeOfTheRest(a, b)
    BY <1>1, <1>8
  <2>2. SomeOfTheRest(Effective(v), Effective(w))
    <3>1. ASSUME NEW d \in DOMAIN Effective(w), d \notin DOMAIN Effective(v)
          PROVE  Amount(Effective(w), d) > 0
      <4>1. d \in DOMAIN b /\ d \notin DOMAIN a /\ d \notin DOMAIN H
        BY <1>3, <1>4, <3>1
      <4>2. Amount(H, d) = 0 /\ Amount(b, d) > 0
        BY <2>1, <4>1 DEF SomeOfTheRest, Amount
      <4>3. Amount(b, d) \in Int
        BY <1>2, PositiveIs
      <4> QED
        BY <1>4, <4>2, <4>3 DEF NonNegative
    <3> QED
      BY <3>1 DEF SomeOfTheRest
  <2> QED
    BY <1>3, <1>4, <1>5, <1>6, <1>8, <2>2, MoreLeavesHeadroom
<1> QED
  BY <1>7, <1>8 DEF AmountsFit

\* One summand is no more than the sum of several that are not negative.
LEMMA SumAtLeast ==
    ASSUME NEW D, IsFiniteSet(D), NEW f \in [D -> Int], \A i \in D : f[i] >= 0, NEW x \in D
    PROVE  f[x] <= SumOf(f)
<1> DEFINE g == [i \in D \ {x} |-> f[i]]
<1>1. /\ g \in [D \ {x} -> Int] /\ SameOn(g, f, D \ {x}) /\ \A i \in D \ {x} : g[i] >= 0
  BY DEF SameOn
<1> HIDE DEF g
<1>2. PICK E : E = D \ {x}
  OBVIOUS
<1>3. IsFiniteSet(E)
  BY <1>2, FS_Subset
<1>4. SumOf(g) \in Int /\ SumOf(g) >= 0
  <2>1. g \in [E -> Int] /\ \A i \in E : g[i] >= 0
    BY <1>1, <1>2
  <2> QED
    BY <1>3, <2>1, SumNotNegative
<1>5. SumOf(f) = f[x] + SumOf(g)
  BY <1>1, SumRemove
<1> QED
  BY <1>4, <1>5

\* What a member of a family lists more than 0 of, the total has some of.
LEMMA TotalLists ==
    ASSUME NEW D, IsFiniteSet(D), NEW f, Capacities(f, D), NEW i \in D, NEW d
    PROVE  Amount(f[i], d) <= Amount(Total(f), d)
<1>1. PICK F \in [D -> Int] : F = Column(f, d) /\ \A j \in D : F[j] >= 0
  BY ColumnIs
<1>2. F[i] <= SumOf(F)
  BY <1>1, SumAtLeast
<1>3. F[i] = Amount(f[i], d)
  BY <1>1 DEF Column, Capacities
<1>4. Amount(Total(f), d) = SumOf(Column(f, d))
  BY TotalIs
<1> QED
  BY <1>1, <1>2, <1>3, <1>4

LEMMA TotalHasTheRest ==
    ASSUME NEW D, IsFiniteSet(D), NEW f, Capacities(f, D), NEW A \in SUBSET D,
           NEW g, Capacities(g, A), SameOn(g, f, A),
           \A i \in D \ A : \A d \in DOMAIN f[i] : f[i][d] > 0
    PROVE  SomeOfTheRest(Total(g), Total(f))
<1> SUFFICES ASSUME NEW d \in DOMAIN Total(f), d \notin DOMAIN Total(g)
             PROVE  Amount(Total(f), d) > 0
  BY DEF SomeOfTheRest
<1>1. IsFiniteSet(A)
  BY FS_Subset
<1>2. DOMAIN Total(f) = UNION {DOMAIN f[i] : i \in D}
  BY TotalIs
<1>3. DOMAIN Total(g) = UNION {DOMAIN g[i] : i \in A}
  BY <1>1, TotalIs
<1>4. PICK i \in D : d \in DOMAIN f[i]
  BY <1>2
<1>5. i \notin A
  BY <1>3, <1>4 DEF SameOn
<1>6. f[i][d] > 0 /\ f[i][d] = Amount(f[i], d)
  BY <1>4, <1>5 DEF Amount
<1>7. Amount(f[i], d) <= Amount(Total(f), d)
  BY TotalLists
<1>8. Amount(f[i], d) \in Int /\ Amount(Total(f), d) \in Int
  <2>1. Positive(f[i])
    BY DEF Capacities
  <2>2. Positive(Total(f))
    BY TotalIs
  <2> QED
    BY <2>1, <2>2, PositiveIs
<1> QED
  BY <1>6, <1>7, <1>8

-----------------------------------------------------------------------------
(* The death of workers.                                                   *)

LEMMA DemandIs ==
    ASSUME NEW q \in Demands
    PROVE  /\ Positive(q.requirements) /\ q.sloHeadroom \in Nat /\ q.minAccelerators \in Nat
           /\ q.minContiguousVram \in Nat
BY QuestionsTyped, CapacityIsPositive

LEMMA ViewHolds ==
    ASSUME TypeOK, NEW current \in SUBSET DOMAIN resources, NEW now
    PROVE  /\ Holding(View(current, now)) /\ Positive(View(current, now).available)
           /\ Positive(Effective(View(current, now)))
<1>1. View(current, now).reservations = reservations /\ View(current, now).available = available(current)
  BY ViewParts
<1>2. Holding(View(current, now))
  BY <1>1, FactsAreProper DEF Holding
<1>3. Positive(View(current, now).available)
  BY <1>1, FreeIsCapacities
<1> QED
  BY <1>2, <1>3, EffectiveIs

\* Fewer current resources have no more of anything.
LEMMA AvailableOfFewer ==
    ASSUME TypeOK, NEW C \in SUBSET DOMAIN resources, NEW A \in SUBSET C
    PROVE  /\ NoMore(available(A), available(C))
           /\ (\A r \in C : ListsNoZero(Report(r))) => SomeOfTheRest(available(A), available(C))
<1> DEFINE f == [r \in C |-> Report(r).free]
           g == [r \in A |-> Report(r).free]
<1>1. IsFiniteSet(C) /\ Capacities(f, C)
  BY FreeIsCapacities
<1>2. Capacities(g, A)
  <2>1. A \in SUBSET DOMAIN resources
    OBVIOUS
  <2> QED
    BY <2>1, FreeIsCapacities
<1>3. SameOn(g, f, A)
  BY DEF SameOn
<1>4. available(A) = Total(g) /\ available(C) = Total(f)
  BY DEF available
<1>5. ASSUME \A r \in C : ListsNoZero(Report(r))
      PROVE  \A i \in C \ A : \A d \in DOMAIN f[i] : f[i][d] > 0
  BY <1>5 DEF ListsNoZero
<1> HIDE DEF f, g
<1>6. NoMore(Total(g), Total(f))
  BY <1>1, <1>2, <1>3, TotalOfFewer DEF NoMore
<1>7. ASSUME \A r \in C : ListsNoZero(Report(r))
      PROVE  SomeOfTheRest(Total(g), Total(f))
  <2>1. \A i \in C \ A : \A d \in DOMAIN f[i] : f[i][d] > 0
    BY <1>5, <1>7
  <2> QED
    BY <1>1, <1>2, <1>3, <2>1, TotalHasTheRest
<1> QED
  BY <1>4, <1>6, <1>7

LEMMA FewerNeverFit ==
    ASSUME TypeOK, NEW C \in SUBSET DOMAIN resources, NEW A \in SUBSET C, NEW q \in Demands,
           q.sloHeadroom = 0 \/ (\A r \in C : ListsNoZero(Report(r))),
           evaluateNow(View(A, 0), q) \in Fits
    PROVE  evaluateNow(View(C, 0), q) \in Fits
<1>1. PICK v, w : v = View(A, 0) /\ w = View(C, 0)
  OBVIOUS
<1>2. Positive(q.requirements) /\ q.sloHeadroom \in Nat
  BY DemandIs
<1>3. /\ v.devices = w.devices /\ v.reservations = w.reservations /\ v.now = w.now
      /\ v.freshness \in Freshnesses /\ w.freshness \in Freshnesses
      /\ v.freshness = freshness(A) /\ w.freshness = freshness(C)
      /\ v.available = available(A) /\ w.available = available(C)
  BY <1>1, ViewParts
<1>4. Holding(v) /\ Positive(v.available) /\ Positive(Effective(v))
  <2>1. A \in SUBSET DOMAIN resources
    OBVIOUS
  <2> QED
    BY <1>1, <2>1, ViewHolds
<1>5. Holding(w) /\ Positive(w.available) /\ Positive(Effective(w))
  BY <1>1, ViewHolds
<1>6. Fitting(v, q)
  BY <1>1, <1>2, <1>3, <1>4, FitsWhen
<1>7. w.freshness = "Fresh"
  <2>1. freshness(A) = "Fresh"
    BY <1>3, <1>6 DEF Fitting
  <2>2. A # {} /\ DOMAIN resources # {}
    BY <2>1 DEF freshness
  <2> QED
    BY <1>3, <2>2 DEF freshness
<1>8. Total(HoldsOf(v)) = Total(HoldsOf(w))
  BY <1>3 DEF HoldsOf, HeldNow
<1>9. AmountsFit(w, q)
  <2>1. NoMore(v.available, w.available)
    BY <1>3, AvailableOfFewer
  <2>2. q.sloHeadroom = 0 \/ SomeOfTheRest(v.available, w.available)
    BY <1>3, AvailableOfFewer
  <2>3. AmountsFit(v, q)
    BY <1>6 DEF Fitting
  <2> QED
    BY <1>2, <1>4, <1>5, <1>8, <2>1, <2>2, <2>3, MoreAvailable
<1>10. Fitting(w, q)
  BY <1>3, <1>6, <1>7, <1>9 DEF Fitting, DevicesFit, Unfragmented, Usable
<1> QED
  BY <1>1, <1>2, <1>3, <1>5, <1>10, FitsWhen

\* The conservative headroom of a view is no more when less is available.
LEMMA HeadroomOfFewer ==
    ASSUME TypeOK, NEW C \in SUBSET DOMAIN resources, NEW A \in SUBSET C, NEW q \in Demands
    PROVE  NoMore(Headroom(View(A, 0), q), Headroom(View(C, 0), q))
<1> DEFINE nominal == Total([r \in DOMAIN resources |-> Report(r).nominal])
           committed == Total([r \in DOMAIN resources |-> Report(r).committed])
           unavailable == Total([r \in DOMAIN resources |-> Report(r).unavailable])
           margin == IF q.sloHeadroom > 0 THEN q.requirements ELSE NoCapacity
           used(a) == currentUse(nominal, a, committed, unavailable)
<1>1. \A X : Headroom(View(X, 0), q) = computeHeadroom(available(X), used(available(X)), committed, margin)
  BY DEF Headroom, View
<1>2. IsFiniteSet(DOMAIN resources) /\ \A r \in DOMAIN resources : Report(r) \in ReportSpace
  BY ReportsTyped
<1>3. /\ Capacities([r \in DOMAIN resources |-> Report(r).nominal], DOMAIN resources)
      /\ Capacities([r \in DOMAIN resources |-> Report(r).committed], DOMAIN resources)
      /\ Capacities([r \in DOMAIN resources |-> Report(r).unavailable], DOMAIN resources)
  BY <1>2, ReportIs DEF Capacities
<1>4. Positive(nominal) /\ Positive(committed) /\ Positive(unavailable)
  BY <1>2, <1>3, TotalIs
<1>5. Positive(margin)
  <2>1. Positive(NoCapacity)
    BY NoCapacityIsCapacity, CapacityIsPositive
  <2> QED
    BY <2>1, DemandIs
<1>6. PICK a, c : a = available(A) /\ c = available(C)
  OBVIOUS
<1>7. Positive(a) /\ Positive(c) /\ NoMore(a, c)
  <2>1. A \in SUBSET DOMAIN resources
    OBVIOUS
  <2> QED
    BY <1>6, <2>1, FreeIsCapacities, AvailableOfFewer
<1> HIDE DEF nominal, committed, unavailable, margin
<1>8. Positive(used(a)) /\ Positive(used(c)) /\ NoMore(used(c), used(a))
  <2>1. /\ Positive(subtractClamp(nominal, a)) /\ Positive(subtractClamp(nominal, c))
        /\ NoMore(subtractClamp(nominal, c), subtractClamp(nominal, a))
    BY <1>4, <1>7, SameIsNoMore, SubtractIs, LessSubtracted
  <2>2. PICK x, y : x = subtractClamp(nominal, c) /\ y = subtractClamp(nominal, a)
    OBVIOUS
  <2>3. Positive(x) /\ Positive(y) /\ NoMore(x, y)
    BY <2>1, <2>2
  <2>4. /\ Positive(subtractClamp(x, committed)) /\ Positive(subtractClamp(y, committed))
        /\ NoMore(subtractClamp(x, committed), subtractClamp(y, committed))
    BY <1>4, <2>3, SameIsNoMore, SubtractIs, LessSubtracted
  <2>5. PICK z, u : z = subtractClamp(x, committed) /\ u = subtractClamp(y, committed)
    OBVIOUS
  <2>6. Positive(z) /\ Positive(u) /\ NoMore(z, u)
    BY <2>4, <2>5
  <2>7. /\ Positive(subtractClamp(z, unavailable)) /\ Positive(subtractClamp(u, unavailable))
        /\ NoMore(subtractClamp(z, unavailable), subtractClamp(u, unavailable))
    BY <1>4, <2>6, SameIsNoMore, SubtractIs, LessSubtracted
  <2> QED
    BY <2>2, <2>5, <2>7 DEF currentUse
<1>9. PICK s, t : s = used(a) /\ t = used(c)
  OBVIOUS
<1>10. Positive(s) /\ Positive(t) /\ NoMore(t, s)
  BY <1>8, <1>9
<1> HIDE DEF used
<1>11. /\ Positive(subtractClamp(a, s)) /\ Positive(subtractClamp(c, t))
       /\ NoMore(subtractClamp(a, s), subtractClamp(c, t))
  BY <1>7, <1>10, SubtractIs, LessSubtracted
<1>12. PICK x, y : x = subtractClamp(a, s) /\ y = subtractClamp(c, t)
  OBVIOUS
<1>13. Positive(x) /\ Positive(y) /\ NoMore(x, y)
  BY <1>11, <1>12
<1>14. /\ Positive(subtractClamp(x, committed)) /\ Positive(subtractClamp(y, committed))
       /\ NoMore(subtractClamp(x, committed), subtractClamp(y, committed))
  BY <1>4, <1>13, SameIsNoMore, SubtractIs, LessSubtracted
<1>15. PICK z, u : z = subtractClamp(x, committed) /\ u = subtractClamp(y, committed)
  OBVIOUS
<1>16. NoMore(subtractClamp(z, margin), subtractClamp(u, margin))
  <2>1. Positive(z) /\ Positive(u) /\ NoMore(z, u)
    BY <1>14, <1>15
  <2> QED
    BY <1>5, <2>1, SameIsNoMore, LessSubtracted
<1> QED
  BY <1>1, <1>6, <1>9, <1>12, <1>15, <1>16 DEF computeHeadroom

\* In every state: the death of any set of workers never makes a demand fit that did not,
\* and never raises the conservative headroom of any dimension, as long as no live report
\* lists a dimension at zero or no headroom to the SLO is asked for (buildView,
\* evaluateNow, computeHeadroom).
THEOREM DeathsNeverHelp == Spec => []DeathNeverHelps
<1>1. ASSUME TypeOK
      PROVE  DeathNeverHelps
  <2> SUFFICES ASSUME NEW dead \in SUBSET Workers, NEW q \in Demands
               PROVE  LET before == buildView(0)
                          after  == View({r \in CurrentResources : resources[r].worker \notin dead}, 0)
                      IN  /\ q.sloHeadroom = 0 \/ (\A r \in CurrentResources : ListsNoZero(Report(r))) =>
                                (evaluateNow(after, q) \in Fits => evaluateNow(before, q) \in Fits)
                          /\ \A d \in Dimensions :
                                Amount(Headroom(after, q), d) <= Amount(Headroom(before, q), d)
    BY DEF DeathNeverHelps
  <2>1. PICK C, A : /\ C = CurrentResources
                    /\ A = {r \in CurrentResources : resources[r].worker \notin dead}
    OBVIOUS
  <2>2. C \in SUBSET DOMAIN resources /\ A \in SUBSET C
    BY <2>1 DEF CurrentResources
  <2>3. buildView(0) = View(C, 0)
    BY <2>1 DEF buildView
  <2>4. ASSUME q.sloHeadroom = 0 \/ (\A r \in C : ListsNoZero(Report(r))),
               evaluateNow(View(A, 0), q) \in Fits
        PROVE  evaluateNow(View(C, 0), q) \in Fits
    BY <1>1, <2>2, <2>4, FewerNeverFit
  <2>5. NoMore(Headroom(View(A, 0), q), Headroom(View(C, 0), q))
    BY <1>1, <2>2, HeadroomOfFewer
  <2> QED
    BY <2>1, <2>3, <2>4, <2>5 DEF NoMore
<1> QED
  BY <1>1, TypeCorrect, PTL

-----------------------------------------------------------------------------
(* The answer now and the curve.                                           *)

\* evaluateNow subtracts what the guaranteed curve takes away at this instant.
LEMMA HeldNowIs ==
    ASSUME NEW v, NEW t \in Int, v.now = t, NEW rsv, rsv = v.reservations, NEW n \in Nat, n = Len(rsv),
           \A i \in 1 .. n : ProperHold(rsv[i]), NEW d
    PROVE  Amount(Total(HoldsOf(v)), d) = SumOf(HoldsAt(rsv, "Guaranteed", t, d, n))
<1>1. \A i \in 1 .. n : Positive(rsv[i].hold)
  BY DEF ProperHold, TimedHold, Positive
<1>2. Holding(v)
  BY <1>1 DEF Holding
<1>3. IsFiniteSet(HeldNow(v)) /\ Capacities(HoldsOf(v), HeldNow(v))
  BY <1>2, HoldsAre
<1>4. Amount(Total(HoldsOf(v)), d) = SumOf(Column(HoldsOf(v), d))
  BY <1>3, TotalIs
<1>5. PICK A, N : A = HeldNow(v) /\ N = 1 .. n
  OBVIOUS
<1>6. PICK g \in [A -> Int] : g = Column(HoldsOf(v), d)
  BY <1>3, <1>5, ColumnIs
<1>7. PICK f \in [N -> Int] : f = HoldsAt(rsv, "Guaranteed", t, d, n)
  BY <1>5, HoldFlowIs
<1>8. A \in SUBSET N /\ IsFiniteSet(N)
  BY <1>5, PositionsFinite DEF HeldNow
<1>9. ASSUME NEW i \in N
      PROVE  i \in A <=> /\ rsv[i].strength = "Hard"
                         /\ rsv[i].interval.start <= t /\ t < rsv[i].interval.end
  BY <1>5, <1>9 DEF HeldNow
<1>10. ASSUME NEW i \in N
       PROVE  f[i] = IF /\ Counted(rsv[i], "Guaranteed")
                        /\ rsv[i].interval.start <= t /\ t < rsv[i].interval.end
                     THEN Amount(rsv[i].hold, d) ELSE 0
  BY <1>5, <1>7, <1>10 DEF HoldsAt
<1>11. SameOn(g, f, A)
  <2> SUFFICES ASSUME NEW i \in A
               PROVE  g[i] = f[i]
    BY DEF SameOn
  <2>1. g[i] = Amount(rsv[i].hold, d)
    <3>1. g[i] = Amount(Taken(rsv[i].hold), d)
      BY <1>5, <1>6 DEF Column, HoldsOf
    <3>2. Positive(rsv[i].hold)
      BY <1>1, <1>5, <1>8
    <3> QED
      BY <3>1, <3>2, TakenIs
  <2>2. i \in N
    BY <1>8
  <2>3. /\ rsv[i].strength = "Hard"
        /\ rsv[i].interval.start <= t /\ t < rsv[i].interval.end
    BY <1>9, <2>2
  <2>4. CASE DOMAIN rsv[i].hold = {}
    BY <1>10, <2>1, <2>2, <2>4 DEF Counted, Amount
  <2>5. CASE DOMAIN rsv[i].hold # {}
    BY <1>10, <2>1, <2>2, <2>3, <2>5 DEF Counted
  <2> QED
    BY <2>4, <2>5
<1>12. ZeroOutside(f, A, N)
  <2> SUFFICES ASSUME NEW i \in N, i \notin A
               PROVE  f[i] = 0
    BY DEF ZeroOutside
  <2> QED
    BY <1>9, <1>10 DEF Counted
<1>13. SumOf(f) = SumOf(g)
  BY <1>8, <1>11, <1>12, SumFilter
<1> QED
  BY <1>4, <1>6, <1>7, <1>13

LEMMA EffectiveWithinCurve ==
    ASSUME TypeOK, NEW d
    PROVE  /\ Amount(Effective(buildView(0)), d) \in Int
           /\ Amount(queryCapacity("Guaranteed", 0), d) \in Int
           /\ Amount(Effective(buildView(0)), d) <= Amount(queryCapacity("Guaranteed", 0), d)
<1>1. PICK v, C, a : v = buildView(0) /\ C = CurrentResources /\ a = available(C)
  OBVIOUS
<1>2. C \in SUBSET DOMAIN resources /\ v = View(C, 0)
  BY <1>1 DEF CurrentResources, buildView
<1>3. v.available = a /\ v.reservations = reservations /\ v.now = 0
  BY <1>1, <1>2, ViewParts
<1>4. Holding(v) /\ Positive(a) /\ Positive(Effective(v))
  BY <1>2, <1>3, ViewHolds
<1>5. Amount(Effective(v), d) = NonNegative(Amount(a, d) - Amount(Total(HoldsOf(v)), d))
  BY <1>3, <1>4, EffectiveIs
<1>6. PICK n \in Nat, m \in Nat :
         /\ n = Len(reservations) /\ m = Len(releases)
         /\ \A i \in 1 .. n : ProperHold(reservations[i]) /\ TimedHold(reservations[i])
         /\ \A i \in 1 .. m : ProperRelease(releases[i]) /\ TimedRelease(releases[i])
  BY FactsAreProper
<1>t. PICK t \in Int : t = 0
  OBVIOUS
<1>7. PICK H, D : /\ H = HoldsAt(reservations, "Guaranteed", t, d, n)
                  /\ D = DueBy(releases, "Guaranteed", t, d, m)
  OBVIOUS
<1>8. PICK N, M : N = 1 .. n /\ M = 1 .. m
  OBVIOUS
<1>9. \A i \in 1 .. n : ProperHold(reservations[i])
  BY <1>6
<1>10. H \in [N -> Int] /\ SumOf(HoldFlow(Happened(t, d), reservations, "Guaranteed", n)) = 0 - SumOf(H)
  BY <1>7, <1>8, <1>9, HoldFlowIs
<1>11. \A i \in 1 .. m : ProperRelease(releases[i])
  BY <1>6
<1>12. /\ D \in [M -> Int] /\ (\A i \in M : D[i] >= 0)
       /\ DueFlow(Happened(t, d), releases, "Guaranteed", m) = D
  BY <1>7, <1>8, <1>11, DueFlowIs
<1>13. SumOf(H) \in Int
  <2>1. IsFiniteSet(N)
    BY <1>8, PositionsFinite
  <2> QED
    BY <1>10, <2>1, SumType
<1>14. SumOf(D) \in Int /\ SumOf(D) >= 0
  <2>1. IsFiniteSet(M)
    BY <1>8, PositionsFinite
  <2> QED
    BY <1>12, <2>1, SumNotNegative
<1>15. Amount(Total(HoldsOf(v)), d) = SumOf(H)
  <2>1. PICK rsv : rsv = reservations
    OBVIOUS
  <2>2. v.now = t /\ rsv = v.reservations /\ n = Len(rsv) /\ \A i \in 1 .. n : ProperHold(rsv[i])
    BY <1>3, <1>6, <1>9, <1>t, <2>1
  <2> QED
    BY <1>7, <2>1, <2>2, HeldNowIs
<1>16. PICK shown : shown = Amount(capacityAt(buildTimeline(a, reservations, releases, "Guaranteed"), t), d)
  OBVIOUS
<1>17. /\ shown \in Int /\ shown >= 0
       /\ shown >= Amount(a, d) + (SumOf(HoldFlow(Happened(t, d), reservations, "Guaranteed", n))
                                    + SumOf(DueFlow(Happened(t, d), releases, "Guaranteed", m)))
  <2>1. a \in Amounts /\ Amount(a, d) >= 0
    BY <1>4 DEF Positive
  <2>2. \A i \in 1 .. n : TimedHold(reservations[i])
    BY <1>6
  <2>3. \A i \in 1 .. m : TimedRelease(releases[i])
    BY <1>6
  <2> QED
    BY <1>6, <1>16, <2>1, <2>2, <2>3, BuildBounds
<1>18. shown = Amount(queryCapacity("Guaranteed", 0), d)
  BY <1>1, <1>t, <1>16, ViewTimelineIs DEF queryCapacity
<1>19. Amount(a, d) \in Int
  BY <1>4, PositiveIs
<1>20. /\ NonNegative(Amount(a, d) - SumOf(H)) \in Int
       /\ NonNegative(Amount(a, d) - SumOf(H)) <= shown
  BY <1>10, <1>12, <1>13, <1>14, <1>17, <1>19 DEF NonNegative
<1> QED
  BY <1>1, <1>5, <1>15, <1>17, <1>18, <1>20

\* In every state: a demand that fits now is within the guaranteed capacity of the curve
\* at this instant.  evaluateNow clamps once, after all holds; the curve clamps after every
\* event, in the order of the sort, and counts the releases that are due: it is never below
\* (evaluateNow, queryCapacity, buildTimeline, freeze).
THEOREM FitsNowAreOnTheCurve == Spec => []NowWithinTimeline
<1>1. ASSUME TypeOK
      PROVE  NowWithinTimeline
  <2> SUFFICES ASSUME NEW q \in Demands, queryFeasibilityNow(q) \in Fits
               PROVE  satisfies(queryCapacity("Guaranteed", 0), q.requirements)
    BY DEF NowWithinTimeline
  <2>1. PICK C : C = CurrentResources /\ C \in SUBSET DOMAIN resources /\ buildView(0) = View(C, 0)
    BY DEF CurrentResources, buildView
  <2>2. buildView(0).freshness \in Freshnesses /\ Positive(Effective(buildView(0)))
    BY <1>1, <2>1, ViewParts, ViewHolds
  <2>3. Positive(q.requirements)
    BY DemandIs
  <2>4. Fitting(buildView(0), q)
    BY <2>2, <2>3, FitsWhen DEF queryFeasibilityNow
  <2>5. satisfies(Effective(buildView(0)), q.requirements)
    BY <2>4 DEF Fitting, AmountsFit
  <2>6. ASSUME NEW d \in DOMAIN q.requirements
        PROVE  Amount(queryCapacity("Guaranteed", 0), d) >= q.requirements[d]
    <3>1. Amount(Effective(buildView(0)), d) >= q.requirements[d]
      BY <2>5 DEF satisfies
    <3>2. q.requirements[d] \in Int
      BY <2>3, PositiveIs DEF Amount
    <3> QED
      BY <1>1, <3>1, <3>2, EffectiveWithinCurve
  <2> QED
    BY <2>6 DEF satisfies
<1> QED
  BY <1>1, TypeCorrect, PTL

-----------------------------------------------------------------------------
(* What a scenario's view is made of.                                      *)

\* The resources of a view report capacities.
Stocked(v) ==
    IsFiniteSet(DOMAIN v.resources) /\ \A i \in DOMAIN v.resources : v.resources[i].report \in ReportSpace

LEMMA BuiltView ==
    ASSUME TypeOK
    PROVE  LET v == buildView(0)
           IN  /\ IsView(v) /\ Stocked(v) /\ Holding(v) /\ v.freshness \in Freshnesses
               /\ IsFiniteSet(DOMAIN v.devices) /\ Positive(v.available) /\ Positive(Effective(v))
<1>1. PICK C : C = CurrentResources /\ C \in SUBSET DOMAIN resources /\ buildView(0) = View(C, 0)
  BY DEF CurrentResources, buildView
<1>2. PICK v : v = View(C, 0)
  OBVIOUS
<1>3. Holding(v) /\ Positive(v.available) /\ Positive(Effective(v))
  BY <1>1, <1>2, ViewHolds
<1>4. /\ IsView(v) /\ v.freshness \in Freshnesses /\ v.devices = viewDevices
      /\ v.resources = [r \in DOMAIN resources |-> [id |-> r, report |-> Report(r)]]
  BY <1>2, ViewIs
<1>5. IsFiniteSet(DOMAIN resources) /\ \A r \in DOMAIN resources : Report(r) \in ReportSpace
  BY ReportsTyped
<1>6. Stocked(v)
  BY <1>4, <1>5 DEF Stocked
<1>7. IsFiniteSet(DOMAIN v.devices)
  <2>1. PICK f : f = [r \in DOMAIN resources |-> Report(r).device]
    OBVIOUS
  <2>2. DOMAIN v.devices = {f[r] : r \in DOMAIN resources}
    BY <1>4, <2>1 DEF viewDevices
  <2>3. IsFiniteSet({f[r] : r \in DOMAIN resources})
    <3>1. PICK S, T : S = DOMAIN resources /\ T = {f[r] : r \in DOMAIN resources}
      OBVIOUS
    <3>2. f \in Surjection(S, T)
      BY <2>1, <3>1 DEF Surjection
    <3> QED
      BY <1>5, <3>1, <3>2, FS_Surjection
  <2> QED
    BY <2>2, <2>3
<1> QED
  BY <1>1, <1>2, <1>3, <1>4, <1>6, <1>7

LEMMA ScenarioView ==
    ASSUME NEW v, IsView(v), Stocked(v), Holding(v), v.freshness \in Freshnesses
    PROVE  LET w == Reaggregated(v)
           IN  /\ IsFiniteSet(UsableIn(v)) /\ Capacities(FreeIn(v), UsableIn(v))
               /\ Holding(w) /\ w.freshness \in Freshnesses /\ IsFiniteSet(DOMAIN w.devices)
               /\ Positive(w.available) /\ Positive(Effective(w))
<1>1. PICK w : w = Reaggregated(v)
  OBVIOUS
<1>2. /\ w.devices = Described(v) /\ w.available = Total(FreeIn(v))
      /\ w.reservations = v.reservations /\ w.freshness = v.freshness
  BY <1>1, ReaggregatedIs
<1>3. IsFiniteSet(UsableIn(v))
  BY FS_Subset DEF UsableIn, Stocked
<1>4. Capacities(FreeIn(v), UsableIn(v))
  BY ReportIs DEF Capacities, FreeIn, UsableIn, Stocked
<1>5. Positive(w.available)
  BY <1>2, <1>3, <1>4, TotalIs
<1>6. Holding(w)
  BY <1>2 DEF Holding
<1>7. IsFiniteSet(DOMAIN w.devices)
  BY <1>2 DEF Described, Stocked
<1>8. Positive(Effective(w))
  BY <1>5, <1>6, EffectiveIs
<1> QED
  BY <1>1, <1>2, <1>3, <1>4, <1>5, <1>6, <1>7, <1>8

LEMMA ScenarioFits ==
    ASSUME NEW v, IsView(v), Stocked(v), Holding(v), v.freshness \in Freshnesses,
           NEW q, Positive(q.requirements)
    PROVE  evaluateNow(Reaggregated(v), q) \in Fits <=> Fitting(Reaggregated(v), q)
<1>1. PICK w : w = Reaggregated(v)
  OBVIOUS
<1>2. w.freshness \in Freshnesses /\ Positive(Effective(w))
  BY <1>1, ScenarioView
<1> QED
  BY <1>1, <1>2, FitsWhen

\* A finite set of numbers that is not empty has a largest one.
LEMMA MaxIs ==
    ASSUME NEW S \in SUBSET Nat, IsFiniteSet(S), S # {}
    PROVE  Max(S) \in S /\ \A x \in S : x <= Max(S)
<1> DEFINE K == {T \in SUBSET S : T = {} \/ \E x \in T : \A y \in T : y <= x}
<1>2. \A s \in SUBSET S : (\A u \in SUBSET s : u # s => u \in K) => s \in K
  <2> SUFFICES ASSUME NEW s \in SUBSET S, \A u \in SUBSET s : u # s => u \in K, s # {}
               PROVE  \E x \in s : \A y \in s : y <= x
    OBVIOUS
  <2>1. PICK z \in s : TRUE
    OBVIOUS
  <2>2. s \ {z} \in K
    BY <2>1
  <2>3. CASE s \ {z} = {}
    BY <2>1, <2>3
  <2>4. CASE s \ {z} # {}
    <3>1. PICK x \in s \ {z} : \A y \in s \ {z} : y <= x
      BY <2>2, <2>4
    <3>2. CASE x <= z
      BY <2>1, <3>1, <3>2
    <3>3. CASE ~(x <= z)
      BY <2>1, <3>1, <3>3
    <3> QED
      BY <3>2, <3>3
  <2> QED
    BY <2>3, <2>4
<1> HIDE DEF K
<1>3. S \in K
  BY <1>2, SubsetInduction
<1>4. \E x \in S : \A y \in S : y <= x
  BY <1>3 DEF K
<1> QED
  BY <1>4 DEF Max

\* The resource that a scenario adds, and the view with it.
LEMMA AddedIs ==
    ASSUME NEW v, IsView(v), Stocked(v), DOMAIN v.resources \in SUBSET Nat,
           NEW a, a.kind = "AddResource", a.added.report \in ReportSpace
    PROVE  LET w == applyAction(v, a)
               last == Fresh(v.resources)
           IN  /\ IsView(w) /\ Stocked(w)
               /\ w.freshness = v.freshness /\ w.now = v.now /\ w.reservations = v.reservations
               /\ last \notin DOMAIN v.resources
               /\ w.resources = [i \in DOMAIN v.resources \cup {last} |->
                                    IF i = last THEN a.added ELSE v.resources[i]]
<1>1. PICK w, last : w = applyAction(v, a) /\ last = Fresh(v.resources)
  OBVIOUS
<1>2. /\ IsView(w) /\ w.freshness = v.freshness /\ w.now = v.now
      /\ w.reservations = v.reservations
  BY <1>1, ActionIs
<1>3. w.resources = [i \in DOMAIN v.resources \cup {last} |->
                       IF i = last THEN a.added ELSE v.resources[i]]
  <2>1. w = AddResource(v, a.added)
    BY <1>1 DEF applyAction
  <2> QED
    BY <1>1, <2>1 DEF AddResource, IsView, ViewFields
<1>4. last \notin DOMAIN v.resources
  <2>1. PICK S : S = {0} \cup DOMAIN v.resources
    OBVIOUS
  <2>2. IsFiniteSet(S) /\ S \in SUBSET Nat /\ S # {}
    BY <2>1, FS_AddElement DEF Stocked
  <2>3. Max(S) \in S /\ \A x \in S : x <= Max(S)
    BY <2>2, MaxIs
  <2>4. Max(S) \in Int /\ last = 1 + Max(S)
    BY <1>1, <2>1, <2>2, <2>3 DEF Fresh
  <2> QED
    BY <2>1, <2>2, <2>3, <2>4
<1>5. Stocked(w)
  <2>1. IsFiniteSet(DOMAIN v.resources \cup {last})
    BY FS_AddElement DEF Stocked
  <2>2. \A i \in DOMAIN w.resources : w.resources[i].report \in ReportSpace
    BY <1>3 DEF Stocked
  <2> QED
    BY <1>3, <2>1, <2>2 DEF Stocked
<1> QED
  BY <1>1, <1>2, <1>3, <1>4, <1>5

-----------------------------------------------------------------------------
(* Over the wire.                                                          *)

LEMMA SentCapacityIs ==
    ASSUME NEW c, Positive(c)
    PROVE  /\ Positive(SentCapacity(c)) /\ DOMAIN SentCapacity(c) \subseteq DOMAIN c
           /\ \A d : Amount(SentCapacity(c), d) = Amount(c, d)
<1>1. SentCapacity(c) = Taken(c)
  BY DEF SentCapacity, Taken
<1> QED
  BY <1>1, TakenIs

LEMMA SentDemandIs ==
    ASSUME NEW q
    PROVE  LET s == SentDemand(q)
           IN  /\ s.identified = q.identified /\ s.requirements = SentCapacity(q.requirements)
               /\ s.minAccelerators = q.minAccelerators
               /\ s.requiresContiguousVram = q.requiresContiguousVram
               /\ s.minContiguousVram = q.minContiguousVram
               /\ s.topologyGroupSize = {} /\ s.allowedClasses = {} /\ s.requiredCapability = {}
               /\ s.sloHeadroom = 0 /\ s.maxAcceptableFragmentation = {}
BY DEF SentDemand

\* What is left of a demand constrains no more than the demand.
LEMMA SentDemandFits ==
    ASSUME NEW v, IsFiniteSet(DOMAIN v.devices), Positive(Effective(v)), NEW q \in Demands,
           Fitting(v, q)
    PROVE  Fitting(v, SentDemand(q)) /\ Positive(SentDemand(q).requirements)
<1>1. PICK s : s = SentDemand(q)
  OBVIOUS
<1>2. /\ s.identified = q.identified /\ s.requirements = SentCapacity(q.requirements)
      /\ s.minAccelerators = q.minAccelerators
      /\ s.requiresContiguousVram = q.requiresContiguousVram
      /\ s.minContiguousVram = q.minContiguousVram
      /\ s.topologyGroupSize = {} /\ s.allowedClasses = {} /\ s.requiredCapability = {}
      /\ s.sloHeadroom = 0 /\ s.maxAcceptableFragmentation = {}
  BY <1>1, SentDemandIs
<1>3. Positive(q.requirements) /\ q.minAccelerators \in Nat
  BY DemandIs
<1>4. /\ Positive(s.requirements) /\ DOMAIN s.requirements \subseteq DOMAIN q.requirements
      /\ \A d : Amount(s.requirements, d) = Amount(q.requirements, d)
  BY <1>2, <1>3, SentCapacityIs
<1>5. validDemand(s)
  BY <1>2 DEF Fitting, validDemand
<1>6. Usable(v, q) \in SUBSET Usable(v, s) /\ Usable(v, s) \in SUBSET DOMAIN v.devices
  BY <1>2 DEF Usable, deviceCurrentlyUsable, deviceCompatible
<1>7. DevicesFit(v, s)
  <2>1. IsFiniteSet(Usable(v, s))
    BY <1>6, FS_Subset
  <2>2. /\ IsFiniteSet(Usable(v, q)) /\ Cardinality(Usable(v, q)) <= Cardinality(Usable(v, s))
    BY <1>6, <2>1, FS_Subset
  <2>3. Cardinality(Usable(v, q)) \in Nat /\ Cardinality(Usable(v, s)) \in Nat
    BY <2>1, <2>2, FS_CardinalityType
  <2>4. ~(Cardinality(Usable(v, s)) < s.minAccelerators)
    <3>1. ~(Cardinality(Usable(v, q)) < q.minAccelerators)
      BY DEF Fitting, DevicesFit
    <3> QED
      BY <1>2, <1>3, <2>2, <2>3, <3>1
  <2>5. s.requiresContiguousVram =>
          \E i \in Usable(v, s) : shapeSatisfiable(v.devices[i].freeBlocks, s.minContiguousVram)
    BY <1>2, <1>6 DEF Fitting, DevicesFit
  <2> QED
    BY <1>2, <2>4, <2>5 DEF DevicesFit
<1>8. satisfies(Effective(v), s.requirements)
  <2>1. satisfies(Effective(v), q.requirements)
    BY DEF Fitting, AmountsFit
  <2> QED
    BY <1>4, <2>1 DEF satisfies, Amount
<1>9. AmountsFit(v, s) /\ Unfragmented(v, s)
  BY <1>2, <1>8 DEF AmountsFit, Unfragmented
<1> QED
  BY <1>1, <1>4, <1>5, <1>7, <1>9 DEF Fitting

\* Two views whose resources differ in the zeroes their free capacity lists.
SameButZeroes(v, w) ==
    /\ DOMAIN v.resources = DOMAIN w.resources
    /\ \A i \in DOMAIN v.resources :
          LET p == v.resources[i].report
              s == w.resources[i].report
          IN  /\ DeviceInfo(p, p.drained, p.maintenance) = DeviceInfo(s, s.drained, s.maintenance)
              /\ ScenarioUsable(p) <=> ScenarioUsable(s)
              /\ DOMAIN s.free \subseteq DOMAIN p.free
              /\ \A d : Amount(s.free, d) = Amount(p.free, d)

\* Listing fewer zeroes refuses no demand.
LEMMA FewerZeroesFit ==
    ASSUME NEW v, IsView(v), Stocked(v), Holding(v), v.freshness \in Freshnesses,
           NEW w, IsView(w), Stocked(w), Holding(w), w.freshness = v.freshness,
           w.now = v.now, w.reservations = v.reservations,
           SameButZeroes(v, w), NEW q \in Demands, Fitting(Reaggregated(v), q)
    PROVE  Fitting(Reaggregated(w), q)
<1>1. PICK V, W : V = Reaggregated(v) /\ W = Reaggregated(w)
  OBVIOUS
<1>2. /\ V.devices = Described(v) /\ V.available = Total(FreeIn(v)) /\ V.reservations = v.reservations
      /\ V.now = v.now /\ V.freshness = v.freshness
  BY <1>1, ReaggregatedIs
<1>3. /\ W.devices = Described(w) /\ W.available = Total(FreeIn(w)) /\ W.reservations = w.reservations
      /\ W.now = w.now /\ W.freshness = w.freshness
  BY <1>1, ReaggregatedIs
<1>4. /\ IsFiniteSet(UsableIn(v)) /\ Capacities(FreeIn(v), UsableIn(v))
      /\ Holding(V) /\ Positive(V.available)
  BY <1>1, ScenarioView
<1>5. /\ Capacities(FreeIn(w), UsableIn(w)) /\ Holding(W) /\ Positive(W.available)
  <2>1. w.freshness \in Freshnesses
    OBVIOUS
  <2> QED
    BY <1>1, <2>1, ScenarioView
<1>6. V.devices = W.devices /\ UsableIn(v) = UsableIn(w)
  <2>1. Described(v) = Described(w)
    BY DEF Described, SameButZeroes
  <2>2. UsableIn(v) = UsableIn(w)
    BY DEF UsableIn, SameButZeroes
  <2> QED
    BY <1>2, <1>3, <2>1, <2>2
<1>7. PICK D, f, g : D = UsableIn(v) /\ f = FreeIn(v) /\ g = FreeIn(w)
  OBVIOUS
<1>8. IsFiniteSet(D) /\ Capacities(f, D) /\ Capacities(g, D)
  BY <1>4, <1>5, <1>6, <1>7
<1>9. \A i \in D : DOMAIN g[i] \subseteq DOMAIN f[i] /\ \A d : Amount(g[i], d) = Amount(f[i], d)
  BY <1>6, <1>7 DEF FreeIn, UsableIn, SameButZeroes
<1>10. \A d : Amount(Total(f), d) = Amount(Total(g), d)
  <2> SUFFICES ASSUME NEW d
               PROVE  Amount(Total(f), d) = Amount(Total(g), d)
    OBVIOUS
  <2>1. Amount(Total(f), d) = SumOf(Column(f, d)) /\ Amount(Total(g), d) = SumOf(Column(g, d))
    BY <1>8, TotalIs
  <2>2. Column(f, d) = Column(g, d)
    BY <1>8, <1>9 DEF Column, Capacities
  <2> QED
    BY <2>1, <2>2
<1>11. DOMAIN Total(g) \subseteq DOMAIN Total(f)
  <2>1. DOMAIN Total(f) = UNION {DOMAIN f[i] : i \in D}
    BY <1>8, TotalIs
  <2>2. DOMAIN Total(g) = UNION {DOMAIN g[i] : i \in D}
    BY <1>8, TotalIs
  <2> QED
    BY <1>9, <2>1, <2>2
<1>12. NoMore(V.available, W.available) /\ SomeOfTheRest(V.available, W.available)
  <2>1. NoMore(Total(f), Total(f))
    BY <1>2, <1>4, <1>7, SameIsNoMore
  <2> QED
    BY <1>2, <1>3, <1>7, <1>10, <1>11, <2>1 DEF NoMore, SomeOfTheRest
<1>13. Total(HoldsOf(V)) = Total(HoldsOf(W))
  BY <1>2, <1>3 DEF HoldsOf, HeldNow
<1>14. AmountsFit(W, q)
  <2>1. Positive(q.requirements) /\ q.sloHeadroom \in Nat
    BY DemandIs
  <2>2. AmountsFit(V, q)
    BY <1>1 DEF Fitting
  <2> QED
    BY <1>4, <1>5, <1>12, <1>13, <2>1, <2>2, MoreAvailable
<1>15. W.freshness = V.freshness
  BY <1>2, <1>3
<1> QED
  BY <1>1, <1>6, <1>14, <1>15 DEF Fitting, DevicesFit, Unfragmented, Usable

LEMMA SentCapacityBounded ==
    ASSUME NEW c \in CapacitySpace
    PROVE  SentCapacity(c) \in CapacitySpace
<1>1. PICK S \in SUBSET Dimensions : c \in [S -> 0 .. MaxAmount]
  BY DEF CapacitySpace
<1>2. PICK T : T = {e \in DOMAIN c : c[e] # 0}
  OBVIOUS
<1>3. T \in SUBSET Dimensions /\ SentCapacity(c) \in [T -> 0 .. MaxAmount]
  BY <1>1, <1>2 DEF SentCapacity
<1> QED
  BY <1>3, CapacityIntro

LEMMA PaddedIs ==
    ASSUME NEW p \in ReportSpace
    PROVE  Padded(p) \in ReportSpace
<1>1. PICK c : c = [d \in Dimensions |-> Amount(p.free, d)]
  OBVIOUS
<1>2. p.free \in CapacitySpace
  BY DEF ReportSpace
<1>3. \A d \in Dimensions : Amount(p.free, d) \in 0 .. MaxAmount
  BY <1>2, AmountBounded
<1>4. c \in CapacitySpace
  <2>1. c \in [Dimensions -> 0 .. MaxAmount] /\ Dimensions \in SUBSET Dimensions
    BY <1>1, <1>3
  <2> QED
    BY <2>1, CapacityIntro
<1>5. Padded(p) = [p EXCEPT !.free = c]
  BY <1>1 DEF Padded
<1> QED
  BY <1>4, <1>5 DEF ReportSpace

LEMMA SentReportIs ==
    ASSUME NEW p \in ReportSpace
    PROVE  LET s == SentReport(p)
           IN  /\ s \in ReportSpace
               /\ DeviceInfo(p, p.drained, p.maintenance) = DeviceInfo(s, s.drained, s.maintenance)
               /\ ScenarioUsable(p) <=> ScenarioUsable(s)
               /\ DOMAIN s.free \subseteq DOMAIN p.free
               /\ \A d : Amount(s.free, d) = Amount(p.free, d)
<1>1. PICK s : s = SentReport(p)
  OBVIOUS
<1>2. /\ p.nominal \in CapacitySpace /\ p.free \in CapacitySpace /\ p.committed \in CapacitySpace
      /\ p.unavailable \in CapacitySpace
  BY DEF ReportSpace
<1>3. /\ SentCapacity(p.nominal) \in CapacitySpace /\ SentCapacity(p.free) \in CapacitySpace
      /\ SentCapacity(p.committed) \in CapacitySpace /\ SentCapacity(p.unavailable) \in CapacitySpace
  BY <1>2, SentCapacityBounded
<1>4. s \in ReportSpace
  BY <1>1, <1>3 DEF SentReport, ReportSpace
<1>5. /\ s.node = p.node /\ s.class = p.class /\ s.blocks = p.blocks /\ s.health = p.health
      /\ s.drained = p.drained /\ s.maintenance = p.maintenance /\ s.free = SentCapacity(p.free)
  BY <1>1 DEF SentReport, ReportSpace
<1>6. DOMAIN s.free \subseteq DOMAIN p.free /\ \A d : Amount(s.free, d) = Amount(p.free, d)
  <2>1. Positive(p.free)
    BY ReportIs
  <2> QED
    BY <1>5, <2>1, SentCapacityIs
<1>7. DeviceInfo(p, p.drained, p.maintenance) = DeviceInfo(s, s.drained, s.maintenance)
  BY <1>5, <1>6 DEF DeviceInfo
<1>8. ScenarioUsable(p) <=> ScenarioUsable(s)
  BY <1>5 DEF ScenarioUsable
<1> QED
  BY <1>1, <1>4, <1>6, <1>7, <1>8

\* A report added to a view as it is sent, or as it was before.
LEMMA SentAdditionFits ==
    ASSUME NEW v, IsView(v), Stocked(v), Holding(v), v.freshness \in Freshnesses,
           DOMAIN v.resources \in SUBSET Nat,
           NEW a, a.kind = "AddResource", NEW b, b.kind = "AddResource",
           a.added.report \in ReportSpace, b.added.report = SentReport(a.added.report),
           NEW q \in Demands, evaluateNow(applyScenario(v, <<a>>), q) \in Fits
    PROVE  /\ evaluateNow(applyScenario(v, <<b>>), q) \in Fits
           /\ evaluateNow(applyScenario(v, <<b>>), SentDemand(q)) \in Fits
<1>1. PICK x, y, last : x = applyAction(v, a) /\ y = applyAction(v, b) /\ last = Fresh(v.resources)
  OBVIOUS
<1>2. /\ IsView(x) /\ Stocked(x)
      /\ x.freshness = v.freshness /\ x.now = v.now /\ x.reservations = v.reservations
      /\ x.resources = [i \in DOMAIN v.resources \cup {last} |->
                          IF i = last THEN a.added ELSE v.resources[i]]
  BY <1>1, AddedIs
<1>3. b.added.report \in ReportSpace
  BY SentReportIs
<1>4. /\ IsView(y) /\ Stocked(y)
      /\ y.freshness = v.freshness /\ y.now = v.now /\ y.reservations = v.reservations
      /\ y.resources = [i \in DOMAIN v.resources \cup {last} |->
                          IF i = last THEN b.added ELSE v.resources[i]]
  BY <1>1, <1>3, AddedIs
<1>5. Holding(x) /\ Holding(y) /\ x.freshness \in Freshnesses /\ y.freshness \in Freshnesses
  BY <1>2, <1>4 DEF Holding
<1>6. SameButZeroes(x, y)
  <2>1. ASSUME NEW i \in DOMAIN x.resources
        PROVE  LET p == x.resources[i].report
                   s == y.resources[i].report
               IN  /\ DeviceInfo(p, p.drained, p.maintenance) = DeviceInfo(s, s.drained, s.maintenance)
                   /\ ScenarioUsable(p) <=> ScenarioUsable(s)
                   /\ DOMAIN s.free \subseteq DOMAIN p.free
                   /\ \A d : Amount(s.free, d) = Amount(p.free, d)
    <3>1. CASE i = last
      <4>1. x.resources[i].report = a.added.report /\ y.resources[i].report = SentReport(a.added.report)
        BY <1>2, <1>4, <3>1
      <4> QED
        BY <4>1, SentReportIs
    <3>2. CASE i # last
      BY <1>2, <1>4, <2>1, <3>2
    <3> QED
      BY <3>1, <3>2
  <2>2. DOMAIN x.resources = DOMAIN y.resources
    BY <1>2, <1>4
  <2> QED
    BY <2>1, <2>2 DEF SameButZeroes
<1>7. Positive(q.requirements)
  BY DemandIs
<1>8. applyScenario(v, <<a>>) = Reaggregated(x) /\ applyScenario(v, <<b>>) = Reaggregated(y)
  BY <1>1, ScenarioOfOne
<1>9. Fitting(Reaggregated(x), q)
  BY <1>2, <1>5, <1>7, <1>8, ScenarioFits
<1>10. Fitting(Reaggregated(y), q)
  <2>1. y.freshness = x.freshness /\ y.now = x.now /\ y.reservations = x.reservations
    BY <1>2, <1>4
  <2> QED
    BY <1>2, <1>4, <1>5, <1>6, <1>9, <2>1, FewerZeroesFit
<1>11. Fitting(Reaggregated(y), SentDemand(q)) /\ Positive(SentDemand(q).requirements)
  <2>1. PICK W : W = Reaggregated(y)
    OBVIOUS
  <2>2. IsFiniteSet(DOMAIN W.devices) /\ Positive(Effective(W))
    BY <1>4, <1>5, <2>1, ScenarioView
  <2>3. Fitting(W, q)
    BY <1>10, <2>1
  <2> QED
    BY <2>1, <2>2, <2>3, SentDemandFits
<1>12. evaluateNow(Reaggregated(y), q) \in Fits
  BY <1>4, <1>5, <1>7, <1>10, ScenarioFits
<1>13. evaluateNow(Reaggregated(y), SentDemand(q)) \in Fits
  BY <1>4, <1>5, <1>11, ScenarioFits
<1> QED
  BY <1>8, <1>12, <1>13

\* The view the model builds, as the scenarios start from it.
LEMMA BuiltResources ==
    ASSUME TypeOK
    PROVE  DOMAIN buildView(0).resources = DOMAIN resources /\ DOMAIN resources \in SUBSET Nat
<1>1. buildView(0).resources = [r \in DOMAIN resources |-> [id |-> r, report |-> Report(r)]]
  BY DEF buildView, View
<1> QED
  BY <1>1, ReportsTyped

\* In every state: a demand that fits here fits when it is sent over the wire, and a
\* resource with which it fits still makes it fit when it is sent, with the demand sent
\* too: what the marshalling drops only ever constrained (writeDemand and readDemand,
\* writeResource and readResource, evaluateNow, applyScenario).
THEOREM TheWireNeverTightens == Spec => []WireNeverTightens
<1>1. ASSUME TypeOK, NEW q \in Demands, queryFeasibilityNow(q) \in Fits
      PROVE  queryFeasibilityNow(SentDemand(q)) \in Fits
  <2>1. PICK v : v = buildView(0)
    OBVIOUS
  <2>2. IsFiniteSet(DOMAIN v.devices) /\ v.freshness \in Freshnesses /\ Positive(Effective(v))
    BY <1>1, <2>1, BuiltView
  <2>3. Positive(q.requirements)
    BY DemandIs
  <2>4. Fitting(v, q)
    BY <1>1, <2>1, <2>2, <2>3, FitsWhen DEF queryFeasibilityNow
  <2>5. Fitting(v, SentDemand(q)) /\ Positive(SentDemand(q).requirements)
    BY <2>2, <2>4, SentDemandFits
  <2> QED
    BY <2>1, <2>2, <2>5, FitsWhen DEF queryFeasibilityNow
<1>2. ASSUME TypeOK, NEW q \in Demands, NEW a \in Adding
      PROVE  LET here == [a EXCEPT !.added.report = Padded(@)]
                 sent == [a EXCEPT !.added.report = SentReport(Padded(@))]
             IN  evaluateScenario(<<here>>, q) \in Fits =>
                     /\ evaluateScenario(<<sent>>, q) \in Fits
                     /\ evaluateScenario(<<sent>>, SentDemand(q)) \in Fits
  <2>1. PICK p \in Additions :
           a = [kind |-> "AddResource", added |-> [id |-> 1 + Max(ResourceIds), report |-> p]]
    BY DEF Adding
  <2>2. PICK here, sent : /\ here = [a EXCEPT !.added.report = Padded(@)]
                          /\ sent = [a EXCEPT !.added.report = SentReport(Padded(@))]
    OBVIOUS
  <2>3. /\ here.kind = "AddResource" /\ here.added.report = Padded(p)
        /\ sent.kind = "AddResource" /\ sent.added.report = SentReport(Padded(p))
    BY <2>1, <2>2
  <2>4. here.added.report \in ReportSpace
    BY <2>3, PaddedIs, QuestionsTyped
  <2>5. PICK v : v = buildView(0)
    OBVIOUS
  <2>6. /\ IsView(v) /\ Stocked(v) /\ Holding(v) /\ v.freshness \in Freshnesses
        /\ DOMAIN v.resources \in SUBSET Nat
    BY <1>2, <2>5, BuiltView, BuiltResources
  <2>7. ASSUME evaluateNow(applyScenario(v, <<here>>), q) \in Fits
        PROVE  /\ evaluateNow(applyScenario(v, <<sent>>), q) \in Fits
               /\ evaluateNow(applyScenario(v, <<sent>>), SentDemand(q)) \in Fits
    BY <2>3, <2>4, <2>6, <2>7, SentAdditionFits
  <2> QED
    BY <2>2, <2>5, <2>7 DEF evaluateScenario
<1>3. TypeOK => WireNeverTightens
  BY <1>1, <1>2 DEF WireNeverTightens
<1> QED
  BY <1>3, TypeCorrect, PTL

-----------------------------------------------------------------------------
(* Scenarios with more and with fewer resources.                           *)

\* The resources of v are among those of w; what else they hold is the same.
PartOf(v, w) ==
    /\ DOMAIN v.resources \in SUBSET DOMAIN w.resources
    /\ \A i \in DOMAIN v.resources : v.resources[i] = w.resources[i]
    /\ v.reservations = w.reservations /\ v.now = w.now /\ v.freshness = w.freshness

\* A group of the usable devices is a group of more of them.
LEMMA GroupStays ==
    ASSUME NEW devs, NEW D, IsFiniteSet(D), NEW A \in SUBSET D, NEW few, NEW n \in Nat,
           \A i \in A : few[i] = devs[i], HasGroup(few, A, n)
    PROVE  HasGroup(devs, D, n)
<1> DEFINE G(d, S, i) == {j \in S : /\ d[j].class.name = d[i].class.name
                                    /\ d[j].node = d[i].node}
<1>1. PICK i \in A : Cardinality(G(few, A, i)) >= n
  BY DEF HasGroup
<1>2. G(few, A, i) \in SUBSET G(devs, D, i) /\ G(devs, D, i) \in SUBSET D
  OBVIOUS
<1>3. i \in D
  OBVIOUS
<1> HIDE DEF G
<1>4. IsFiniteSet(G(devs, D, i))
  BY <1>2, FS_Subset
<1>5. IsFiniteSet(G(few, A, i)) /\ Cardinality(G(few, A, i)) <= Cardinality(G(devs, D, i))
  BY <1>2, <1>4, FS_Subset
<1>6. Cardinality(G(few, A, i)) \in Nat /\ Cardinality(G(devs, D, i)) \in Nat
  BY <1>4, <1>5, FS_CardinalityType
<1>7. Cardinality(G(devs, D, i)) >= n
  BY <1>1, <1>5, <1>6
<1> QED
  BY <1>3, <1>7 DEF HasGroup, G

\* Devices that serve a demand serve it among more devices.
LEMMA MoreDevicesFit ==
    ASSUME NEW v, NEW w, IsFiniteSet(DOMAIN w.devices), DOMAIN v.devices \in SUBSET DOMAIN w.devices,
           \A i \in DOMAIN v.devices : v.devices[i] = w.devices[i],
           NEW q \in Demands, DevicesFit(v, q)
    PROVE  DevicesFit(w, q)
<1>1. PICK A, D : A = Usable(v, q) /\ D = Usable(w, q)
  OBVIOUS
<1>2. A \in SUBSET D /\ D \in SUBSET DOMAIN w.devices /\ A \in SUBSET DOMAIN v.devices
  BY <1>1 DEF Usable
<1>3. IsFiniteSet(D)
  BY <1>2, FS_Subset
<1>4. IsFiniteSet(A) /\ Cardinality(A) <= Cardinality(D)
  BY <1>2, <1>3, FS_Subset
<1>5. Cardinality(A) \in Nat /\ Cardinality(D) \in Nat /\ q.minAccelerators \in Nat
  BY <1>3, <1>4, FS_CardinalityType, DemandIs
<1>6. ~(Cardinality(D) < q.minAccelerators)
  BY <1>1, <1>4, <1>5 DEF DevicesFit
<1>7. ASSUME NEW n \in q.topologyGroupSize
      PROVE  HasGroup(w.devices, D, n)
  <2>1. n \in Nat
    BY QuestionsTyped
  <2>2. HasGroup(v.devices, A, n)
    BY <1>1 DEF DevicesFit
  <2>3. PICK few, devs : few = v.devices /\ devs = w.devices
    OBVIOUS
  <2>4. \A i \in A : few[i] = devs[i]
    BY <1>2, <2>3
  <2>5. HasGroup(few, A, n)
    BY <2>2, <2>3
  <2>6. HasGroup(devs, D, n)
    BY <1>2, <1>3, <2>1, <2>4, <2>5, GroupStays
  <2> QED
    BY <2>3, <2>6
<1>8. q.requiresContiguousVram =>
        \E i \in D : shapeSatisfiable(w.devices[i].freeBlocks, q.minContiguousVram)
  BY <1>1, <1>2 DEF DevicesFit
<1> QED
  BY <1>1, <1>6, <1>7, <1>8 DEF DevicesFit

\* More resources never stop a demand without a bound on fragmentation.
LEMMA MoreResourcesFit ==
    ASSUME NEW v, IsView(v), Stocked(v), Holding(v), v.freshness \in Freshnesses,
           NEW w, IsView(w), Stocked(w), Holding(w), PartOf(v, w),
           NEW q \in Plain,
           q.sloHeadroom = 0 \/ \A i \in DOMAIN w.resources \ DOMAIN v.resources :
                                   ListsNoZero(w.resources[i].report),
           Fitting(Reaggregated(v), q)
    PROVE  Fitting(Reaggregated(w), q)
<1>1. PICK V, W : V = Reaggregated(v) /\ W = Reaggregated(w)
  OBVIOUS
<1>2. /\ V.devices = Described(v) /\ V.available = Total(FreeIn(v)) /\ V.reservations = v.reservations
      /\ V.now = v.now /\ V.freshness = v.freshness
  BY <1>1, ReaggregatedIs
<1>3. /\ W.devices = Described(w) /\ W.available = Total(FreeIn(w)) /\ W.reservations = w.reservations
      /\ W.now = w.now /\ W.freshness = w.freshness
  BY <1>1, ReaggregatedIs
<1>4. Capacities(FreeIn(v), UsableIn(v)) /\ Holding(V) /\ Positive(V.available)
  BY <1>1, ScenarioView
<1>5. /\ IsFiniteSet(UsableIn(w)) /\ Capacities(FreeIn(w), UsableIn(w))
      /\ Holding(W) /\ Positive(W.available) /\ IsFiniteSet(DOMAIN W.devices)
  <2>1. w.freshness \in Freshnesses
    BY DEF PartOf
  <2> QED
    BY <1>1, <2>1, ScenarioView
<1>6. q \in Demands /\ q.maxAcceptableFragmentation = {}
  BY DEF Plain
<1>7. Positive(q.requirements) /\ q.sloHeadroom \in Nat
  BY <1>6, DemandIs
<1>8. DevicesFit(W, q)
  <2>1. /\ DOMAIN V.devices \in SUBSET DOMAIN W.devices
        /\ \A i \in DOMAIN V.devices : V.devices[i] = W.devices[i]
    BY <1>2, <1>3 DEF Described, PartOf
  <2>2. DevicesFit(V, q)
    BY <1>1 DEF Fitting
  <2> QED
    BY <1>5, <1>6, <2>1, <2>2, MoreDevicesFit
<1>9. PICK A, D, f, g : A = UsableIn(v) /\ D = UsableIn(w) /\ f = FreeIn(w) /\ g = FreeIn(v)
  OBVIOUS
<1>10. /\ A \in SUBSET D /\ SameOn(g, f, A) /\ IsFiniteSet(D)
       /\ Capacities(f, D) /\ Capacities(g, A)
  BY <1>4, <1>5, <1>9 DEF UsableIn, FreeIn, PartOf, SameOn
<1>11. NoMore(V.available, W.available)
  BY <1>2, <1>3, <1>9, <1>10, TotalOfFewer DEF NoMore
<1>12. q.sloHeadroom = 0 \/ SomeOfTheRest(V.available, W.available)
  <2> SUFFICES ASSUME \A i \in DOMAIN w.resources \ DOMAIN v.resources :
                         ListsNoZero(w.resources[i].report)
               PROVE  SomeOfTheRest(Total(g), Total(f))
    BY <1>2, <1>3, <1>9
  <2>1. \A i \in D \ A : \A d \in DOMAIN f[i] : f[i][d] > 0
    BY <1>9 DEF UsableIn, FreeIn, PartOf, ListsNoZero
  <2> QED
    BY <1>10, <2>1, TotalHasTheRest
<1>13. Total(HoldsOf(V)) = Total(HoldsOf(W))
  BY <1>2, <1>3 DEF HoldsOf, HeldNow, PartOf
<1>14. AmountsFit(W, q)
  <2>1. AmountsFit(V, q)
    BY <1>1 DEF Fitting
  <2> QED
    BY <1>4, <1>5, <1>7, <1>11, <1>12, <1>13, <2>1, MoreAvailable
<1>15. Unfragmented(W, q)
  BY <1>6 DEF Unfragmented
<1>16. W.freshness = "Fresh" /\ validDemand(q)
  BY <1>1, <1>2, <1>3 DEF Fitting, PartOf
<1> QED
  BY <1>1, <1>8, <1>14, <1>15, <1>16 DEF Fitting

-----------------------------------------------------------------------------
(* Scenarios with more and with fewer reservations.                        *)

\* Each item of s is one of t, in its own place.
PickedAt(s, t, n, m, b) ==
    /\ n = Len(t) /\ m = Len(s)
    /\ \A j, k \in 1 .. m : b[j] = b[k] => j = k
    /\ \A j \in 1 .. m : s[j] = t[b[j]]

\* The items of s are some of those of t, in whatever places.
Picked(s, t) ==
    \E n \in Nat, m \in Nat : \E b \in [1 .. m -> 1 .. n] : PickedAt(s, t, n, m, b)

\* b takes each place of D to a place of its own with the same number.
Placed(b, D, f, g) ==
    /\ \A x, y \in D : b[x] = b[y] => x = y
    /\ \A x \in D : f[x] = g[b[x]]

NotNegative(g, E) == \A e \in E : g[e] >= 0

\* Numbers that are not negative sum to no less than some of them in other places.
LEMMA SumOfSome ==
    ASSUME NEW D, IsFiniteSet(D), NEW E, IsFiniteSet(E), NEW f \in [D -> Int], NEW g \in [E -> Int],
           NEW b \in [D -> E], Placed(b, D, f, g), NotNegative(g, E)
    PROVE  SumOf(f) <= SumOf(g)
<1> DEFINE h == [e \in E |-> IF \E x \in D : b[x] = e THEN g[e] ELSE 0]
<1>1. h \in [E -> Int]
  OBVIOUS
<1>2. \A e \in E : h[e] <= g[e]
  BY DEF NotNegative
<1>3. CountsAt(b, D, f, D, h, E)
  <2>1. \A x \in D : h[b[x]] = f[x]
    BY DEF Placed
  <2>2. \A e \in E : (\E x \in D : b[x] = e) \/ h[e] = 0
    OBVIOUS
  <2> HIDE DEF h
  <2> QED
    BY <2>1, <2>2 DEF CountsAt, Placed
<1> HIDE DEF h
<1>4. SumOf(f) = SumOf(h)
  <2>1. D \in SUBSET D
    OBVIOUS
  <2> QED
    BY <1>1, <1>3, <2>1, SumReindex
<1>5. SumOf(h) <= SumOf(g)
  BY <1>1, <1>2, SumMonotone
<1> QED
  BY <1>4, <1>5

\* Fewer holds take no more of anything, and of no dimension that more of them leave.
LEMMA FewerHolds ==
    ASSUME NEW v, Holding(v), NEW w, Holding(w), Picked(w.reservations, v.reservations), v.now = w.now
    PROVE  /\ NoMore(Total(HoldsOf(w)), Total(HoldsOf(v)))
           /\ DOMAIN Total(HoldsOf(w)) \subseteq DOMAIN Total(HoldsOf(v))
<1>1. PICK n \in Nat, m \in Nat : \E b \in [1 .. m -> 1 .. n] :
         PickedAt(w.reservations, v.reservations, n, m, b)
  BY DEF Picked
<1>2. PICK b \in [1 .. m -> 1 .. n] :
         /\ n = Len(v.reservations) /\ m = Len(w.reservations)
         /\ \A j, k \in 1 .. m : b[j] = b[k] => j = k
         /\ \A j \in 1 .. m : w.reservations[j] = v.reservations[b[j]]
  BY <1>1 DEF PickedAt
<1>3. PICK D, E, f, g : /\ D = HeldNow(w) /\ E = HeldNow(v)
                        /\ f = HoldsOf(w) /\ g = HoldsOf(v)
  OBVIOUS
<1>4. IsFiniteSet(D) /\ IsFiniteSet(E) /\ Capacities(f, D) /\ Capacities(g, E)
  BY <1>3, HoldsAre
<1>5. D \in SUBSET (1 .. m) /\ \A j \in D : b[j] \in E
  BY <1>2, <1>3 DEF HeldNow
<1>6. \A j \in D : f[j] = g[b[j]]
  <2>1. \A j \in D : b[j] \in E /\ w.reservations[j] = v.reservations[b[j]]
    BY <1>2, <1>5
  <2> QED
    BY <1>3, <2>1 DEF HoldsOf
<1>7. PICK c \in [D -> E] : \A j \in D : c[j] = b[j]
  <2>1. [j \in D |-> b[j]] \in [D -> E]
    BY <1>5
  <2> QED
    BY <2>1
<1>8. \A j, k \in D : c[j] = c[k] => j = k
  BY <1>2, <1>5, <1>7
<1>9. ASSUME NEW d
      PROVE  Amount(Total(f), d) <= Amount(Total(g), d)
  <2>1. Amount(Total(f), d) = SumOf(Column(f, d)) /\ Amount(Total(g), d) = SumOf(Column(g, d))
    BY <1>4, TotalIs
  <2>2. PICK F \in [D -> Int] : F = Column(f, d)
    BY <1>4, ColumnIs
  <2>3. PICK G \in [E -> Int] : G = Column(g, d) /\ NotNegative(G, E)
    BY <1>4, ColumnIs DEF NotNegative
  <2>4. \A j \in D : F[j] = G[c[j]]
    <3>1. \A j \in D : F[j] = Amount(f[j], d)
      BY <1>4, <2>2 DEF Column, Capacities
    <3>2. \A e \in E : G[e] = Amount(g[e], d)
      BY <1>4, <2>3 DEF Column, Capacities
    <3> TAKE j \in D
    <3>3. c[j] \in E /\ f[j] = g[c[j]]
      BY <1>6, <1>7
    <3> QED
      BY <3>1, <3>2, <3>3
  <2>5. Placed(c, D, F, G)
    BY <1>8, <2>4 DEF Placed
  <2>6. SumOf(F) <= SumOf(G)
    BY <1>4, <2>3, <2>5, SumOfSome
  <2> QED
    BY <2>1, <2>2, <2>3, <2>6
<1>10. DOMAIN Total(f) \subseteq DOMAIN Total(g)
  <2>1. DOMAIN Total(f) = UNION {DOMAIN f[i] : i \in D}
    BY <1>4, TotalIs
  <2>2. DOMAIN Total(g) = UNION {DOMAIN g[i] : i \in E}
    BY <1>4, TotalIs
  <2> QED
    BY <1>5, <1>6, <2>1, <2>2
<1> QED
  BY <1>3, <1>9, <1>10 DEF NoMore

\* Fewer reservations never stop a demand.
LEMMA FewerHoldsFit ==
    ASSUME NEW v, IsView(v), Stocked(v), Holding(v), v.freshness \in Freshnesses,
           NEW w, IsView(w), Holding(w), Picked(w.reservations, v.reservations),
           w.resources = v.resources,
           w.now = v.now, w.freshness = v.freshness,
           NEW q \in Demands, Fitting(Reaggregated(v), q)
    PROVE  Fitting(Reaggregated(w), q)
<1>1. PICK V, W : V = Reaggregated(v) /\ W = Reaggregated(w)
  OBVIOUS
<1>2. /\ V.devices = Described(v) /\ V.available = Total(FreeIn(v)) /\ V.reservations = v.reservations
      /\ V.now = v.now /\ V.freshness = v.freshness
  BY <1>1, ReaggregatedIs
<1>3. /\ W.devices = Described(w) /\ W.available = Total(FreeIn(w)) /\ W.reservations = w.reservations
      /\ W.now = w.now /\ W.freshness = w.freshness
  BY <1>1, ReaggregatedIs
<1>4. Holding(V) /\ Positive(V.available)
  BY <1>1, ScenarioView
<1>5. W.devices = V.devices /\ W.available = V.available /\ W.now = V.now /\ W.freshness = V.freshness
  BY <1>2, <1>3 DEF Described, FreeIn, UsableIn
<1>6. Holding(W) /\ Positive(W.available)
  BY <1>3, <1>4, <1>5 DEF Holding
<1>7. Picked(W.reservations, V.reservations)
  BY <1>2, <1>3
<1>8. PICK a, H, K : a = V.available /\ H = Total(HoldsOf(V)) /\ K = Total(HoldsOf(W))
  OBVIOUS
<1>9. Positive(a) /\ Positive(H) /\ Positive(K) /\ NoMore(K, H) /\ DOMAIN K \subseteq DOMAIN H
  BY <1>4, <1>5, <1>6, <1>7, <1>8, HoldsAre, FewerHolds
<1>10. /\ Positive(Effective(V)) /\ Effective(V) = subtractClamp(a, H)
       /\ DOMAIN Effective(V) = DOMAIN a \cup DOMAIN H
  BY <1>4, <1>8, EffectiveIs
<1>11. /\ Positive(Effective(W)) /\ Effective(W) = subtractClamp(a, K)
       /\ DOMAIN Effective(W) = DOMAIN a \cup DOMAIN K
  BY <1>5, <1>6, <1>8, EffectiveIs
<1>12. NoMore(Effective(V), Effective(W))
  <2>1. NoMore(a, a)
    BY <1>9, SameIsNoMore
  <2> QED
    BY <1>9, <1>10, <1>11, <2>1, LessSubtracted
<1>13. SomeOfTheRest(Effective(V), Effective(W))
  BY <1>9, <1>10, <1>11 DEF SomeOfTheRest
<1>14. Positive(q.requirements)
  BY DemandIs
<1>15. AmountsFit(V, q)
  BY <1>1 DEF Fitting
<1>16. satisfies(Effective(W), q.requirements)
  BY <1>10, <1>11, <1>12, <1>14, <1>15, MoreSatisfies DEF AmountsFit
<1>17. ASSUME q.sloHeadroom > 0
       PROVE  SloHeadroomLeft(Effective(W), q)
  <2>1. SloHeadroomLeft(Effective(V), q)
    BY <1>15, <1>17 DEF AmountsFit
  <2> QED
    BY <1>10, <1>11, <1>12, <1>13, <1>14, <2>1, MoreLeavesHeadroom
<1>18. AmountsFit(W, q)
  BY <1>16, <1>17 DEF AmountsFit
<1> QED
  BY <1>1, <1>5, <1>18 DEF Fitting, DevicesFit, Unfragmented, Usable

\* A sequence is picked from itself, and from itself with one more item.
LEMMA PickedFromMore ==
    ASSUME NEW S, NEW s \in Seq(S), NEW x
    PROVE  Picked(s, s) /\ Picked(s, Append(s, x))
<1>1. PICK n \in Nat : n = Len(s)
  OBVIOUS
<1>2. PICK b \in [1 .. n -> 1 .. n] : \A j \in 1 .. n : b[j] = j
  <2>1. [j \in 1 .. n |-> j] \in [1 .. n -> 1 .. n]
    OBVIOUS
  <2> QED
    BY <2>1
<1>3. PickedAt(s, s, n, n, b)
  BY <1>1, <1>2 DEF PickedAt
<1>4. PICK t, m : t = Append(s, x) /\ m = n + 1
  OBVIOUS
<1>5. m \in Nat /\ Len(t) = m /\ \A j \in 1 .. n : t[j] = s[j]
  <2>1. s \in Seq(S \cup {x}) /\ x \in S \cup {x}
    OBVIOUS
  <2> QED
    BY <1>1, <1>4, <2>1
<1>6. b \in [1 .. n -> 1 .. m] /\ PickedAt(s, t, m, n, b)
  BY <1>1, <1>2, <1>4, <1>5 DEF PickedAt
<1> QED
  BY <1>1, <1>3, <1>4, <1>5, <1>6 DEF Picked

\* What is picked from capacities are capacities.
LEMMA PickedHolds ==
    ASSUME NEW v, Holding(v), NEW w, Picked(w.reservations, v.reservations)
    PROVE  Holding(w)
<1>1. PICK n \in Nat, m \in Nat : \E b \in [1 .. m -> 1 .. n] :
         PickedAt(w.reservations, v.reservations, n, m, b)
  BY DEF Picked
<1>2. PICK b \in [1 .. m -> 1 .. n] :
         /\ n = Len(v.reservations) /\ m = Len(w.reservations)
         /\ \A j \in 1 .. m : w.reservations[j] = v.reservations[b[j]]
  BY <1>1 DEF PickedAt
<1>3. \A i \in 1 .. n : Positive(v.reservations[i].hold)
  BY <1>2 DEF Holding
<1>4. \A j \in 1 .. m : Positive(w.reservations[j].hold)
  BY <1>2, <1>3
<1> QED
  BY <1>2, <1>4 DEF Holding

\* The recursive function of CancelReservation.
Kept(rsv, id, n) ==
    CHOOSE f : f = [i \in 0 .. n |-> IF i = 0 THEN <<>>
                                     ELSE IF rsv[i].id # id THEN Append(f[i - 1], rsv[i])
                                     ELSE f[i - 1]]

\* The first i items of rsv without some of them.
KeptOf(s, rsv, i) ==
    \E m \in Nat : \E b \in [1 .. m -> 1 .. i] :
        /\ m = Len(s)
        /\ \A j, k \in 1 .. m : b[j] = b[k] => j = k
        /\ \A j \in 1 .. m : s[j] = rsv[b[j]]

LEMMA KeptStep ==
    ASSUME NEW S, NEW rsv \in Seq(S), NEW i \in Nat, i + 1 <= Len(rsv),
           NEW s \in Seq(S), KeptOf(s, rsv, i)
    PROVE  /\ KeptOf(s, rsv, i + 1) /\ Append(s, rsv[i + 1]) \in Seq(S)
           /\ KeptOf(Append(s, rsv[i + 1]), rsv, i + 1)
<1>1. PICK m \in Nat : \E b \in [1 .. m -> 1 .. i] :
        /\ m = Len(s)
        /\ \A j, k \in 1 .. m : b[j] = b[k] => j = k
        /\ \A j \in 1 .. m : s[j] = rsv[b[j]]
  BY DEF KeptOf
<1>2. PICK b \in [1 .. m -> 1 .. i] :
        /\ m = Len(s)
        /\ \A j, k \in 1 .. m : b[j] = b[k] => j = k
        /\ \A j \in 1 .. m : s[j] = rsv[b[j]]
  BY <1>1
<1>3. KeptOf(s, rsv, i + 1)
  <2>1. b \in [1 .. m -> 1 .. i + 1]
    OBVIOUS
  <2> QED
    BY <1>2, <2>1 DEF KeptOf
<1>4. i + 1 \in 1 .. Len(rsv) /\ rsv[i + 1] \in S
  OBVIOUS
<1>5. PICK t, l : t = Append(s, rsv[i + 1]) /\ l = m + 1
  OBVIOUS
<1>6. /\ l \in Nat /\ t \in Seq(S) /\ Len(t) = l /\ t[l] = rsv[i + 1]
      /\ \A j \in 1 .. m : t[j] = s[j]
  BY <1>2, <1>4, <1>5
<1>7. PICK c : c = [j \in 1 .. l |-> IF j = l THEN i + 1 ELSE b[j]]
  OBVIOUS
<1>8. \A j \in 1 .. l : j = l \/ j \in 1 .. m
  BY <1>5
<1>9. \A j \in 1 .. m : j \in 1 .. l /\ j # l /\ c[j] = b[j] /\ b[j] \in 1 .. i
  BY <1>5, <1>7
<1>10. l \in 1 .. l /\ c[l] = i + 1
  BY <1>5, <1>7
<1>11. c \in [1 .. l -> 1 .. i + 1]
  <2>1. \A j \in 1 .. l : c[j] \in 1 .. i + 1
    BY <1>8, <1>9, <1>10
  <2> QED
    BY <1>7, <2>1
<1>12. \A j, k \in 1 .. l : c[j] = c[k] => j = k
  <2> TAKE j, k \in 1 .. l
  <2> HAVE c[j] = c[k]
  <2>1. \A h \in 1 .. m : c[h] \in Nat /\ c[h] # i + 1
    BY <1>9
  <2>2. CASE j = l \/ k = l
    BY <1>8, <1>10, <2>1, <2>2
  <2>3. CASE j # l /\ k # l
    BY <1>2, <1>8, <1>9, <2>3
  <2> QED
    BY <2>2, <2>3
<1>13. \A j \in 1 .. l : t[j] = rsv[c[j]]
  BY <1>2, <1>6, <1>8, <1>9, <1>10
<1>14. KeptOf(t, rsv, i + 1)
  <2>1. PICK e : e = i + 1
    OBVIOUS
  <2>2. c \in [1 .. l -> 1 .. e] /\ l = Len(t)
    BY <1>6, <1>11, <2>1
  <2>3. \E p \in Nat : \E a \in [1 .. p -> 1 .. e] :
           /\ p = Len(t)
           /\ \A j, k \in 1 .. p : a[j] = a[k] => j = k
           /\ \A j \in 1 .. p : t[j] = rsv[a[j]]
    <3> l \in Nat /\ c \in [1 .. l -> 1 .. e]
      BY <1>6, <2>2
    <3> WITNESS l \in Nat
    <3> WITNESS c \in [1 .. l -> 1 .. e]
    <3> QED
      BY <1>12, <1>13, <2>2
  <2> QED
    BY <2>1, <2>3 DEF KeptOf
<1> QED
  BY <1>3, <1>5, <1>6, <1>14

LEMMA KeptIs ==
    ASSUME NEW S, NEW rsv \in Seq(S), NEW id, NEW n \in Nat, n = Len(rsv)
    PROVE  Picked(Kept(rsv, id, n)[n], rsv)
<1> DEFINE kept == Kept(rsv, id, n)
           A == Seq(S)
           step(x, i) == IF rsv[i].id # id THEN Append(x, rsv[i]) ELSE x
           Def(f) == f = [i \in 0 .. n |-> IF i = 0 THEN <<>> ELSE step(f[i - 1], i)]
<1>1. <<>> \in A
  OBVIOUS
<1>2. \A i \in 1 .. n : \A x \in A : step(x, i) \in A
  OBVIOUS
<1>3. kept = CHOOSE f : Def(f)
  BY DEF Kept
<1> HIDE DEF A, step, kept
<1>4. \E f : Def(f)
  <2> DEFINE G == [i \in 0 + 1 .. n |-> [x \in A |-> step(x, i)]]
  <2>0. 0 + 1 = 1 /\ 0 <= n /\ 0 \in Nat
    OBVIOUS
  <2>1. \A i \in 1 .. n : \A x \in A : G[i][x] = step(x, i) /\ G[i][x] \in A
    BY <1>2
  <2> HIDE DEF G
  <2>2. StepsWithin(G, A, 0, n)
    BY <2>1 DEF StepsWithin
  <2>3. PICK f \in [0 .. n -> A] : Follows(f, <<>>, G, 0, n)
    BY <1>1, <2>0, <2>2, RecursionExists
  <2>4. ASSUME NEW i \in 0 .. n
        PROVE  f[i] = IF i = 0 THEN <<>> ELSE step(f[i - 1], i)
    <3>1. CASE i = 0
      BY <2>3, <3>1 DEF Follows
    <3>2. CASE i # 0
      <4>1. i \in 1 .. n /\ i \in 0 + 1 .. n /\ i - 1 \in 0 .. n
        BY <3>2
      <4>2. f[i - 1] \in A /\ f[i] = G[i][f[i - 1]]
        BY <2>3, <4>1 DEF Follows
      <4> QED
        BY <2>1, <3>2, <4>1, <4>2
    <3> QED
      BY <3>1, <3>2
  <2>5. f = [i \in 0 .. n |-> f[i]]
    BY <2>3
  <2> QED
    BY <2>4, <2>5
<1>5. Def(kept)
  <2> HIDE DEF Def
  <2> QED
    BY <1>3, <1>4
<1>6. \A i \in 0 .. n : kept[i] = IF i = 0 THEN <<>> ELSE step(kept[i - 1], i)
  BY <1>5
<1> HIDE DEF Def
<1> DEFINE T == {i \in Nat : kept[i] \in A /\ KeptOf(kept[i], rsv, i)}
<1>7. 0 \in T
  <2>1. 0 \in 0 .. n
    OBVIOUS
  <2>2. kept[0] = <<>>
    BY <1>6, <2>1
  <2>3. KeptOf(<<>>, rsv, 0)
    <3>1. PICK m \in Nat : m = 0
      OBVIOUS
    <3>2. PICK b : b = [j \in 1 .. m |-> 0]
      OBVIOUS
    <3>3. b \in [1 .. m -> 1 .. 0] /\ m = Len(<<>>) /\ 1 .. m = {}
      BY <3>1, <3>2
    <3> QED
      BY <3>3 DEF KeptOf
  <2> QED
    BY <1>1, <2>2, <2>3
<1>8. ASSUME NEW i \in 0 + 1 .. n, i - 1 \in T
      PROVE  i \in T
  <2>1. i \in 0 .. n /\ i # 0 /\ i \in 1 .. n /\ i \in Nat
    OBVIOUS
  <2>2. kept[i] = step(kept[i - 1], i)
    BY <1>6, <2>1
  <2>k. PICK k \in Nat : k = i - 1 /\ k + 1 = i
    BY <2>1
  <2>3. PICK s : s = kept[i - 1]
    OBVIOUS
  <2>4. s \in Seq(S) /\ KeptOf(s, rsv, k) /\ k + 1 <= Len(rsv)
    BY <1>8, <2>k, <2>3 DEF A
  <2>5. /\ KeptOf(s, rsv, k + 1) /\ Append(s, rsv[k + 1]) \in Seq(S)
        /\ KeptOf(Append(s, rsv[k + 1]), rsv, k + 1)
    BY <2>4, KeptStep
  <2> QED
    BY <2>1, <2>2, <2>k, <2>3, <2>4, <2>5 DEF A, step
<1>9. \A i \in 0 .. n : i \in T
  <2> HIDE DEF T
  <2> QED
    BY <1>7, <1>8, IntervalInduction
<1>10. KeptOf(kept[n], rsv, n)
  <2>1. n \in 0 .. n
    OBVIOUS
  <2> QED
    BY <1>9, <2>1
<1> QED
  BY <1>10 DEF KeptOf, Picked, PickedAt, kept

-----------------------------------------------------------------------------
(* Each action of a scenario against none.                                 *)

\* A view that a scenario may start from, or that its actions leave.
Sound(v) ==
    /\ IsView(v) /\ Stocked(v) /\ Holding(v)
    /\ v.freshness \in Freshnesses

\* A demand fits once the actions have left the view v.
FitsIn(v, q) == evaluateNow(Reaggregated(v), q) \in Fits

LEMMA FitsInIs ==
    ASSUME NEW v, Sound(v), NEW q \in Demands
    PROVE  FitsIn(v, q) <=> Fitting(Reaggregated(v), q)
<1>1. Positive(q.requirements)
  BY DemandIs
<1> QED
  BY <1>1, ScenarioFits DEF Sound, FitsIn

LEMMA FitsInMore ==
    ASSUME NEW v, Sound(v), NEW w, Sound(w), PartOf(v, w), NEW q \in Plain,
           q.sloHeadroom = 0 \/ \A i \in DOMAIN w.resources \ DOMAIN v.resources :
                                   ListsNoZero(w.resources[i].report),
           FitsIn(v, q)
    PROVE  FitsIn(w, q)
<1>1. q \in Demands
  BY DEF Plain
<1>2. Fitting(Reaggregated(v), q)
  BY <1>1, FitsInIs
<1>3. Fitting(Reaggregated(w), q)
  BY <1>2, MoreResourcesFit DEF Sound
<1> QED
  BY <1>1, <1>3, FitsInIs

LEMMA FitsInFewerHeld ==
    ASSUME NEW v, Sound(v), NEW w, Sound(w), Picked(w.reservations, v.reservations),
           w.resources = v.resources, w.now = v.now, w.freshness = v.freshness,
           NEW q \in Demands, FitsIn(v, q)
    PROVE  FitsIn(w, q)
<1>1. Fitting(Reaggregated(v), q)
  BY FitsInIs
<1>2. Fitting(Reaggregated(w), q)
  BY <1>1, FewerHoldsFit DEF Sound
<1> QED
  BY <1>2, FitsInIs

LEMMA RemovedIs ==
    ASSUME NEW v, Sound(v), NEW a, a.kind = "RemoveResource"
    PROVE  Sound(applyAction(v, a)) /\ PartOf(applyAction(v, a), v)
<1>1. PICK w : w = applyAction(v, a)
  OBVIOUS
<1>2. /\ IsView(w) /\ w.freshness = v.freshness /\ w.now = v.now
      /\ w.reservations = v.reservations
  BY <1>1, ActionIs DEF Sound
<1>3. PICK D \in SUBSET DOMAIN v.resources : w.resources = Restrict(v.resources, D)
  <2>1. w = RemoveResource(v, a.resource)
    BY <1>1 DEF applyAction
  <2> QED
    BY <2>1 DEF RemoveResource, IsView, ViewFields, Sound
<1>4. DOMAIN w.resources = D /\ \A i \in D : w.resources[i] = v.resources[i]
  BY <1>3 DEF Restrict
<1>5. PartOf(w, v)
  BY <1>2, <1>4 DEF PartOf
<1>6. Stocked(w)
  BY <1>4, FS_Subset DEF Stocked, Sound
<1>7. Holding(w)
  BY <1>2 DEF Holding, Sound
<1> QED
  BY <1>1, <1>2, <1>5, <1>6, <1>7 DEF Sound

LEMMA AddingIs ==
    ASSUME NEW v, Sound(v), DOMAIN v.resources \in SUBSET Nat,
           NEW a, a.kind = "AddResource", a.added.report \in ReportSpace
    PROVE  /\ Sound(applyAction(v, a)) /\ PartOf(v, applyAction(v, a))
           /\ \A i \in DOMAIN applyAction(v, a).resources \ DOMAIN v.resources :
                 applyAction(v, a).resources[i] = a.added
<1>1. PICK w, last : w = applyAction(v, a) /\ last = Fresh(v.resources)
  OBVIOUS
<1>2. /\ IsView(w) /\ Stocked(w)
      /\ w.freshness = v.freshness /\ w.now = v.now /\ w.reservations = v.reservations
      /\ last \notin DOMAIN v.resources
      /\ w.resources = [i \in DOMAIN v.resources \cup {last} |->
                          IF i = last THEN a.added ELSE v.resources[i]]
  BY <1>1, AddedIs DEF Sound
<1>3. PartOf(v, w)
  BY <1>2 DEF PartOf
<1>4. \A i \in DOMAIN w.resources \ DOMAIN v.resources : w.resources[i] = a.added
  BY <1>2
<1>5. Sound(w)
  BY <1>2 DEF Sound, Holding
<1> QED
  BY <1>1, <1>3, <1>4, <1>5

\* An action that leaves the resources alone and picks from the reservations.
LEMMA LeavesSound ==
    ASSUME NEW v, Sound(v), NEW w, IsView(w), w.resources = v.resources,
           w.freshness = v.freshness, Picked(w.reservations, v.reservations)
    PROVE  Sound(w)
<1>1. Holding(w)
  BY PickedHolds DEF Sound
<1> QED
  BY <1>1 DEF Sound, Stocked

LEMMA CancelledIs ==
    ASSUME NEW v, Sound(v), NEW S, v.reservations \in Seq(S), NEW a, a.kind = "CancelReservation"
    PROVE  LET w == applyAction(v, a)
           IN  /\ Sound(w) /\ Picked(w.reservations, v.reservations)
               /\ w.resources = v.resources /\ w.now = v.now /\ w.freshness = v.freshness
<1>1. PICK w : w = applyAction(v, a)
  OBVIOUS
<1>2. IsView(w) /\ w.freshness = v.freshness /\ w.now = v.now /\ w.resources = v.resources
  BY <1>1, ActionIs DEF Sound
<1>3. PICK n \in Nat, rsv \in Seq(S) : rsv = v.reservations /\ n = Len(rsv)
  OBVIOUS
<1>4. w.reservations = Kept(rsv, a.reservation, n)[n]
  <2>1. w = CancelReservation(v, a.reservation)
    BY <1>1 DEF applyAction
  <2> QED
    BY <1>3, <2>1 DEF CancelReservation, Kept, IsView, ViewFields, Sound
<1>5. Picked(w.reservations, v.reservations)
  BY <1>3, <1>4, KeptIs
<1>6. Sound(w)
  BY <1>2, <1>5, LeavesSound
<1> QED
  BY <1>1, <1>2, <1>5, <1>6

LEMMA DelayedIs ==
    ASSUME NEW v, Sound(v), NEW S, v.reservations \in Seq(S), NEW a, a.kind = "DelayRelease"
    PROVE  LET w == applyAction(v, a)
           IN  /\ Sound(w) /\ w.reservations = v.reservations
               /\ w.resources = v.resources /\ w.now = v.now /\ w.freshness = v.freshness
<1>1. PICK w : w = applyAction(v, a)
  OBVIOUS
<1>2. /\ IsView(w) /\ w.freshness = v.freshness /\ w.now = v.now /\ w.resources = v.resources
      /\ w.reservations = v.reservations
  BY <1>1, ActionIs DEF Sound
<1>3. Sound(w)
  BY <1>2 DEF Sound, Stocked, Holding
<1> QED
  BY <1>1, <1>2, <1>3

LEMMA BookedIs ==
    ASSUME NEW v, Sound(v), NEW S, v.reservations \in Seq(S), NEW a, a.kind = "AddReservation",
           Positive(a.addReservation.hold)
    PROVE  LET w == applyAction(v, a)
           IN  /\ Sound(w) /\ Picked(v.reservations, w.reservations)
               /\ w.resources = v.resources /\ w.now = v.now /\ w.freshness = v.freshness
<1>1. PICK w, b : w = applyAction(v, a) /\ b = a.addReservation
  OBVIOUS
<1>2. IsView(w) /\ w.freshness = v.freshness /\ w.now = v.now /\ w.resources = v.resources
  BY <1>1, ActionIs DEF Sound
<1>s. PICK s \in Seq(S) : s = v.reservations
  OBVIOUS
<1>3. PICK t : s = v.reservations /\ t = Append(s, b)
  BY <1>s
<1>4. w.reservations = t
  <2>1. w = AddReservation(v, b)
    BY <1>1 DEF applyAction
  <2> QED
    BY <1>3, <2>1 DEF AddReservation, IsView, ViewFields, Sound
<1>5. Picked(v.reservations, w.reservations)
  BY <1>3, <1>4, PickedFromMore
<1>6. Holding(w)
  <2>1. PICK n \in Nat : n = Len(s) /\ \A i \in 1 .. n : Positive(s[i].hold)
    BY <1>3 DEF Sound, Holding
  <2>2. s \in Seq(S \cup {b}) /\ b \in S \cup {b}
    OBVIOUS
  <2>3. /\ n + 1 \in Nat /\ Len(t) = n + 1 /\ t[n + 1] = b
        /\ \A i \in 1 .. n : t[i] = s[i]
    BY <1>3, <2>1, <2>2
  <2>4. \A i \in 1 .. n + 1 : i = n + 1 \/ i \in 1 .. n
    OBVIOUS
  <2>5. \A i \in 1 .. n + 1 : Positive(t[i].hold)
    BY <1>1, <2>1, <2>3, <2>4
  <2> QED
    BY <1>4, <2>3, <2>5 DEF Holding
<1>7. Sound(w)
  BY <1>2, <1>6 DEF Sound, Stocked
<1> QED
  BY <1>1, <1>2, <1>5, <1>7

\* No device is left: every one that is reported fails.
LEMMA NoneLeft ==
    ASSUME TypeOK, NEW q \in Demands
    PROVE  ~FitsIn(applyAction(buildView(0), Failure), q)
<1>1. PICK v, w : v = buildView(0) /\ w = applyAction(v, Failure)
  OBVIOUS
<1>2. /\ IsView(v) /\ v.freshness \in Freshnesses /\ v.devices = viewDevices
      /\ v.resources = [r \in DOMAIN resources |-> [id |-> r, report |-> Report(r)]]
  BY <1>1, ViewIs DEF buildView
<1>3. /\ IsView(w) /\ w.freshness = v.freshness
      /\ w.resources = [i \in DOMAIN v.resources |->
                          IF v.resources[i].report.device \in DOMAIN v.devices
                            THEN [v.resources[i] EXCEPT !.report.health = "Failed"]
                            ELSE v.resources[i]]
  <2>1. w = DegradeDevice(v) /\ Failure.kind = "DegradeDevice"
    BY <1>1 DEF applyAction, Failure
  <2>2. IsView(w) /\ w.freshness = v.freshness
    BY <1>1, <1>2, <2>1, ActionIs
  <2> QED
    BY <1>2, <2>1, <2>2 DEF DegradeDevice, IsView, ViewFields
<1>4. ASSUME NEW i \in DOMAIN w.resources
      PROVE  w.resources[i].report.health = "Failed"
  <2>1. i \in DOMAIN resources /\ i \in DOMAIN v.resources
    BY <1>2, <1>3
  <2>2. v.resources[i] = [id |-> i, report |-> Report(i)]
    BY <1>2, <2>1
  <2>3. v.resources[i].report.device \in DOMAIN v.devices
    BY <1>2, <2>1, <2>2 DEF viewDevices
  <2>4. w.resources[i] = [v.resources[i] EXCEPT !.report.health = "Failed"]
    BY <1>3, <2>1, <2>3
  <2>5. PICK p \in ReportSpace : p = Report(i)
    BY <2>1, ReportsTyped
  <2>6. w.resources[i].report = [p EXCEPT !.health = "Failed"]
    BY <2>2, <2>4, <2>5
  <2> QED
    BY <2>5, <2>6 DEF ReportSpace
<1>5. PICK W : W = Reaggregated(w) /\ W.devices = Described(w) /\ W.freshness = v.freshness
  BY <1>3, ReaggregatedIs
<1>6. \A i \in DOMAIN W.devices : W.devices[i].health = "Failed"
  BY <1>4, <1>5 DEF Described, DeviceInfo
<1>7. Usable(W, q) = {}
  BY <1>6 DEF Usable, deviceCurrentlyUsable
<1>8. Cardinality(Usable(W, q)) = 0 /\ q.minAccelerators \in Nat
  BY <1>7, FS_EmptySet, DemandIs
<1>9. validDemand(q) => Cardinality(Usable(W, q)) < q.minAccelerators
  BY <1>8 DEF validDemand
<1>10. W.freshness \in Freshnesses
  BY <1>2, <1>5
<1>11. evaluateNow(W, q) \notin Fits
  BY <1>9, <1>10 DEF evaluateNow, Usable, Fits, Freshnesses
<1> QED
  BY <1>1, <1>5, <1>11 DEF FitsIn

\* In every state and for every demand without a bound on fragmentation, against the
\* scenario with no action: a removal, a failure or one more reservation never makes it
\* fit, an addition or a cancellation never stops it fitting, and a delayed release changes
\* nothing now (applyAction, the aggregation in applyScenario, evaluateNow).
THEOREM ScenariosAreMonotone == Spec => []ScenarioMonotone
<1>1. ASSUME TypeOK, NEW q \in Plain
      PROVE  LET unchanged == evaluateScenario(<<>>, q) \in Fits
                 listed(p) == q.sloHeadroom = 0 \/ ListsNoZero(p)
             IN  /\ (\A r \in DOMAIN resources : listed(Report(r))) =>
                       \A a \in Removals : evaluateScenario(<<a>>, q) \in Fits => unchanged
                 /\ \A a \in Booking \cup {Failure} : evaluateScenario(<<a>>, q) \in Fits => unchanged
                 /\ \A a \in Adding : unchanged /\ listed(a.added.report) =>
                       evaluateScenario(<<a>>, q) \in Fits
                 /\ \A a \in Cancellations : unchanged => evaluateScenario(<<a>>, q) \in Fits
                 /\ \A a \in Delays : (evaluateScenario(<<a>>, q) \in Fits) = unchanged
  <2>1. PICK v : v = buildView(0)
    OBVIOUS
  <2>2. /\ Sound(v) /\ DOMAIN v.resources \in SUBSET Nat
        /\ DOMAIN v.resources = DOMAIN resources
    BY <1>1, <2>1, BuiltView, BuiltResources DEF Sound
  <2>3. v.resources = [r \in DOMAIN resources |-> [id |-> r, report |-> Report(r)]]
    BY <2>1, ViewIs DEF buildView
  <2>4. v.reservations \in Seq(Reservation)
    BY <1>1, <2>1, ViewParts DEF buildView, TypeOK, LedgerTypeOK
  <2>5. q \in Demands
    BY DEF Plain
  <2>6. (evaluateScenario(<<>>, q) \in Fits) = FitsIn(v, q)
    BY <2>1, ScenarioOfNone DEF evaluateScenario, FitsIn
  <2>7. ASSUME NEW a
        PROVE  (evaluateScenario(<<a>>, q) \in Fits) = FitsIn(applyAction(v, a), q)
    BY <2>1, ScenarioOfOne DEF evaluateScenario, FitsIn
  <2>8. ASSUME NEW a \in Removals,
               \A r \in DOMAIN resources : q.sloHeadroom = 0 \/ ListsNoZero(Report(r)),
               FitsIn(applyAction(v, a), q)
        PROVE  FitsIn(v, q)
    <3>1. a.kind = "RemoveResource"
      BY DEF Removals
    <3>2. PICK w : w = applyAction(v, a)
      OBVIOUS
    <3>3. Sound(w) /\ PartOf(w, v)
      BY <2>2, <3>1, <3>2, RemovedIs
    <3>4. q.sloHeadroom = 0 \/ \A i \in DOMAIN v.resources \ DOMAIN w.resources :
                                  ListsNoZero(v.resources[i].report)
      BY <2>3, <2>8
    <3> QED
      BY <2>2, <2>8, <3>2, <3>3, <3>4, FitsInMore
  <2>9. ASSUME NEW a \in Booking, FitsIn(applyAction(v, a), q)
        PROVE  FitsIn(v, q)
    <3>1. PICK b \in Bookings : a = [kind |-> "AddReservation", addReservation |-> b]
      BY DEF Booking
    <3>2. a.kind = "AddReservation" /\ Positive(a.addReservation.hold)
      BY <3>1, QuestionsTyped, CapacityIsPositive
    <3>3. PICK w : w = applyAction(v, a)
      OBVIOUS
    <3>4. /\ Sound(w) /\ Picked(v.reservations, w.reservations)
          /\ w.resources = v.resources /\ w.now = v.now /\ w.freshness = v.freshness
      BY <2>2, <2>4, <3>2, <3>3, BookedIs
    <3>5. FitsIn(w, q)
      BY <2>9, <3>3
    <3> QED
      BY <2>2, <2>5, <3>4, <3>5, FitsInFewerHeld
  <2>10. ~FitsIn(applyAction(v, Failure), q)
    BY <1>1, <2>1, <2>5, NoneLeft
  <2>11. ASSUME NEW a \in Adding, FitsIn(v, q),
                q.sloHeadroom = 0 \/ ListsNoZero(a.added.report)
         PROVE  FitsIn(applyAction(v, a), q)
    <3>1. PICK p \in Additions :
             a = [kind |-> "AddResource", added |-> [id |-> 1 + Max(ResourceIds), report |-> p]]
      BY DEF Adding
    <3>2. a.kind = "AddResource" /\ a.added.report \in ReportSpace
      BY <3>1, QuestionsTyped
    <3>3. PICK w : w = applyAction(v, a)
      OBVIOUS
    <3>4. /\ Sound(w) /\ PartOf(v, w)
          /\ \A i \in DOMAIN w.resources \ DOMAIN v.resources : w.resources[i] = a.added
      BY <2>2, <3>2, <3>3, AddingIs
    <3>5. q.sloHeadroom = 0 \/ \A i \in DOMAIN w.resources \ DOMAIN v.resources :
                                  ListsNoZero(w.resources[i].report)
      BY <2>11, <3>4
    <3>6. FitsIn(w, q)
      BY <2>2, <2>11, <3>4, <3>5, FitsInMore
    <3> QED
      BY <3>3, <3>6
  <2>12. ASSUME NEW a \in Cancellations, FitsIn(v, q)
         PROVE  FitsIn(applyAction(v, a), q)
    <3>1. a.kind = "CancelReservation"
      BY DEF Cancellations
    <3>2. PICK w : w = applyAction(v, a)
      OBVIOUS
    <3>3. /\ Sound(w) /\ Picked(w.reservations, v.reservations)
          /\ w.resources = v.resources /\ w.now = v.now /\ w.freshness = v.freshness
      BY <2>2, <2>4, <3>1, <3>2, CancelledIs
    <3>4. FitsIn(w, q)
      BY <2>2, <2>5, <2>12, <3>3, FitsInFewerHeld
    <3> QED
      BY <3>2, <3>4
  <2>13. ASSUME NEW a \in Delays
         PROVE  FitsIn(applyAction(v, a), q) = FitsIn(v, q)
    <3>1. a.kind = "DelayRelease"
      BY DEF Delays
    <3>2. PICK w : w = applyAction(v, a)
      OBVIOUS
    <3>3. /\ Sound(w) /\ w.reservations = v.reservations
          /\ w.resources = v.resources /\ w.now = v.now /\ w.freshness = v.freshness
      BY <2>2, <2>4, <3>1, <3>2, DelayedIs
    <3>4. Picked(v.reservations, w.reservations) /\ Picked(w.reservations, v.reservations)
      BY <2>4, <3>3, PickedFromMore
    <3>5. FitsIn(w, q) => FitsIn(v, q)
      BY <2>2, <2>5, <3>3, <3>4, FitsInFewerHeld
    <3>6. FitsIn(v, q) => FitsIn(w, q)
      BY <2>2, <2>5, <3>3, <3>4, FitsInFewerHeld
    <3>7. FitsIn(v, q) \in BOOLEAN /\ FitsIn(w, q) \in BOOLEAN
      BY DEF FitsIn
    <3> QED
      BY <3>2, <3>5, <3>6, <3>7
  <2> QED
    BY <2>6, <2>7, <2>8, <2>9, <2>10, <2>11, <2>12, <2>13
<1>2. TypeOK => ScenarioMonotone
  BY <1>1 DEF ScenarioMonotone
<1> QED
  BY <1>2, TypeCorrect, PTL

-----------------------------------------------------------------------------
(* The same devices in other places.                                       *)

\* b takes each place of f to one of g with the same device, each to its own and none left.
Renames(b, f, g) ==
    /\ b \in [DOMAIN f -> DOMAIN g]
    /\ \A x, y \in DOMAIN f : b[x] = b[y] => x = y
    /\ \A e \in DOMAIN g : \E x \in DOMAIN f : b[x] = e
    /\ \A x \in DOMAIN f : f[x] = g[b[x]]

\* b takes the members of A to those of B.
Onto(b, D, A, B) ==
    /\ \A x, y \in D : b[x] = b[y] => x = y
    /\ A \in SUBSET D
    /\ \A x \in A : b[x] \in B
    /\ \A e \in B : \E x \in A : b[x] = e

LEMMA SameSize ==
    ASSUME NEW b, NEW D, NEW A, NEW B, Onto(b, D, A, B), IsFiniteSet(A)
    PROVE  Cardinality(B) = Cardinality(A)
<1>1. PICK c : c = [x \in A |-> b[x]]
  OBVIOUS
<1>2. c \in [A -> B] /\ \A x, y \in A : c[x] = c[y] => x = y
  BY <1>1 DEF Onto
<1>3. \A e \in B : \E x \in A : c[x] = e
  BY <1>1 DEF Onto
<1>4. c \in Bijection(A, B)
  BY <1>2, <1>3 DEF Bijection, Injection, Surjection, IsInjective
<1>5. ExistsBijection(A, B)
  BY <1>4 DEF ExistsBijection
<1> QED
  BY <1>5, FS_Bijection

LEMMA SameUsable ==
    ASSUME NEW b, NEW v, NEW w, Renames(b, v.devices, w.devices), NEW q
    PROVE  Onto(b, DOMAIN v.devices, Usable(v, q), Usable(w, q))
BY DEF Renames, Onto, Usable

LEMMA SameGroups ==
    ASSUME NEW b, NEW f, NEW g, Renames(b, f, g), IsFiniteSet(DOMAIN f),
           NEW A, NEW B, Onto(b, DOMAIN f, A, B), NEW n
    PROVE  HasGroup(f, A, n) = HasGroup(g, B, n)
<1> DEFINE G(d, S, i) == {j \in S : /\ d[j].class.name = d[i].class.name
                                    /\ d[j].node = d[i].node}
<1>1. ASSUME NEW i \in A
      PROVE  Cardinality(G(g, B, b[i])) = Cardinality(G(f, A, i))
  <2>1. PICK P, Q : P = G(f, A, i) /\ Q = G(g, B, b[i])
    OBVIOUS
  <2>2. \A j \in A : f[j] = g[b[j]] /\ f[i] = g[b[i]]
    BY DEF Renames, Onto
  <2>3. P \in SUBSET A /\ A \in SUBSET DOMAIN f
    BY <2>1 DEF Onto
  <2>4. Onto(b, DOMAIN f, P, Q)
    BY <2>1, <2>2, <2>3 DEF Onto
  <2>5. IsFiniteSet(P)
    BY <2>3, FS_Subset
  <2> QED
    BY <2>1, <2>4, <2>5, SameSize
<1>2. HasGroup(f, A, n) = \E i \in A : Cardinality(G(f, A, i)) >= n
  BY DEF HasGroup
<1>3. HasGroup(g, B, n) = \E e \in B : Cardinality(G(g, B, e)) >= n
  BY DEF HasGroup
<1> HIDE DEF G
<1>4. (\E i \in A : Cardinality(G(f, A, i)) >= n) => \E e \in B : Cardinality(G(g, B, e)) >= n
  <2> SUFFICES ASSUME NEW i \in A, Cardinality(G(f, A, i)) >= n
               PROVE  \E e \in B : Cardinality(G(g, B, e)) >= n
    OBVIOUS
  <2>1. b[i] \in B /\ Cardinality(G(g, B, b[i])) >= n
    BY <1>1 DEF Onto
  <2> QED
    BY <2>1
<1>5. (\E e \in B : Cardinality(G(g, B, e)) >= n) => \E i \in A : Cardinality(G(f, A, i)) >= n
  <2> SUFFICES ASSUME NEW e \in B, Cardinality(G(g, B, e)) >= n
               PROVE  \E i \in A : Cardinality(G(f, A, i)) >= n
    OBVIOUS
  <2>1. PICK i \in A : b[i] = e
    BY DEF Onto
  <2>2. Cardinality(G(f, A, i)) >= n
    BY <1>1, <2>1
  <2> QED
    BY <2>2
<1> QED
  BY <1>2, <1>3, <1>4, <1>5

\* The memory that is free on the devices in A.
FreeOn(f, A) == [i \in A |-> f[i].vramFree]

LEMMA SameFree ==
    ASSUME NEW b, NEW f, NEW g, Renames(b, f, g), IsFiniteSet(DOMAIN f), IsFiniteSet(DOMAIN g),
           \A x \in DOMAIN f : f[x].vramFree \in Int, \A x \in DOMAIN g : g[x].vramFree \in Int,
           NEW A, NEW B \in SUBSET DOMAIN g, Onto(b, DOMAIN f, A, B)
    PROVE  SumOf(FreeOn(f, A)) = SumOf(FreeOn(g, B))
<1>1. A \in SUBSET DOMAIN f
  BY DEF Onto
<1>2. IsFiniteSet(A) /\ IsFiniteSet(B)
  BY <1>1, FS_Subset
<1>3. PICK F \in [A -> Int] : F = FreeOn(f, A)
  BY <1>1 DEF FreeOn
<1>4. PICK H \in [B -> Int] : H = FreeOn(g, B)
  BY DEF FreeOn
<1>5. PICK c \in [A -> B] : \A x \in A : c[x] = b[x]
  <2>1. [x \in A |-> b[x]] \in [A -> B]
    BY DEF Onto
  <2> QED
    BY <2>1
<1>6. CountsAt(c, A, F, A, H, B)
  <2>1. \A x, y \in A : c[x] = c[y] => x = y
    BY <1>1, <1>5 DEF Onto
  <2>2. ASSUME NEW x \in A
        PROVE  H[c[x]] = F[x]
    <3>1. f[x] = g[c[x]] /\ c[x] \in B
      BY <1>1, <1>5 DEF Renames
    <3> QED
      BY <1>3, <1>4, <3>1 DEF FreeOn
  <2>3. \A e \in B : \E x \in A : c[x] = e
    BY <1>5 DEF Onto
  <2> QED
    BY <2>1, <2>2, <2>3 DEF CountsAt
<1>7. A \in SUBSET A
  OBVIOUS
<1>8. SumOf(F) = SumOf(H)
  BY <1>2, <1>6, <1>7, SumReindex
<1> QED
  BY <1>3, <1>4, <1>8

\* The report on fragmentation does not tell them apart.
LEMMA SameFragmentation ==
    ASSUME NEW b, NEW f, NEW g, Renames(b, f, g), IsFiniteSet(DOMAIN f), IsFiniteSet(DOMAIN g),
           \A x \in DOMAIN f : f[x].vramFree \in Int, \A x \in DOMAIN g : g[x].vramFree \in Int,
           NEW q, NEW limit
    PROVE  TooFragmented(f, q, limit) = TooFragmented(g, q, limit)
<1>1. PICK A, B : /\ A = {i \in DOMAIN f : ~ShapeUsable(f[i], q.minContiguousVram)}
                  /\ B = {i \in DOMAIN g : ~ShapeUsable(g[i], q.minContiguousVram)}
  OBVIOUS
<1>2. /\ Onto(b, DOMAIN f, DOMAIN f, DOMAIN g) /\ Onto(b, DOMAIN f, A, B)
      /\ DOMAIN g \in SUBSET DOMAIN g /\ B \in SUBSET DOMAIN g
  <2>1. \A x \in DOMAIN f : ShapeUsable(f[x], q.minContiguousVram)
                              = ShapeUsable(g[b[x]], q.minContiguousVram)
    BY DEF Renames
  <2> QED
    BY <1>1, <2>1 DEF Renames, Onto
<1>3. SumOf(FreeOn(f, DOMAIN f)) = SumOf(FreeOn(g, DOMAIN g))
  BY <1>2, SameFree
<1>4. SumOf(FreeOn(f, A)) = SumOf(FreeOn(g, B))
  BY <1>2, SameFree
<1>5. ASSUME NEW h, NEW S, S = {i \in DOMAIN h : ~ShapeUsable(h[i], q.minContiguousVram)}
      PROVE  /\ analyzeFragmentation(h, q).total = Saturated(SumOf(FreeOn(h, DOMAIN h)))
             /\ analyzeFragmentation(h, q).stranded = Saturated(SumOf(FreeOn(h, S)))
  <2>1. PICK U : U = {i \in DOMAIN h : ShapeUsable(h[i], q.minContiguousVram)}
    OBVIOUS
  <2>2. DOMAIN h \ U = S
    BY <1>5, <2>1
  <2>3. Restrict(FreeOn(h, DOMAIN h), S) = FreeOn(h, S)
    BY <1>5 DEF Restrict, FreeOn
  <2> QED
    BY <2>1, <2>2, <2>3 DEF analyzeFragmentation, FreeOn
<1> QED
  BY <1>1, <1>3, <1>4, <1>5 DEF TooFragmented

\* Two views that differ only in the places of the devices.
Alike(v, w) ==
    /\ v.freshness = w.freshness
    /\ Effective(v) = Effective(w)
    /\ IsFiniteSet(DOMAIN v.devices) /\ IsFiniteSet(DOMAIN w.devices)
    /\ \A x \in DOMAIN v.devices : v.devices[x].vramFree \in Int
    /\ \A x \in DOMAIN w.devices : w.devices[x].vramFree \in Int

\* evaluateNow gives them the same answer, not only the same yes or no.
LEMMA SameAnswer ==
    ASSUME NEW v, NEW w, Alike(v, w), NEW b, Renames(b, v.devices, w.devices), NEW q
    PROVE  evaluateNow(v, q) = evaluateNow(w, q)
<1>1. PICK f, g, A, B : f = v.devices /\ g = w.devices /\ A = Usable(v, q) /\ B = Usable(w, q)
  OBVIOUS
<1>2. Onto(b, DOMAIN f, A, B) /\ Renames(b, f, g) /\ IsFiniteSet(DOMAIN f) /\ IsFiniteSet(DOMAIN g)
  BY <1>1, SameUsable DEF Alike
<1>3. Cardinality(B) = Cardinality(A)
  <2>1. IsFiniteSet(A)
    BY <1>2, FS_Subset DEF Onto
  <2> QED
    BY <1>2, <2>1, SameSize
<1>4. \A n : HasGroup(f, A, n) = HasGroup(g, B, n)
  BY <1>2, SameGroups
<1>5. (\A i \in A : ~shapeSatisfiable(f[i].freeBlocks, q.minContiguousVram))
        = \A i \in B : ~shapeSatisfiable(g[i].freeBlocks, q.minContiguousVram)
  <2>1. \A i \in A : b[i] \in B /\ f[i] = g[b[i]]
    BY <1>2 DEF Onto, Renames
  <2>2. \A e \in B : \E i \in A : b[i] = e
    BY <1>2 DEF Onto
  <2> QED
    BY <2>1, <2>2
<1>6. \A limit : TooFragmented(f, q, limit) = TooFragmented(g, q, limit)
  BY <1>1, <1>2, SameFragmentation DEF Alike
<1>7. v.freshness = w.freshness /\ Effective(v) = Effective(w)
  BY DEF Alike
<1>8. evaluateNow(v, q)
        = IF ~validDemand(q) THEN "Unknown"
          ELSE IF v.freshness # "Fresh" THEN v.freshness
          ELSE IF \E n \in q.topologyGroupSize : ~HasGroup(f, A, n) THEN "NoFitTopology"
          ELSE IF Cardinality(A) < q.minAccelerators THEN "NoFitCapacity"
          ELSE IF /\ q.requiresContiguousVram
                  /\ \A i \in A : ~shapeSatisfiable(f[i].freeBlocks, q.minContiguousVram)
            THEN "NoFitFragmentation"
          ELSE IF missingDimensions(Effective(v), q.requirements) # {}
            THEN Shortage(missingDimensions(Effective(v), q.requirements))
          ELSE IF \E limit \in q.maxAcceptableFragmentation : TooFragmented(f, q, limit)
            THEN "NoFitFragmentation"
          ELSE IF q.sloHeadroom > 0 /\ ~SloHeadroomLeft(Effective(v), q) THEN "NoFitSloHeadroom"
          ELSE "FitNow"
  BY <1>1 DEF evaluateNow, Usable
<1>9. evaluateNow(w, q)
        = IF ~validDemand(q) THEN "Unknown"
          ELSE IF w.freshness # "Fresh" THEN w.freshness
          ELSE IF \E n \in q.topologyGroupSize : ~HasGroup(g, B, n) THEN "NoFitTopology"
          ELSE IF Cardinality(B) < q.minAccelerators THEN "NoFitCapacity"
          ELSE IF /\ q.requiresContiguousVram
                  /\ \A i \in B : ~shapeSatisfiable(g[i].freeBlocks, q.minContiguousVram)
            THEN "NoFitFragmentation"
          ELSE IF missingDimensions(Effective(w), q.requirements) # {}
            THEN Shortage(missingDimensions(Effective(w), q.requirements))
          ELSE IF \E limit \in q.maxAcceptableFragmentation : TooFragmented(g, q, limit)
            THEN "NoFitFragmentation"
          ELSE IF q.sloHeadroom > 0 /\ ~SloHeadroomLeft(Effective(w), q) THEN "NoFitSloHeadroom"
          ELSE "FitNow"
  BY <1>1 DEF evaluateNow, Usable
<1> QED
  BY <1>3, <1>4, <1>5, <1>6, <1>7, <1>8, <1>9

\* The memory a device lists as free is a number.
LEMMA DeviceFree ==
    ASSUME NEW p \in ReportSpace, NEW drained, NEW maintenance
    PROVE  DeviceInfo(p, drained, maintenance).vramFree \in Nat
<1>1. Amount(p.free, "vram") \in Nat
  BY ReportIs, PositiveIs
<1> QED
  BY <1>1, WholeIsWhole DEF DeviceInfo

\* In an orderly fleet each resource describes its own device, and the scenario's
\* aggregation finds the same devices and the same capacity.
LEMMA OrderlyViews ==
    ASSUME TypeOK, Orderly
    PROVE  /\ Alike(Reaggregated(buildView(0)), buildView(0))
           /\ \E b : Renames(b, Reaggregated(buildView(0)).devices, buildView(0).devices)
<1>1. PICK v, w, D : v = buildView(0) /\ w = Reaggregated(v) /\ D = DOMAIN resources
  OBVIOUS
<1>2. /\ IsView(v) /\ v.devices = viewDevices /\ v.available = available(D)
      /\ v.resources = [r \in D |-> [id |-> r, report |-> Report(r)]]
  BY <1>1, ViewIs DEF buildView, Orderly
<1>3. /\ w.devices = Described(v) /\ w.available = Total(FreeIn(v))
      /\ w.reservations = v.reservations /\ w.now = v.now /\ w.freshness = v.freshness
  BY <1>1, <1>2, ReaggregatedIs
<1>4. /\ IsFiniteSet(D) /\ D \in SUBSET Nat /\ \A r \in D : Report(r) \in ReportSpace
  BY <1>1, ReportsTyped
<1>5. \A r \in D : ~Report(r).drained /\ ~Report(r).maintenance /\ ScenarioUsable(Report(r))
  BY <1>1 DEF Orderly, ScenarioUsable
<1>6. \A r \in D : Report(r).drained = FALSE /\ Report(r).maintenance = FALSE
  BY <1>4, <1>5 DEF ReportSpace
<1>7. w.available = v.available
  <2>1. UsableIn(v) = D
    BY <1>2, <1>5 DEF UsableIn
  <2>2. FreeIn(v) = [r \in D |-> Report(r).free]
    BY <1>2, <2>1 DEF FreeIn
  <2> QED
    BY <1>2, <1>3, <2>2 DEF available
<1>8. Effective(w) = Effective(v)
  BY <1>3, <1>7 DEF Effective, HeldNow
<1>9. PICK f, g : f = w.devices /\ g = v.devices
  OBVIOUS
<1>10. DOMAIN f = D /\ \A r \in D : f[r] = DeviceInfo(Report(r), FALSE, FALSE)
  <2>1. DOMAIN f = D
    BY <1>2, <1>3, <1>9 DEF Described
  <2>2. ASSUME NEW r \in D
        PROVE  f[r] = DeviceInfo(Report(r), FALSE, FALSE)
    <3>1. PICK p : p = Report(r) /\ v.resources[r].report = p
      BY <1>2
    <3>2. f[r] = DeviceInfo(p, p.drained, p.maintenance)
      BY <1>2, <1>3, <1>9, <3>1 DEF Described
    <3>3. p.drained = FALSE /\ p.maintenance = FALSE
      BY <1>6, <3>1
    <3> QED
      BY <3>1, <3>2, <3>3, Zenon
  <2> QED
    BY <2>1, <2>2
<1>11. DOMAIN g = {Report(r).device : r \in D}
  BY <1>1, <1>2, <1>9 DEF viewDevices
<1>12. ASSUME NEW r \in D
       PROVE  g[Report(r).device] = DeviceInfo(Report(r), FALSE, FALSE)
  <2>1. PICK S : S = {s \in D : Report(s).device = Report(r).device}
    OBVIOUS
  <2>2. S = {r} /\ S \in SUBSET Nat /\ IsFiniteSet(S) /\ S # {}
    BY <1>1, <1>4, <1>12, <2>1, FS_Subset DEF Orderly
  <2>3. Max(S) \in S
    BY <2>2, MaxIs
  <2>4. Max(S) = r
    BY <2>2, <2>3
  <2>5. g[Report(r).device] = DeviceInfo(Report(Max(S)), FALSE, FALSE)
    BY <1>1, <1>2, <1>9, <1>11, <2>1 DEF viewDevices
  <2> QED
    BY <2>4, <2>5
<1>13. PICK b : b = [r \in D |-> Report(r).device]
  OBVIOUS
<1>14. Renames(b, f, g)
  <2>1. b \in [DOMAIN f -> DOMAIN g]
    BY <1>10, <1>11, <1>13
  <2>2. \A x, y \in DOMAIN f : b[x] = b[y] => x = y
    BY <1>1, <1>10, <1>13 DEF Orderly
  <2>3. \A e \in DOMAIN g : \E x \in DOMAIN f : b[x] = e
    BY <1>10, <1>11, <1>13
  <2>4. \A x \in DOMAIN f : f[x] = g[b[x]]
    BY <1>10, <1>12, <1>13
  <2> QED
    BY <2>1, <2>2, <2>3, <2>4 DEF Renames
<1>15. /\ \A x \in DOMAIN f : f[x].vramFree \in Int
       /\ \A x \in DOMAIN g : g[x].vramFree \in Int
  <2>1. ASSUME NEW r \in D, NEW y, y = DeviceInfo(Report(r), FALSE, FALSE)
        PROVE  y.vramFree \in Int
    <3>1. Report(r) \in ReportSpace
      BY <1>4
    <3>2. DeviceInfo(Report(r), FALSE, FALSE).vramFree \in Nat
      BY <3>1, DeviceFree, Zenon
    <3>3. y.vramFree \in Nat
      BY <2>1, <3>2, Zenon
    <3> QED
      BY <3>3
  <2>2. ASSUME NEW x \in DOMAIN f
        PROVE  f[x].vramFree \in Int
    <3>1. x \in D /\ f[x] = DeviceInfo(Report(x), FALSE, FALSE)
      BY <1>10
    <3> QED
      BY <2>1, <3>1, Zenon
  <2>3. ASSUME NEW x \in DOMAIN g
        PROVE  g[x].vramFree \in Int
    <3>1. PICK r \in D : x = Report(r).device
      BY <1>11
    <3>2. g[x] = DeviceInfo(Report(r), FALSE, FALSE)
      BY <1>12, <3>1
    <3> QED
      BY <2>1, <3>2, Zenon
  <2> QED
    BY <2>2, <2>3
<1>16. IsFiniteSet(DOMAIN f) /\ IsFiniteSet(DOMAIN g)
  BY <1>1, <1>4, <1>9, <1>10, BuiltView
<1> QED
  BY <1>1, <1>3, <1>8, <1>9, <1>14, <1>15, <1>16 DEF Alike

\* What a scenario adds and then removes leaves no trace: it has an id of its own.
LEMMA AddedAndRemoved ==
    ASSUME TypeOK, NEW a \in Adding, NEW c, c.kind = "RemoveResource", c.resource = a.added.id
    PROVE  LET v == buildView(0)
               w == applyAction(applyAction(v, a), c)
           IN  /\ IsView(w) /\ w.resources = v.resources /\ w.reservations = v.reservations
               /\ w.now = v.now /\ w.freshness = v.freshness
<1>1. PICK v, x, w, last : /\ v = buildView(0) /\ x = applyAction(v, a) /\ w = applyAction(x, c)
                           /\ last = Fresh(v.resources)
  OBVIOUS
<1>2. PICK p \in Additions :
         a = [kind |-> "AddResource", added |-> [id |-> 1 + Max(ResourceIds), report |-> p]]
  BY DEF Adding
<1>3. a.kind = "AddResource" /\ a.added.report \in ReportSpace /\ a.added.id = 1 + Max(ResourceIds)
  BY <1>2, QuestionsTyped
<1>4. IsView(v) /\ Stocked(v) /\ DOMAIN v.resources \in SUBSET Nat
  BY <1>1, BuiltView, BuiltResources
<1>5. v.resources = [r \in DOMAIN resources |-> [id |-> r, report |-> Report(r)]]
  BY <1>1, ViewIs DEF buildView
<1>6. /\ IsView(x) /\ x.freshness = v.freshness /\ x.now = v.now
      /\ x.reservations = v.reservations /\ last \notin DOMAIN v.resources
      /\ x.resources = [i \in DOMAIN v.resources \cup {last} |->
                          IF i = last THEN a.added ELSE v.resources[i]]
  BY <1>1, <1>3, <1>4, AddedIs
<1>7. /\ IsView(w) /\ w.freshness = x.freshness /\ w.now = x.now
      /\ w.reservations = x.reservations
  BY <1>1, <1>6, ActionIs
<1>8. PICK gone : /\ gone = {i \in DOMAIN x.resources : x.resources[i].id = a.added.id}
                  /\ w.resources = Restrict(x.resources, DOMAIN x.resources \ gone)
  <2>1. w = RemoveResource(x, a.added.id)
    BY <1>1 DEF applyAction
  <2> QED
    BY <1>6, <2>1 DEF RemoveResource, IsView, ViewFields
<1>9. \A r \in DOMAIN resources : r # a.added.id
  <2> TAKE r \in DOMAIN resources
  <2>1. r \in ResourceIds
    BY DEF TypeOK, EvidenceTypeOK
  <2>2. Max(ResourceIds) \in Nat /\ r <= Max(ResourceIds) /\ r \in Nat
    BY <2>1, ResourceIdsOrdered, MaxIs
  <2> QED
    BY <1>3, <2>2
<1>10. gone = {last}
  <2>1. \A i \in DOMAIN v.resources : x.resources[i].id = i /\ i # last
    BY <1>5, <1>6
  <2> QED
    BY <1>5, <1>6, <1>8, <1>9, <2>1
<1>11. DOMAIN x.resources \ gone = DOMAIN v.resources
  BY <1>6, <1>10
<1>12. w.resources = [i \in DOMAIN v.resources |-> v.resources[i]]
  BY <1>6, <1>8, <1>11 DEF Restrict
<1>13. w.resources = v.resources
  BY <1>5, <1>12
<1> QED
  BY <1>1, <1>6, <1>7, <1>13

\* In every state with an orderly fleet: a scenario with no action, and one that removes
\* what it has just added, give the very answer of the query (applyScenario's aggregation
\* of the resources against buildView's of the devices and the current resources).
THEOREM ScenariosStartFromTheQuery == Spec => []EmptyScenarioAgrees
<1>1. ASSUME TypeOK, Orderly, NEW q \in Demands
      PROVE  evaluateNow(Reaggregated(buildView(0)), q) = evaluateNow(buildView(0), q)
  <2>1. PICK v, w : v = buildView(0) /\ w = Reaggregated(v)
    OBVIOUS
  <2>2. PICK b : Renames(b, w.devices, v.devices)
    BY <1>1, <2>1, OrderlyViews
  <2>3. Alike(w, v)
    BY <1>1, <2>1, OrderlyViews
  <2> QED
    BY <2>1, <2>2, <2>3, SameAnswer
<1>2. ASSUME TypeOK, Orderly, NEW q \in Demands
      PROVE  evaluateScenario(<<>>, q) = queryFeasibilityNow(q)
  BY <1>1, <1>2, ScenarioOfNone DEF evaluateScenario, queryFeasibilityNow
<1>3. ASSUME TypeOK, Orderly, NEW q \in Demands, NEW a \in Adding
      PROVE  evaluateScenario(<<a, [kind |-> "RemoveResource", resource |-> a.added.id]>>, q)
               = queryFeasibilityNow(q)
  <2>1. PICK c : c = [kind |-> "RemoveResource", resource |-> a.added.id]
    OBVIOUS
  <2>2. PICK v, w : v = buildView(0) /\ w = applyAction(applyAction(v, a), c)
    OBVIOUS
  <2>3. /\ IsView(w) /\ w.resources = v.resources /\ w.reservations = v.reservations
        /\ w.now = v.now /\ w.freshness = v.freshness
    BY <1>3, <2>1, <2>2, AddedAndRemoved
  <2>4. IsView(v)
    BY <1>3, <2>2, BuiltView
  <2>5. PICK V, W : V = Reaggregated(v) /\ W = Reaggregated(w)
    OBVIOUS
  <2>6. /\ V.devices = W.devices /\ V.available = W.available /\ V.reservations = W.reservations
        /\ V.now = W.now /\ V.freshness = W.freshness
    <3>1. /\ V.devices = Described(v) /\ V.available = Total(FreeIn(v))
          /\ V.reservations = v.reservations /\ V.now = v.now /\ V.freshness = v.freshness
      BY <2>4, <2>5, ReaggregatedIs
    <3>2. /\ W.devices = Described(w) /\ W.available = Total(FreeIn(w))
          /\ W.reservations = w.reservations /\ W.now = w.now /\ W.freshness = w.freshness
      BY <2>3, <2>5, ReaggregatedIs
    <3> QED
      BY <2>3, <3>1, <3>2 DEF Described, FreeIn, UsableIn
  <2>7. Effective(V) = Effective(W)
    BY <2>6 DEF Effective, HeldNow
  <2>8. evaluateNow(W, q) = evaluateNow(V, q)
    BY <2>6, <2>7 DEF evaluateNow
  <2>9. applyScenario(v, <<a, c>>) = W
    BY <2>2, <2>5, ScenarioOfTwo
  <2>10. evaluateNow(V, q) = evaluateNow(v, q)
    BY <1>1, <1>3, <2>2, <2>5
  <2> QED
    BY <2>1, <2>2, <2>8, <2>9, <2>10 DEF evaluateScenario, queryFeasibilityNow
<1>4. TypeOK => EmptyScenarioAgrees
  BY <1>2, <1>3 DEF EmptyScenarioAgrees
<1> QED
  BY <1>4, TypeCorrect, PTL

-----------------------------------------------------------------------------
(* The report on fragmentation.                                            *)

\* A family is summed in two parts.
LEMMA SumInParts ==
    ASSUME NEW D, IsFiniteSet(D), NEW A \in SUBSET D, NEW B \in SUBSET D, B = D \ A,
           NEW h \in [D -> Int], NEW f \in [A -> Int], NEW g \in [B -> Int],
           SameOn(f, h, A), SameOn(g, h, B)
    PROVE  SumOf(h) = SumOf(f) + SumOf(g)
<1> DEFINE F == [i \in D |-> IF i \in A THEN h[i] ELSE 0]
           G == [i \in D |-> IF i \in B THEN h[i] ELSE 0]
<1>1. F \in [D -> Int] /\ SameOn(f, F, A) /\ ZeroOutside(F, A, D)
  BY DEF SameOn, ZeroOutside
<1>2. G \in [D -> Int] /\ SameOn(g, G, B) /\ ZeroOutside(G, B, D)
  BY DEF SameOn, ZeroOutside
<1>3. AddsUp(h, F, G, D)
  BY DEF AddsUp
<1> HIDE DEF F, G
<1>4. SumOf(F) = SumOf(f)
  BY <1>1, SumFilter
<1>5. SumOf(G) = SumOf(g)
  BY <1>2, SumFilter
<1>6. SumOf(h) = SumOf(F) + SumOf(G)
  BY <1>1, <1>2, <1>3, SumPlus
<1> QED
  BY <1>4, <1>5, <1>6

\* What a shape can use of a device is within its blocks.
LEMMA UsableWithinBlocks ==
    ASSUME NEW blocks \in Seq(Nat), NEW required
    PROVE  /\ SumOf(blocks) \in Int /\ SumOf(blocks) >= 0
           /\ usableForShape(blocks, required) \in Int
           /\ usableForShape(blocks, required) >= 0
           /\ usableForShape(blocks, required) <= SumOf(blocks)
<1>1. PICK n \in Nat : n = Len(blocks)
  OBVIOUS
<1>2. PICK D : D = 1 .. n
  OBVIOUS
<1>3. /\ IsFiniteSet(D) /\ DOMAIN blocks = D /\ blocks \in [D -> Int]
      /\ \A i \in D : blocks[i] \in Nat /\ blocks[i] >= 0
  BY <1>1, <1>2, PositionsFinite
<1>4. SumOf(blocks) \in Int /\ SumOf(blocks) >= 0
  <2>1. \A i \in D : blocks[i] >= 0
    BY <1>3
  <2> QED
    BY <1>3, <2>1, SumNotNegative
<1>5. Saturated(SumOf(blocks)) \in Int /\ Saturated(SumOf(blocks)) >= 0
      /\ Saturated(SumOf(blocks)) <= SumOf(blocks)
  BY <1>4, ByteMaxNat DEF Saturated, Lesser
<1>6. ASSUME required # 0, shapeSatisfiable(blocks, required)
      PROVE  LET m == Max({blocks[i] : i \in SummedBlocks(blocks)})
             IN  m \in Int /\ m >= 0 /\ m <= SumOf(blocks)
  <2>1. PICK E, S : E = SummedBlocks(blocks) /\ S = {blocks[i] : i \in SummedBlocks(blocks)}
    OBVIOUS
  <2>2. E \in SUBSET D /\ E # {} /\ S = {blocks[i] : i \in E}
    BY <1>3, <1>6, <2>1 DEF SummedBlocks, shapeSatisfiable
  <2>3. S \in SUBSET Nat /\ S # {}
    BY <1>3, <2>2
  <2>4. IsFiniteSet(S)
    <3>1. PICK f : f = [i \in E |-> blocks[i]]
      OBVIOUS
    <3>2. f \in Surjection(E, S)
      BY <2>2, <3>1 DEF Surjection
    <3>3. IsFiniteSet(E)
      BY <1>3, <2>2, FS_Subset
    <3> QED
      BY <3>2, <3>3, FS_Surjection
  <2>5. Max(S) \in S
    BY <2>3, <2>4, MaxIs
  <2>6. PICK i \in D : Max(S) = blocks[i]
    BY <2>2, <2>5
  <2>7. blocks[i] <= SumOf(blocks)
    <3>1. \A j \in D : blocks[j] >= 0
      BY <1>3
    <3> QED
      BY <1>3, <3>1, SumAtLeast
  <2> QED
    BY <1>3, <2>1, <2>6, <2>7
<1> QED
  BY <1>4, <1>5, <1>6 DEF usableForShape

\* Devices as buildView lists them: neither drained nor in maintenance by their flags.
Listed(devs) ==
    /\ IsFiniteSet(DOMAIN devs)
    /\ \A i \in DOMAIN devs :
          /\ devs[i].vramFree \in Nat /\ devs[i].freeBlocks \in Seq(Nat)
          /\ ~devs[i].drained /\ ~devs[i].maintenance

\* The parts of the report: the memory that is free, on the devices A that a shape can use
\* and on the others B, and what of it the shape can use.
Parts(devs, q, A, B, T, R, S, U) ==
    /\ T = SumOf(FreeOn(devs, DOMAIN devs)) /\ T = R + S
    /\ R = SumOf(FreeOn(devs, A)) /\ S = SumOf(FreeOn(devs, B))
    /\ U = SumOf([i \in A |-> usableForShape(devs[i].freeBlocks, q.minContiguousVram)])
    /\ analyzeFragmentation(devs, q)
         = [total |-> Saturated(T), usable |-> Saturated(U), stranded |-> Saturated(S)]

LEMMA ReportParts ==
    ASSUME NEW devs, Listed(devs), NEW q, NEW A, NEW B,
           A = {i \in DOMAIN devs : ShapeUsable(devs[i], q.minContiguousVram)},
           B = DOMAIN devs \ A
    PROVE  \E T \in Nat, R \in Nat, S \in Nat, U \in Nat : Parts(devs, q, A, B, T, R, S, U)
<1>1. PICK D : D = DOMAIN devs /\ A \in SUBSET D /\ B \in SUBSET D /\ B = D \ A
  OBVIOUS
<1>2. IsFiniteSet(D) /\ IsFiniteSet(A) /\ IsFiniteSet(B)
  BY <1>1, FS_Subset DEF Listed
<1>3. ASSUME NEW E \in SUBSET D
      PROVE  /\ FreeOn(devs, E) \in [E -> Int] /\ NotNegative(FreeOn(devs, E), E)
             /\ SumOf(FreeOn(devs, E)) \in Nat
  <2>1. PICK f : f = FreeOn(devs, E)
    OBVIOUS
  <2>2. f \in [E -> Int] /\ \A i \in E : f[i] >= 0
    BY <1>1, <2>1 DEF FreeOn, Listed
  <2>3. IsFiniteSet(E)
    BY <1>2, FS_Subset
  <2>4. SumOf(f) \in Int /\ SumOf(f) >= 0
    BY <2>2, <2>3, SumNotNegative
  <2> QED
    BY <2>1, <2>2, <2>4 DEF NotNegative
<1>4. PICK h, f, g : h = FreeOn(devs, D) /\ f = FreeOn(devs, A) /\ g = FreeOn(devs, B)
  OBVIOUS
<1>5. /\ h \in [D -> Int] /\ f \in [A -> Int] /\ g \in [B -> Int]
      /\ SumOf(h) \in Nat /\ SumOf(f) \in Nat /\ SumOf(g) \in Nat
  BY <1>1, <1>3, <1>4
<1>6. SameOn(f, h, A) /\ SameOn(g, h, B)
  BY <1>1, <1>4 DEF SameOn, FreeOn
<1>7. SumOf(h) = SumOf(f) + SumOf(g)
  BY <1>1, <1>2, <1>5, <1>6, SumInParts
<1>8. PICK u : u = [i \in A |-> usableForShape(devs[i].freeBlocks, q.minContiguousVram)]
  OBVIOUS
<1>9. SumOf(u) \in Nat
  <2>1. \A i \in A : devs[i].freeBlocks \in Seq(Nat)
    BY <1>1 DEF Listed
  <2>2. u \in [A -> Int] /\ \A i \in A : u[i] >= 0
    BY <1>8, <2>1, UsableWithinBlocks
  <2> QED
    BY <1>2, <2>2, SumNotNegative
<1>10. analyzeFragmentation(devs, q)
         = [total |-> Saturated(SumOf(h)), usable |-> Saturated(SumOf(u)),
            stranded |-> Saturated(SumOf(g))]
  <2>1. Restrict(h, B) = g
    BY <1>1, <1>4 DEF Restrict, FreeOn
  <2> QED
    BY <1>1, <1>4, <1>8, <2>1 DEF analyzeFragmentation, FreeOn
<1> QED
  BY <1>1, <1>4, <1>5, <1>7, <1>8, <1>9, <1>10 DEF Parts

\* Where the blocks add up to the free memory the report accounts for it.
LEMMA ReportAccounts ==
    ASSUME NEW devs, Listed(devs), \A i \in DOMAIN devs : SumOf(devs[i].freeBlocks) = devs[i].vramFree,
           NEW q
    PROVE  LET fr == analyzeFragmentation(devs, q)
           IN  /\ fr.usable <= fr.total
               /\ fr.stranded <= fr.total
               /\ fr.usable + fr.stranded <= fr.total \/ fr.total = ByteMax
<1>1. PICK A, B : /\ A = {i \in DOMAIN devs : ShapeUsable(devs[i], q.minContiguousVram)}
                  /\ B = DOMAIN devs \ A
  OBVIOUS
<1>p. PICK T \in Nat, R \in Nat, S \in Nat, U \in Nat : Parts(devs, q, A, B, T, R, S, U)
  BY <1>1, ReportParts
<1>2. /\ T = R + S
      /\ R = SumOf(FreeOn(devs, A))
      /\ U = SumOf([i \in A |-> usableForShape(devs[i].freeBlocks, q.minContiguousVram)])
      /\ analyzeFragmentation(devs, q)
           = [total |-> Saturated(T), usable |-> Saturated(U), stranded |-> Saturated(S)]
  BY <1>p DEF Parts
<1>3. U <= R
  <2>1. PICK u, f : /\ u = [i \in A |-> usableForShape(devs[i].freeBlocks, q.minContiguousVram)]
                    /\ f = FreeOn(devs, A)
    OBVIOUS
  <2>2. IsFiniteSet(A)
    BY <1>1, FS_Subset DEF Listed
  <2>3. ASSUME NEW i \in A
        PROVE  u[i] \in Int /\ f[i] \in Int /\ u[i] <= f[i]
    <3>1. /\ devs[i].freeBlocks \in Seq(Nat) /\ devs[i].vramFree \in Nat
          /\ SumOf(devs[i].freeBlocks) = devs[i].vramFree
      BY <1>1 DEF Listed
    <3>2. PICK blocks \in Seq(Nat) : blocks = devs[i].freeBlocks
      BY <3>1
    <3>3. /\ usableForShape(blocks, q.minContiguousVram) \in Int
          /\ usableForShape(blocks, q.minContiguousVram) <= SumOf(blocks)
      BY UsableWithinBlocks
    <3> QED
      BY <2>1, <3>1, <3>2, <3>3 DEF FreeOn
  <2>4. u \in [A -> Int] /\ f \in [A -> Int] /\ \A i \in A : u[i] <= f[i]
    BY <2>1, <2>3 DEF FreeOn
  <2>5. SumOf(u) <= SumOf(f)
    BY <2>2, <2>4, SumMonotone
  <2> QED
    BY <1>2, <2>1, <2>5
<1>4. PICK fr : fr = analyzeFragmentation(devs, q)
  OBVIOUS
<1>5. fr.total = Lesser(T, ByteMax) /\ fr.usable = Lesser(U, ByteMax) /\ fr.stranded = Lesser(S, ByteMax)
  BY <1>2, <1>4 DEF Saturated
<1>6. /\ fr.usable <= fr.total /\ fr.stranded <= fr.total
      /\ fr.usable + fr.stranded <= fr.total \/ fr.total = ByteMax
  BY <1>2, <1>3, <1>5, ByteMaxNat DEF Lesser
<1> QED
  BY <1>4, <1>6

LEMMA ProductsGrow ==
    ASSUME NEW a \in Nat, NEW b \in Nat, NEW c \in Nat, a <= b
    PROVE  a * c <= b * c /\ c * a <= c * b
<1>1. PICK e \in Nat : e = b - a
  OBVIOUS
<1>2. b = a + e /\ e * c >= 0 /\ e * c \in Int /\ a * c \in Int
  BY <1>1
<1>3. b * c = a * c + e * c
  BY <1>2
<1>4. c * a = a * c /\ c * b = b * c
  OBVIOUS
<1> QED
  BY <1>2, <1>3, <1>4

\* A part of a part, and the sums that saturate.
LEMMA SaturationHidesNothing ==
    ASSUME NEW T \in Nat, NEW S \in Nat, NEW X \in Nat, X <= S, S <= T
    PROVE  Saturated(S) * T >= X * Saturated(T)
<1>1. PICK M \in Nat, s \in Nat, t \in Nat : M = ByteMax /\ s = Saturated(S) /\ t = Saturated(T)
  BY ByteMaxNat DEF Saturated, Lesser
<1>2. CASE S < M
  <2>1. s = S /\ t <= T
    BY <1>1, <1>2 DEF Saturated, Lesser
  <2>2. X * T <= S * T
    BY ProductsGrow
  <2>3. X * t <= X * T
    BY <2>1, ProductsGrow
  <2>4. X * t \in Int /\ X * T \in Int /\ S * T \in Int
    OBVIOUS
  <2> QED
    BY <1>1, <2>1, <2>2, <2>3, <2>4
<1>3. CASE ~(S < M)
  <2>1. s = M /\ t = M /\ X <= T
    BY <1>1, <1>3 DEF Saturated, Lesser
  <2>2. X * M <= T * M
    BY <2>1, ProductsGrow
  <2>3. T * M = M * T /\ T * M \in Int /\ X * M \in Int
    OBVIOUS
  <2> QED
    BY <1>1, <2>1, <2>2, <2>3
<1> QED
  BY <1>2, <1>3

\* A device on which a shape can be placed once every block is looked at.
Open(d, q) ==
    /\ d.health \notin {"Failed", "Unknown"}
    /\ \/ q.minContiguousVram = 0
       \/ \E i \in DOMAIN d.freeBlocks : d.freeBlocks[i] >= q.minContiguousVram

LEMMA OverflowHidesNothing ==
    ASSUME NEW devs, Listed(devs), NEW q, NEW Z, Z = {i \in DOMAIN devs : ~Open(devs[i], q)}
    PROVE  LET fr == analyzeFragmentation(devs, q)
           IN  fr.stranded * SumOf(FreeOn(devs, DOMAIN devs)) >= SumOf(FreeOn(devs, Z)) * fr.total
<1>1. PICK A, B : /\ A = {i \in DOMAIN devs : ShapeUsable(devs[i], q.minContiguousVram)}
                  /\ B = DOMAIN devs \ A
  OBVIOUS
<1>p. PICK T \in Nat, R \in Nat, S \in Nat, U \in Nat : Parts(devs, q, A, B, T, R, S, U)
  BY <1>1, ReportParts
<1>2. /\ T = SumOf(FreeOn(devs, DOMAIN devs)) /\ T = R + S /\ S = SumOf(FreeOn(devs, B))
      /\ analyzeFragmentation(devs, q)
           = [total |-> Saturated(T), usable |-> Saturated(U), stranded |-> Saturated(S)]
  BY <1>p DEF Parts
<1>3. Z \in SUBSET B
  BY <1>1 DEF Open, ShapeUsable, shapeSatisfiable, SummedBlocks
<1>4. PICK f, g : f = FreeOn(devs, B) /\ g = FreeOn(devs, Z)
  OBVIOUS
<1>5. /\ f \in [B -> Int] /\ g \in [Z -> Int] /\ SameOn(g, f, Z)
      /\ (\A i \in B : f[i] >= 0) /\ (\A i \in Z : g[i] >= 0)
  BY <1>1, <1>3, <1>4 DEF FreeOn, Listed, SameOn
<1>6. IsFiniteSet(B) /\ IsFiniteSet(Z)
  BY <1>1, <1>3, FS_Subset DEF Listed
<1>7. SumOf(g) <= SumOf(f)
  BY <1>3, <1>5, <1>6, SumOfFewer
<1>8. SumOf(g) \in Int /\ SumOf(g) >= 0
  BY <1>5, <1>6, SumNotNegative
<1>9. PICK X \in Nat : X = SumOf(g)
  BY <1>8
<1>10. X <= S /\ S <= T
  BY <1>2, <1>4, <1>7, <1>9
<1>11. Saturated(S) * T >= X * Saturated(T)
  BY <1>10, SaturationHidesNothing
<1> QED
  BY <1>2, <1>4, <1>9, <1>11

\* The devices of the view are devices that resources report.
LEMMA ViewDevicesAre ==
    ASSUME TypeOK, NEW devs, devs = buildView(0).devices
    PROVE  /\ Listed(devs)
           /\ \A d \in DOMAIN devs : \E r \in DOMAIN resources :
                 /\ devs[d].freeBlocks = Report(r).blocks
                 /\ devs[d].vramFree = Whole(Amount(Report(r).free, "vram"))
<1>1. devs = viewDevices /\ IsFiniteSet(DOMAIN devs)
  BY BuiltView DEF buildView, View
<1>2. ASSUME NEW d \in DOMAIN devs
      PROVE  \E r \in DOMAIN resources :
                 /\ devs[d].freeBlocks = Report(r).blocks
                 /\ devs[d].vramFree = Whole(Amount(Report(r).free, "vram"))
                 /\ ~devs[d].drained /\ ~devs[d].maintenance
  <2>1. PICK S : S = {r \in DOMAIN resources : Report(r).device = d}
    OBVIOUS
  <2>2. S \in SUBSET Nat /\ IsFiniteSet(S) /\ S # {}
    BY <1>1, <2>1, ReportsTyped, FS_Subset DEF viewDevices
  <2>3. PICK r \in DOMAIN resources : r = Max(S)
    BY <2>1, <2>2, MaxIs
  <2>4. devs[d] = DeviceInfo(Report(r), FALSE, FALSE)
    BY <1>1, <2>1, <2>3 DEF viewDevices
  <2>5. /\ devs[d].freeBlocks = Report(r).blocks
        /\ devs[d].vramFree = Whole(Amount(Report(r).free, "vram"))
        /\ ~devs[d].drained /\ ~devs[d].maintenance
    BY <2>4 DEF DeviceInfo
  <2> QED
    BY <2>5
<1>3. ASSUME NEW d \in DOMAIN devs
      PROVE  devs[d].vramFree \in Nat /\ devs[d].freeBlocks \in Seq(Nat)
  <2>1. PICK r \in DOMAIN resources :
           /\ devs[d].freeBlocks = Report(r).blocks
           /\ devs[d].vramFree = Whole(Amount(Report(r).free, "vram"))
    BY <1>2
  <2>2. PICK p \in ReportSpace : p = Report(r)
    BY ReportsTyped
  <2>3. PICK m \in Nat : m = Amount(p.free, "vram")
    BY ReportIs, PositiveIs
  <2>4. Whole(m) \in Nat
    BY WholeIsWhole
  <2>5. p.blocks \in Seq(Nat)
    BY DEF ReportSpace
  <2> QED
    BY <2>1, <2>2, <2>3, <2>4, <2>5
<1>4. Listed(devs)
  BY <1>1, <1>2, <1>3 DEF Listed
<1> QED
  BY <1>2, <1>4

\* In every state the report on fragmentation invents no memory, where the blocks that are
\* reported add up, and hides no fragmentation when its sums saturate, whatever is reported
\* (analyzeDeviceMemory's early exit, analyzeFragmentation's saturating sums).
THEOREM FragmentationReportsAreSound == Spec => []FragmentationIsSound
<1>1. ASSUME TypeOK
      PROVE  FragmentationAccounts
  <2> SUFFICES ASSUME \A r \in DOMAIN resources :
                         SumOf(Report(r).blocks) = Whole(Amount(Report(r).free, "vram")),
                      NEW q \in Demands
               PROVE  LET fr == analyzeFragmentation(buildView(0).devices, q)
                      IN  /\ fr.usable <= fr.total
                          /\ fr.stranded <= fr.total
                          /\ fr.usable + fr.stranded <= fr.total \/ fr.total = ByteMax
    BY DEF FragmentationAccounts
  <2>1. PICK devs : devs = buildView(0).devices
    OBVIOUS
  <2>2. /\ Listed(devs)
        /\ \A d \in DOMAIN devs : \E r \in DOMAIN resources :
              /\ devs[d].freeBlocks = Report(r).blocks
              /\ devs[d].vramFree = Whole(Amount(Report(r).free, "vram"))
    BY <1>1, <2>1, ViewDevicesAre
  <2>3. \A d \in DOMAIN devs : SumOf(devs[d].freeBlocks) = devs[d].vramFree
    BY <2>2
  <2> QED
    BY <2>1, <2>2, <2>3, ReportAccounts
<1>2. ASSUME TypeOK
      PROVE  OverflowNeverHides
  <2>1. PICK devs : devs = buildView(0).devices
    OBVIOUS
  <2>2. Listed(devs)
    BY <1>2, <2>1, ViewDevicesAre
  <2>3. ASSUME NEW q \in Demands
        PROVE  analyzeFragmentation(devs, q).stranded * SumOf(FreeOn(devs, DOMAIN devs))
                 >= SumOf(FreeOn(devs, {i \in DOMAIN devs : ~Open(devs[i], q)}))
                      * analyzeFragmentation(devs, q).total
    BY <2>2, OverflowHidesNothing
  <2>4. ASSUME NEW Z \in SUBSET DOMAIN devs
        PROVE  Restrict(FreeOn(devs, DOMAIN devs), Z) = FreeOn(devs, Z)
    BY DEF Restrict, FreeOn
  <2>5. ASSUME NEW q \in Demands, NEW Z, Z = {i \in DOMAIN devs : ~Open(devs[i], q)}
        PROVE  analyzeFragmentation(devs, q).stranded * SumOf(FreeOn(devs, DOMAIN devs))
                 >= SumOf(Restrict(FreeOn(devs, DOMAIN devs), Z))
                      * analyzeFragmentation(devs, q).total
    BY <2>3, <2>4, <2>5
  <2> QED
    BY <2>1, <2>5 DEF OverflowNeverHides, Open, FreeOn
<1>3. TypeOK => FragmentationIsSound
  BY <1>1, <1>2 DEF FragmentationIsSound
<1> QED
  BY <1>3, TypeCorrect, PTL

=============================================================================
