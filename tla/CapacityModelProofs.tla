-------------------------- MODULE CapacityModelProofs --------------------------
(***************************************************************************)
(* Theorems about CapacityModel, for every value of the constants: the     *)
(* evidence and the ledger first, then save and load.                      *)
(***************************************************************************)
EXTENDS Reload, Wire, EvidenceProofs, SequenceTheorems

-----------------------------------------------------------------------------
(* Lemmas about the operators the model is built from.                     *)

\* A function on dimensions with bounded amounts is a capacity.
LEMMA CapacityIntro ==
    ASSUME NEW D \in SUBSET Dimensions, NEW c \in [D -> 0 .. MaxAmount]
    PROVE  c \in CapacitySpace
BY DEF CapacitySpace

LEMMA NoCapacityIsCapacity == NoCapacity \in CapacitySpace
<1>1. NoCapacity \in [{} -> 0 .. MaxAmount]
  BY DEF NoCapacity
<1>2. {} \in SUBSET Dimensions
  OBVIOUS
<1> QED
  BY <1>1, <1>2, CapacityIntro

\* The amount of any dimension of a capacity is within the bound.
LEMMA AmountBounded ==
    ASSUME NEW c \in CapacitySpace, NEW d
    PROVE  Amount(c, d) \in 0 .. MaxAmount
<1>1. PICK D \in SUBSET Dimensions : c \in [D -> 0 .. MaxAmount]
  BY DEF CapacitySpace
<1> QED
  BY <1>1, MaxAmountNat DEF Amount

\* setAmount keeps a capacity a capacity.
LEMMA SetAmountIsCapacity ==
    ASSUME NEW c \in CapacitySpace, NEW d \in Dimensions, NEW v \in 0 .. MaxAmount
    PROVE  setAmount(c, d, v) \in CapacitySpace
<1>1. PICK D \in SUBSET Dimensions : c \in [D -> 0 .. MaxAmount]
  BY DEF CapacitySpace
<1> DEFINE E == (D \ {d}) \cup (IF v > 0 THEN {d} ELSE {})
<1>2. E \in SUBSET Dimensions
  OBVIOUS
<1>3. setAmount(c, d, v) = [e \in E |-> IF e = d THEN v ELSE c[e]]
  BY <1>1, MaxAmountNat DEF setAmount
<1>4. setAmount(c, d, v) \in [E -> 0 .. MaxAmount]
  BY <1>1, <1>3
<1> HIDE DEF E
<1> QED
  BY <1>2, <1>4, CapacityIntro

\* The conversion to whole units never raises an amount.
LEMMA WholeBounded ==
    ASSUME NEW v \in 0 .. MaxAmount
    PROVE  Whole(v) \in 0 .. MaxAmount
<1>1. v \in Nat /\ Unit \in Nat /\ Unit > 0
  BY MaxAmountNat, UnitPositive
<1>2. v \div Unit \in Nat /\ Unit * (v \div Unit) <= v
  BY <1>1
<1>3. Unit * (v \div Unit) \in Nat
  BY <1>1, <1>2
<1> QED
  BY <1>2, <1>3, MaxAmountNat DEF Whole

-----------------------------------------------------------------------------
(* Vectors: erase, push_back, and element-wise conversion.                 *)

\* Erasing one element keeps the others, in order.
LEMMA WithoutIsSeq ==
    ASSUME NEW S, NEW s \in Seq(S), NEW i \in 1 .. Len(s)
    PROVE  /\ Without(s, i) \in Seq(S)
           /\ Len(Without(s, i)) = Len(s) - 1
           /\ \A j \in 1 .. Len(s) - 1 :
                 Without(s, i)[j] = IF j < i THEN s[j] ELSE s[j + 1]
<1> DEFINE e(j) == IF j < i THEN s[j] ELSE s[j + 1]
<1>1. Len(s) - 1 \in Nat
  BY LenProperties
<1>2. \A j \in 1 .. Len(s) - 1 : e(j) \in S
  BY ElementOfSeq
<1>3. Without(s, i) = [j \in 1 .. Len(s) - 1 |-> e(j)]
  BY DEF Without
<1> HIDE DEF e
<1>4. [j \in 1 .. Len(s) - 1 |-> e(j)] \in Seq(S)
  BY <1>1, <1>2, IsASeq
<1>5. Len(Without(s, i)) = Len(s) - 1
  BY <1>1, <1>3, <1>4, LenProperties
<1> QED
  BY <1>3, <1>4, <1>5 DEF e

LEMMA EraseIsSeq ==
    ASSUME NEW S, NEW s \in Seq(S), NEW i
    PROVE  Erase(s, i) \in Seq(S)
BY WithoutIsSeq DEF Erase

-----------------------------------------------------------------------------
(* Type correctness.                                                       *)

\* Every operation on the ledger keeps its types.
LEMMA LedgerTypes ==
    ASSUME LedgerTypeOK, LedgerNext
    PROVE  LedgerTypeOK'
<1>1. ASSUME ReservationNext
      PROVE  LedgerTypeOK'
  <2>1. PICK id \in ReservationIds, g \in FactGens, v \in Intervals, h \in Holds,
             s \in Strengths :
          publishReservation([id |-> id, gen |-> g, interval |-> v, hold |-> h,
                              strength |-> s])
    BY <1>1 DEF ReservationNext
  <2> DEFINE res == [id |-> id, gen |-> g, interval |-> v, hold |-> h, strength |-> s]
  <2>2. g \in Nat /\ res \in Reservation
    BY FactBounds, FactAmounts DEF Reservation
  <2>3. reservationGen' \in [ReservationIds -> Nat]
    BY <2>1, <2>2, AdvanceRecords DEF publishReservation, LedgerTypeOK
  <2>4. reservations' \in Seq(Reservation)
    <3>1. Erase(reservations, ReservationIndex(reservations, id)) \in Seq(Reservation)
      BY EraseIsSeq DEF LedgerTypeOK
    <3>2. reservations' = Append(Erase(reservations, ReservationIndex(reservations, id)), res)
      BY <2>1 DEF publishReservation
    <3> HIDE DEF res
    <3> QED
      BY <2>2, <3>1, <3>2, AppendProperties
  <2> QED
    BY <2>1, <2>3, <2>4 DEF publishReservation, LedgerTypeOK
<1>2. ASSUME ReleaseNext
      PROVE  LedgerTypeOK'
  <2>1. PICK src \in ReleaseSources, t \in ReleaseTimes, c \in Credits :
          publishRelease([src |-> src, at |-> t, release |-> c])
    BY <1>2 DEF ReleaseNext
  <2> DEFINE rel == [src |-> src, at |-> t, release |-> c]
  <2>2. rel \in ReleaseEvent
    BY FactAmounts DEF ReleaseEvent
  <2>3. Erase(releases, ReleaseIndex(releases, src)) \in Seq(ReleaseEvent)
    BY EraseIsSeq DEF LedgerTypeOK
  <2>4. releases' = Append(Erase(releases, ReleaseIndex(releases, src)), rel)
    BY <2>1 DEF publishRelease
  <2>5. releases' \in Seq(ReleaseEvent)
    <3> HIDE DEF rel
    <3> QED
      BY <2>2, <2>3, <2>4, AppendProperties
  <2> QED
    BY <2>1, <2>5 DEF publishRelease, LedgerTypeOK
<1>3. ASSUME ProfileNext
      PROVE  LedgerTypeOK'
  <2>1. ASSUME NEW id \in DemandIds, NEW g \in FactGens, registerDemand(id, g)
        PROVE  LedgerTypeOK'
    BY <2>1, FactBounds DEF registerDemand, LedgerTypeOK, Put
  <2>2. ASSUME NEW reported \in SUBSET LinkIds, NEW g \in FactGens,
               registerTopology(reported, g)
        PROVE  LedgerTypeOK'
    BY <2>2, FactBounds DEF registerTopology, LedgerTypeOK
  <2> QED
    BY <1>3, <2>1, <2>2 DEF ProfileNext
<1>4. ASSUME HistoryNext
      PROVE  LedgerTypeOK'
  <2>1. ASSUME NEW t \in ForecastTimes, NEW c \in Forecasts, recordForecast(t, c)
        PROVE  LedgerTypeOK'
    <3> DEFINE made == [at |-> t, expected |-> c, observed |-> NoCapacity]
    <3>1. made \in Forecast
      BY FactAmounts, NoCapacityIsCapacity DEF Forecast
    <3>2. forecastHistory' = Append(forecastHistory, made)
      BY <2>1 DEF recordForecast
    <3>3. forecastHistory' \in Seq(Forecast)
      <4> HIDE DEF made
      <4> QED
        BY <3>1, <3>2, AppendProperties DEF LedgerTypeOK
    <3> QED
      BY <2>1, <3>3 DEF recordForecast, LedgerTypeOK
  <2>2. ASSUME NEW t \in ForecastTimes, NEW c \in Forecasts, recordObserved(t, c)
        PROVE  LedgerTypeOK'
    <3>1. PICK i \in 1 .. Len(forecastHistory) :
            forecastHistory' = [forecastHistory EXCEPT ![i].observed = c]
      BY <2>2 DEF recordObserved
    <3>2. forecastHistory \in Seq(Forecast)
      BY DEF LedgerTypeOK
    <3> DEFINE seen == [forecastHistory[i] EXCEPT !.observed = c]
    <3>3. seen \in Forecast
      <4>1. forecastHistory[i] \in Forecast
        BY <3>2, ElementOfSeq
      <4>2. c \in CapacitySpace
        BY FactAmounts
      <4> QED
        BY <4>1, <4>2 DEF Forecast
    <3>4. forecastHistory' = [forecastHistory EXCEPT ![i] = seen]
      BY <3>1
    <3>5. forecastHistory' \in Seq(Forecast)
      <4> HIDE DEF seen
      <4> QED
        BY <3>2, <3>3, <3>4, ExceptSeq
    <3> QED
      BY <2>2, <3>5 DEF recordObserved, LedgerTypeOK
  <2> QED
    BY <1>4, <2>1, <2>2 DEF HistoryNext
<1> QED
  BY <1>1, <1>2, <1>3, <1>4 DEF LedgerNext

\* save writes a file of the right types.
LEMMA ImageTypes ==
    ASSUME EvidenceTypeOK, LedgerTypeOK
    PROVE  FileOK(Image(resources, reservations, releases, forecastHistory))
<1> DEFINE image == Image(resources, reservations, releases, forecastHistory)
<1>1. /\ DOMAIN image.resources \subseteq ResourceIds
      /\ \A r \in DOMAIN image.resources : image.resources[r] \in ResourceImages
  <2>1. DOMAIN image.resources = DOMAIN resources
    BY DEF Image
  <2>2. ASSUME NEW r \in DOMAIN resources
        PROVE  image.resources[r] \in ResourceImages
    <3>1. resources[r] \in ResourceRecord /\ resources[r].report \in ReportSpace
      BY DEF EvidenceTypeOK, ResourceRecord
    <3>2. resources[r].report.nominal \in CapacitySpace
      BY <3>1 DEF ReportSpace
    <3>3. /\ Whole(Amount(resources[r].report.nominal, "vram")) \in 0 .. MaxAmount
          /\ Whole(Amount(resources[r].report.nominal, "acc")) \in 0 .. MaxAmount
      BY <3>2, AmountBounded, WholeBounded
    <3>4. image.resources[r] = ResourceImage(resources[r])
      BY DEF Image
    <3> QED
      BY <3>1, <3>3, <3>4 DEF ResourceImage, ResourceImages, ResourceRecord, ReportSpace
  <2> QED
    BY <2>1, <2>2 DEF EvidenceTypeOK
<1>2. image.reservations \in Seq(ReservationImages)
  <2>1. Len(reservations) \in Nat
    BY LenProperties DEF LedgerTypeOK
  <2>2. image.reservations
          = [i \in 1 .. Len(reservations) |-> ReservationImage(reservations[i])]
    BY DEF Image
  <2>3. ASSUME NEW i \in 1 .. Len(reservations)
        PROVE  ReservationImage(reservations[i]) \in ReservationImages
    <3>1. reservations[i] \in Reservation
      BY ElementOfSeq DEF LedgerTypeOK
    <3>2. Amount(reservations[i].hold, "acc") \in 0 .. MaxAmount
      BY <3>1, AmountBounded DEF Reservation
    <3> QED
      BY <3>1, <3>2 DEF ReservationImage, ReservationImages, Reservation
  <2> QED
    BY <2>1, <2>2, <2>3, SeqDef
<1>3. image.releases \in Seq(ReleaseImages)
  <2>1. Len(releases) \in Nat
    BY LenProperties DEF LedgerTypeOK
  <2>2. image.releases = [i \in 1 .. Len(releases) |-> ReleaseImage(releases[i])]
    BY DEF Image
  <2>3. ASSUME NEW i \in 1 .. Len(releases)
        PROVE  ReleaseImage(releases[i]) \in ReleaseImages
    <3>1. releases[i] \in ReleaseEvent
      BY ElementOfSeq DEF LedgerTypeOK
    <3>2. Amount(releases[i].release, "acc") \in 0 .. MaxAmount
      BY <3>1, AmountBounded DEF ReleaseEvent
    <3> QED
      BY <3>1, <3>2 DEF ReleaseImage, ReleaseImages, ReleaseEvent
  <2> QED
    BY <2>1, <2>2, <2>3, SeqDef
<1>4. image.history \in Seq(HistoryImages)
  <2>1. Len(forecastHistory) \in Nat
    BY LenProperties DEF LedgerTypeOK
  <2>2. image.history = [i \in 1 .. Len(forecastHistory) |-> HistoryImage(forecastHistory[i])]
    BY DEF Image
  <2>3. ASSUME NEW i \in 1 .. Len(forecastHistory)
        PROVE  HistoryImage(forecastHistory[i]) \in HistoryImages
    <3>1. forecastHistory[i] \in Forecast
      BY ElementOfSeq DEF LedgerTypeOK
    <3>2. /\ Amount(forecastHistory[i].expected, "acc") \in 0 .. MaxAmount
          /\ Amount(forecastHistory[i].observed, "acc") \in 0 .. MaxAmount
      BY <3>1, AmountBounded DEF Forecast
    <3> QED
      BY <3>1, <3>2 DEF HistoryImage, HistoryImages, Forecast
  <2> QED
    BY <2>1, <2>2, <2>3, SeqDef
<1> QED
  BY <1>1, <1>2, <1>3, <1>4 DEF FileOK

\* load restores resources of the right types, fenced by nothing.
LEMMA RestoredResourceTypes ==
    ASSUME NEW image, FileOK(image)
    PROVE  /\ DOMAIN RestoredResources(image) \subseteq ResourceIds
           /\ \A r \in DOMAIN RestoredResources(image) :
                 /\ RestoredResources(image)[r] \in ResourceRecord
                 /\ RestoredResources(image)[r].worker = NoWorker
<1>1. DOMAIN RestoredResources(image) \subseteq ResourceIds
  BY DEF RestoredResources, FileOK
<1>2. ASSUME NEW r \in DOMAIN RestoredResources(image)
      PROVE  /\ RestoredResources(image)[r] \in ResourceRecord
             /\ RestoredResources(image)[r].worker = NoWorker
  <2> DEFINE i == image.resources[r]
             nominal == setAmount(setAmount(NoCapacity, "vram", i.vram), "acc", i.accelerators)
  <2>1. i \in ResourceImages /\ RestoredResources(image)[r] = RestoredResource(i)
    BY DEF RestoredResources, FileOK
  <2>2. i.vram \in 0 .. MaxAmount /\ i.accelerators \in 0 .. MaxAmount
    BY <2>1 DEF ResourceImages
  <2>3. "vram" \in Dimensions /\ "acc" \in Dimensions
    BY DEF Dimensions
  <2>4. setAmount(NoCapacity, "vram", i.vram) \in CapacitySpace
    BY <2>2, <2>3, NoCapacityIsCapacity, SetAmountIsCapacity
  <2>5. nominal \in CapacitySpace
    BY <2>2, <2>3, <2>4, SetAmountIsCapacity
  <2>6. <<>> \in Seq(Nat)
    BY EmptySeq
  <2>7. RestoredResource(i).report \in ReportSpace
    BY <2>1, <2>5, <2>6, NoCapacityIsCapacity
       DEF RestoredResource, ResourceImages, ReportSpace
  <2>8. RestoredResource(i) \in ResourceRecord /\ RestoredResource(i).worker = NoWorker
    BY <2>1, <2>7 DEF RestoredResource, ResourceImages, ResourceRecord
  <2> QED
    BY <2>1, <2>8
<1> QED
  BY <1>1, <1>2

\* load restores reservations of the right types: the first n of the file.
LEMMA RestoredReservationTypes ==
    ASSUME NEW image, FileOK(image), NEW n \in 0 .. Len(image.reservations)
    PROVE  /\ RestoredReservations(image, n) \in Seq(Reservation)
           /\ Len(RestoredReservations(image, n)) = n
           /\ \A i \in 1 .. n :
                 /\ RestoredReservations(image, n)[i].id = image.reservations[i].id
                 /\ RestoredReservations(image, n)[i].gen = image.reservations[i].gen
<1> DEFINE rsv == RestoredReservations(image, n)
<1>1. n \in Nat /\ n <= Len(image.reservations) /\ Len(image.reservations) \in Nat
  BY LenProperties DEF FileOK
<1>2. ASSUME NEW i \in 1 .. n
      PROVE  RestoredReservation(image.reservations[i]) \in Reservation
  <2>1. image.reservations[i] \in ReservationImages
    BY <1>1, ElementOfSeq DEF FileOK
  <2>2. [d \in {"acc"} |-> image.reservations[i].accelerators] \in [{"acc"} -> 0 .. MaxAmount]
    BY <2>1 DEF ReservationImages
  <2>3. {"acc"} \in SUBSET Dimensions
    BY DEF Dimensions
  <2>4. [d \in {"acc"} |-> image.reservations[i].accelerators] \in CapacitySpace
    BY <2>2, <2>3, CapacityIntro
  <2> QED
    BY <2>1, <2>4 DEF RestoredReservation, ReservationImages, Reservation
<1>3. rsv = [i \in 1 .. n |-> RestoredReservation(image.reservations[i])]
  BY DEF RestoredReservations
<1>4. rsv \in [1 .. n -> Reservation]
  BY <1>2, <1>3
<1>5. rsv \in Seq(Reservation)
  BY <1>1, <1>4, SeqDef
<1>6. Len(rsv) = n
  BY <1>1, <1>4, <1>5, LenProperties
<1>7. \A i \in 1 .. n : /\ rsv[i].id = image.reservations[i].id
                        /\ rsv[i].gen = image.reservations[i].gen
  BY <1>3 DEF RestoredReservation
<1> QED
  BY <1>5, <1>6, <1>7

\* The tracker load rebuilds has the right type.
LEMMA RestoredTrackerType ==
    ASSUME NEW rsv \in Seq(Reservation)
    PROVE  RestoredTracker(rsv) \in [ReservationIds -> Nat]
<1>1. ASSUME NEW id \in ReservationIds, ReservationIndex(rsv, id) # 0
      PROVE  rsv[ReservationIndex(rsv, id)].gen \in Nat
  <2>1. ReservationIndex(rsv, id) \in 1 .. Len(rsv)
    BY <1>1 DEF ReservationIndex
  <2>2. rsv[ReservationIndex(rsv, id)] \in Reservation
    BY <2>1, ElementOfSeq
  <2> QED
    BY <2>2 DEF Reservation
<1> QED
  BY <1>1 DEF RestoredTracker

\* load restores releases and forecasts of the right types.
LEMMA RestoredForecastTypes ==
    ASSUME NEW image, FileOK(image)
    PROVE  /\ RestoredReleases(image) \in Seq(ReleaseEvent)
           /\ RestoredHistory(image) \in Seq(Forecast)
<1>0. "acc" \in Dimensions
  BY DEF Dimensions
<1>1. RestoredReleases(image) \in Seq(ReleaseEvent)
  <2>1. Len(image.releases) \in Nat
    BY LenProperties DEF FileOK
  <2>2. ASSUME NEW i \in 1 .. Len(image.releases)
        PROVE  RestoredRelease(image.releases[i]) \in ReleaseEvent
    <3>1. image.releases[i] \in ReleaseImages
      BY ElementOfSeq DEF FileOK
    <3>2. [d \in {"acc"} |-> image.releases[i].accelerators] \in [{"acc"} -> 0 .. MaxAmount]
      BY <3>1 DEF ReleaseImages
    <3>3. [d \in {"acc"} |-> image.releases[i].accelerators] \in CapacitySpace
      BY <1>0, <3>2, CapacityIntro
    <3> QED
      BY <3>1, <3>3 DEF RestoredRelease, ReleaseImages, ReleaseEvent
  <2> QED
    BY <2>1, <2>2, SeqDef DEF RestoredReleases
<1>2. RestoredHistory(image) \in Seq(Forecast)
  <2>1. Len(image.history) \in Nat
    BY LenProperties DEF FileOK
  <2>2. ASSUME NEW i \in 1 .. Len(image.history)
        PROVE  RestoredForecast(image.history[i]) \in Forecast
    <3>1. image.history[i] \in HistoryImages
      BY ElementOfSeq DEF FileOK
    <3>2. /\ Whole(image.history[i].expected) \in 0 .. MaxAmount
          /\ Whole(image.history[i].observed) \in 0 .. MaxAmount
      BY <3>1, WholeBounded DEF HistoryImages
    <3>3. /\ setAmount(NoCapacity, "acc", Whole(image.history[i].expected)) \in CapacitySpace
          /\ setAmount(NoCapacity, "acc", Whole(image.history[i].observed)) \in CapacitySpace
      BY <1>0, <3>2, NoCapacityIsCapacity, SetAmountIsCapacity
    <3> QED
      BY <3>1, <3>3 DEF RestoredForecast, HistoryImages, Forecast
  <2> QED
    BY <2>1, <2>2, SeqDef DEF RestoredHistory
<1> QED
  BY <1>1, <1>2

\* A new process starts with the types it needs, whatever load finds.
LEMMA RestartTypes ==
    ASSUME TypeOK, Restart
    PROVE  TypeOK'
<1>1. ASSUME FreshProcess,
             DOMAIN resources' \subseteq ResourceIds,
             \A r \in DOMAIN resources' : resources'[r] \in ResourceRecord,
             reservations' \in Seq(Reservation),
             reservationGen' \in [ReservationIds -> Nat],
             releases' \in Seq(ReleaseEvent),
             forecastHistory' \in Seq(Forecast),
             recovered' \in BOOLEAN
      PROVE  TypeOK'
  <2>1. EvidenceTypeOK'
    BY <1>1 DEF FreshProcess, EvidenceTypeOK
  <2>2. LedgerTypeOK'
    BY <1>1 DEF FreshProcess, LedgerTypeOK
  <2> QED
    BY <1>1, <2>1, <2>2 DEF FreshProcess, TypeOK
<1>2. CASE restartEmpty
  <2>1. <<>> \in Seq(Reservation) /\ <<>> \in Seq(ReleaseEvent) /\ <<>> \in Seq(Forecast)
    BY EmptySeq
  <2> QED
    BY <1>1, <1>2, <2>1 DEF restartEmpty
<1>3. CASE restartLoad
  <2> DEFINE image == disk.image
             rsv == RestoredReservations(image, Len(image.reservations))
  <2>1. FileOK(image)
    BY <1>3 DEF restartLoad, TypeOK
  <2>2. Len(image.reservations) \in 0 .. Len(image.reservations)
    BY <2>1, LenProperties DEF FileOK
  <2>3. rsv \in Seq(Reservation)
    BY <2>1, <2>2, RestoredReservationTypes
  <2>4. RestoredTracker(rsv) \in [ReservationIds -> Nat]
    BY <2>3, RestoredTrackerType
  <2>5. /\ RestoredReleases(image) \in Seq(ReleaseEvent)
        /\ RestoredHistory(image) \in Seq(Forecast)
    BY <2>1, RestoredForecastTypes
  <2>6. /\ FreshProcess
        /\ resources' = RestoredResources(image)
        /\ reservations' = rsv
        /\ reservationGen' = RestoredTracker(rsv)
        /\ releases' = RestoredReleases(image)
        /\ forecastHistory' = RestoredHistory(image)
        /\ recovered' = TRUE
    BY <1>3 DEF restartLoad
  <2>7. /\ DOMAIN RestoredResources(image) \subseteq ResourceIds
        /\ \A r \in DOMAIN RestoredResources(image) :
              RestoredResources(image)[r] \in ResourceRecord
    BY <2>1, RestoredResourceTypes
  <2> HIDE DEF image, rsv
  <2> QED
    BY <1>1, <2>3, <2>4, <2>5, <2>6, <2>7
<1>4. CASE restartPartialLoad
  <2> DEFINE image == disk.image
  <2>1. FileOK(image)
    BY <1>4 DEF restartPartialLoad, TypeOK
  <2>2. PICK n \in 0 .. Len(image.reservations) - 1 :
          /\ reservations' = RestoredReservations(image, n)
          /\ reservationGen' = RestoredTracker(RestoredReservations(image, n))
    BY <1>4 DEF restartPartialLoad
  <2>3. n \in 0 .. Len(image.reservations)
    BY <2>1, LenProperties DEF FileOK
  <2>4. reservations' \in Seq(Reservation)
    BY <2>1, <2>2, <2>3, RestoredReservationTypes
  <2>5. reservationGen' \in [ReservationIds -> Nat]
    BY <2>2, <2>4, RestoredTrackerType
  <2>6. /\ FreshProcess
        /\ resources' = RestoredResources(image)
        /\ releases' = <<>>
        /\ forecastHistory' = <<>>
        /\ recovered' = FALSE
    BY <1>4 DEF restartPartialLoad
  <2>7. /\ DOMAIN RestoredResources(image) \subseteq ResourceIds
        /\ \A r \in DOMAIN RestoredResources(image) :
              RestoredResources(image)[r] \in ResourceRecord
    BY <2>1, RestoredResourceTypes
  <2>8. <<>> \in Seq(ReleaseEvent) /\ <<>> \in Seq(Forecast)
    BY EmptySeq
  <2> HIDE DEF image
  <2> QED
    BY <1>1, <2>4, <2>5, <2>6, <2>7, <2>8
<1> QED
  BY <1>2, <1>3, <1>4 DEF Restart

\* One step of the model keeps the types.
LEMMA TypeStep ==
    ASSUME TypeOK, [Next]_vars
    PROVE  TypeOK'
<1>1. CASE EvidenceStep
  <2>1. EvidenceTypeOK'
    BY <1>1, EvidenceTypes DEF EvidenceStep, TypeOK
  <2> QED
    BY <1>1, <2>1 DEF EvidenceStep, TypeOK, LedgerTypeOK, ledgerVars
<1>2. CASE LedgerStep
  <2>1. LedgerTypeOK'
    BY <1>2, LedgerTypes DEF LedgerStep, TypeOK
  <2> QED
    BY <1>2, <2>1 DEF LedgerStep, TypeOK, EvidenceTypeOK, evidenceVars
<1>3. CASE save
  <2>1. FileOK(disk'.image)
    BY <1>3, ImageTypes DEF save, TypeOK
  <2> QED
    BY <1>3, <2>1
       DEF save, TypeOK, EvidenceTypeOK, LedgerTypeOK, evidenceVars, ledgerVars
<1>4. CASE saveTorn
  BY <1>4 DEF saveTorn, TornFile, TypeOK, EvidenceTypeOK, LedgerTypeOK, evidenceVars, ledgerVars
<1>5. CASE Restart
  BY <1>5, RestartTypes
<1>6. CASE UNCHANGED vars
  BY <1>6 DEF vars, TypeOK, EvidenceTypeOK, LedgerTypeOK, evidenceVars, ledgerVars
<1> QED
  BY <1>1, <1>2, <1>3, <1>4, <1>5, <1>6 DEF Next

\* A fresh model has the right types.
LEMMA InitTypes ==
    ASSUME Init
    PROVE  TypeOK
<1>1. EvidenceTypeOK
  BY DEF Init, EvidenceInit, EvidenceTypeOK
<1>2. LedgerTypeOK
  <2>1. <<>> \in Seq(Reservation) /\ <<>> \in Seq(ReleaseEvent) /\ <<>> \in Seq(Forecast)
    BY EmptySeq
  <2> QED
    BY <2>1 DEF Init, LedgerInit, LedgerTypeOK
<1> QED
  BY <1>1, <1>2 DEF Init, NoFile, TypeOK

\* Every field of the model, and every file save completed, has its type in every
\* reachable state, across any number of saves and restarts (src/model/model.cpp).
THEOREM TypeCorrect == Spec => []TypeOK
<1>1. Init => TypeOK
  BY InitTypes
<1>2. TypeOK /\ [Next]_vars => TypeOK'
  BY TypeStep
<1> QED
  BY <1>1, <1>2, PTL DEF Spec

-----------------------------------------------------------------------------
(* The fences.                                                             *)

\* After a restart no resource is fenced and every record is an orphan.
LEMMA RestartUnfences ==
    ASSUME TypeOK, Restart
    PROVE  /\ resourceGen' = [r \in ResourceIds |-> 0]
           /\ sources' = [w \in {} |-> 0]
           /\ DOMAIN resources' \subseteq ResourceIds
           /\ \A r \in DOMAIN resources' : resources'[r].worker = NoWorker
<1>1. CASE restartEmpty
  BY <1>1 DEF restartEmpty, FreshProcess
<1>2. CASE restartLoad
  <2>1. FileOK(disk.image) /\ resources' = RestoredResources(disk.image)
    BY <1>2 DEF restartLoad, TypeOK
  <2>2. /\ DOMAIN resources' \subseteq ResourceIds
        /\ \A r \in DOMAIN resources' : resources'[r].worker = NoWorker
    BY <2>1, RestoredResourceTypes
  <2> QED
    BY <1>2, <2>2 DEF restartLoad, FreshProcess
<1>3. CASE restartPartialLoad
  <2>1. FileOK(disk.image) /\ resources' = RestoredResources(disk.image)
    BY <1>3 DEF restartPartialLoad, TypeOK
  <2>2. /\ DOMAIN resources' \subseteq ResourceIds
        /\ \A r \in DOMAIN resources' : resources'[r].worker = NoWorker
    BY <2>1, RestoredResourceTypes
  <2> QED
    BY <1>3, <2>2 DEF restartPartialLoad, FreshProcess
<1> QED
  BY <1>1, <1>2, <1>3 DEF Restart

\* What a publication does to the record and to its fence, and to no other's.
Published(r, w, b, g, p) ==
    /\ g \in Nat
    /\ resourceGen'[r] = g
    /\ \A x \in ResourceIds : x # r => resourceGen'[x] = resourceGen[x]
    /\ DOMAIN resources' = DOMAIN resources \cup {r}
    /\ resources'[r] = [worker |-> w, boot |-> b, gen |-> g, report |-> p]
    /\ \A x \in DOMAIN resources : x # r => resources'[x] = resources[x]
    /\ resourceGen[r] # 0 => g >= resourceGen[r]

LEMMA PublishEffect ==
    ASSUME TypeOK, NEW r \in ResourceIds, NEW w \in Workers, NEW b \in Boots,
           NEW g \in Gens, NEW p \in Reports, publishResource(r, w, b, g, p)
    PROVE  Published(r, w, b, g, p)
<1>1. g \in Nat /\ resourceGen \in [ResourceIds -> Nat]
  BY MaxGenNat DEF Gens, TypeOK, EvidenceTypeOK
<1>2. ~Stale(resourceGen[r], g)
  BY DEF publishResource, Publishable
<1>3. /\ resourceGen'[r] = g
      /\ \A x \in ResourceIds : x # r => resourceGen'[x] = resourceGen[x]
  BY <1>1, <1>2, AdvanceRecords DEF publishResource
<1> DEFINE rec == [worker |-> w, boot |-> b, gen |-> g, report |-> p]
<1>4. /\ DOMAIN resources' = DOMAIN resources \cup {r}
      /\ resources'[r] = rec
      /\ \A x \in DOMAIN resources : x # r => resources'[x] = resources[x]
  <2>1. resources' = Put(resources, r, rec)
    BY DEF publishResource
  <2> HIDE DEF rec
  <2> QED
    BY <2>1 DEF Put
<1>5. resourceGen[r] # 0 => g >= resourceGen[r]
  BY <1>1, <1>2 DEF Stale
<1> QED
  BY <1>1, <1>3, <1>4, <1>5 DEF Published

\* What advanceResourceGeneration does to the record and to its fence.
Renewed(r) ==
    /\ r \in DOMAIN resources
    /\ resourceGen[r] \in Nat
    /\ resourceGen'[r] = resourceGen[r] + 1
    /\ \A x \in ResourceIds : x # r => resourceGen'[x] = resourceGen[x]
    /\ DOMAIN resources' = DOMAIN resources
    /\ resources'[r].gen = resourceGen[r] + 1
    /\ resources'[r].worker = resources[r].worker
    /\ resources'[r].boot = resources[r].boot
    /\ \A x \in DOMAIN resources : x # r => resources'[x] = resources[x]

LEMMA RenewEffect ==
    ASSUME TypeOK, NEW r \in ResourceIds, advanceResourceGeneration(r)
    PROVE  Renewed(r)
<1>1. resourceGen \in [ResourceIds -> Nat] /\ resourceGen[r] + 1 \in Nat
  BY DEF TypeOK, EvidenceTypeOK
<1>2. ~Stale(resourceGen[r], resourceGen[r] + 1)
  BY <1>1 DEF Stale
<1>3. /\ resourceGen'[r] = resourceGen[r] + 1
      /\ \A x \in ResourceIds : x # r => resourceGen'[x] = resourceGen[x]
  BY <1>1, <1>2, AdvanceRecords DEF advanceResourceGeneration
<1>4. /\ r \in DOMAIN resources
      /\ resources' = [resources EXCEPT ![r].gen = resourceGen[r] + 1]
  BY DEF advanceResourceGeneration
<1>5. resources[r] \in ResourceRecord
  BY <1>4 DEF TypeOK, EvidenceTypeOK
<1>6. /\ resources'[r].gen = resourceGen[r] + 1
      /\ resources'[r].worker = resources[r].worker
      /\ resources'[r].boot = resources[r].boot
  BY <1>4, <1>5 DEF ResourceRecord
<1>7. /\ DOMAIN resources' = DOMAIN resources
      /\ \A x \in DOMAIN resources : x # r => resources'[x] = resources[x]
  BY <1>4
<1> QED
  BY <1>1, <1>3, <1>4, <1>6, <1>7 DEF Renewed

\* The tracker and the record of a resource stay in step.
LEMMA GenerationsStep ==
    ASSUME TypeOK, GenerationsAgree, [Next]_vars
    PROVE  GenerationsAgree'
<1>1. CASE EvidenceStep
  <2>1. ASSUME NEW w \in Workers, NEW b \in Boots, registerWorker(w, b)
        PROVE  GenerationsAgree'
    BY <2>1 DEF registerWorker, GenerationsAgree, Orphan
  <2>2. ASSUME NEW w \in Workers, markWorkerDead(w)
        PROVE  GenerationsAgree'
    BY <2>2 DEF markWorkerDead, GenerationsAgree, Orphan
  <2>3. ASSUME NEW r \in ResourceIds, NEW w \in Workers, NEW b \in Boots, NEW g \in Gens,
               NEW p \in Reports, publishResource(r, w, b, g, p)
        PROVE  GenerationsAgree'
    <3>1. Published(r, w, b, g, p)
      BY <2>3, PublishEffect
    <3>2. \A x \in ResourceIds : resourceGen'[x] # 0 =>
              x \in DOMAIN resources' /\ resources'[x].gen = resourceGen'[x]
      BY <3>1 DEF Published, GenerationsAgree
    <3>3. \A x \in DOMAIN resources' :
              resources'[x].worker # NoWorker => resources'[x].gen = resourceGen'[x]
      BY <3>1 DEF Published, GenerationsAgree, Orphan, TypeOK, EvidenceTypeOK
    <3> QED
      BY <3>2, <3>3 DEF GenerationsAgree, Orphan
  <2>4. ASSUME NEW r \in ResourceIds, advanceResourceGeneration(r)
        PROVE  GenerationsAgree'
    <3>1. Renewed(r)
      BY <2>4, RenewEffect
    <3>2. \A x \in ResourceIds : resourceGen'[x] # 0 =>
              x \in DOMAIN resources' /\ resources'[x].gen = resourceGen'[x]
      BY <3>1 DEF Renewed, GenerationsAgree
    <3>3. \A x \in DOMAIN resources' :
              resources'[x].worker # NoWorker => resources'[x].gen = resourceGen'[x]
      BY <3>1 DEF Renewed, GenerationsAgree, Orphan, TypeOK, EvidenceTypeOK
    <3> QED
      BY <3>2, <3>3 DEF GenerationsAgree, Orphan
  <2>5. ASSUME NEW d \in DeviceIds, NEW h \in HealthStates, NEW g \in Gens, setHealth(d, h, g)
        PROVE  GenerationsAgree'
    BY <2>5 DEF setHealth, GenerationsAgree, Orphan
  <2> QED
    BY <1>1, <2>1, <2>2, <2>3, <2>4, <2>5 DEF EvidenceStep, EvidenceNext
<1>2. CASE Restart
  BY <1>2, RestartUnfences DEF GenerationsAgree, Orphan
<1>3. CASE LedgerStep \/ save \/ saveTorn \/ UNCHANGED vars
  BY <1>3 DEF LedgerStep, save, saveTorn, vars, evidenceVars, GenerationsAgree, Orphan
<1> QED
  BY <1>1, <1>2, <1>3 DEF Next

\* The tracker that fences a resource and the record it fences agree in every
\* reachable state: publishResource and advanceResourceGeneration never let the two
\* maps part, and a restart leaves only unfenced orphans (src/model/model.cpp).
THEOREM GenerationsAlwaysAgree == Spec => []GenerationsAgree
<1>1. Init => GenerationsAgree
  BY DEF Init, EvidenceInit, GenerationsAgree
<1>2. TypeOK /\ GenerationsAgree /\ [Next]_vars => GenerationsAgree'
  BY GenerationsStep
<1> QED
  BY <1>1, <1>2, TypeCorrect, PTL DEF Spec

\* Within one process no fenced resource goes back to an older generation and none
\* disappears, whoever publishes (src/model/model.cpp, publishResource).
THEOREM FencedResourcesNeverRegress == Spec => FencedNeverRegresses
<1>1. ASSUME TypeOK, GenerationsAgree, [Next]_vars
      PROVE  [Restart \/ FencesHold]_vars
  <2> SUFFICES ASSUME Next, ~Restart, NEW r \in ResourceIds, resourceGen[r] # 0
               PROVE  r \in DOMAIN resources' /\ resources'[r].gen >= resources[r].gen
    BY <1>1 DEF FencesHold
  <2>0. /\ r \in DOMAIN resources /\ resources[r].gen = resourceGen[r]
        /\ resourceGen[r] \in Nat
    BY <1>1 DEF GenerationsAgree, TypeOK, EvidenceTypeOK
  <2>1. CASE UNCHANGED resources
    BY <2>0, <2>1
  <2>2. ASSUME NEW x \in ResourceIds, NEW w \in Workers, NEW b \in Boots, NEW g \in Gens,
               NEW p \in Reports, publishResource(x, w, b, g, p)
        PROVE  r \in DOMAIN resources' /\ resources'[r].gen >= resources[r].gen
    <3>1. Published(x, w, b, g, p)
      BY <1>1, <2>2, PublishEffect
    <3> QED
      BY <2>0, <3>1 DEF Published
  <2>3. ASSUME NEW x \in ResourceIds, advanceResourceGeneration(x)
        PROVE  r \in DOMAIN resources' /\ resources'[r].gen >= resources[r].gen
    <3>1. Renewed(x)
      BY <1>1, <2>3, RenewEffect
    <3> QED
      BY <2>0, <3>1 DEF Renewed
  <2>4. CASE LedgerStep \/ save \/ saveTorn
    BY <2>1, <2>4 DEF LedgerStep, save, saveTorn, evidenceVars
  <2>5. CASE EvidenceStep
    <3>1. CASE \E w \in Workers, b \in Boots : registerWorker(w, b)
      BY <2>1, <3>1 DEF registerWorker
    <3>2. CASE \E w \in Workers : markWorkerDead(w)
      BY <2>1, <3>2 DEF markWorkerDead
    <3>3. CASE \E d \in DeviceIds, h \in HealthStates, g \in Gens : setHealth(d, h, g)
      BY <2>1, <3>3 DEF setHealth
    <3> QED
      BY <2>2, <2>3, <2>5, <3>1, <3>2, <3>3 DEF EvidenceStep, EvidenceNext
  <2> QED
    BY <2>4, <2>5 DEF Next
<1>2. TypeOK /\ GenerationsAgree /\ [Next]_vars => [Restart \/ FencesHold]_vars
  BY <1>1
<1> QED
  BY <1>2, TypeCorrect, GenerationsAlwaysAgree, PTL DEF Spec, FencedNeverRegresses

-----------------------------------------------------------------------------
(* The reservation ledger.                                                 *)

\* Each id occurs once.
DistinctIds(s) == \A i, j \in 1 .. Len(s) : s[i].id = s[j].id => i = j

\* ReservationLedger of any vector and tracker.
InStep(s, tracker) ==
    /\ DistinctIds(s)
    /\ \A i \in 1 .. Len(s) : tracker[s[i].id] = s[i].gen
    /\ \A id \in ReservationIds : tracker[id] # 0 => \E i \in 1 .. Len(s) : s[i].id = id

\* Erasing an id from a vector of distinct ids leaves exactly the other entries.
LEMMA EraseId ==
    ASSUME NEW s \in Seq(Reservation), DistinctIds(s), NEW id
    PROVE  LET e == Erase(s, ReservationIndex(s, id)) IN
           /\ e \in Seq(Reservation)
           /\ DistinctIds(e)
           /\ \A j \in 1 .. Len(e) : e[j].id # id /\ \E i \in 1 .. Len(s) : e[j] = s[i]
           /\ \A i \in 1 .. Len(s) : s[i].id # id => \E j \in 1 .. Len(e) : e[j] = s[i]
<1> DEFINE k == ReservationIndex(s, id)
           e == Erase(s, k)
<1>0. Len(s) \in Nat
  BY LenProperties
<1>1. CASE \E i \in 1 .. Len(s) : s[i].id = id
  <2>1. k \in 1 .. Len(s) /\ s[k].id = id
    BY <1>1 DEF ReservationIndex
  <2>2. e = Without(s, k)
    BY <2>1 DEF Erase
  <2> HIDE DEF k
  <2>3. /\ e \in Seq(Reservation)
        /\ Len(e) = Len(s) - 1
        /\ \A j \in 1 .. Len(s) - 1 : e[j] = IF j < k THEN s[j] ELSE s[j + 1]
    BY <2>1, <2>2, WithoutIsSeq
  <2> HIDE DEF e
  <2>4. DistinctIds(e)
    BY <1>0, <2>1, <2>3 DEF DistinctIds
  <2>5. ASSUME NEW j \in 1 .. Len(e)
        PROVE  e[j].id # id /\ \E i \in 1 .. Len(s) : e[j] = s[i]
    <3>1. CASE j < k
      <4>1. j \in 1 .. Len(s) /\ j # k /\ e[j] = s[j]
        BY <1>0, <2>1, <2>3, <3>1
      <4> QED
        BY <2>1, <4>1 DEF DistinctIds
    <3>2. CASE ~(j < k)
      <4>1. j + 1 \in 1 .. Len(s) /\ j + 1 # k /\ e[j] = s[j + 1]
        BY <1>0, <2>1, <2>3, <3>2
      <4> QED
        BY <2>1, <4>1 DEF DistinctIds
    <3> QED
      BY <3>1, <3>2
  <2>6. ASSUME NEW i \in 1 .. Len(s), s[i].id # id
        PROVE  \E j \in 1 .. Len(e) : e[j] = s[i]
    <3>1. CASE i < k
      <4>1. i \in 1 .. Len(e) /\ e[i] = s[i]
        BY <1>0, <2>1, <2>3, <3>1
      <4> QED
        BY <4>1
    <3>2. CASE i > k
      <4>1. i - 1 \in 1 .. Len(e) /\ e[i - 1] = s[i]
        BY <1>0, <2>1, <2>3, <3>2
      <4> QED
        BY <4>1
    <3> QED
      BY <1>0, <2>1, <2>6, <3>1, <3>2
  <2> QED
    BY <2>3, <2>4, <2>5, <2>6 DEF e, k
<1>2. CASE ~\E i \in 1 .. Len(s) : s[i].id = id
  <2>1. k = 0
    BY <1>2 DEF ReservationIndex
  <2>2. e = s
    BY <1>0, <2>1 DEF Erase
  <2> HIDE DEF e
  <2>3. /\ e \in Seq(Reservation)
        /\ DistinctIds(e)
        /\ \A j \in 1 .. Len(e) : e[j].id # id /\ \E i \in 1 .. Len(s) : e[j] = s[i]
        /\ \A i \in 1 .. Len(s) : s[i].id # id => \E j \in 1 .. Len(e) : e[j] = s[i]
    BY <1>2, <2>2
  <2> QED
    BY <2>3 DEF e, k
<1> QED
  BY <1>1, <1>2

\* Publishing keeps the vector and the tracker in step.
LEMMA PublishKeepsStep ==
    ASSUME NEW s \in Seq(Reservation), NEW tracker \in [ReservationIds -> Nat],
           NEW res \in Reservation, InStep(s, tracker), ~Stale(tracker[res.id], res.gen)
    PROVE  InStep(Append(Erase(s, ReservationIndex(s, res.id)), res),
                  advance(tracker, res.id, res.gen))
<1> DEFINE e == Erase(s, ReservationIndex(s, res.id))
           t == Append(e, res)
           after == advance(tracker, res.id, res.gen)
<1>1. res.id \in ReservationIds /\ res.gen \in Nat
  BY DEF Reservation
<1>2. /\ after[res.id] = res.gen
      /\ \A x \in ReservationIds : x # res.id => after[x] = tracker[x]
  BY <1>1 DEF advance, Stale
<1>3. /\ e \in Seq(Reservation)
      /\ DistinctIds(e)
      /\ \A j \in 1 .. Len(e) : e[j].id # res.id /\ \E i \in 1 .. Len(s) : e[j] = s[i]
      /\ \A i \in 1 .. Len(s) : s[i].id # res.id => \E j \in 1 .. Len(e) : e[j] = s[i]
  BY EraseId DEF InStep
<1> HIDE DEF e, after
<1>4. /\ Len(e) \in Nat
      /\ Len(t) = Len(e) + 1
      /\ \A i \in 1 .. Len(e) : t[i] = e[i]
      /\ t[Len(e) + 1] = res
  BY <1>3, AppendProperties, LenProperties
<1> HIDE DEF t
<1>5. DistinctIds(t)
  BY <1>3, <1>4 DEF DistinctIds
<1>6. ASSUME NEW i \in 1 .. Len(t)
      PROVE  after[t[i].id] = t[i].gen
  <2>1. CASE i = Len(e) + 1
    BY <1>2, <1>4, <2>1
  <2>2. CASE i \in 1 .. Len(e)
    <3>1. PICK j \in 1 .. Len(s) : e[i] = s[j]
      BY <1>3, <2>2
    <3>2. s[j].id \in ReservationIds
      <4>1. s[j] \in Reservation
        BY ElementOfSeq
      <4> QED
        BY <4>1 DEF Reservation
    <3>3. t[i] = s[j] /\ s[j].id # res.id
      BY <1>3, <1>4, <2>2, <3>1
    <3> QED
      BY <1>2, <3>2, <3>3 DEF InStep
  <2> QED
    BY <1>4, <2>1, <2>2
<1>7. ASSUME NEW id \in ReservationIds, after[id] # 0
      PROVE  \E i \in 1 .. Len(t) : t[i].id = id
  <2>1. CASE id = res.id
    <3>1. Len(e) + 1 \in 1 .. Len(t)
      BY <1>4
    <3> QED
      BY <1>4, <2>1, <3>1
  <2>2. CASE id # res.id
    <3>1. PICK i \in 1 .. Len(s) : s[i].id = id
      BY <1>2, <1>7, <2>2 DEF InStep
    <3>2. PICK j \in 1 .. Len(e) : e[j] = s[i]
      BY <1>3, <2>2, <3>1
    <3>3. j \in 1 .. Len(t) /\ t[j] = s[i]
      BY <1>4, <3>2
    <3> QED
      BY <3>1, <3>3
  <2> QED
    BY <2>1, <2>2
<1>8. InStep(t, after)
  BY <1>5, <1>6, <1>7 DEF InStep
<1> QED
  BY <1>8 DEF t, e, after

\* The tracker load rebuilds is in step with the vector it pushes.
LEMMA RestoredInStep ==
    ASSUME NEW s \in Seq(Reservation), DistinctIds(s)
    PROVE  InStep(s, RestoredTracker(s))
<1>0. Len(s) \in Nat
  BY LenProperties
<1>1. ASSUME NEW i \in 1 .. Len(s)
      PROVE  RestoredTracker(s)[s[i].id] = s[i].gen
  <2>1. s[i] \in Reservation
    BY ElementOfSeq
  <2>2. s[i].id \in ReservationIds
    BY <2>1 DEF Reservation
  <2>3. ReservationIndex(s, s[i].id) = i
    BY DEF ReservationIndex, DistinctIds
  <2> QED
    BY <1>0, <2>2, <2>3 DEF RestoredTracker
<1>2. ASSUME NEW id \in ReservationIds, RestoredTracker(s)[id] # 0
      PROVE  \E i \in 1 .. Len(s) : s[i].id = id
  BY <1>2 DEF RestoredTracker, ReservationIndex
<1> QED
  BY <1>1, <1>2 DEF InStep

\* A restart starts in step, whatever it finds on disk.
LEMMA RestartInStep ==
    ASSUME TypeOK, FileLedger, Restart
    PROVE  InStep(reservations', reservationGen')
<1>1. CASE restartEmpty
  <2>1. reservations' = <<>> /\ reservationGen' = [id \in ReservationIds |-> 0]
    BY <1>1 DEF restartEmpty
  <2>2. Len(reservations') = 0
    BY <2>1
  <2> QED
    BY <2>1, <2>2 DEF InStep, DistinctIds
<1>2. ASSUME NEW n \in 0 .. Len(disk.image.reservations), disk.state = "intact",
             reservations' = RestoredReservations(disk.image, n),
             reservationGen' = RestoredTracker(reservations')
      PROVE  InStep(reservations', reservationGen')
  <2>1. FileOK(disk.image)
    BY <1>2 DEF TypeOK
  <2>2. Len(disk.image.reservations) \in Nat
    BY <2>1, LenProperties DEF FileOK
  <2>3. /\ reservations' \in Seq(Reservation)
        /\ Len(reservations') = n
        /\ \A i \in 1 .. n : reservations'[i].id = disk.image.reservations[i].id
    BY <1>2, <2>1, RestoredReservationTypes
  <2>4. DistinctIds(reservations')
    BY <1>2, <2>2, <2>3 DEF FileLedger, DistinctIds
  <2>5. InStep(reservations', RestoredTracker(reservations'))
    BY <2>3, <2>4, RestoredInStep
  <2> QED
    BY <1>2, <2>5
<1>4. CASE restartLoad
  <2>1. Len(disk.image.reservations) \in 0 .. Len(disk.image.reservations)
    BY <1>4, LenProperties DEF restartLoad, TypeOK, FileOK
  <2> QED
    BY <1>2, <1>4, <2>1 DEF restartLoad
<1>5. CASE restartPartialLoad
  <2>1. PICK n \in 0 .. Len(disk.image.reservations) - 1 :
          /\ reservations' = RestoredReservations(disk.image, n)
          /\ reservationGen' = RestoredTracker(RestoredReservations(disk.image, n))
    BY <1>5 DEF restartPartialLoad
  <2>2. n \in 0 .. Len(disk.image.reservations)
    BY <1>5, LenProperties DEF restartPartialLoad, TypeOK, FileOK
  <2> QED
    BY <1>2, <1>5, <2>1, <2>2 DEF restartPartialLoad
<1> QED
  BY <1>1, <1>4, <1>5 DEF Restart

\* One step keeps the ledger, in memory and in the file.
LEMMA ReservationLedgerStep ==
    ASSUME TypeOK, ReservationLedger, FileLedger, [Next]_vars
    PROVE  ReservationLedger' /\ FileLedger'
<1>1. InStep(reservations, reservationGen)
  BY DEF ReservationLedger, InStep, DistinctIds
<1>2. InStep(reservations', reservationGen') => ReservationLedger'
  BY DEF ReservationLedger, InStep, DistinctIds
<1>3. UNCHANGED <<reservations, reservationGen>> => ReservationLedger'
  BY DEF ReservationLedger
<1>4. UNCHANGED disk => FileLedger'
  BY DEF FileLedger
<1>5. CASE LedgerStep
  <2>1. CASE ReservationNext
    <3>1. PICK id \in ReservationIds, g \in FactGens, v \in Intervals, h \in Holds,
               st \in Strengths :
            publishReservation([id |-> id, gen |-> g, interval |-> v, hold |-> h,
                                strength |-> st])
      BY <2>1 DEF ReservationNext
    <3> DEFINE res == [id |-> id, gen |-> g, interval |-> v, hold |-> h, strength |-> st]
    <3>2. res \in Reservation
      BY FactBounds, FactAmounts DEF Reservation
    <3>3. publishReservation(res)
      BY <3>1
    <3> HIDE DEF res
    <3>4. /\ ~Stale(reservationGen[res.id], res.gen)
          /\ reservationGen' = advance(reservationGen, res.id, res.gen)
          /\ reservations'
               = Append(Erase(reservations, ReservationIndex(reservations, res.id)), res)
      BY <3>3 DEF publishReservation
    <3>5. /\ reservations \in Seq(Reservation)
          /\ reservationGen \in [ReservationIds -> Nat]
      BY DEF TypeOK, LedgerTypeOK
    <3>6. InStep(reservations', reservationGen')
      BY <1>1, <3>2, <3>4, <3>5, PublishKeepsStep
    <3> QED
      BY <1>2, <1>4, <1>5, <3>6 DEF LedgerStep
  <2>2. CASE ReleaseNext \/ ProfileNext \/ HistoryNext
    BY <1>3, <1>4, <1>5, <2>2
       DEF LedgerStep, ReleaseNext, ProfileNext, HistoryNext, publishRelease,
           registerDemand, registerTopology, recordForecast, recordObserved
  <2> QED
    BY <1>5, <2>1, <2>2 DEF LedgerStep, LedgerNext
<1>6. CASE EvidenceStep
  BY <1>3, <1>4, <1>6 DEF EvidenceStep, ledgerVars
<1>7. CASE save
  <2>1. disk'.image.reservations
          = [i \in 1 .. Len(reservations) |-> ReservationImage(reservations[i])]
    BY <1>7 DEF save, Image
  <2>2. Len(reservations) \in Nat
    BY LenProperties DEF TypeOK, LedgerTypeOK
  <2>3. Len(disk'.image.reservations) = Len(reservations)
    BY <2>1, <2>2
  <2>4. \A i \in 1 .. Len(reservations) :
           disk'.image.reservations[i].id = reservations[i].id
    BY <2>1 DEF ReservationImage
  <2>5. FileLedger'
    BY <2>3, <2>4 DEF FileLedger, ReservationLedger
  <2> QED
    BY <1>3, <1>7, <2>5 DEF save, ledgerVars
<1>8. CASE saveTorn
  BY <1>3, <1>8 DEF saveTorn, TornFile, FileLedger, ledgerVars
<1>9. CASE Restart
  <2>1. UNCHANGED disk
    BY <1>9 DEF Restart, restartEmpty, restartLoad, restartPartialLoad, FreshProcess
  <2> QED
    BY <1>2, <1>4, <1>9, <2>1, RestartInStep
<1>10. CASE UNCHANGED vars
  BY <1>3, <1>4, <1>10 DEF vars, ledgerVars
<1> QED
  BY <1>5, <1>6, <1>7, <1>8, <1>9, <1>10 DEF Next

\* In every reachable state the reservation vector holds each id once, at the
\* generation its tracker records, and no tracked reservation is lost; the state file
\* holds each id once, which is what makes load's plain push_back correct
\* (src/model/model.cpp, publishReservation, save and load).
THEOREM ReservationsInStep == Spec => [](ReservationLedger /\ FileLedger)
<1>1. Init => ReservationLedger /\ FileLedger
  BY DEF Init, LedgerInit, NoFile, ReservationLedger, FileLedger
<1>2. TypeOK /\ (ReservationLedger /\ FileLedger) /\ [Next]_vars
        => (ReservationLedger /\ FileLedger)'
  BY ReservationLedgerStep
<1> QED
  BY <1>1, <1>2, TypeCorrect, PTL DEF Spec


-----------------------------------------------------------------------------
(* The refinement: CapacityModel implements EvidenceAuthority.             *)

\* A registration grants authority to an incarnation the worker may take.
LEMMA RegisterGrants ==
    ASSUME TypeOK, NEW w \in Workers, NEW b \in Boots, registerWorker(w, b)
    PROVE  Authority!Grant(w, b)
<1>1. Holder[w] \in {NoBoot, b}
  BY DEF registerWorker, Replaceable, Holder
<1>2. sources' = Put(sources, w, [boot |-> b, alive |-> TRUE])
  BY DEF registerWorker
<1>3. Holder' = [Holder EXCEPT ![w] = b]
  BY <1>2 DEF Holder, workerAlive, Put
<1>4. UNCHANGED Attribution
  BY DEF registerWorker, Attribution
<1> QED
  BY <1>1, <1>3, <1>4 DEF Authority!Grant

\* A death revokes it.
LEMMA DeathRevokes ==
    ASSUME TypeOK, NEW w \in Workers, markWorkerDead(w)
    PROVE  Authority!Revoke(w)
<1>1. w \in DOMAIN sources /\ sources' = [sources EXCEPT ![w].alive = FALSE]
  BY DEF markWorkerDead
<1>2. sources[w] \in Source
  BY <1>1 DEF TypeOK, EvidenceTypeOK
<1>3. /\ DOMAIN sources' = DOMAIN sources
      /\ sources'[w].alive = FALSE
      /\ \A x \in DOMAIN sources : x # w => sources'[x] = sources[x]
  BY <1>1, <1>2 DEF Source
<1>4. Holder' = [Holder EXCEPT ![w] = NoBoot]
  BY <1>3 DEF Holder, workerAlive
<1>5. UNCHANGED Attribution
  BY DEF markWorkerDead, Attribution
<1> QED
  BY <1>4, <1>5 DEF Authority!Revoke

\* A publication is accepted from the holder, and replaces nothing newer.
LEMMA PublishAccepted ==
    ASSUME TypeOK, GenerationsAgree, NEW r \in ResourceIds, NEW w \in Workers,
           NEW b \in Boots, NEW g \in Gens, NEW p \in Reports,
           publishResource(r, w, b, g, p)
    PROVE  Authority!Accept(r, w, b)
<1>1. Published(r, w, b, g, p)
  BY PublishEffect
<1>2. Holder[w] = b /\ UNCHANGED Holder
  BY DEF publishResource, Publishable, isFreshBoot, Holder, workerAlive
<1>3. /\ r \in DOMAIN Attribution'
      /\ Attribution'[r] = [worker |-> w, boot |-> b, gen |-> g]
  BY <1>1 DEF Published, Attribution
<1>4. ASSUME r \in DOMAIN Attribution, Attribution[r].worker # NoWorker
      PROVE  g >= Attribution[r].gen
  <2>1. /\ r \in DOMAIN resources
        /\ resources[r].worker # NoWorker
        /\ Attribution[r].gen = resources[r].gen
    BY <1>4 DEF Attribution
  <2>2. resources[r].gen = resourceGen[r] /\ resourceGen[r] \in Nat
    BY <2>1 DEF GenerationsAgree, Orphan, TypeOK, EvidenceTypeOK
  <2> QED
    BY <1>1, <2>1, <2>2 DEF Published
<1>5. Attribution' = [x \in DOMAIN Attribution \cup {r} |->
                        IF x = r THEN [worker |-> w, boot |-> b, gen |-> g]
                                 ELSE Attribution[x]]
  BY <1>1 DEF Published, Attribution
<1> QED
  BY <1>2, <1>3, <1>4, <1>5 DEF Authority!Accept, Authority!Attributed, Authority!Replaced

\* advanceResourceGeneration renews the record under the same author.
LEMMA AdvanceRenews ==
    ASSUME TypeOK, GenerationsAgree, NEW r \in ResourceIds, advanceResourceGeneration(r)
    PROVE  Authority!Renew(r)
<1>1. Renewed(r)
  BY RenewEffect
<1>2. UNCHANGED Holder
  BY DEF advanceResourceGeneration, Holder, workerAlive
<1>3. /\ r \in DOMAIN Attribution /\ r \in DOMAIN Attribution'
      /\ Attribution'[r].gen = resourceGen[r] + 1
  BY <1>1 DEF Renewed, Attribution
<1>4. ASSUME Attribution[r].worker # NoWorker
      PROVE  Attribution'[r].gen = Attribution[r].gen + 1
  <2>1. /\ resources[r].worker # NoWorker
        /\ Attribution[r].gen = resources[r].gen
    BY <1>1, <1>4 DEF Renewed, Attribution
  <2>2. resources[r].gen = resourceGen[r]
    BY <1>1, <2>1 DEF GenerationsAgree, Orphan, Renewed
  <2> QED
    BY <1>3, <2>1, <2>2
<1>5. Attribution' = [x \in DOMAIN Attribution \cup {r} |->
                        IF x = r THEN [worker |-> Attribution[r].worker,
                                       boot |-> Attribution[r].boot,
                                       gen |-> Attribution'[r].gen]
                                 ELSE Attribution[x]]
  BY <1>1 DEF Renewed, Attribution
<1> QED
  BY <1>2, <1>3, <1>4, <1>5 DEF Authority!Renew, Authority!Attributed, Authority!Replaced

\* A restart of the process is a restart of the authority.
LEMMA RestartRevokes ==
    ASSUME TypeOK, Restart
    PROVE  Authority!Restart
<1>1. /\ sources' = [w \in {} |-> 0]
      /\ DOMAIN resources' \subseteq ResourceIds
      /\ \A r \in DOMAIN resources' : resources'[r].worker = NoWorker
  BY RestartUnfences
<1>2. Holder' = [w \in Workers |-> NoBoot]
  BY <1>1 DEF Holder, workerAlive
<1>3. /\ DOMAIN Attribution' \subseteq ResourceIds
      /\ \A r \in DOMAIN Attribution' : Attribution'[r].worker = NoWorker
  BY <1>1 DEF Attribution
<1> QED
  BY <1>2, <1>3 DEF Authority!Restart

\* CapacityModel implements EvidenceAuthority under the mapping above, for any number
\* of workers, incarnations, resources and restarts: sources_, resources_ and
\* resourceGen_ together grant authority to one incarnation at a time and never
\* replace attributed evidence by older evidence (src/model/model.cpp).
THEOREM EvidenceRefinesAuthority == Spec => ImplementsAuthority
<1>1. Init => Authority!Init
  BY DEF Init, EvidenceInit, Authority!Init, Holder, workerAlive, Attribution
<1>2. ASSUME TypeOK, GenerationsAgree, [Next]_vars
      PROVE  [Authority!Next]_(Authority!authorityVars)
  <2>1. CASE EvidenceStep
    <3>1. ASSUME NEW w \in Workers, NEW b \in Boots, registerWorker(w, b)
          PROVE  Authority!Next
      BY <1>2, <3>1, RegisterGrants DEF Authority!Next
    <3>2. ASSUME NEW w \in Workers, markWorkerDead(w)
          PROVE  Authority!Next
      BY <1>2, <3>2, DeathRevokes DEF Authority!Next
    <3>3. ASSUME NEW r \in ResourceIds, NEW w \in Workers, NEW b \in Boots, NEW g \in Gens,
                 NEW p \in Reports, publishResource(r, w, b, g, p)
          PROVE  Authority!Next
      <4>1. Authority!Accept(r, w, b)
        BY <1>2, <3>3, PublishAccepted
      <4> QED
        BY <4>1 DEF Authority!Next
    <3>4. ASSUME NEW r \in ResourceIds, advanceResourceGeneration(r)
          PROVE  Authority!Next
      BY <1>2, <3>4, AdvanceRenews DEF Authority!Next
    <3>5. CASE \E d \in DeviceIds, h \in HealthStates, g \in Gens : setHealth(d, h, g)
      <4>1. UNCHANGED <<sources, resources>>
        BY <3>5 DEF setHealth
      <4> QED
        BY <4>1 DEF Authority!authorityVars, Holder, workerAlive, Attribution
    <3> QED
      BY <2>1, <3>1, <3>2, <3>3, <3>4, <3>5 DEF EvidenceStep, EvidenceNext
  <2>2. CASE Restart
    BY <1>2, <2>2, RestartRevokes DEF Authority!Next
  <2>3. CASE LedgerStep \/ save \/ saveTorn \/ UNCHANGED vars
    <3>1. UNCHANGED <<sources, resources>>
      BY <2>3 DEF LedgerStep, save, saveTorn, vars, evidenceVars
    <3> QED
      BY <3>1 DEF Authority!authorityVars, Holder, workerAlive, Attribution
  <2> QED
    BY <1>2, <2>1, <2>2, <2>3 DEF Next
<1>3. TypeOK /\ GenerationsAgree /\ [Next]_vars
        => [Authority!Next]_(Authority!authorityVars)
  BY <1>2
<1> QED
  BY <1>1, <1>3, TypeCorrect, GenerationsAlwaysAgree, PTL
     DEF Spec, ImplementsAuthority, Authority!Spec

-----------------------------------------------------------------------------
(* Save and load.  ReloadSpec lets load run on a model in use; what holds  *)
(* of it holds of Spec, whose steps are among its steps.                   *)

\* Loading over a used model only adds behaviours.
LEMMA SpecIsReloadSpec == Spec => ReloadSpec
<1>1. [Next]_vars => [ReloadNext]_vars
  BY DEF ReloadNext
<1> QED
  BY <1>1, PTL DEF Spec, ReloadSpec

-----------------------------------------------------------------------------
(* The tracker load leaves: a recursive function over the file.            *)

\* f is the recursive function of TrackerAfter up to N.
IsTrackerFold(f, tracker, rsv, N) ==
    f = [n \in 0 .. N |-> IF n = 0 THEN tracker
                          ELSE advance(f[n - 1], rsv[n].id, rsv[n].gen)]

\* There is such a function.
LEMMA TrackerRecursion ==
    ASSUME NEW tracker, NEW rsv, NEW N \in Nat
    PROVE  \E f : IsTrackerFold(f, tracker, rsv, N)
<1> DEFINE Step(f, n) == IF n = 0 THEN tracker
                         ELSE advance(f[n - 1], rsv[n].id, rsv[n].gen)
           T == {m \in Nat : \E f : f = [n \in 0 .. m |-> Step(f, n)]}
<1>1. 0 \in T
  <2> DEFINE f == [n \in 0 .. 0 |-> tracker]
  <2>1. f = [n \in 0 .. 0 |-> Step(f, n)]
    OBVIOUS
  <2> QED
    BY <2>1
<1>2. ASSUME NEW m \in Nat, m \in T
      PROVE  m + 1 \in T
  <2>1. PICK f : f = [n \in 0 .. m |-> Step(f, n)]
    BY <1>2
  <2> DEFINE last == advance(f[m], rsv[m + 1].id, rsv[m + 1].gen)
             g == [n \in 0 .. m + 1 |-> IF n = m + 1 THEN last ELSE f[n]]
  <2>2. ASSUME NEW n \in 0 .. m + 1
        PROVE  g[n] = Step(g, n)
    <3>1. CASE n = m + 1
      <4>1. g[n - 1] = f[m] /\ n # 0 /\ g[n] = last
        BY <3>1
      <4> HIDE DEF g
      <4> QED
        BY <3>1, <4>1
    <3>2. CASE n \in 0 .. m /\ n # 0
      <4>1. g[n] = f[n] /\ n - 1 \in 0 .. m /\ g[n - 1] = f[n - 1]
        BY <3>2
      <4>2. f[n] = Step(f, n)
        BY <2>1, <3>2
      <4> HIDE DEF g
      <4> QED
        BY <3>2, <4>1, <4>2
    <3>3. CASE n = 0
      <4>1. g[0] = f[0] /\ f[0] = tracker
        BY <2>1
      <4> HIDE DEF g
      <4> QED
        BY <3>3, <4>1
    <3> QED
      BY <3>1, <3>2, <3>3
  <2>3. g = [n \in 0 .. m + 1 |-> Step(g, n)]
    <3>1. g = [n \in 0 .. m + 1 |-> g[n]]
      OBVIOUS
    <3> HIDE DEF g, Step
    <3> QED
      BY <2>2, <3>1
  <2>4. \E h : h = [n \in 0 .. m + 1 |-> Step(h, n)]
    <3> HIDE DEF g, Step
    <3> QED
      BY <2>3
  <2> QED
    BY <2>4
<1>3. N \in T
  <2> HIDE DEF T
  <2> QED
    BY <1>1, <1>2, NatSetInduction
<1> QED
  BY <1>3 DEF IsTrackerFold

\* What TrackerAfter computes for a vector of distinct ids: one advance for each id
\* that occurs, and nothing for the others.
LEMMA TrackerAfterIs ==
    ASSUME NEW tracker \in [ReservationIds -> Nat], NEW rsv \in Seq(Reservation),
           DistinctIds(rsv)
    PROVE  /\ TrackerAfter(tracker, rsv) \in [ReservationIds -> Nat]
           /\ \A i \in 1 .. Len(rsv) :
                 TrackerAfter(tracker, rsv)[rsv[i].id]
                   = advance(tracker, rsv[i].id, rsv[i].gen)[rsv[i].id]
           /\ \A id \in ReservationIds :
                 (\A i \in 1 .. Len(rsv) : rsv[i].id # id) =>
                     TrackerAfter(tracker, rsv)[id] = tracker[id]
<1> DEFINE Step(f, n) == IF n = 0 THEN tracker
                         ELSE advance(f[n - 1], rsv[n].id, rsv[n].gen)
           after == CHOOSE f : IsTrackerFold(f, tracker, rsv, Len(rsv))
<1>0. Len(rsv) \in Nat
  BY LenProperties
<1>1. TrackerAfter(tracker, rsv) = after[Len(rsv)]
  BY DEF TrackerAfter, IsTrackerFold
<1>2. after = [n \in 0 .. Len(rsv) |-> Step(after, n)]
  <2>1. IsTrackerFold(after, tracker, rsv, Len(rsv))
    BY <1>0, TrackerRecursion
  <2> QED
    BY <2>1 DEF IsTrackerFold
<1> HIDE DEF after
<1>3. ASSUME NEW i \in 1 .. Len(rsv)
      PROVE  rsv[i].id \in ReservationIds /\ rsv[i].gen \in Nat
  <2>1. rsv[i] \in Reservation
    BY ElementOfSeq
  <2> QED
    BY <2>1 DEF Reservation
<1> DEFINE Good(n) == /\ after[n] \in [ReservationIds -> Nat]
                      /\ \A i \in 1 .. n : after[n][rsv[i].id]
                             = advance(tracker, rsv[i].id, rsv[i].gen)[rsv[i].id]
                      /\ \A id \in ReservationIds :
                            (\A i \in 1 .. n : rsv[i].id # id) => after[n][id] = tracker[id]
           T == {n \in Nat : n <= Len(rsv) => Good(n)}
<1>4. 0 \in T
  <2>1. after[0] = tracker
    BY <1>0, <1>2
  <2> QED
    BY <2>1
<1>5. ASSUME NEW n \in Nat, n \in T
      PROVE  n + 1 \in T
  <2> HIDE DEF Good
  <2> SUFFICES ASSUME n + 1 <= Len(rsv)
               PROVE  Good(n + 1)
    OBVIOUS
  <2> DEFINE id1 == rsv[n + 1].id
             gen1 == rsv[n + 1].gen
  <2>1. Good(n) /\ n + 1 \in 1 .. Len(rsv)
    BY <1>0, <1>5
  <2> USE DEF Good
  <2>2. after[n + 1] = advance(after[n], id1, gen1)
    BY <1>0, <1>2, <2>1
  <2>3. id1 \in ReservationIds /\ gen1 \in Nat
    BY <1>3, <2>1
  <2>4. \A i \in 1 .. n : rsv[i].id \in ReservationIds /\ rsv[i].id # id1
    BY <1>0, <1>3, <2>1 DEF DistinctIds
  <2>5. after[n][id1] = tracker[id1]
    BY <2>1, <2>3, <2>4
  <2> HIDE DEF id1, gen1
  <2>6. /\ after[n + 1] \in [ReservationIds -> Nat]
        /\ \A x \in ReservationIds : x # id1 => after[n + 1][x] = after[n][x]
    <3>1. after[n] \in [ReservationIds -> Nat]
      BY <2>1
    <3> HIDE DEF Good
    <3> QED
      BY <2>2, <2>3, <3>1 DEF advance
  <2>7. after[n + 1][id1] = advance(tracker, id1, gen1)[id1]
    BY <2>1, <2>2, <2>3, <2>5 DEF advance
  <2>8. ASSUME NEW i \in 1 .. n + 1
        PROVE  after[n + 1][rsv[i].id] = advance(tracker, rsv[i].id, rsv[i].gen)[rsv[i].id]
    <3>1. CASE i = n + 1
      BY <2>7, <3>1 DEF id1, gen1
    <3>2. CASE i \in 1 .. n
      BY <2>1, <2>4, <2>6, <3>2
    <3> QED
      BY <3>1, <3>2
  <2>9. ASSUME NEW x \in ReservationIds, \A i \in 1 .. n + 1 : rsv[i].id # x
        PROVE  after[n + 1][x] = tracker[x]
    <3>1. x # id1 /\ \A i \in 1 .. n : rsv[i].id # x
      BY <2>9 DEF id1
    <3> QED
      BY <2>1, <2>6, <3>1
  <2> QED
    BY <2>6, <2>8, <2>9
<1>6. Len(rsv) \in T
  <2> HIDE DEF T
  <2> QED
    BY <1>0, <1>4, <1>5, NatSetInduction
<1>7. Good(Len(rsv))
  BY <1>0, <1>6
<1> HIDE DEF Step
<1> QED
  BY <1>1, <1>7

-----------------------------------------------------------------------------
(* A reload.                                                               *)

\* Either outcome of load on a used model: the resources of the file, its first n
\* reservations, and nothing of what fences them lost.
Reloaded(n) ==
    /\ disk.state = "intact"
    /\ n \in 0 .. Len(disk.image.reservations)
    /\ resources' = RestoredResources(disk.image)
    /\ reservations' = RestoredReservations(disk.image, n)
    /\ reservationGen' = TrackerAfter(reservationGen, reservations')
    /\ UNCHANGED <<sources, resourceGen, devices, healthGen, demands, topologyGen,
                   topoGen, links, disk>>
    /\ \/ /\ releases' = RestoredReleases(disk.image)
          /\ forecastHistory' = RestoredHistory(disk.image)
          /\ recovered' = TRUE
       \/ UNCHANGED <<releases, forecastHistory, recovered>>

LEMMA ReloadEffect ==
    ASSUME TypeOK, reload \/ reloadPartly
    PROVE  \E n \in Nat : Reloaded(n)
<1>1. disk.state = "intact" /\ Len(disk.image.reservations) \in Nat
  BY LenProperties DEF reload, reloadPartly, ReloadedResources, TypeOK, FileOK
<1>2. CASE reload
  <2>1. Reloaded(Len(disk.image.reservations))
    BY <1>1, <1>2 DEF reload, ReloadedResources, ReloadedReservations, Reloaded
  <2> QED
    BY <1>1, <2>1
<1>3. CASE reloadPartly
  <2>1. PICK n \in 0 .. Len(disk.image.reservations) - 1 : ReloadedReservations(n)
    BY <1>3 DEF reloadPartly
  <2>2. n \in Nat /\ n \in 0 .. Len(disk.image.reservations)
    BY <1>1
  <2>3. Reloaded(n)
    BY <1>3, <2>1, <2>2 DEF reloadPartly, ReloadedResources, ReloadedReservations, Reloaded
  <2> QED
    BY <2>2, <2>3
<1> QED
  BY <1>2, <1>3

\* What a reload leaves in the ledger: typed entries of distinct ids, each advanced
\* into the tracker once.
LEMMA ReloadedLedger ==
    ASSUME TypeOK, FileLedger, NEW n \in Nat, Reloaded(n)
    PROVE  /\ reservations' \in Seq(Reservation)
           /\ DistinctIds(reservations')
           /\ reservationGen' \in [ReservationIds -> Nat]
           /\ \A i \in 1 .. Len(reservations') :
                 reservationGen'[reservations'[i].id]
                   = advance(reservationGen, reservations'[i].id,
                             reservations'[i].gen)[reservations'[i].id]
           /\ \A id \in ReservationIds :
                 (\A i \in 1 .. Len(reservations') : reservations'[i].id # id) =>
                     reservationGen'[id] = reservationGen[id]
<1>1. FileOK(disk.image) /\ n \in 0 .. Len(disk.image.reservations)
  BY DEF Reloaded, TypeOK
<1>2. /\ reservations' \in Seq(Reservation)
      /\ Len(reservations') = n
      /\ \A i \in 1 .. n : reservations'[i].id = disk.image.reservations[i].id
  BY <1>1, RestoredReservationTypes DEF Reloaded
<1>3. Len(disk.image.reservations) \in Nat
  BY <1>1, LenProperties DEF FileOK
<1>4. DistinctIds(reservations')
  BY <1>1, <1>2, <1>3 DEF Reloaded, FileLedger, DistinctIds
<1>5. reservationGen \in [ReservationIds -> Nat]
  BY DEF TypeOK, LedgerTypeOK
<1>6. reservationGen' = TrackerAfter(reservationGen, reservations')
  BY DEF Reloaded
<1> QED
  BY <1>2, <1>4, <1>5, <1>6, TrackerAfterIs

\* A reload keeps the types.
LEMMA ReloadTypes ==
    ASSUME TypeOK, FileLedger, NEW n \in Nat, Reloaded(n)
    PROVE  TypeOK'
<1>1. FileOK(disk.image)
  BY DEF Reloaded, TypeOK
<1>2. EvidenceTypeOK'
  <2>1. /\ DOMAIN resources' \subseteq ResourceIds
        /\ \A r \in DOMAIN resources' : resources'[r] \in ResourceRecord
    BY <1>1, RestoredResourceTypes DEF Reloaded
  <2> QED
    BY <2>1 DEF Reloaded, TypeOK, EvidenceTypeOK
<1>3. /\ releases' \in Seq(ReleaseEvent)
      /\ forecastHistory' \in Seq(Forecast)
      /\ recovered' \in BOOLEAN
  BY <1>1, RestoredForecastTypes DEF Reloaded, TypeOK, LedgerTypeOK
<1>4. LedgerTypeOK'
  BY <1>3, ReloadedLedger DEF Reloaded, TypeOK, LedgerTypeOK
<1> QED
  BY <1>2, <1>3, <1>4 DEF Reloaded, TypeOK

-----------------------------------------------------------------------------
(* The ledger stays within its fences.                                     *)

\* LedgerWithinFence of any vector and tracker.
Within(s, tracker) ==
    /\ DistinctIds(s)
    /\ \A i \in 1 .. Len(s) : s[i].gen <= tracker[s[i].id]

\* Publishing keeps a vector within its fences.
LEMMA PublishKeepsWithin ==
    ASSUME NEW s \in Seq(Reservation), NEW tracker \in [ReservationIds -> Nat],
           NEW res \in Reservation, Within(s, tracker), ~Stale(tracker[res.id], res.gen)
    PROVE  Within(Append(Erase(s, ReservationIndex(s, res.id)), res),
                  advance(tracker, res.id, res.gen))
<1> DEFINE e == Erase(s, ReservationIndex(s, res.id))
           t == Append(e, res)
           after == advance(tracker, res.id, res.gen)
<1>1. res.id \in ReservationIds /\ res.gen \in Nat
  BY DEF Reservation
<1>2. /\ after[res.id] = res.gen
      /\ \A x \in ReservationIds : x # res.id => after[x] = tracker[x]
  BY <1>1 DEF advance, Stale
<1>3. /\ e \in Seq(Reservation)
      /\ DistinctIds(e)
      /\ \A j \in 1 .. Len(e) : e[j].id # res.id /\ \E i \in 1 .. Len(s) : e[j] = s[i]
  BY EraseId DEF Within
<1> HIDE DEF e, after
<1>4. /\ Len(e) \in Nat
      /\ Len(t) = Len(e) + 1
      /\ \A i \in 1 .. Len(e) : t[i] = e[i]
      /\ t[Len(e) + 1] = res
  BY <1>3, AppendProperties, LenProperties
<1> HIDE DEF t
<1>5. DistinctIds(t)
  <2> SUFFICES ASSUME NEW i \in 1 .. Len(t), NEW j \in 1 .. Len(t), t[i].id = t[j].id
               PROVE  i = j
    BY DEF DistinctIds
  <2>1. /\ i \in 1 .. Len(e) \/ i = Len(e) + 1
        /\ j \in 1 .. Len(e) \/ j = Len(e) + 1
    BY <1>4
  <2>2. \A k \in 1 .. Len(e) : t[k].id # t[Len(e) + 1].id
    BY <1>3, <1>4
  <2>3. CASE i \in 1 .. Len(e) /\ j \in 1 .. Len(e)
    BY <1>3, <1>4, <2>3 DEF DistinctIds
  <2> QED
    BY <2>1, <2>2, <2>3
<1>6. ASSUME NEW i \in 1 .. Len(t)
      PROVE  t[i].gen <= after[t[i].id]
  <2>1. CASE i = Len(e) + 1
    BY <1>1, <1>2, <1>4, <2>1
  <2>2. CASE i \in 1 .. Len(e)
    <3>1. PICK j \in 1 .. Len(s) : e[i] = s[j]
      BY <1>3, <2>2
    <3>2. s[j].id \in ReservationIds
      <4>1. s[j] \in Reservation
        BY ElementOfSeq
      <4> QED
        BY <4>1 DEF Reservation
    <3>3. t[i] = s[j] /\ s[j].id # res.id
      BY <1>3, <1>4, <2>2, <3>1
    <3> QED
      BY <1>2, <3>2, <3>3 DEF Within
  <2> QED
    BY <1>4, <2>1, <2>2
<1>7. Within(t, after)
  BY <1>5, <1>6 DEF Within
<1> QED
  BY <1>7 DEF t, e, after

\* A reload leaves a vector within its fences, whatever generations it met.
LEMMA ReloadKeepsWithin ==
    ASSUME TypeOK, FileLedger, NEW n \in Nat, Reloaded(n)
    PROVE  Within(reservations', reservationGen')
<1>1. ASSUME NEW i \in 1 .. Len(reservations')
      PROVE  reservations'[i].gen <= reservationGen'[reservations'[i].id]
  <2> DEFINE id == reservations'[i].id
             gen == reservations'[i].gen
  <2>1. reservations'[i] \in Reservation
    BY ReloadedLedger, ElementOfSeq
  <2>2. id \in ReservationIds /\ gen \in Nat
    BY <2>1 DEF Reservation
  <2>3. reservationGen'[id] = advance(reservationGen, id, gen)[id]
    BY ReloadedLedger
  <2>4. reservationGen \in [ReservationIds -> Nat]
    BY DEF TypeOK, LedgerTypeOK
  <2> HIDE DEF id, gen
  <2>5. gen <= reservationGen'[id]
    BY <2>2, <2>3, <2>4 DEF advance, Stale
  <2> QED
    BY <2>5 DEF id, gen
<1> QED
  BY <1>1, ReloadedLedger DEF Within

\* A restart too: it starts with tracker and vector in step.
LEMMA RestartWithin ==
    ASSUME TypeOK, FileLedger, Restart
    PROVE  Within(reservations', reservationGen')
<1>1. InStep(reservations', reservationGen') /\ TypeOK'
  BY RestartInStep, RestartTypes
<1>2. \A i \in 1 .. Len(reservations') : reservations'[i].gen \in Nat
  <2>1. \A i \in 1 .. Len(reservations') : reservations'[i] \in Reservation
    BY <1>1, ElementOfSeq DEF TypeOK, LedgerTypeOK
  <2> QED
    BY <2>1 DEF Reservation
<1> QED
  BY <1>1, <1>2 DEF InStep, Within

\* The inductive invariant of the ledger, over saves, restarts and reloads.
LedgerInvariant ==
    /\ TypeOK
    /\ LedgerWithinFence
    /\ FileLedger

\* Every step that changes the reservations keeps them within their fences.
LEMMA WithinStep ==
    ASSUME LedgerInvariant, [ReloadNext]_vars
    PROVE  LedgerWithinFence'
<1>1. TypeOK /\ FileLedger /\ Within(reservations, reservationGen)
  BY DEF LedgerInvariant, LedgerWithinFence, Within, DistinctIds
<1>2. Within(reservations', reservationGen') => LedgerWithinFence'
  BY DEF LedgerWithinFence, Within, DistinctIds
<1>3. CASE UNCHANGED <<reservations, reservationGen>>
  BY <1>1, <1>2, <1>3
<1>4. CASE ReservationNext
  <2>1. PICK id \in ReservationIds, g \in FactGens, v \in Intervals, h \in Holds,
             st \in Strengths :
          publishReservation([id |-> id, gen |-> g, interval |-> v, hold |-> h,
                              strength |-> st])
    BY <1>4 DEF ReservationNext
  <2> DEFINE res == [id |-> id, gen |-> g, interval |-> v, hold |-> h, strength |-> st]
  <2>2. res \in Reservation
    BY FactBounds, FactAmounts DEF Reservation
  <2>3. publishReservation(res)
    BY <2>1
  <2> HIDE DEF res
  <2>4. /\ ~Stale(reservationGen[res.id], res.gen)
        /\ reservationGen' = advance(reservationGen, res.id, res.gen)
        /\ reservations'
             = Append(Erase(reservations, ReservationIndex(reservations, res.id)), res)
    BY <2>3 DEF publishReservation
  <2>5. reservations \in Seq(Reservation) /\ reservationGen \in [ReservationIds -> Nat]
    BY <1>1 DEF TypeOK, LedgerTypeOK
  <2> QED
    BY <1>1, <1>2, <2>2, <2>4, <2>5, PublishKeepsWithin
<1>5. CASE Restart
  BY <1>1, <1>2, <1>5, RestartWithin
<1>6. CASE reload \/ reloadPartly
  BY <1>1, <1>2, <1>6, ReloadEffect, ReloadKeepsWithin
<1>7. CASE EvidenceStep \/ save \/ saveTorn \/ UNCHANGED vars
  BY <1>3, <1>7 DEF EvidenceStep, save, saveTorn, vars, ledgerVars
<1>8. CASE LedgerStep
  <2>1. CASE ReleaseNext \/ ProfileNext \/ HistoryNext
    BY <1>3, <2>1
       DEF ReleaseNext, ProfileNext, HistoryNext, publishRelease, registerDemand,
           registerTopology, recordForecast, recordObserved
  <2> QED
    BY <1>4, <1>8, <2>1 DEF LedgerStep, LedgerNext
<1> QED
  BY <1>5, <1>6, <1>7, <1>8 DEF ReloadNext, Next

\* save writes a vector of distinct ids, and nothing else writes the file.
LEMMA FileLedgerStep ==
    ASSUME LedgerInvariant, [ReloadNext]_vars
    PROVE  FileLedger'
<1>1. CASE UNCHANGED disk
  BY <1>1 DEF LedgerInvariant, FileLedger
<1>2. CASE save
  <2>1. disk'.image.reservations
          = [i \in 1 .. Len(reservations) |-> ReservationImage(reservations[i])]
    BY <1>2 DEF save, Image
  <2>2. Len(reservations) \in Nat
    BY LenProperties DEF LedgerInvariant, TypeOK, LedgerTypeOK
  <2>3. Len(disk'.image.reservations) = Len(reservations)
    BY <2>1, <2>2
  <2>4. \A i \in 1 .. Len(reservations) :
           disk'.image.reservations[i].id = reservations[i].id
    BY <2>1 DEF ReservationImage
  <2> QED
    BY <2>3, <2>4 DEF FileLedger, LedgerInvariant, LedgerWithinFence
<1>3. CASE saveTorn
  BY <1>3 DEF saveTorn, TornFile, FileLedger
<1>4. CASE Restart
  BY <1>1, <1>4 DEF Restart, restartEmpty, restartLoad, restartPartialLoad, FreshProcess
<1>5. CASE reload \/ reloadPartly
  BY <1>1, <1>5 DEF reload, reloadPartly, ReloadedResources
<1> QED
  BY <1>1, <1>2, <1>3, <1>4, <1>5 DEF ReloadNext, Next, EvidenceStep, LedgerStep, vars

\* The types, under reloads too.
LEMMA ReloadTypeStep ==
    ASSUME LedgerInvariant, [ReloadNext]_vars
    PROVE  TypeOK'
<1>1. CASE [Next]_vars
  BY <1>1, TypeStep DEF LedgerInvariant
<1>2. CASE reload \/ reloadPartly
  BY <1>2, ReloadEffect, ReloadTypes DEF LedgerInvariant
<1> QED
  BY <1>1, <1>2 DEF ReloadNext

LEMMA LedgerInvariantHolds == ReloadSpec => []LedgerInvariant
<1>1. Init => LedgerInvariant
  <2>1. Init => TypeOK
    BY InitTypes
  <2>2. Init => LedgerWithinFence /\ FileLedger
    BY DEF Init, LedgerInit, NoFile, LedgerWithinFence, FileLedger
  <2> QED
    BY <2>1, <2>2 DEF LedgerInvariant
<1>2. LedgerInvariant /\ [ReloadNext]_vars => LedgerInvariant'
  BY WithinStep, FileLedgerStep, ReloadTypeStep DEF LedgerInvariant
<1> QED
  BY <1>1, <1>2, PTL DEF ReloadSpec

\* Whatever is loaded over whatever state, the model and the file have their types
\* (src/model/model.cpp, load on a model in use).
THEOREM TypeCorrectUnderReload == ReloadSpec => []TypeOK
<1>1. LedgerInvariant => TypeOK
  BY DEF LedgerInvariant
<1> QED
  BY <1>1, LedgerInvariantHolds, PTL

\* Whatever is loaded over whatever state, the vector holds each reservation once and
\* none newer than its fence (src/model/model.cpp, load and publishReservation).
THEOREM LedgerStaysWithinFence == ReloadSpec => []LedgerWithinFence
<1>1. LedgerInvariant => LedgerWithinFence
  BY DEF LedgerInvariant
<1> QED
  BY <1>1, LedgerInvariantHolds, PTL

-----------------------------------------------------------------------------
(* Evidence and fences under reloads.                                      *)

\* A record some incarnation published stands at its fence.
PublishedAtFence ==
    \A r \in DOMAIN resources : ~Orphan(r) => resources[r].gen = resourceGen[r]

LEMMA PublishedAtFenceStep ==
    ASSUME TypeOK, PublishedAtFence, [ReloadNext]_vars
    PROVE  PublishedAtFence'
<1>1. CASE UNCHANGED <<resources, resourceGen>>
  BY <1>1 DEF PublishedAtFence, Orphan
<1>2. CASE EvidenceStep
  <2>1. ASSUME NEW r \in ResourceIds, NEW w \in Workers, NEW b \in Boots, NEW g \in Gens,
               NEW p \in Reports, publishResource(r, w, b, g, p)
        PROVE  PublishedAtFence'
    <3>1. Published(r, w, b, g, p)
      BY <2>1, PublishEffect
    <3> QED
      BY <3>1 DEF Published, PublishedAtFence, Orphan, TypeOK, EvidenceTypeOK
  <2>2. ASSUME NEW r \in ResourceIds, advanceResourceGeneration(r)
        PROVE  PublishedAtFence'
    <3>1. Renewed(r)
      BY <2>2, RenewEffect
    <3> QED
      BY <3>1 DEF Renewed, PublishedAtFence, Orphan, TypeOK, EvidenceTypeOK
  <2>3. CASE \/ \E w \in Workers, b \in Boots : registerWorker(w, b)
             \/ \E w \in Workers : markWorkerDead(w)
             \/ \E d \in DeviceIds, h \in HealthStates, g \in Gens : setHealth(d, h, g)
    BY <1>1, <2>3 DEF registerWorker, markWorkerDead, setHealth
  <2> QED
    BY <1>2, <2>1, <2>2, <2>3 DEF EvidenceStep, EvidenceNext
<1>3. CASE LedgerStep \/ save \/ saveTorn \/ UNCHANGED vars
  BY <1>1, <1>3 DEF LedgerStep, save, saveTorn, vars, evidenceVars
<1>4. CASE Restart
  BY <1>4, RestartUnfences DEF PublishedAtFence, Orphan
<1>5. CASE reload \/ reloadPartly
  <2>1. FileOK(disk.image) /\ resources' = RestoredResources(disk.image)
    BY <1>5 DEF reload, reloadPartly, ReloadedResources, TypeOK
  <2> QED
    BY <2>1, RestoredResourceTypes DEF PublishedAtFence, Orphan
<1> QED
  BY <1>2, <1>3, <1>4, <1>5 DEF ReloadNext, Next

\* Whatever is loaded over whatever state, current evidence stands at its fence: a
\* record that comes back from a file counts as no live incarnation's
\* (src/model/model.cpp, load, publishResource and buildView).
THEOREM CurrentStandsAtFence == ReloadSpec => []CurrentAtFence
<1>1. Init => PublishedAtFence
  BY DEF Init, EvidenceInit, PublishedAtFence
<1>2. TypeOK /\ PublishedAtFence /\ [ReloadNext]_vars => PublishedAtFence'
  BY PublishedAtFenceStep
<1>3. TypeOK /\ PublishedAtFence => CurrentAtFence
  BY InvalidIds DEF TypeOK, EvidenceTypeOK, PublishedAtFence, CurrentAtFence, CurrentResources,
     Current, isFreshBoot, workerAlive, Orphan
<1> QED
  BY <1>1, <1>2, <1>3, TypeCorrectUnderReload, PTL DEF ReloadSpec

\* What FencesKept asks of a step within one process.
FencesRise ==
    /\ \A r \in ResourceIds : resourceGen'[r] >= resourceGen[r]
    /\ \A d \in DeviceIds : healthGen'[d] >= healthGen[d]
    /\ topologyGen' >= topologyGen
    /\ \A id \in ReservationIds :
          \/ reservationGen'[id] >= reservationGen[id]
          \/ \E i \in 1 .. Len(reservations') :
                reservations'[i].id = id /\ reservations'[i].gen = 0

\* A publication that is not stale never lowers a tracker.
LEMMA AdvanceRises ==
    ASSUME NEW I, NEW tracker \in [I -> Nat], NEW id \in I, NEW next \in Nat,
           ~Stale(tracker[id], next)
    PROVE  \A x \in I : advance(tracker, id, next)[x] >= tracker[x]
BY DEF advance, Stale

\* The evidence operations raise the trackers of resources and of health.
LEMMA EvidenceFencesRise ==
    ASSUME TypeOK, EvidenceNext
    PROVE  /\ \A r \in ResourceIds : resourceGen'[r] >= resourceGen[r]
           /\ \A d \in DeviceIds : healthGen'[d] >= healthGen[d]
<1>0. /\ resourceGen \in [ResourceIds -> Nat] /\ healthGen \in [DeviceIds -> Nat]
      /\ \A g \in Gens : g \in Nat
  BY MaxGenNat DEF TypeOK, EvidenceTypeOK, Gens
<1>1. CASE \/ \E w \in Workers, b \in Boots : registerWorker(w, b)
           \/ \E w \in Workers : markWorkerDead(w)
  <2>1. UNCHANGED <<resourceGen, healthGen>>
    BY <1>1 DEF registerWorker, markWorkerDead
  <2> QED
    BY <1>0, <2>1
<1>2. ASSUME NEW r \in ResourceIds, NEW w \in Workers, NEW b \in Boots, NEW g \in Gens,
             NEW p \in Reports, publishResource(r, w, b, g, p)
      PROVE  /\ \A x \in ResourceIds : resourceGen'[x] >= resourceGen[x]
             /\ \A d \in DeviceIds : healthGen'[d] >= healthGen[d]
  BY <1>0, <1>2, AdvanceRises DEF publishResource, Publishable
<1>3. ASSUME NEW r \in ResourceIds, advanceResourceGeneration(r)
      PROVE  /\ \A x \in ResourceIds : resourceGen'[x] >= resourceGen[x]
             /\ \A d \in DeviceIds : healthGen'[d] >= healthGen[d]
  <2>1. Renewed(r)
    BY <1>3, RenewEffect
  <2> QED
    BY <1>0, <1>3, <2>1 DEF Renewed, advanceResourceGeneration
<1>4. ASSUME NEW d \in DeviceIds, NEW h \in HealthStates, NEW g \in Gens, setHealth(d, h, g)
      PROVE  /\ \A x \in ResourceIds : resourceGen'[x] >= resourceGen[x]
             /\ \A x \in DeviceIds : healthGen'[x] >= healthGen[x]
  BY <1>0, <1>4, AdvanceRises DEF setHealth
<1> QED
  BY <1>1, <1>2, <1>3, <1>4 DEF EvidenceNext

\* The ledger operations raise the trackers of reservations and of the topology.
LEMMA LedgerFencesRise ==
    ASSUME TypeOK, LedgerNext
    PROVE  /\ topologyGen' >= topologyGen
           /\ \A id \in ReservationIds : reservationGen'[id] >= reservationGen[id]
<1>0. /\ reservationGen \in [ReservationIds -> Nat] /\ topologyGen \in Nat
      /\ \A g \in FactGens : g \in Nat
  BY FactBounds DEF TypeOK, LedgerTypeOK
<1>1. CASE ReservationNext
  <2>1. PICK id \in ReservationIds, g \in FactGens :
          /\ ~Stale(reservationGen[id], g)
          /\ reservationGen' = advance(reservationGen, id, g)
          /\ topologyGen' = topologyGen
    BY <1>1 DEF ReservationNext, publishReservation
  <2> QED
    BY <1>0, <2>1, AdvanceRises
<1>2. CASE ProfileNext
  <2>1. /\ UNCHANGED reservationGen
        /\ \/ UNCHANGED topologyGen
           \/ \E g \in FactGens : ~Stale(topologyGen, g) /\ topologyGen' = g
    BY <1>2 DEF ProfileNext, registerDemand, registerTopology
  <2> QED
    BY <1>0, <2>1 DEF Stale
<1>3. CASE ReleaseNext \/ HistoryNext
  <2>1. UNCHANGED <<reservationGen, topologyGen>>
    BY <1>3 DEF ReleaseNext, HistoryNext, publishRelease, recordForecast, recordObserved
  <2> QED
    BY <1>0, <2>1
<1> QED
  BY <1>1, <1>2, <1>3 DEF LedgerNext

\* Within one process no fence falls, whatever is loaded, except over a reservation
\* saved with the invalid generation (src/model/model.cpp, load, and
\* GenerationTracker::advance).
THEOREM FencesNeverFall == ReloadSpec => FencesKept
<1>1. ASSUME LedgerInvariant, [ReloadNext]_vars
      PROVE  [Restart \/ FencesRise]_vars
  <2> SUFFICES ASSUME ReloadNext, ~Restart
               PROVE  FencesRise
    BY <1>1
  <2>0. /\ TypeOK /\ FileLedger
        /\ resourceGen \in [ResourceIds -> Nat] /\ healthGen \in [DeviceIds -> Nat]
        /\ topologyGen \in Nat /\ reservationGen \in [ReservationIds -> Nat]
    BY <1>1 DEF LedgerInvariant, TypeOK, EvidenceTypeOK, LedgerTypeOK
  <2>1. CASE EvidenceStep
    BY <2>0, <2>1, EvidenceFencesRise DEF EvidenceStep, ledgerVars, FencesRise
  <2>2. CASE LedgerStep
    BY <2>0, <2>2, LedgerFencesRise DEF LedgerStep, evidenceVars, FencesRise
  <2>3. CASE save \/ saveTorn
    BY <2>0, <2>3 DEF save, saveTorn, evidenceVars, ledgerVars, FencesRise
  <2>4. CASE reload \/ reloadPartly
    <3>1. PICK n \in Nat : Reloaded(n)
      BY <2>0, <2>4, ReloadEffect
    <3>2. ASSUME NEW id \in ReservationIds
          PROVE  \/ reservationGen'[id] >= reservationGen[id]
                 \/ \E i \in 1 .. Len(reservations') :
                       reservations'[i].id = id /\ reservations'[i].gen = 0
      <4>1. CASE \A i \in 1 .. Len(reservations') : reservations'[i].id # id
        <5>1. reservationGen'[id] = reservationGen[id]
          BY <2>0, <3>1, <4>1, ReloadedLedger
        <5> QED
          BY <2>0, <5>1
      <4>2. ASSUME NEW i \in 1 .. Len(reservations'), reservations'[i].id = id,
                   reservations'[i].gen # 0
            PROVE  reservationGen'[id] >= reservationGen[id]
        <5> DEFINE gen == reservations'[i].gen
        <5>1. reservations'[i] \in Reservation
          BY <2>0, <3>1, ReloadedLedger, ElementOfSeq
        <5>2. gen \in Nat /\ gen # 0
          BY <4>2, <5>1 DEF Reservation
        <5>3. reservationGen'[id] = advance(reservationGen, id, gen)[id]
          BY <2>0, <3>1, <4>2, ReloadedLedger
        <5> HIDE DEF gen
        <5> QED
          BY <2>0, <5>2, <5>3 DEF advance, Stale
      <4> QED
        BY <4>1, <4>2
    <3> QED
      BY <2>0, <3>1, <3>2 DEF Reloaded, FencesRise
  <2> QED
    BY <2>1, <2>2, <2>3, <2>4 DEF ReloadNext, Next
<1>2. LedgerInvariant /\ [ReloadNext]_vars => [Restart \/ FencesRise]_vars
  BY <1>1
<1> QED
  BY <1>2, LedgerInvariantHolds, PTL DEF ReloadSpec, FencesKept, FencesRise

-----------------------------------------------------------------------------
(* Expected releases.                                                      *)

\* Each forecast source occurs once.
DistinctSources(s) == \A i, j \in 1 .. Len(s) : s[i].src = s[j].src => i = j

\* The file too holds one release for each source.
FileReleases == disk.state = "intact" => DistinctSources(disk.image.releases)

\* Publishing a release leaves one entry for its source.
LEMMA PublishReleaseOnce ==
    ASSUME NEW s \in Seq(ReleaseEvent), DistinctSources(s), NEW rel \in ReleaseEvent
    PROVE  DistinctSources(Append(Erase(s, ReleaseIndex(s, rel.src)), rel))
<1> DEFINE k == ReleaseIndex(s, rel.src)
           e == Erase(s, k)
           t == Append(e, rel)
<1>0. Len(s) \in Nat
  BY LenProperties
<1>1. /\ e \in Seq(ReleaseEvent)
      /\ DistinctSources(e)
      /\ \A j \in 1 .. Len(e) : e[j].src # rel.src
  <2>1. CASE \E i \in 1 .. Len(s) : s[i].src = rel.src
    <3>1. k \in 1 .. Len(s) /\ s[k].src = rel.src
      BY <2>1 DEF ReleaseIndex
    <3>2. e = Without(s, k)
      BY <3>1 DEF Erase
    <3> HIDE DEF k
    <3>3. /\ e \in Seq(ReleaseEvent)
          /\ Len(e) = Len(s) - 1
          /\ \A j \in 1 .. Len(s) - 1 : e[j] = IF j < k THEN s[j] ELSE s[j + 1]
      BY <3>1, <3>2, WithoutIsSeq
    <3> HIDE DEF e
    <3>4. DistinctSources(e)
      BY <1>0, <3>1, <3>3 DEF DistinctSources
    <3>5. ASSUME NEW j \in 1 .. Len(e)
          PROVE  e[j].src # rel.src
      <4>1. CASE j < k
        <5>1. j \in 1 .. Len(s) /\ j # k /\ e[j] = s[j]
          BY <1>0, <3>1, <3>3, <4>1
        <5> QED
          BY <3>1, <5>1 DEF DistinctSources
      <4>2. CASE ~(j < k)
        <5>1. j + 1 \in 1 .. Len(s) /\ j + 1 # k /\ e[j] = s[j + 1]
          BY <1>0, <3>1, <3>3, <4>2
        <5> QED
          BY <3>1, <5>1 DEF DistinctSources
      <4> QED
        BY <4>1, <4>2
    <3> QED
      BY <3>3, <3>4, <3>5
  <2>2. CASE ~\E i \in 1 .. Len(s) : s[i].src = rel.src
    <3>1. k = 0
      BY <2>2 DEF ReleaseIndex
    <3>2. e = s
      BY <1>0, <3>1 DEF Erase
    <3> HIDE DEF e
    <3> QED
      BY <2>2, <3>2
  <2> QED
    BY <2>1, <2>2
<1> HIDE DEF e, k
<1>2. /\ Len(e) \in Nat
      /\ Len(t) = Len(e) + 1
      /\ \A i \in 1 .. Len(e) : t[i] = e[i]
      /\ t[Len(e) + 1] = rel
  BY <1>1, AppendProperties, LenProperties
<1> HIDE DEF t
<1>3. \A i \in 1 .. Len(e) : t[i].src # t[Len(e) + 1].src
  BY <1>1, <1>2
<1>4. ASSUME NEW i \in 1 .. Len(t), NEW j \in 1 .. Len(t), t[i].src = t[j].src
      PROVE  i = j
  <2>1. /\ i \in 1 .. Len(e) \/ i = Len(e) + 1
        /\ j \in 1 .. Len(e) \/ j = Len(e) + 1
    BY <1>2
  <2>2. CASE i \in 1 .. Len(e) /\ j \in 1 .. Len(e)
    BY <1>1, <1>2, <1>4, <2>2 DEF DistinctSources
  <2> QED
    BY <1>3, <1>4, <2>1, <2>2
<1>5. DistinctSources(t)
  BY <1>4 DEF DistinctSources
<1> QED
  BY <1>5 DEF t, e, k

\* What load restores of the releases has the sources of the file.
LEMMA RestoredSources ==
    ASSUME NEW image, FileOK(image), DistinctSources(image.releases)
    PROVE  DistinctSources(RestoredReleases(image))
<1>1. Len(image.releases) \in Nat
  BY LenProperties DEF FileOK
<1>2. /\ Len(RestoredReleases(image)) = Len(image.releases)
      /\ \A i \in 1 .. Len(image.releases) :
            RestoredReleases(image)[i].src = image.releases[i].src
  BY <1>1 DEF RestoredReleases, RestoredRelease
<1> QED
  BY <1>2 DEF DistinctSources

\* Saving writes the sources of the vector.
LEMMA SavedSources ==
    ASSUME TypeOK, DistinctSources(releases), save
    PROVE  FileReleases'
<1>1. disk'.image.releases = [i \in 1 .. Len(releases) |-> ReleaseImage(releases[i])]
  BY DEF save, Image
<1>2. Len(releases) \in Nat
  BY LenProperties DEF TypeOK, LedgerTypeOK
<1>3. /\ Len(disk'.image.releases) = Len(releases)
      /\ \A i \in 1 .. Len(releases) : disk'.image.releases[i].src = releases[i].src
  BY <1>1, <1>2 DEF ReleaseImage
<1> QED
  BY <1>3 DEF FileReleases, DistinctSources

\* One step keeps one release for each source, in memory and in the file.
LEMMA ReleaseStep ==
    ASSUME TypeOK, ReleaseLedger, FileReleases, [ReloadNext]_vars
    PROVE  ReleaseLedger' /\ FileReleases'
<1>1. ReleaseLedger <=> DistinctSources(releases)
  BY DEF ReleaseLedger, DistinctSources
<1>2. ReleaseLedger' <=> DistinctSources(releases')
  BY DEF ReleaseLedger, DistinctSources
<1>3. UNCHANGED disk => FileReleases'
  BY DEF FileReleases
<1>4. CASE UNCHANGED <<releases, disk>>
  BY <1>1, <1>2, <1>3, <1>4
<1>5. ASSUME releases' = <<>> \/ (disk.state = "intact" /\ releases' = RestoredReleases(disk.image))
      PROVE  DistinctSources(releases')
  <2>1. CASE releases' = <<>>
    BY <2>1 DEF DistinctSources
  <2>2. CASE disk.state = "intact" /\ releases' = RestoredReleases(disk.image)
    BY <2>2, RestoredSources DEF TypeOK, FileReleases
  <2> QED
    BY <1>5, <2>1, <2>2
<1>6. CASE LedgerStep
  <2>1. CASE ReleaseNext
    <3>1. PICK src \in ReleaseSources, at \in ReleaseTimes, c \in Credits :
            publishRelease([src |-> src, at |-> at, release |-> c])
      BY <2>1 DEF ReleaseNext
    <3> DEFINE rel == [src |-> src, at |-> at, release |-> c]
    <3>2. rel \in ReleaseEvent
      BY FactAmounts DEF ReleaseEvent
    <3>3. publishRelease(rel)
      BY <3>1
    <3> HIDE DEF rel
    <3>4. releases' = Append(Erase(releases, ReleaseIndex(releases, rel.src)), rel)
      BY <3>3 DEF publishRelease
    <3>5. releases \in Seq(ReleaseEvent)
      BY DEF TypeOK, LedgerTypeOK
    <3>6. DistinctSources(releases')
      BY <1>1, <3>2, <3>4, <3>5, PublishReleaseOnce
    <3> QED
      BY <1>2, <1>3, <1>6, <3>6 DEF LedgerStep
  <2>2. CASE ReservationNext \/ ProfileNext \/ HistoryNext
    <3>1. CASE ReservationNext
      BY <1>4, <1>6, <3>1 DEF LedgerStep, ReservationNext, publishReservation
    <3>2. CASE ProfileNext
      BY <1>4, <1>6, <3>2 DEF LedgerStep, ProfileNext, registerDemand, registerTopology
    <3>3. CASE HistoryNext
      BY <1>4, <1>6, <3>3 DEF LedgerStep, HistoryNext, recordForecast, recordObserved
    <3> QED
      BY <2>2, <3>1, <3>2, <3>3
  <2> QED
    BY <1>6, <2>1, <2>2 DEF LedgerStep, LedgerNext
<1>7. CASE EvidenceStep \/ UNCHANGED vars
  BY <1>4, <1>7 DEF EvidenceStep, ledgerVars, vars
<1>8. CASE save
  BY <1>1, <1>2, <1>8, SavedSources DEF save, ledgerVars
<1>9. CASE saveTorn
  BY <1>1, <1>2, <1>9 DEF saveTorn, TornFile, FileReleases, ledgerVars
<1>10. CASE Restart
  BY <1>2, <1>3, <1>5, <1>10
     DEF Restart, restartEmpty, restartLoad, restartPartialLoad, FreshProcess
<1>11. CASE reload
  BY <1>2, <1>3, <1>5, <1>11 DEF reload, ReloadedResources
<1>12. CASE reloadPartly
  BY <1>4, <1>12 DEF reloadPartly, ReloadedResources
<1> QED
  BY <1>6, <1>7, <1>8, <1>9, <1>10, <1>11, <1>12 DEF ReloadNext, Next

\* A source that revises its forecast is credited once, whatever was saved, restarted
\* or reloaded (src/model/model.cpp, publishRelease, save and load).
THEOREM ReleasedOncePerSource == ReloadSpec => []ReleaseLedger
<1>1. Init => ReleaseLedger /\ FileReleases
  BY DEF Init, LedgerInit, NoFile, ReleaseLedger, FileReleases
<1>2. TypeOK /\ (ReleaseLedger /\ FileReleases) /\ [ReloadNext]_vars
        => (ReleaseLedger /\ FileReleases)'
  BY ReleaseStep
<1> QED
  BY <1>1, <1>2, TypeCorrectUnderReload, PTL DEF ReloadSpec

\* The same without reloads, the specification of the coordinator's process.
COROLLARY ReleasesInStep == Spec => []ReleaseLedger
BY SpecIsReloadSpec, ReleasedOncePerSource, PTL

-----------------------------------------------------------------------------
(* What a save and a load give back.                                       *)

\* A tracker in step with a vector is the one load rebuilds from it.
LEMMA TrackerRebuilt ==
    ASSUME NEW s \in Seq(Reservation), NEW t, Len(t) = Len(s),
           \A i \in 1 .. Len(s) : t[i].id = s[i].id /\ t[i].gen = s[i].gen,
           NEW tracker \in [ReservationIds -> Nat], InStep(s, tracker)
    PROVE  RestoredTracker(t) = tracker
<1>0. Len(s) \in Nat
  BY LenProperties
<1>1. ASSUME NEW id \in ReservationIds
      PROVE  RestoredTracker(t)[id] = tracker[id]
  <2>1. CASE \E i \in 1 .. Len(s) : s[i].id = id
    <3> DEFINE i == ReservationIndex(t, id)
    <3>1. i \in 1 .. Len(s) /\ t[i].id = id
      BY <2>1 DEF ReservationIndex
    <3> HIDE DEF i
    <3>2. i # 0 /\ t[i].gen = s[i].gen /\ tracker[s[i].id] = s[i].gen /\ s[i].id = id
      BY <1>0, <3>1 DEF InStep
    <3>3. RestoredTracker(t)[id] = IF i = 0 THEN 0 ELSE t[i].gen
      BY DEF RestoredTracker, i
    <3> QED
      BY <3>2, <3>3
  <2>2. CASE ~\E i \in 1 .. Len(s) : s[i].id = id
    <3>1. ReservationIndex(t, id) = 0
      BY <2>2 DEF ReservationIndex
    <3>2. tracker[id] = 0
      BY <2>2 DEF InStep
    <3> QED
      BY <3>1, <3>2 DEF RestoredTracker
  <2> QED
    BY <2>1, <2>2
<1>2. RestoredTracker(t) = [id \in ReservationIds |-> RestoredTracker(t)[id]]
  BY DEF RestoredTracker
<1> HIDE DEF RestoredTracker
<1> QED
  BY <1>1, <1>2

\* In every reachable state a save and a load would give back every resource with its
\* generation, device and health, every reservation with its generation, interval and
\* strength, in order, the fences of the reservations, and a forecast for each
\* forecast (src/model/model.cpp, save and load).
THEOREM DurableStateSurvives == Spec => []SurvivesRestart
<1>1. ASSUME TypeOK, ReservationLedger
      PROVE  SurvivesRestart
  <2> DEFINE image == Image(resources, reservations, releases, forecastHistory)
             res == RestoredResources(image)
             rsv == RestoredReservations(image, Len(image.reservations))
             hist == RestoredHistory(image)
  <2>1. /\ DOMAIN res = DOMAIN resources
        /\ \A r \in DOMAIN res :
              /\ res[r].gen = resources[r].gen
              /\ res[r].report.device = resources[r].report.device
              /\ res[r].report.health = resources[r].report.health
    BY DEF Image, RestoredResources, RestoredResource, ResourceImage
  <2>2. /\ reservations \in Seq(Reservation) /\ Len(reservations) \in Nat
        /\ reservationGen \in [ReservationIds -> Nat]
        /\ Len(forecastHistory) \in Nat
    BY <1>1, LenProperties DEF TypeOK, LedgerTypeOK
  <2>3. /\ image.reservations
             = [i \in 1 .. Len(reservations) |-> ReservationImage(reservations[i])]
        /\ Len(image.reservations) = Len(reservations)
    BY <2>2 DEF Image
  <2>4. rsv = [i \in 1 .. Len(reservations) |->
                  RestoredReservation(ReservationImage(reservations[i]))]
    BY <2>3 DEF RestoredReservations
  <2>5. /\ Len(rsv) = Len(reservations)
        /\ \A i \in 1 .. Len(rsv) :
              /\ rsv[i].id = reservations[i].id
              /\ rsv[i].gen = reservations[i].gen
              /\ rsv[i].interval = reservations[i].interval
              /\ rsv[i].strength = reservations[i].strength
    BY <2>2, <2>4 DEF RestoredReservation, ReservationImage
  <2>6. Len(hist) = Len(forecastHistory)
    BY <2>2 DEF RestoredHistory, Image
  <2>7. RestoredTracker(rsv) = reservationGen
    <3>1. InStep(reservations, reservationGen)
      BY <1>1 DEF ReservationLedger, InStep, DistinctIds
    <3> HIDE DEF rsv
    <3> QED
      BY <2>2, <2>5, <3>1, TrackerRebuilt
  <2> HIDE DEF image, res, rsv, hist
  <2>8. /\ DOMAIN res = DOMAIN resources
        /\ \A r \in DOMAIN res :
              /\ res[r].gen = resources[r].gen
              /\ res[r].report.device = resources[r].report.device
              /\ res[r].report.health = resources[r].report.health
        /\ Len(rsv) = Len(reservations)
        /\ \A i \in 1 .. Len(rsv) :
              /\ rsv[i].id = reservations[i].id
              /\ rsv[i].gen = reservations[i].gen
              /\ rsv[i].interval = reservations[i].interval
              /\ rsv[i].strength = reservations[i].strength
        /\ RestoredTracker(rsv) = reservationGen
        /\ Len(hist) = Len(forecastHistory)
    BY <2>1, <2>5, <2>6, <2>7
  <2> QED
    BY <2>8 DEF SurvivesRestart, image, res, rsv, hist
<1>2. TypeOK /\ ReservationLedger => SurvivesRestart
  BY <1>1
<1> QED
  BY <1>2, TypeCorrect, ReservationsInStep, PTL

\* A ledger whose entries came over the wire survives a save and a load whole, with
\* its fences, in every reachable state: the file drops nothing the wire had kept
\* (protocol/payload.hpp against src/model/model.cpp save and load).
THEOREM WireLedgerSurvives == Spec => []WireLedgerReconstructs
<1>1. ASSUME TypeOK, ReservationLedger
      PROVE  WireLedgerReconstructs
  <2> DEFINE rsv == [i \in 1 .. Len(reservations) |-> SentReservation(reservations[i])]
             rel == [i \in 1 .. Len(releases) |-> SentRelease(releases[i])]
             image == Image(resources, rsv, rel, forecastHistory)
  <2>1. /\ reservations \in Seq(Reservation) /\ Len(reservations) \in Nat
        /\ releases \in Seq(ReleaseEvent) /\ Len(releases) \in Nat
        /\ reservationGen \in [ReservationIds -> Nat]
    BY <1>1, LenProperties DEF TypeOK, LedgerTypeOK
  <2>2. Len(rsv) = Len(reservations) /\ Len(rel) = Len(releases)
    BY <2>1
  <2>3. ASSUME NEW i \in 1 .. Len(reservations)
        PROVE  RestoredReservation(ReservationImage(SentReservation(reservations[i])))
                 = SentReservation(reservations[i])
    <3>1. reservations[i] \in Reservation
      BY <2>1, ElementOfSeq
    <3> QED
      BY <3>1 DEF Reservation, RestoredReservation, ReservationImage, SentReservation,
                  Accelerators, Amount
  <2>4. ASSUME NEW i \in 1 .. Len(releases)
        PROVE  RestoredRelease(ReleaseImage(SentRelease(releases[i])))
                 = SentRelease(releases[i])
    <3>1. releases[i] \in ReleaseEvent
      BY <2>1, ElementOfSeq
    <3> QED
      BY <3>1 DEF ReleaseEvent, RestoredRelease, ReleaseImage, SentRelease, Accelerators,
                  Amount
  <2>5. /\ image.reservations = [i \in 1 .. Len(reservations) |-> ReservationImage(rsv[i])]
        /\ Len(image.reservations) = Len(reservations)
        /\ image.releases = [i \in 1 .. Len(releases) |-> ReleaseImage(rel[i])]
        /\ Len(image.releases) = Len(releases)
    BY <2>1, <2>2 DEF Image
  <2>6. RestoredReservations(image, Len(image.reservations)) = rsv
    BY <2>3, <2>5 DEF RestoredReservations
  <2>7. RestoredReleases(image) = rel
    BY <2>4, <2>5 DEF RestoredReleases
  <2>8. \A i \in 1 .. Len(reservations) :
           rsv[i].id = reservations[i].id /\ rsv[i].gen = reservations[i].gen
    <3>1. \A i \in 1 .. Len(reservations) : reservations[i] \in Reservation
      BY <2>1, ElementOfSeq
    <3> QED
      BY <3>1 DEF SentReservation, Reservation
  <2>9. RestoredTracker(rsv) = reservationGen
    <3>1. InStep(reservations, reservationGen)
      BY <1>1 DEF ReservationLedger, InStep, DistinctIds
    <3> HIDE DEF rsv
    <3> QED
      BY <2>1, <2>2, <2>8, <3>1, TrackerRebuilt
  <2>10. (\A i \in 1 .. Len(rsv) : ValidInterval(rsv[i].interval)) => Loadable(image)
    <3>1. \A i \in 1 .. Len(reservations) :
             image.reservations[i].interval = rsv[i].interval
      BY <2>5 DEF ReservationImage
    <3> HIDE DEF image, rsv
    <3> QED
      BY <2>2, <2>5, <3>1 DEF Loadable
  <2> HIDE DEF rsv, rel, image
  <2>11. (\A i \in 1 .. Len(rsv) : ValidInterval(rsv[i].interval)) =>
            /\ Loadable(image)
            /\ RestoredReservations(image, Len(image.reservations)) = rsv
            /\ RestoredTracker(rsv) = reservationGen
            /\ RestoredReleases(image) = rel
    BY <2>6, <2>7, <2>9, <2>10
  <2> QED
    BY <2>11 DEF WireLedgerReconstructs, rsv, rel, image
<1>2. TypeOK /\ ReservationLedger => WireLedgerReconstructs
  BY <1>1
<1> QED
  BY <1>2, TypeCorrect, ReservationsInStep, PTL

-----------------------------------------------------------------------------
(* The conversions of save and load are idempotent.                        *)

\* What was converted to whole units is whole.
LEMMA WholeIsWhole ==
    ASSUME NEW v \in Nat
    PROVE  Whole(v) \in Nat /\ Whole(Whole(v)) = Whole(v)
<1> DEFINE q == v \div Unit
           d == (Unit * q) \div Unit
<1>1. Unit \in Nat /\ Unit > 0 /\ q \in Nat
  BY UnitPositive
<1> HIDE DEF q
<1>2. Unit * q \in Nat
  BY <1>1
<1>3. /\ d \in Int
      /\ Unit * d <= Unit * q
      /\ Unit * q < Unit * d + Unit
  BY <1>1, <1>2
<1> HIDE DEF d
<1>4. d <= q
  <2> SUFFICES ASSUME d >= q + 1
               PROVE  FALSE
    BY <1>1, <1>3
  <2>1. Unit * d >= Unit * (q + 1)
    BY <1>1, <1>3
  <2>2. Unit * (q + 1) = Unit * q + Unit
    BY <1>1
  <2> QED
    BY <1>1, <1>2, <1>3, <2>1, <2>2
<1>5. q <= d
  <2> SUFFICES ASSUME q >= d + 1
               PROVE  FALSE
    BY <1>1, <1>3
  <2>1. Unit * q >= Unit * (d + 1)
    BY <1>1, <1>3
  <2>2. Unit * (d + 1) = Unit * d + Unit
    BY <1>1, <1>3
  <2>3. Unit * d \in Int
    BY <1>1, <1>3
  <2> QED
    BY <1>1, <1>2, <1>3, <2>1, <2>2, <2>3
<1>6. d = q
  BY <1>1, <1>3, <1>4, <1>5
<1>7. Whole(v) = Unit * q
  BY DEF Whole, q
<1>8. Whole(Unit * q) = Unit * d
  BY DEF Whole, d
<1> QED
  BY <1>2, <1>6, <1>7, <1>8

\* The amounts the file holds of a resource are whole.
FileWhole ==
    disk.state = "intact" =>
        \A r \in DOMAIN disk.image.resources :
            /\ Whole(disk.image.resources[r].vram) = disk.image.resources[r].vram
            /\ Whole(disk.image.resources[r].accelerators)
                 = disk.image.resources[r].accelerators

LEMMA FileWholeStep ==
    ASSUME TypeOK, FileWhole, [ReloadNext]_vars
    PROVE  FileWhole'
<1>1. CASE UNCHANGED disk
  BY <1>1 DEF FileWhole
<1>2. CASE save
  <2>1. disk'.image.resources = [r \in DOMAIN resources |-> ResourceImage(resources[r])]
    BY <1>2 DEF save, Image
  <2>2. ASSUME NEW r \in DOMAIN resources
        PROVE  /\ Whole(disk'.image.resources[r].vram) = disk'.image.resources[r].vram
               /\ Whole(disk'.image.resources[r].accelerators)
                    = disk'.image.resources[r].accelerators
    <3> DEFINE c == resources[r].report.nominal
    <3>1. resources[r] \in ResourceRecord
      BY DEF TypeOK, EvidenceTypeOK
    <3>2. c \in CapacitySpace
      BY <3>1 DEF ResourceRecord, ReportSpace
    <3>3. /\ disk'.image.resources[r].vram = Whole(Amount(c, "vram"))
          /\ disk'.image.resources[r].accelerators = Whole(Amount(c, "acc"))
      BY <2>1 DEF ResourceImage
    <3> HIDE DEF c
    <3>4. Amount(c, "vram") \in Nat /\ Amount(c, "acc") \in Nat
      BY <3>2, AmountBounded, MaxAmountNat
    <3> QED
      BY <3>3, <3>4, WholeIsWhole
  <2> QED
    BY <2>1, <2>2 DEF FileWhole
<1>3. CASE saveTorn
  BY <1>3 DEF saveTorn, TornFile, FileWhole
<1>4. CASE Restart
  BY <1>1, <1>4 DEF Restart, restartEmpty, restartLoad, restartPartialLoad, FreshProcess
<1>5. CASE reload \/ reloadPartly
  BY <1>1, <1>5 DEF reload, reloadPartly, ReloadedResources
<1> QED
  BY <1>1, <1>2, <1>3, <1>4, <1>5 DEF ReloadNext, Next, EvidenceStep, LedgerStep, vars

\* The two amounts setAmount stores read back as they were stored.
LEMMA AmountsReadBack ==
    ASSUME NEW v \in Nat, NEW a \in Nat
    PROVE  LET c == setAmount(setAmount(NoCapacity, "vram", v), "acc", a) IN
           Amount(c, "vram") = v /\ Amount(c, "acc") = a
<1> DEFINE c1 == setAmount(NoCapacity, "vram", v)
           c2 == setAmount(c1, "acc", a)
<1>1. /\ DOMAIN c1 = IF v > 0 THEN {"vram"} ELSE {}
      /\ v > 0 => c1["vram"] = v
  BY DEF setAmount, NoCapacity
<1> HIDE DEF c1
<1>2. /\ DOMAIN c2 = (DOMAIN c1 \ {"acc"}) \cup (IF a > 0 THEN {"acc"} ELSE {})
      /\ \A e \in DOMAIN c2 : c2[e] = IF e = "acc" THEN a ELSE c1[e]
  BY DEF setAmount
<1> HIDE DEF c2
<1>3. Amount(c2, "vram") = v
  BY <1>1, <1>2 DEF Amount
<1>4. Amount(c2, "acc") = a
  BY <1>1, <1>2 DEF Amount
<1> QED
  BY <1>3, <1>4 DEF c2, c1

\* A resource restored from whole amounts, saved again, has the same image.
LEMMA ResourceImageAgain ==
    ASSUME NEW i \in ResourceImages, Whole(i.vram) = i.vram,
           Whole(i.accelerators) = i.accelerators
    PROVE  ResourceImage(RestoredResource(i)) = i
<1>1. i.vram \in Nat /\ i.accelerators \in Nat
  BY MaxAmountNat DEF ResourceImages
<1> DEFINE c == setAmount(setAmount(NoCapacity, "vram", i.vram), "acc", i.accelerators)
<1>2. Amount(c, "vram") = i.vram /\ Amount(c, "acc") = i.accelerators
  BY <1>1, AmountsReadBack
<1>3. RestoredResource(i).report.nominal = c
  BY DEF RestoredResource
<1> HIDE DEF c
<1>4. ResourceImage(RestoredResource(i))
        = [gen |-> i.gen, device |-> i.device, node |-> i.node, class |-> i.class,
           health |-> i.health, vram |-> i.vram, accelerators |-> i.accelerators]
  BY <1>2, <1>3 DEF RestoredResource, ResourceImage
<1> QED
  BY <1>4 DEF ResourceImages

\* A forecast restored, saved and restored again is the same forecast.
LEMMA ForecastAgain ==
    ASSUME NEW i \in HistoryImages
    PROVE  RestoredForecast(HistoryImage(RestoredForecast(i))) = RestoredForecast(i)
<1>1. i.expected \in Nat /\ i.observed \in Nat
  BY MaxAmountNat DEF HistoryImages
<1>2. ASSUME NEW v \in Nat
      PROVE  Amount(setAmount(NoCapacity, "acc", v), "acc") = v
  BY <1>2 DEF Amount, setAmount, NoCapacity
<1>3. /\ Whole(i.expected) \in Nat /\ Whole(Whole(i.expected)) = Whole(i.expected)
      /\ Whole(i.observed) \in Nat /\ Whole(Whole(i.observed)) = Whole(i.observed)
  BY <1>1, WholeIsWhole
<1>4. HistoryImage(RestoredForecast(i))
        = [at |-> i.at, expected |-> Whole(i.expected), observed |-> Whole(i.observed)]
  BY <1>2, <1>3 DEF HistoryImage, RestoredForecast
<1> QED
  BY <1>3, <1>4 DEF RestoredForecast

\* A file of the right types with whole amounts loads, saves and loads to the same
\* model.
LEMMA LoadIdempotent ==
    ASSUME NEW image, FileOK(image),
           \A r \in DOMAIN image.resources :
               /\ Whole(image.resources[r].vram) = image.resources[r].vram
               /\ Whole(image.resources[r].accelerators) = image.resources[r].accelerators
    PROVE  LET res   == RestoredResources(image)
               rsv   == RestoredReservations(image, Len(image.reservations))
               rel   == RestoredReleases(image)
               hist  == RestoredHistory(image)
               again == Image(res, rsv, rel, hist)
           IN  /\ RestoredResources(again) = res
               /\ RestoredReservations(again, Len(again.reservations)) = rsv
               /\ RestoredReleases(again) = rel
               /\ RestoredHistory(again) = hist
<1> DEFINE res == RestoredResources(image)
           rsv == RestoredReservations(image, Len(image.reservations))
           rel == RestoredReleases(image)
           hist == RestoredHistory(image)
           again == Image(res, rsv, rel, hist)
<1>0. /\ Len(image.reservations) \in Nat
      /\ Len(image.releases) \in Nat
      /\ Len(image.history) \in Nat
  BY LenProperties DEF FileOK
<1>1. Len(rsv) = Len(image.reservations) /\ Len(rel) = Len(image.releases)
      /\ Len(hist) = Len(image.history)
  BY <1>0 DEF RestoredReservations, RestoredReleases, RestoredHistory
<1>2. /\ again.resources = [r \in DOMAIN res |-> ResourceImage(res[r])]
      /\ again.reservations = [i \in 1 .. Len(rsv) |-> ReservationImage(rsv[i])]
      /\ again.releases = [i \in 1 .. Len(rel) |-> ReleaseImage(rel[i])]
      /\ again.history = [i \in 1 .. Len(hist) |-> HistoryImage(hist[i])]
  BY DEF Image
<1>3. RestoredResources(again) = res
  <2>1. ASSUME NEW r \in DOMAIN image.resources
        PROVE  ResourceImage(RestoredResource(image.resources[r])) = image.resources[r]
    BY ResourceImageAgain DEF FileOK
  <2>2. DOMAIN res = DOMAIN image.resources /\ DOMAIN again.resources = DOMAIN res
    BY <1>2 DEF RestoredResources
  <2>3. \A r \in DOMAIN res : again.resources[r] = image.resources[r]
    BY <1>2, <2>1, <2>2 DEF RestoredResources
  <2> HIDE DEF again
  <2> QED
    BY <2>2, <2>3 DEF RestoredResources
<1>4. RestoredReservations(again, Len(again.reservations)) = rsv
  <2>1. ASSUME NEW i \in 1 .. Len(image.reservations)
        PROVE  RestoredReservation(ReservationImage(rsv[i])) = rsv[i]
    <3>1. rsv[i] = RestoredReservation(image.reservations[i])
      BY DEF RestoredReservations
    <3> HIDE DEF rsv
    <3> QED
      BY <3>1 DEF RestoredReservation, ReservationImage, Amount
  <2>2. Len(again.reservations) = Len(image.reservations)
    BY <1>0, <1>1, <1>2
  <2>3. \A i \in 1 .. Len(image.reservations) :
           again.reservations[i] = ReservationImage(rsv[i])
    BY <1>1, <1>2
  <2>4. rsv = [i \in 1 .. Len(image.reservations) |-> rsv[i]]
    BY DEF RestoredReservations
  <2> HIDE DEF again, rsv
  <2> QED
    BY <2>1, <2>2, <2>3, <2>4 DEF RestoredReservations
<1>5. RestoredReleases(again) = rel
  <2>1. ASSUME NEW i \in 1 .. Len(image.releases)
        PROVE  RestoredRelease(ReleaseImage(rel[i])) = rel[i]
    <3>1. rel[i] = RestoredRelease(image.releases[i])
      BY DEF RestoredReleases
    <3> HIDE DEF rel
    <3> QED
      BY <3>1 DEF RestoredRelease, ReleaseImage, Amount
  <2>2. Len(again.releases) = Len(image.releases)
    BY <1>0, <1>1, <1>2
  <2>3. \A i \in 1 .. Len(image.releases) : again.releases[i] = ReleaseImage(rel[i])
    BY <1>1, <1>2
  <2>4. rel = [i \in 1 .. Len(image.releases) |-> rel[i]]
    BY DEF RestoredReleases
  <2> HIDE DEF again, rel
  <2> QED
    BY <2>1, <2>2, <2>3, <2>4 DEF RestoredReleases
<1>6. RestoredHistory(again) = hist
  <2>1. ASSUME NEW i \in 1 .. Len(image.history)
        PROVE  RestoredForecast(HistoryImage(hist[i])) = hist[i]
    <3>1. hist[i] = RestoredForecast(image.history[i])
      BY DEF RestoredHistory
    <3>2. image.history[i] \in HistoryImages
      BY ElementOfSeq DEF FileOK
    <3> HIDE DEF hist
    <3> QED
      BY <3>1, <3>2, ForecastAgain
  <2>2. Len(again.history) = Len(image.history)
    BY <1>0, <1>1, <1>2
  <2>3. \A i \in 1 .. Len(image.history) : again.history[i] = HistoryImage(hist[i])
    BY <1>1, <1>2
  <2>4. hist = [i \in 1 .. Len(image.history) |-> hist[i]]
    BY DEF RestoredHistory
  <2> HIDE DEF again, hist
  <2> QED
    BY <2>1, <2>2, <2>3, <2>4 DEF RestoredHistory
<1> HIDE DEF res, rsv, rel, hist, again
<1>7. /\ RestoredResources(again) = res
      /\ RestoredReservations(again, Len(again.reservations)) = rsv
      /\ RestoredReleases(again) = rel
      /\ RestoredHistory(again) = hist
  BY <1>3, <1>4, <1>5, <1>6
<1> QED
  BY <1>7 DEF res, rsv, rel, hist, again

\* What save drops is dropped once: any file a reachable state holds loads, saves and
\* loads to the same model (src/model/model.cpp, save and load).
THEOREM SecondRestartIsIdentity == ReloadSpec => []SecondRestartChangesNothing
<1>1. Init => FileWhole
  BY DEF Init, NoFile, FileWhole
<1>2. TypeOK /\ FileWhole /\ [ReloadNext]_vars => FileWhole'
  BY FileWholeStep
<1>3. TypeOK /\ FileWhole => SecondRestartChangesNothing
  <2> SUFFICES ASSUME FileOK(disk.image), FileWhole, disk.state = "intact"
               PROVE  SecondRestartChangesNothing
    BY DEF TypeOK, SecondRestartChangesNothing
  <2> QED
    BY LoadIdempotent DEF FileWhole, SecondRestartChangesNothing
<1> QED
  BY <1>1, <1>2, <1>3, TypeCorrectUnderReload, PTL DEF ReloadSpec

-----------------------------------------------------------------------------
(* What a step may never do.                                               *)

\* Publishing keeps every other entry, and replaces one by one at least as new.
LEMMA PublishKeepsEntries ==
    ASSUME NEW s \in Seq(Reservation), NEW tracker \in [ReservationIds -> Nat],
           NEW res \in Reservation, InStep(s, tracker), ~Stale(tracker[res.id], res.gen),
           NEW i \in 1 .. Len(s)
    PROVE  LET t == Append(Erase(s, ReservationIndex(s, res.id)), res) IN
           \E j \in 1 .. Len(t) : t[j].id = s[i].id /\ t[j].gen >= s[i].gen
<1> DEFINE e == Erase(s, ReservationIndex(s, res.id))
           t == Append(e, res)
<1>1. /\ e \in Seq(Reservation)
      /\ \A k \in 1 .. Len(s) : s[k].id # res.id => \E j \in 1 .. Len(e) : e[j] = s[k]
  BY EraseId DEF InStep
<1>2. s[i] \in Reservation
  BY ElementOfSeq
<1>3. s[i].gen \in Nat /\ res.gen \in Nat /\ tracker[s[i].id] = s[i].gen
  BY <1>2 DEF Reservation, InStep
<1> HIDE DEF e
<1>4. /\ Len(e) \in Nat
      /\ Len(t) = Len(e) + 1
      /\ \A k \in 1 .. Len(e) : t[k] = e[k]
      /\ t[Len(e) + 1] = res
  BY <1>1, AppendProperties, LenProperties
<1> HIDE DEF t
<1>5. CASE s[i].id = res.id
  <2>1. Len(e) + 1 \in 1 .. Len(t) /\ res.gen >= s[i].gen
    BY <1>3, <1>4, <1>5 DEF Stale
  <2>2. \E j \in 1 .. Len(t) : t[j].id = s[i].id /\ t[j].gen >= s[i].gen
    BY <1>4, <1>5, <2>1
  <2> QED
    BY <2>2 DEF t, e
<1>6. CASE s[i].id # res.id
  <2>1. PICK j \in 1 .. Len(e) : e[j] = s[i]
    BY <1>1, <1>6
  <2>2. j \in 1 .. Len(t) /\ t[j] = s[i]
    BY <1>4, <2>1
  <2>3. \E k \in 1 .. Len(t) : t[k].id = s[i].id /\ t[k].gen >= s[i].gen
    BY <1>3, <2>2
  <2> QED
    BY <2>3 DEF t, e
<1> QED
  BY <1>5, <1>6

\* The entry that stands for a reservation after a step.
EntriesKept ==
    \A i \in 1 .. Len(reservations) :
        \E j \in 1 .. Len(reservations') :
            /\ reservations'[j].id = reservations[i].id
            /\ reservations'[j].gen >= reservations[i].gen

\* Within one process an accepted reservation is never lost and is only replaced by one
\* at least as new (src/model/model.cpp, publishReservation).
THEOREM ReservationsNeverLost == Spec => ReservationsKept
<1>1. ASSUME TypeOK, ReservationLedger, [Next]_vars
      PROVE  [Restart \/ EntriesKept]_vars
  <2> SUFFICES ASSUME Next, ~Restart
               PROVE  EntriesKept
    BY <1>1
  <2>0. /\ reservations \in Seq(Reservation) /\ reservationGen \in [ReservationIds -> Nat]
        /\ InStep(reservations, reservationGen)
    BY <1>1 DEF TypeOK, LedgerTypeOK, ReservationLedger, InStep, DistinctIds
  <2>1. CASE UNCHANGED reservations
    <3>1. \A i \in 1 .. Len(reservations) : reservations[i] \in Reservation
      BY <2>0, ElementOfSeq
    <3>2. \A i \in 1 .. Len(reservations) : reservations[i].gen \in Nat
      BY <3>1 DEF Reservation
    <3> QED
      BY <2>1, <3>2 DEF EntriesKept
  <2>2. CASE LedgerStep /\ ReservationNext
    <3>1. PICK id \in ReservationIds, g \in FactGens, v \in Intervals, h \in Holds,
               st \in Strengths :
            publishReservation([id |-> id, gen |-> g, interval |-> v, hold |-> h,
                                strength |-> st])
      BY <2>2 DEF ReservationNext
    <3> DEFINE res == [id |-> id, gen |-> g, interval |-> v, hold |-> h, strength |-> st]
    <3>2. res \in Reservation
      BY FactBounds, FactAmounts DEF Reservation
    <3>3. publishReservation(res)
      BY <3>1
    <3> HIDE DEF res
    <3>4. /\ ~Stale(reservationGen[res.id], res.gen)
          /\ reservations'
               = Append(Erase(reservations, ReservationIndex(reservations, res.id)), res)
      BY <3>3 DEF publishReservation
    <3> QED
      BY <2>0, <3>2, <3>4, PublishKeepsEntries DEF EntriesKept
  <2>3. CASE LedgerStep /\ (ReleaseNext \/ ProfileNext \/ HistoryNext)
    <3>1. CASE ReleaseNext
      BY <2>1, <3>1 DEF ReleaseNext, publishRelease
    <3>2. CASE ProfileNext
      BY <2>1, <3>2 DEF ProfileNext, registerDemand, registerTopology
    <3>3. CASE HistoryNext
      BY <2>1, <3>3 DEF HistoryNext, recordForecast, recordObserved
    <3> QED
      BY <2>3, <3>1, <3>2, <3>3
  <2>4. CASE EvidenceStep \/ save \/ saveTorn
    BY <2>1, <2>4 DEF EvidenceStep, save, saveTorn, ledgerVars
  <2> QED
    BY <2>2, <2>3, <2>4 DEF Next, LedgerStep, LedgerNext
<1>2. TypeOK /\ ReservationLedger /\ [Next]_vars => [Restart \/ EntriesKept]_vars
  BY <1>1
<1> QED
  BY <1>2, TypeCorrect, ReservationsInStep, PTL DEF Spec, ReservationsKept, EntriesKept

\* What ActivationNeedsIncarnation asks of a step.
ActivatedBy(r) ==
    LET x == resources'[r] IN
    \/ isFreshBoot(x.worker, x.boot)
    \/ ~workerAlive(x.worker) /\ r \in DOMAIN resources /\ resources[r] = x

\* Registering revives what this very incarnation had published, and nothing else.
LEMMA RegisterActivates ==
    ASSUME TypeOK, NEW w \in Workers, NEW b \in Boots, registerWorker(w, b),
           NEW r \in DOMAIN resources', (Current(r))', ~Current(r)
    PROVE  ActivatedBy(r)
<1>1. /\ resources' = resources
      /\ \A x \in DOMAIN sources : x # w => x \in DOMAIN sources' /\ sources'[x] = sources[x]
      /\ DOMAIN sources' = DOMAIN sources \cup {w}
      /\ sources'[w] = [boot |-> b, alive |-> TRUE]
  BY DEF registerWorker, Put
<1>2. /\ resources[r].boot # NoBoot
      /\ resources[r].worker \in DOMAIN sources'
      /\ sources'[resources[r].worker].alive
      /\ sources'[resources[r].worker].boot = resources[r].boot
  BY <1>1 DEF Current, isFreshBoot, workerAlive
<1>3. resources[r].worker = w /\ resources[r].boot = b
  BY <1>1, <1>2 DEF Current, isFreshBoot, workerAlive
<1>4. ~workerAlive(w)
  BY <1>2, <1>3 DEF registerWorker, Replaceable, Current, isFreshBoot
<1> QED
  BY <1>1, <1>3, <1>4 DEF ActivatedBy

\* Evidence becomes usable only when the live incarnation publishes it or when the
\* incarnation that had published it registers again; neither a restart nor a load
\* revives any (src/model/model.cpp, registerWorker, publishResource, load, buildView).
THEOREM ActivationNeedsItsIncarnation == ReloadSpec => ActivationNeedsIncarnation
<1>1. ASSUME TypeOK, [ReloadNext]_vars, NEW r \in DOMAIN resources', (Current(r))',
             ~(r \in DOMAIN resources /\ Current(r))
      PROVE  ActivatedBy(r)
  <2>0. /\ resources'[r].boot # NoBoot
        /\ resources'[r].worker \in DOMAIN sources'
        /\ sources'[resources'[r].worker].alive
        /\ sources'[resources'[r].worker].boot = resources'[r].boot
    BY <1>1 DEF Current, isFreshBoot, workerAlive
  <2>1. CASE UNCHANGED <<sources, resources>>
    BY <1>1, <2>1 DEF Current, isFreshBoot, workerAlive
  <2>2. CASE EvidenceStep
    <3>1. ASSUME NEW w \in Workers, NEW b \in Boots, registerWorker(w, b)
          PROVE  ActivatedBy(r)
      <4>1. resources' = resources
        BY <3>1 DEF registerWorker
      <4> QED
        BY <1>1, <3>1, <4>1, RegisterActivates
    <3>2. ASSUME NEW w \in Workers, markWorkerDead(w)
          PROVE  ActivatedBy(r)
      <4>1. /\ resources' = resources
            /\ w \in DOMAIN sources
            /\ sources' = [sources EXCEPT ![w].alive = FALSE]
        BY <3>2 DEF markWorkerDead
      <4>2. sources[w] \in Source
        BY <1>1, <4>1 DEF TypeOK, EvidenceTypeOK
      <4>3. /\ DOMAIN sources' = DOMAIN sources
            /\ ~sources'[w].alive
            /\ \A x \in DOMAIN sources : x # w => sources'[x] = sources[x]
        BY <4>1, <4>2 DEF Source
      <4>4. Current(r)
        BY <2>0, <4>1, <4>3 DEF Current, isFreshBoot, workerAlive
      <4> QED
        BY <1>1, <4>1, <4>4
    <3>3. ASSUME NEW y \in ResourceIds, NEW w \in Workers, NEW b \in Boots, NEW g \in Gens,
                 NEW p \in Reports, publishResource(y, w, b, g, p)
          PROVE  ActivatedBy(r)
      <4>1. Published(y, w, b, g, p)
        BY <1>1, <3>3, PublishEffect
      <4>2. sources' = sources /\ isFreshBoot(w, b)
        BY <3>3 DEF publishResource, Publishable
      <4>3. CASE r = y
        BY <4>1, <4>2, <4>3 DEF Published, ActivatedBy
      <4>4. CASE r # y
        BY <1>1, <2>0, <4>1, <4>2, <4>4
           DEF Published, Current, isFreshBoot, workerAlive
      <4> QED
        BY <4>3, <4>4
    <3>4. ASSUME NEW y \in ResourceIds, advanceResourceGeneration(y)
          PROVE  ActivatedBy(r)
      <4>1. Renewed(y)
        BY <1>1, <3>4, RenewEffect
      <4>2. sources' = sources
        BY <3>4 DEF advanceResourceGeneration
      <4>3. /\ r \in DOMAIN resources
            /\ resources'[r].worker = resources[r].worker
            /\ resources'[r].boot = resources[r].boot
        BY <4>1 DEF Renewed
      <4> QED
        BY <1>1, <2>0, <4>2, <4>3 DEF Current, isFreshBoot, workerAlive
    <3>5. CASE \E d \in DeviceIds, h \in HealthStates, g \in Gens : setHealth(d, h, g)
      BY <2>1, <3>5 DEF setHealth
    <3> QED
      BY <2>2, <3>1, <3>2, <3>3, <3>4, <3>5 DEF EvidenceStep, EvidenceNext
  <2>3. CASE LedgerStep \/ save \/ saveTorn \/ UNCHANGED vars
    BY <2>1, <2>3 DEF LedgerStep, save, saveTorn, vars, evidenceVars
  <2>4. CASE Restart
    BY <1>1, <2>0, <2>4, RestartUnfences
  <2>5. CASE reload \/ reloadPartly
    <3>1. /\ FileOK(disk.image) /\ resources' = RestoredResources(disk.image)
          /\ sources' = sources
      BY <1>1, <2>5 DEF reload, reloadPartly, ReloadedResources, TypeOK
    <3>2. resources'[r].worker = NoWorker
      BY <1>1, <3>1, RestoredResourceTypes
    <3> QED
      BY <1>1, <2>0, <3>1, <3>2, InvalidIds DEF TypeOK, EvidenceTypeOK
  <2> QED
    BY <1>1, <2>2, <2>3, <2>4, <2>5 DEF ReloadNext, Next
<1>2. TypeOK /\ [ReloadNext]_vars =>
        [\A r \in DOMAIN resources' :
            (Current(r))' /\ ~(r \in DOMAIN resources /\ Current(r)) =>
                LET x == resources'[r] IN
                \/ isFreshBoot(x.worker, x.boot)
                \/ /\ ~workerAlive(x.worker)
                   /\ r \in DOMAIN resources
                   /\ resources[r] = x]_vars
  BY <1>1 DEF ActivatedBy
<1> QED
  BY <1>2, TypeCorrectUnderReload, PTL DEF ReloadSpec, ActivationNeedsIncarnation

=============================================================================
