------------------------ MODULE NodeCapacity_proofs -------------------------
(***************************************************************************)
(* The sizes of NodeService, for all units, sizes, paths and calls: what   *)
(* getRoundedCapacity and getSnapSize compute; a volume, its filesystem,   *)
(* its snapshot and its IO limits against the capacity of its resource.    *)
(***************************************************************************)
EXTENDS NodeService, TLAPS

\* A leaf that names no prover is for SMT, in two tries.
USE SMTT(30), SMTT(60)

-----------------------------------------------------------------------------
\* Sizes, for all units and all sizes that do not overflow an int64.

\* A size from which getRoundedCapacity does not overflow.
NoOverflow(size) == size \in Nat /\ size + Gi - 1 <= MaxInt

\* A capacity as the controller stores it.
Rounded(cap) ==
    /\ cap \in Nat
    /\ \E k \in Nat : cap = k * Mi
    /\ cap > Gi => \E k \in Nat : cap = k * Gi

\* Division with remainder, from which the facts on rounding follow.
LEMMA Division ==
    ASSUME NEW a \in Nat, NEW b \in Nat \ {0}
    PROVE  /\ a \div b \in Nat
           /\ (a \div b) * b <= a
           /\ a < (a \div b) * b + b
  OBVIOUS

\* A product of naturals is a natural, and grows with its factors.
LEMMA Product ==
    ASSUME NEW j \in Nat, NEW k \in Nat, NEW u \in Nat \ {0}
    PROVE  /\ j * u \in Nat
           /\ j * u < (k + 1) * u => j <= k
  OBVIOUS

\* Gi is a natural number, not less than Mi.
LEMMA Units == /\ Mi \in Nat \ {0}
               /\ Gi \in Nat \ {0}
               /\ \E k \in Nat : Gi = k * Mi
               /\ Mi <= Gi
  BY SizingAssumption

\* An int64 that is in range is left as it is.
LEMMA NoWrap == ASSUME NEW n \in Nat, n <= MaxInt
                PROVE  Wrap(n) = n
  BY SizingAssumption DEF Wrap, MaxInt

\* The largest int64 is an integer.
LEMMA MaxIntType == MaxInt \in Int
  BY SizingAssumption DEF MaxInt

\* A size that does not overflow may be rounded to either unit.
LEMMA NoOverflowUnits ==
    ASSUME NEW size, NoOverflow(size)
    PROVE  /\ size \in Nat
           /\ size + Gi - 1 <= MaxInt
           /\ size + Mi - 1 <= MaxInt
  BY Units, MaxIntType DEF NoOverflow

\* r is the least multiple of unit that is not less than size.
LeastMultiple(r, size, unit) ==
    /\ r \in Nat
    /\ \E k \in Nat : r = k * unit
    /\ size <= r
    /\ r < size + unit
    /\ \A k \in Nat : size <= k * unit => r <= k * unit

\* RoundUp returns the least multiple of the unit that holds the size.
LEMMA RoundUpLeast ==
    ASSUME NEW size \in Nat, NEW unit \in Nat \ {0},
           size + unit - 1 <= MaxInt
    PROVE  LeastMultiple(RoundUp(size, unit), size, unit)
<1> DEFINE n == size + unit - 1
           q == n \div unit
<1>1. n \in Nat /\ n <= MaxInt
  OBVIOUS
<1>2. Wrap(n) = n
  BY <1>1, NoWrap
<1>3. RoundUp(size, unit) = q * unit
  BY <1>1, <1>2 DEF RoundUp, Quotient
<1>4. q \in Nat /\ q * unit <= n /\ n < q * unit + unit
  BY <1>1, Division
<1>5. ASSUME NEW k \in Nat, size <= k * unit
      PROVE  q * unit <= k * unit
  <2>1. k * unit \in Nat /\ (k + 1) * unit = k * unit + unit
    OBVIOUS
  <2>2. q * unit < (k + 1) * unit
    BY <1>4, <1>5, <2>1
  <2>3. q <= k
    BY <1>4, <2>2, Product
  <2> QED
    BY <1>4, <2>3
<1> HIDE DEF q
<1> QED
  BY <1>3, <1>4, <1>5 DEF LeastMultiple

\* getRoundedCapacity never gives less than what was asked for, gives less
\* than one unit too much, and its result is a rounded capacity.
THEOREM RoundedCapacity ==
    ASSUME NEW size, NoOverflow(size)
    PROVE  /\ Rounded(getRoundedCapacity(size))
           /\ size <= getRoundedCapacity(size)
           /\ getRoundedCapacity(size) < size + Gi
<1>a. size \in Nat /\ size + Gi - 1 <= MaxInt /\ size + Mi - 1 <= MaxInt
  BY NoOverflowUnits
<1>b. Mi \in Nat \ {0} /\ Gi \in Nat \ {0} /\ Mi <= Gi
  BY Units
<1>1. CASE size > Gi
  <2>1. getRoundedCapacity(size) = RoundUp(size, Gi)
    BY <1>1 DEF getRoundedCapacity
  <2>a. LeastMultiple(RoundUp(size, Gi), size, Gi)
    BY <1>a, <1>b, RoundUpLeast
  <2>2. PICK k \in Nat : RoundUp(size, Gi) = k * Gi
    BY <2>a DEF LeastMultiple
  <2>3. PICK j \in Nat : Gi = j * Mi
    BY Units
  <2>4. k * Gi = (k * j) * Mi /\ k * j \in Nat
    BY <1>b, <2>3
  <2>5. RoundUp(size, Gi) \in Nat /\ size <= RoundUp(size, Gi) /\ RoundUp(size, Gi) < size + Gi
    BY <2>a DEF LeastMultiple
  <2>6. \E m \in Nat : RoundUp(size, Gi) = m * Mi
    <3> DEFINE m == k * j
    <3>1. m \in Nat /\ RoundUp(size, Gi) = m * Mi
      BY <2>2, <2>4
    <3> HIDE DEF m
    <3> QED
      BY <3>1
  <2> QED
    BY <2>1, <2>2, <2>5, <2>6 DEF Rounded
<1>2. CASE ~ (size > Gi)
  <2>1. getRoundedCapacity(size) = RoundUp(size, Mi)
    BY <1>2 DEF getRoundedCapacity
  <2>2. LeastMultiple(RoundUp(size, Mi), size, Mi)
    BY <1>a, <1>b, RoundUpLeast
  <2>3. RoundUp(size, Mi) <= Gi
    BY <1>2, <1>a, <1>b, <2>2, Units DEF LeastMultiple
  <2> QED
    BY <1>a, <1>b, <2>1, <2>2, <2>3 DEF Rounded, LeastMultiple
<1> QED
  BY <1>1, <1>2

\* Rounding does not pass a capacity that is rounded itself.
LEMMA RoundedBound ==
    ASSUME NEW cap, Rounded(cap), NEW size, NoOverflow(size), size <= cap
    PROVE  getRoundedCapacity(size) <= cap
<1>a. size \in Nat /\ size + Gi - 1 <= MaxInt /\ size + Mi - 1 <= MaxInt
  BY NoOverflowUnits
<1>b. Mi \in Nat \ {0} /\ Gi \in Nat \ {0} /\ Mi <= Gi
  BY Units
<1>1. CASE size > Gi
  <2>1. getRoundedCapacity(size) = RoundUp(size, Gi)
    BY <1>1 DEF getRoundedCapacity
  <2>2. PICK k \in Nat : cap = k * Gi
    BY <1>1, <1>a, <1>b DEF Rounded
  <2>3. LeastMultiple(RoundUp(size, Gi), size, Gi)
    BY <1>a, <1>b, RoundUpLeast
  <2> QED
    BY <2>1, <2>2, <2>3 DEF LeastMultiple
<1>2. CASE ~ (size > Gi)
  <2>1. getRoundedCapacity(size) = RoundUp(size, Mi)
    BY <1>2 DEF getRoundedCapacity
  <2>2. PICK k \in Nat : cap = k * Mi
    BY DEF Rounded
  <2>3. LeastMultiple(RoundUp(size, Mi), size, Mi)
    BY <1>a, <1>b, RoundUpLeast
  <2> QED
    BY <2>1, <2>2, <2>3 DEF LeastMultiple
<1> QED
  BY <1>1, <1>2

\* From one Gi on, the started Gi that setIOLimits counts and the whole Gi that
\* the metrics count are the same number.
THEOREM WholeGi ==
    ASSUME NEW cap, Rounded(cap), cap >= Gi
    PROVE  CapacityGB(cap) = cap \div Gi
<1>1. PICK k \in Nat : cap = k * Gi
  <2>1. CASE cap > Gi
    BY <2>1 DEF Rounded
  <2>2. CASE cap = Gi
    <3>1. cap = 1 * Gi /\ 1 \in Nat
      BY <2>2, Units
    <3> QED
      BY <3>1
  <2>3. cap \in Nat /\ Gi \in Nat
    BY Units DEF Rounded
  <2>4. cap > Gi \/ cap = Gi
    BY <2>3
  <2> QED
    BY <2>1, <2>2, <2>4, ZenonT(30)
<1>2. cap \in Nat /\ Gi \in Nat \ {0}
  BY Units DEF Rounded
<1>3. cap \div Gi = k
  <2> DEFINE q == cap \div Gi
  <2>1. q \in Nat /\ q * Gi <= cap /\ cap < q * Gi + Gi
    BY <1>2, Division
  <2>2. q * Gi + Gi = (q + 1) * Gi /\ k * Gi + Gi = (k + 1) * Gi
    BY <1>2, <2>1
  <2> HIDE DEF q
  <2>3. k * Gi < (q + 1) * Gi /\ q * Gi < (k + 1) * Gi
    BY <1>1, <1>2, <2>1, <2>2
  <2>4. k <= q /\ q <= k
    BY <1>2, <2>1, <2>3, Product
  <2> QED
    BY <2>1, <2>4 DEF q
<1>4. (cap + Gi - 1) \div Gi = k
  <2> DEFINE n == cap + Gi - 1
             q == n \div Gi
  <2>1. n \in Nat /\ q \in Nat /\ q * Gi <= n /\ n < q * Gi + Gi
    BY <1>2, Division
  <2>2. q * Gi + Gi = (q + 1) * Gi /\ k * Gi + Gi = (k + 1) * Gi
    BY <1>2, <2>1
  <2>a. n < cap + Gi /\ cap <= n
    BY <1>2
  <2> HIDE DEF q, n
  <2>3. k * Gi < (q + 1) * Gi /\ q * Gi < (k + 1) * Gi
    BY <1>1, <1>2, <2>1, <2>2, <2>a
  <2>4. k <= q /\ q <= k
    BY <1>2, <2>1, <2>3, Product
  <2> QED
    BY <2>1, <2>4 DEF q, n
<1> QED
  BY <1>3, <1>4 DEF CapacityGB

\* The percentage of a capacity is not above the capacity.
LEMMA Percentage ==
    ASSUME NEW cap \in Nat, NEW pct \in 0 .. 100
    PROVE  (cap * pct) \div 100 \in 0 .. cap
<1> DEFINE n == cap * pct
<1>1. n \in Nat /\ n <= cap * 100
  OBVIOUS
<1> HIDE DEF n
<1>2. n \div 100 \in Nat /\ (n \div 100) * 100 <= n
  BY <1>1
<1>3. n \div 100 <= cap
  BY <1>1, <1>2
<1> QED
  BY <1>2, <1>3 DEF n

\* Of a percentage up to 100, or of any size, getSnapSize makes no more than
\* the capacity of the origin.
LEMMA ParamsBound ==
    ASSUME NEW cap, Rounded(cap), NoOverflow(cap), NEW params,
           params.size \in Nat, ~ params.abs => params.size <= 100
    PROVE  SnapSize(params, cap, FALSE) \in 0 .. cap
<1> DEFINE asked == IF ~ params.abs THEN (cap * params.size) \div 100
                    ELSE IF params.size > cap THEN cap
                    ELSE params.size
<1>1. cap \in Nat /\ params.size \in Nat
  BY DEF Rounded
<1>2. asked \in 0 .. cap
  <2>1. CASE ~ params.abs
    <3>1. params.size \in 0 .. 100
      BY <1>1, <2>1
    <3> QED
      BY <1>1, <2>1, <3>1, Percentage
  <2>2. CASE params.abs
    BY <1>1, <2>2
  <2> QED
    BY <2>1, <2>2
<1> HIDE DEF asked
<1>3. NoOverflow(asked)
  BY <1>1, <1>2, MaxIntType, Units DEF NoOverflow
<1>4. getRoundedCapacity(asked) <= cap
  BY <1>2, <1>3, RoundedBound
<1>5. getRoundedCapacity(asked) \in Nat
  BY <1>3, RoundedCapacity DEF Rounded
<1>6. getSnapSize(params, cap) = getRoundedCapacity(asked)
  BY DEF getSnapSize, asked
<1> QED
  BY <1>1, <1>4, <1>5, <1>6 DEF SnapSize

\* A snapshot is not larger than its origin: NewSnapshotParams lets no more
\* than 100 percent through, and CreateSnapshot caps the size and then rounds
\* it up.
THEOREM SnapSizeBound ==
    ASSUME NEW cap, Rounded(cap), NoOverflow(cap),
           NEW class \in SnapClass, ValidSnapClass(class)
    PROVE  SnapSize(NewSnapshotParams(class), cap, FALSE) \in 0 .. cap
<1>1. class.n \in Nat
  BY DEF SnapClass
<1>2. NewSnapshotParams(class).size = IF class.unit = "none" THEN 0 ELSE class.n
  BY DEF NewSnapshotParams
<1>3. NewSnapshotParams(class).abs = (class.unit = "bytes")
  BY ZenonT(30) DEF NewSnapshotParams
<1>4. class.unit # "bytes" => class.unit = "none" \/ class.n \in 1 .. 100
  BY ZenonT(30) DEF ValidSnapClass
<1>5. class.unit # "bytes" => NewSnapshotParams(class).size <= 100
  BY <1>1, <1>2, <1>4
<1>6. ~ NewSnapshotParams(class).abs => class.unit # "bytes"
  BY <1>3, ZenonT(30)
<1>7. ~ NewSnapshotParams(class).abs => NewSnapshotParams(class).size <= 100
  BY <1>5, <1>6, ZenonT(30)
<1>8. NewSnapshotParams(class).size \in Nat
  BY <1>1, <1>2
<1> QED
  BY <1>7, <1>8, ParamsBound, ZenonT(30)

-----------------------------------------------------------------------------
\* Sizes against the capacity of the resource.

\* The inductive invariant.  The capacity is rounded, so that a snapshot can
\* be bounded by it, and whoever is about to change a size works from a
\* capacity that is not above the one of the resource.
CapacityInv ==
    /\ NodeTypeOK
    /\ Rounded(vol.cap)
    /\ NoOverflow(vol.cap)
    /\ fs <= lv
    /\ lv <= vol.cap
    /\ snapped <= vol.cap
    /\ nodeExpand # Idle => nodeExpand.cap <= vol.cap
    /\ \A e \in ExpandCalls : expands[e].pc = "update" =>
          expands[e].vol.cap < getRoundedCapacity(expands[e].want)

\* The capacity that ControllerExpandVolume stores for a claim is rounded.
LEMMA ClaimRounded ==
    ASSUME NEW size \in Sizes
    PROVE  /\ Rounded(getRoundedCapacity(size))
           /\ NoOverflow(getRoundedCapacity(size))
           /\ getRoundedCapacity(size) \in Nat
<1>1. size \in Nat /\ size + 2 * Gi <= MaxInt
  BY ExpansionAssumption
<1>2. NoOverflow(size)
  BY <1>1, Units, MaxIntType DEF NoOverflow
<1>3. Rounded(getRoundedCapacity(size)) /\ getRoundedCapacity(size) < size + Gi
  BY <1>2, RoundedCapacity
<1>4. getRoundedCapacity(size) \in Nat
  BY <1>3 DEF Rounded
<1> QED
  BY <1>1, <1>3, <1>4, Units, MaxIntType DEF NoOverflow

\* The rates that getRatePerGB returns are natural numbers: a rate that cannot
\* be parsed discards the configuration.
LEMMA RatesType == Rates \subseteq Nat
<1>1. \A e \in extractRateValues(RateConfig) : e.rate \in Nat
  BY PublishAssumption DEF extractRateValues
<1> QED
  BY <1>1 DEF Rates, getRatePerGB

\* An IO limit is a natural number.
LEMMA LimitType ==
    ASSUME NEW rate \in Rates, NEW cap \in Nat
    PROVE  IOLimit(rate, cap) \in Nat
<1>1. rate \in Nat /\ IntMod \in Nat \ {0}
  BY RatesType, SizingAssumption
<1>2. CapacityGB(cap) \in Nat
  BY Units DEF CapacityGB
<1> QED
  BY <1>1, <1>2 DEF IOLimit

\* A volume starts with a rounded capacity and nothing made of it.
LEMMA CapacityInit == Init => CapacityInv
<1> SUFFICES ASSUME Init PROVE CapacityInv
  OBVIOUS
<1>1. vol.cap = getRoundedCapacity(FirstSize) /\ FirstSize \in Sizes
  BY ExpansionAssumption DEF Init, ExpandInit
<1>2. Rounded(vol.cap) /\ NoOverflow(vol.cap) /\ vol.cap \in Nat
  BY <1>1, ClaimRounded
<1>3. PICK kind \in Kinds : here = kind[1] /\ mode = kind[2] /\ shared = kind[3]
  BY DEF Init
<1>4. here \in BOOLEAN /\ mode \in Modes /\ shared \in BOOLEAN
  BY <1>3, KindsAssumption
<1>5. NodeTypeOK
  BY <1>1, <1>2, <1>4, PublishAssumption, ExpansionAssumption
  DEF Init, ExpandInit, PublishInit, NodeTypeOK, VolumeRecord, Phases, Idle
<1> QED
  BY <1>2, <1>5 DEF Init, ExpandInit, CapacityInv, Idle

\* The steps of the volume controller.
LEMMA ControllerStep ==
    ASSUME CapacityInv, ProvisionLV \/ UpdateVolInfo \/ DeleteVolume \/ Destroy
    PROVE  CapacityInv'
<1> USE DEF publishVars, expandVars
<1>1. CASE ProvisionLV
  BY <1>1 DEF CapacityInv, NodeTypeOK, ProvisionLV, VolumeRecord
<1>2. ASSUME NEW phase \in Phases, vol' = [vol EXCEPT !.phase = phase],
             UNCHANGED <<here, mode, shared, lv, fs, publishVars, expandVars, gaps>>
      PROVE  CapacityInv'
  <2>1. vol' \in VolumeRecord /\ vol'.cap = vol.cap
    BY <1>2, ZenonT(30) DEF CapacityInv, NodeTypeOK, VolumeRecord
  <2> QED
    BY <1>2, <2>1 DEF CapacityInv, NodeTypeOK
<1>3. CASE UpdateVolInfo
  BY <1>2, <1>3 DEF UpdateVolInfo, Phases
<1>4. CASE DeleteVolume
  BY <1>2, <1>4 DEF DeleteVolume, Phases
<1>5. CASE RemoveVolumeFilesystem
  BY <1>5 DEF RemoveVolumeFilesystem, CapacityInv, NodeTypeOK
<1>6. CASE DestroyLV
  BY <1>6 DEF DestroyLV, CapacityInv, NodeTypeOK, VolumeRecord
<1>7. CASE RemoveVolFinalizer
  BY <1>2, <1>7 DEF RemoveVolFinalizer, Phases
<1> QED
  BY <1>1, <1>3, <1>4, <1>5, <1>6, <1>7 DEF Destroy

\* A history of gaps keeps its type.
LEMMA GapType ==
    ASSUME gaps \in SUBSET GapKinds, NEW kind \in GapKinds, NEW condition,
           Gap(kind) \/ GapIf(condition, kind)
    PROVE  gaps' \in SUBSET GapKinds
  BY DEF Gap, GapIf

\* The steps of NodePublishVolume and NodeUnpublishVolume.
LEMMA PublishStep ==
    ASSUME CapacityInv, PublishNext, UNCHANGED expandVars
    PROVE  CapacityInv'
<1> USE DEF expandVars, volumeVars
<1>0. NodeTypeOK
  BY DEF CapacityInv
<1>a. PICK p \in Paths : \/ NodePublishVolume(p)
                         \/ VerifyMountRequest(p)
                         \/ FormatAndMountVol(p)
                         \/ MountBlock(p)
                         \/ NodeUnpublishVolume(p)
  BY DEF PublishNext
<1>b. \A rate \in Rates : publishes[p] # Idle => IOLimit(rate, publishes[p].vol.cap) \in Nat
  BY <1>0, LimitType DEF NodeTypeOK, PublishCall, VolumeRecord
<1>c. SetIOLimits(p) /\ publishes[p] # Idle => limits' \in [Paths -> Nat \cup {NoLimit}]
  BY <1>0, <1>b DEF SetIOLimits, NodeTypeOK
<1>d. EndPublish(p) => publishes' \in [Paths -> PublishCall \cup {Idle}]
  BY <1>0 DEF EndPublish, NodeTypeOK
<1>1. CASE NodePublishVolume(p)
  BY <1>0, <1>1, ZenonT(30)
     DEF NodePublishVolume, CapacityInv, NodeTypeOK, PublishCall
<1>2. CASE VerifyMountRequest(p)
  <2>1. publishes[p] \in PublishCall
    BY <1>0, <1>2 DEF VerifyMountRequest, NodeTypeOK, Idle
  <2>2. publishes' \in [Paths -> PublishCall \cup {Idle}]
    <3>1. [publishes[p] EXCEPT !.pc = "mount"] \in PublishCall
      BY <2>1 DEF PublishCall
    <3>2. Proceed(p, "mount") => publishes' \in [Paths -> PublishCall \cup {Idle}]
      BY <1>0, <3>1 DEF NodeTypeOK, Proceed
    <3> QED
      BY <1>2, <1>d, <3>2, ZenonT(30) DEF VerifyMountRequest
  <2>3. gaps' \in SUBSET GapKinds
    BY <1>0, <1>2, GapType, ZenonT(30)
       DEF VerifyMountRequest, NodeTypeOK, GapKinds
  <2> QED
    BY <1>0, <1>2, <2>2, <2>3, ZenonT(30)
       DEF VerifyMountRequest, CapacityInv, NodeTypeOK
<1>3. CASE FormatAndMountVol(p)
  <2>1. publishes[p] # Idle
    BY <1>3 DEF FormatAndMountVol, Idle
  <2>2. limits' \in [Paths -> Nat \cup {NoLimit}]
    BY <1>0, <1>3, <1>c, <2>1, ZenonT(30) DEF FormatAndMountVol, NodeTypeOK
  <2>3. mounts' \in [Paths -> 0 .. MaxStack] /\ fs' \in Nat /\ fs' <= lv
    BY <1>0, <1>3, PublishAssumption DEF FormatAndMountVol, Formatted, CapacityInv, NodeTypeOK
  <2> QED
    BY <1>0, <1>3, <1>d, <2>2, <2>3, ZenonT(30)
       DEF FormatAndMountVol, CapacityInv, NodeTypeOK
<1>4. CASE MountBlock(p)
  <2>1. publishes[p] # Idle
    BY <1>4 DEF MountBlock, Idle
  <2>2. limits' \in [Paths -> Nat \cup {NoLimit}]
    BY <1>0, <1>4, <1>c, <2>1 DEF MountBlock, NodeTypeOK
  <2>3. mounts' \in [Paths -> 0 .. MaxStack]
    BY <1>0, <1>4, PublishAssumption DEF MountBlock, NodeTypeOK
  <2>4. gaps' \in SUBSET GapKinds
    BY <1>0, <1>4, GapType, ZenonT(30) DEF MountBlock, NodeTypeOK, GapKinds
  <2> QED
    BY <1>0, <1>4, <1>d, <2>2, <2>3, <2>4, ZenonT(30)
       DEF MountBlock, CapacityInv, NodeTypeOK
<1>5. CASE NodeUnpublishVolume(p)
  <2>1. mounts' \in [Paths -> 0 .. MaxStack]
    BY <1>0, <1>5, PublishAssumption DEF NodeUnpublishVolume, UmountVolume, NodeTypeOK
  <2>2. gaps' \in SUBSET GapKinds
    BY <1>0, <1>5, GapType DEF NodeUnpublishVolume, UmountVolume, NodeTypeOK, GapKinds
  <2> QED
    BY <1>0, <1>5, <2>1, <2>2, ZenonT(30)
       DEF NodeUnpublishVolume, UmountVolume, CapacityInv, NodeTypeOK
<1> QED
  BY <1>a, <1>1, <1>2, <1>3, <1>4, <1>5

\* The claim and the handlers that only read: they copy a capacity, or size
\* a snapshot by it.
LEMMA ClaimStep ==
    ASSUME CapacityInv, Claim
    PROVE  CapacityInv'
<1> USE DEF volumeVars, publishVars, claimVars
<1>0. /\ NodeTypeOK
      /\ UNCHANGED <<vol, here, mode, shared, lv, fs, mounts, limits, inUse, publishes>>
  BY DEF CapacityInv, Claim
<1>1. ASSUME NEW size \in Sizes, GrowClaim(size)
      PROVE  CapacityInv'
  <2>1. gaps' \in SUBSET GapKinds
    BY <1>0, <1>1, GapType DEF GrowClaim, NodeTypeOK, GapKinds
  <2> QED
    BY <1>0, <1>1, <2>1, ZenonT(30) DEF GrowClaim, CapacityInv, NodeTypeOK
<1>2. CASE Snapshot
  <2>2. \A class \in SnapClasses : ValidSnapClass(class) =>
           SnapSize(NewSnapshotParams(class), vol.cap, FALSE) \in 0 .. vol.cap
    BY ExpansionAssumption, SnapSizeBound, ZenonT(30) DEF CapacityInv
  <2>3. vol.cap \in Nat
    BY <1>0 DEF NodeTypeOK, VolumeRecord
  <2>4. snapped' \in Nat /\ snapped' <= vol.cap
    <3>1. CASE HasSnapshot
      BY <1>2, <2>3, <3>1 DEF Snapshot
    <3>2. CASE ~ HasSnapshot
      <4>1. PICK class \in SnapClasses :
               /\ ValidSnapClass(class)
               /\ snapped' = SnapSize(NewSnapshotParams(class), vol.cap, FALSE)
        BY <1>2, <3>2, ZenonT(30) DEF Snapshot
      <4>2. snapped' \in 0 .. vol.cap
        BY <2>2, <4>1, ZenonT(30)
      <4> QED
        BY <2>3, <4>2
    <3> QED
      BY <3>1, <3>2
  <2> QED
    BY <1>0, <1>2, <2>4, ZenonT(30) DEF Snapshot, CapacityInv, NodeTypeOK
<1>3. ASSUME NEW e \in ExpandCalls, GiveUp(e)
      PROVE  CapacityInv'
  <2>1. gaps' \in SUBSET GapKinds
    BY <1>0, <1>3, GapType DEF GiveUp, NodeTypeOK, GapKinds
  <2>2. expands[e] \in ExpandCall
    BY <1>0, <1>3, ZenonT(30) DEF GiveUp, NodeTypeOK
  <2>3. /\ [expands[e] EXCEPT !.abandoned = TRUE] \in ExpandCall
        /\ [expands[e] EXCEPT !.abandoned = TRUE].pc = expands[e].pc
        /\ [expands[e] EXCEPT !.abandoned = TRUE].want = expands[e].want
        /\ expands[e].pc = "update" =>
              [expands[e] EXCEPT !.abandoned = TRUE].vol = expands[e].vol
    BY <2>2, ZenonT(30) DEF ExpandCall
  <2>4. expands' = [expands EXCEPT ![e] = [expands[e] EXCEPT !.abandoned = TRUE]]
    BY <1>0, <1>3 DEF GiveUp, NodeTypeOK
  <2> QED
    BY <1>0, <1>3, <2>1, <2>3, <2>4 DEF GiveUp, CapacityInv, NodeTypeOK
<1>4. ASSUME NEW e \in ExpandCalls, ControllerExpandVolume(e)
      PROVE  CapacityInv'
  BY <1>0, <1>4, ZenonT(30)
     DEF ControllerExpandVolume, CapacityInv, NodeTypeOK, ExpandCall
<1>5. ASSUME NEW e \in ExpandCalls, GetVolumeToExpand(e)
      PROVE  CapacityInv'
  <2>1. expands[e] \in ExpandCall
    BY <1>0, <1>5 DEF GetVolumeToExpand, NodeTypeOK, Idle
  <2>2. expands[e].want \in Sizes /\ expands[e].abandoned \in BOOLEAN
    BY <2>1 DEF ExpandCall
  <2>3. resize' \in {"idle", "controller", "node"}
    BY <1>0, <1>5, ZenonT(30) DEF GetVolumeToExpand, Answered, NodeTypeOK
  <2> DEFINE got == [pc |-> "update", want |-> expands[e].want,
                     abandoned |-> expands[e].abandoned, vol |-> vol]
  <2>4. \/ /\ expands' = [expands EXCEPT ![e] = got]
           /\ vol.cap < getRoundedCapacity(expands[e].want)
        \/ expands' = [expands EXCEPT ![e] = Idle]
    BY <1>0, <1>5, ZenonT(30) DEF GetVolumeToExpand, EndExpand, NodeTypeOK
  <2>5. /\ got \in ExpandCall
        /\ got.vol = vol
        /\ got.want = expands[e].want
    BY <1>0, <2>2, ZenonT(30) DEF ExpandCall, NodeTypeOK
  <2> HIDE DEF got
  <2>6. expands' \in [ExpandCalls -> ExpandCall \cup {Idle}]
    BY <1>0, <2>4, <2>5 DEF NodeTypeOK
  <2>7. \A d \in ExpandCalls : expands'[d].pc = "update" =>
          expands'[d].vol.cap < getRoundedCapacity(expands'[d].want)
    <3>1. expands \in [ExpandCalls -> ExpandCall \cup {Idle}]
      BY <1>0, ZenonT(30) DEF NodeTypeOK
    <3>2. \A d \in ExpandCalls : d # e => expands'[d] = expands[d]
      BY <2>4, <3>1, ZenonT(30)
    <3>3. \/ expands'[e] = got /\ vol.cap < getRoundedCapacity(expands[e].want)
          \/ expands'[e] = Idle
      BY <2>4, <3>1, ZenonT(30)
    <3>4. Idle.pc # "update"
      BY DEF Idle
    <3> QED
      BY <2>5, <3>2, <3>3, <3>4, ZenonT(30) DEF CapacityInv
  <2> QED
    BY <1>0, <1>5, <2>3, <2>6, <2>7, ZenonT(30)
       DEF GetVolumeToExpand, CapacityInv, NodeTypeOK
<1>6. CASE NodeExpandVolume
  <2>1. vol.cap \in Nat /\ vol.cap <= vol.cap
    BY <1>0 DEF NodeTypeOK, VolumeRecord
  <2>2. /\ nodeExpand' \in NodeExpandCall
        /\ nodeExpand'.cap = vol.cap
    BY <1>0, <1>6, <2>1, ZenonT(30) DEF NodeExpandVolume, NodeExpandCall, NodeTypeOK
  <2> QED
    BY <1>0, <1>6, <2>1, <2>2, ZenonT(30) DEF NodeExpandVolume, CapacityInv, NodeTypeOK
<1> QED
  BY <1>1, <1>2, <1>3, <1>4, <1>5, <1>6 DEF Claim, ClaimNext

\* ResizeVolume: the Update is made from the current version, so the capacity
\* only grows.
LEMMA ResizeStep ==
    ASSUME CapacityInv, NEW e \in ExpandCalls, Resize(e)
    PROVE  CapacityInv' /\ vol.cap <= vol'.cap
<1> USE DEF publishVars
<1>0. NodeTypeOK /\ vol.cap \in Nat
  BY ZenonT(30) DEF CapacityInv, NodeTypeOK, VolumeRecord
<1>1. expands[e] \in ExpandCall
  BY <1>0 DEF Resize, ResizeVolume, NodeTypeOK, Idle
<1>2. expands[e].want \in Sizes
  BY <1>1 DEF ExpandCall
<1>3. /\ expands' \in [ExpandCalls -> ExpandCall \cup {Idle}]
      /\ \A d \in ExpandCalls : expands'[d].pc = "update" =>
            expands'[d].vol.cap < getRoundedCapacity(expands'[d].want)
  BY <1>0, ZenonT(30)
     DEF Resize, ResizeVolume, EndExpand, CapacityInv, NodeTypeOK, Idle
<1>4. resize' \in {"idle", "controller", "node"}
  BY <1>0 DEF Resize, ResizeVolume, Answered, NodeTypeOK
<1>5. /\ vol' \in VolumeRecord
      /\ Rounded(vol'.cap)
      /\ NoOverflow(vol'.cap)
      /\ vol.cap <= vol'.cap
      /\ vol'.cap \in Nat
  <2>1. CASE vol' = vol
    <3>1. vol.cap <= vol.cap
      BY <1>0
    <3> QED
      BY <1>0, <2>1, <3>1, ZenonT(30) DEF CapacityInv, NodeTypeOK
  <2>2. CASE /\ vol = expands[e].vol
             /\ vol' = [vol EXCEPT !.cap = getRoundedCapacity(expands[e].want)]
    <3>1. vol.cap < getRoundedCapacity(expands[e].want)
      BY <2>2, ZenonT(30) DEF CapacityInv, Resize, ResizeVolume
    <3>2. /\ Rounded(getRoundedCapacity(expands[e].want))
          /\ NoOverflow(getRoundedCapacity(expands[e].want))
          /\ getRoundedCapacity(expands[e].want) \in Nat
      BY <1>2, ClaimRounded
    <3>3. /\ vol' \in VolumeRecord
          /\ vol'.cap = getRoundedCapacity(expands[e].want)
      BY <1>0, <2>2, <3>2, ZenonT(30) DEF NodeTypeOK, VolumeRecord
    <3> QED
      BY <1>0, <3>1, <3>2, <3>3
  <2> QED
    BY <2>1, <2>2 DEF Resize, ResizeVolume
<1>6. UNCHANGED <<here, mode, shared, lv, fs, mounts, limits, inUse, publishes,
                  want, snapped, nodeExpand, failures, gaps>>
  BY DEF Resize, ResizeVolume
<1>7. NodeTypeOK'
  BY <1>0, <1>3, <1>4, <1>5, <1>6, ZenonT(30) DEF NodeTypeOK
<1>8. nodeExpand # Idle => nodeExpand.cap \in Nat
  BY <1>0 DEF NodeTypeOK, NodeExpandCall
<1>9. /\ fs <= lv /\ lv <= vol.cap /\ snapped <= vol.cap
      /\ nodeExpand # Idle => nodeExpand.cap <= vol.cap
      /\ fs \in Nat /\ lv \in Nat /\ snapped \in Nat
  BY <1>0, ZenonT(30) DEF CapacityInv, NodeTypeOK
<1>10. /\ lv <= vol'.cap /\ snapped <= vol'.cap
       /\ nodeExpand # Idle => nodeExpand.cap <= vol'.cap
  BY <1>0, <1>5, <1>8, <1>9
<1> QED
  BY <1>3, <1>5, <1>6, <1>7, <1>9, <1>10, ZenonT(30) DEF CapacityInv

\* The commands of NodeExpandVolume.
LEMMA ExtendStep ==
    ASSUME CapacityInv, Extend
    PROVE  CapacityInv'
<1>0. /\ NodeTypeOK
      /\ vol.cap \in Nat
      /\ UNCHANGED <<vol, here, mode, shared, mounts, limits, inUse, publishes>>
  BY ZenonT(30) DEF CapacityInv, NodeTypeOK, VolumeRecord, Extend, publishVars
<1>1. nodeExpand \in NodeExpandCall
  BY <1>0 DEF Extend, ResizeNext, ExtendWithFS, ExtendLV, ResizeBTRFS,
              FailNodeExpand, RefuseNodeExpand, NodeTypeOK, Idle
<1>2. nodeExpand.cap \in Nat /\ nodeExpand.cap <= vol.cap
  BY <1>1 DEF CapacityInv, NodeExpandCall, Idle
<1>3. EndNodeExpand => /\ nodeExpand' = Idle
                       /\ resize' \in {"idle", "controller", "node"}
  BY <1>0 DEF EndNodeExpand, NodeTypeOK
<1>a. /\ lv \in Nat /\ fs \in Nat
      /\ fs <= lv /\ lv <= vol.cap
      /\ resize \in {"idle", "controller", "node"}
      /\ failures \in 0 .. MaxFailures
  BY <1>0, ZenonT(30) DEF CapacityInv, NodeTypeOK
<1>b. UNCHANGED <<want, snapped, expands, gaps>>
  BY ZenonT(30) DEF Extend, ResizeNext, ExtendWithFS, ExtendLV, ResizeBTRFS,
                    FailNodeExpand, RefuseNodeExpand, claimVars
<1> DEFINE Fits == /\ lv' \in Nat /\ fs' \in Nat
                   /\ fs' <= lv' /\ lv' <= vol.cap
                   /\ nodeExpand' \in NodeExpandCall \cup {Idle}
                   /\ nodeExpand' # Idle => nodeExpand'.cap <= vol.cap
                   /\ resize' \in {"idle", "controller", "node"}
                   /\ failures' \in 0 .. MaxFailures
<1>c. Fits => CapacityInv'
  BY <1>0, <1>b, ZenonT(30) DEF CapacityInv, NodeTypeOK
<1>4. CASE ExtendWithFS
  <2>1. /\ lv' = nodeExpand.cap /\ fs' = nodeExpand.cap
        /\ EndNodeExpand /\ UNCHANGED failures
    BY <1>4, ZenonT(30) DEF ExtendWithFS
  <2>2. Fits
    BY <1>2, <1>3, <1>a, <2>1
  <2> QED
    BY <1>c, <2>2
<1>5. CASE ExtendLV
  <2>1. /\ [nodeExpand EXCEPT !.pc = "btrfs"] \in NodeExpandCall
        /\ [nodeExpand EXCEPT !.pc = "btrfs"].cap = nodeExpand.cap
    BY <1>1 DEF NodeExpandCall
  <2>2. /\ lv' = IF lv < nodeExpand.cap THEN nodeExpand.cap ELSE lv
        /\ UNCHANGED <<fs, failures>>
    BY <1>5, ZenonT(30) DEF ExtendLV
  <2>3. lv' \in Nat /\ lv <= lv' /\ lv' <= vol.cap
    BY <1>0, <1>2, <1>a, <2>2
  <2>4. /\ nodeExpand' \in NodeExpandCall \cup {Idle}
        /\ nodeExpand' # Idle => nodeExpand'.cap <= vol.cap
        /\ resize' \in {"idle", "controller", "node"}
    BY <1>2, <1>3, <1>5, <1>a, <2>1, ZenonT(30) DEF ExtendLV
  <2>5. Fits
    BY <1>a, <2>2, <2>3, <2>4
  <2> QED
    BY <1>c, <2>5
<1>6. CASE ResizeBTRFS
  <2>1. fs' = lv /\ EndNodeExpand /\ UNCHANGED <<lv, failures>>
    BY <1>6, ZenonT(30) DEF ResizeBTRFS
  <2>2. Fits
    BY <1>3, <1>a, <2>1
  <2> QED
    BY <1>c, <2>2
<1>7. CASE FailNodeExpand
  <2>1. failures < MaxFailures /\ failures' = failures + 1 /\ nodeExpand' = Idle
    BY <1>7, ZenonT(30) DEF FailNodeExpand
  <2>2. lv' = lv \/ (lv < nodeExpand.cap /\ lv' = nodeExpand.cap)
    BY <1>7, ZenonT(30) DEF FailNodeExpand
  <2>3. UNCHANGED <<fs, resize>>
    BY <1>7, ZenonT(30) DEF FailNodeExpand, claimVars
  <2>4. Fits
    BY <1>2, <1>a, <2>1, <2>2, <2>3, ExpansionAssumption
  <2> QED
    BY <1>c, <2>4
<1>8. CASE RefuseNodeExpand
  <2>1. nodeExpand' = Idle /\ UNCHANGED <<lv, fs, resize, failures>>
    BY <1>8, ZenonT(30) DEF RefuseNodeExpand, claimVars
  <2>2. Fits
    BY <1>a, <2>1
  <2> QED
    BY <1>c, <2>2
<1> QED
  BY <1>4, <1>5, <1>6, <1>7, <1>8 DEF Extend, ResizeNext

\* Every step keeps the invariant.
LEMMA CapacityNext == CapacityInv /\ [Next]_vars => CapacityInv'
<1> SUFFICES ASSUME CapacityInv, [Next]_vars PROVE CapacityInv'
  OBVIOUS
<1>1. CASE UNCHANGED vars
  BY <1>1, ZenonT(30) DEF vars, CapacityInv, NodeTypeOK
<1>2. CASE ProvisionLV \/ UpdateVolInfo \/ DeleteVolume \/ Destroy
  BY <1>2, ControllerStep
<1>3. CASE PublishNext /\ UNCHANGED expandVars
  BY <1>3, PublishStep
<1>4. CASE Claim
  BY <1>4, ClaimStep
<1>5. CASE \E e \in ExpandCalls : Resize(e)
  BY <1>5, ResizeStep
<1>6. CASE Extend
  BY <1>6, ExtendStep
<1> QED
  BY <1>1, <1>2, <1>3, <1>4, <1>5, <1>6 DEF Next

\* The inductive invariant holds throughout.
THEOREM CapacityInvariant == Spec => []CapacityInv
  BY CapacityInit, CapacityNext, PTL DEF Spec

\* Every variable of the node service keeps its type.
THEOREM NodeTypeCorrect == Spec => []NodeTypeOK
<1>1. CapacityInv => NodeTypeOK
  BY DEF CapacityInv
<1> QED
  BY <1>1, CapacityInvariant, PTL

\* A logical volume is never larger than the capacity of its resource, nor a
\* filesystem than its volume, through every race of expansion and deletion.
THEOREM LVFitsCapacity == Spec => []LVWithinCapacity
<1>1. CapacityInv => LVWithinCapacity
  BY DEF CapacityInv, LVWithinCapacity
<1> QED
  BY <1>1, CapacityInvariant, PTL

\* CreateSnapshot never makes a snapshot larger than its origin.
THEOREM SnapshotFitsOrigin == Spec => []SnapWithinOrigin
<1>1. CapacityInv => SnapWithinOrigin
  BY DEF CapacityInv, SnapWithinOrigin
<1> QED
  BY <1>1, CapacityInvariant, PTL

-----------------------------------------------------------------------------
\* IO limits.

\* A larger volume has at least as many started Gi.
LEMMA StartedGiGrow ==
    ASSUME NEW a \in Nat, NEW b \in Nat, a <= b
    PROVE  /\ CapacityGB(a) \in Nat
           /\ CapacityGB(b) \in Nat
           /\ CapacityGB(a) <= CapacityGB(b)
<1> DEFINE q == (a + Gi - 1) \div Gi
           r == (b + Gi - 1) \div Gi
<1>1. Gi \in Nat \ {0} /\ a + Gi - 1 \in Nat /\ b + Gi - 1 \in Nat
  BY Units
<1>2. q \in Nat /\ q * Gi <= a + Gi - 1
  BY <1>1, Division
<1>3. r \in Nat /\ b + Gi - 1 < r * Gi + Gi
  BY <1>1, Division
<1> HIDE DEF q, r
<1>4. q * Gi \in Nat /\ r * Gi \in Nat /\ (r + 1) * Gi = r * Gi + Gi
  BY <1>1, <1>2, <1>3
<1>5. q * Gi < (r + 1) * Gi
  BY <1>1, <1>2, <1>3, <1>4
<1>6. q <= r
  BY <1>1, <1>2, <1>3, <1>5, Product
<1> QED
  BY <1>2, <1>3, <1>6 DEF CapacityGB, q, r

\* So its IO limit is not lower.
LEMMA LimitGrows ==
    ASSUME RatesFit, NEW rate \in Rates, NEW size \in Sizes, NEW a \in Nat,
           a <= getRoundedCapacity(size)
    PROVE  /\ IOLimit(rate, a) = rate * CapacityGB(a)
           /\ IOLimit(rate, a) <= IOLimit(rate, getRoundedCapacity(size))
<1> DEFINE b == getRoundedCapacity(size)
<1>1. b \in Nat
  BY ClaimRounded, ZenonT(30)
<1> DEFINE m == CapacityGB(a)
           n == CapacityGB(b)
<1>2. rate * n < IntMod
  BY ZenonT(30) DEF RatesFit
<1>3. m \in Nat /\ n \in Nat /\ m <= n
  <2> HIDE DEF b
  <2> QED
    BY <1>1, StartedGiGrow DEF b
<1>4. IOLimit(rate, a) = (rate * m) % IntMod /\ IOLimit(rate, b) = (rate * n) % IntMod
  BY ZenonT(30) DEF IOLimit
<1>5. rate \in Nat /\ IntMod \in Nat \ {0}
  BY RatesType, SizingAssumption
<1> HIDE DEF m, n, b
<1>6. rate * m \in Nat /\ rate * n \in Nat /\ rate * m <= rate * n
  BY <1>3, <1>5
<1>7. (rate * m) % IntMod = rate * m /\ (rate * n) % IntMod = rate * n
  BY <1>2, <1>5, <1>6
<1> QED
  BY <1>4, <1>6, <1>7 DEF m, b

\* NodePublishVolume copies the volume, and setIOLimits computes a limit from
\* the copy.
LEMMA PublishedLimits ==
    ASSUME CapacityInv, NEW p \in Paths,
           \/ NodePublishVolume(p)
           \/ VerifyMountRequest(p)
           \/ FormatAndMountVol(p)
           \/ MountBlock(p)
           \/ NodeUnpublishVolume(p)
    PROVE  /\ UNCHANGED <<vol, lv>>
           /\ \A q \in Paths : publishes'[q] # Idle =>
                 \/ publishes'[q].vol = vol
                 \/ publishes[q] # Idle /\ publishes'[q].vol = publishes[q].vol
           /\ \A q \in Paths : limits'[q] # NoLimit =>
                 \/ limits'[q] = limits[q]
                 \/ /\ publishes[q] # Idle
                    /\ \E rate \in Rates : limits'[q] = IOLimit(rate, publishes[q].vol.cap)
<1>0. /\ publishes \in [Paths -> PublishCall \cup {Idle}]
      /\ limits \in [Paths -> Nat \cup {NoLimit}]
  BY ZenonT(30) DEF CapacityInv, NodeTypeOK
<1>1. UNCHANGED <<vol, lv>>
  BY ZenonT(30) DEF NodePublishVolume, VerifyMountRequest, FormatAndMountVol,
                    MountBlock, NodeUnpublishVolume, volumeVars
<1>2. \/ publishes' = publishes
      \/ EndPublish(p)
      \/ publishes[p].pc = "verify" /\ Proceed(p, "mount")
      \/ \E pc \in {"verify", "mount"} :
            publishes' = [publishes EXCEPT ![p] = [pc |-> pc, vol |-> vol]]
  BY ZenonT(30) DEF NodePublishVolume, VerifyMountRequest, FormatAndMountVol,
                    MountBlock, NodeUnpublishVolume
<1>3. \A q \in Paths : publishes'[q] # Idle =>
         \/ publishes'[q].vol = vol
         \/ publishes[q] # Idle /\ publishes'[q].vol = publishes[q].vol
  <2>1. CASE publishes' = publishes
    BY <2>1, ZenonT(30)
  <2>2. CASE EndPublish(p)
    BY <1>0, <2>2 DEF EndPublish
  <2>3. CASE publishes[p].pc = "verify" /\ Proceed(p, "mount")
    <3>1. publishes[p] \in PublishCall /\ publishes[p] # Idle
      BY <1>0, <2>3 DEF Idle
    <3>2. [publishes[p] EXCEPT !.pc = "mount"].vol = publishes[p].vol
      BY <3>1, ZenonT(30) DEF PublishCall
    <3>3. publishes' = [publishes EXCEPT ![p] = [publishes[p] EXCEPT !.pc = "mount"]]
      BY <1>0, <2>3 DEF Proceed
    <3> QED
      BY <1>0, <3>1, <3>2, <3>3
  <2>4. ASSUME NEW pc,
               publishes' = [publishes EXCEPT ![p] = [pc |-> pc, vol |-> vol]]
        PROVE  \A q \in Paths : publishes'[q] # Idle =>
                  publishes'[q].vol = vol \/ publishes'[q] = publishes[q]
    BY <1>0, <2>4
  <2> QED
    BY <1>2, <2>1, <2>2, <2>3, <2>4, ZenonT(30)
<1>4. \/ limits' = limits
      \/ limits' = [limits EXCEPT ![p] = NoLimit]
      \/ SetIOLimits(p) /\ publishes[p].pc = "mount"
  BY ZenonT(30) DEF NodePublishVolume, VerifyMountRequest, FormatAndMountVol,
                    MountBlock, NodeUnpublishVolume
<1>5. \A q \in Paths : limits'[q] # NoLimit =>
         \/ limits'[q] = limits[q]
         \/ /\ publishes[q] # Idle
            /\ \E rate \in Rates : limits'[q] = IOLimit(rate, publishes[q].vol.cap)
  <2>1. CASE limits' = limits
    BY <2>1, ZenonT(30)
  <2>2. CASE limits' = [limits EXCEPT ![p] = NoLimit]
    BY <1>0, <2>2
  <2>3. CASE SetIOLimits(p) /\ publishes[p].pc = "mount"
    <3>1. publishes[p] # Idle
      BY <2>3 DEF Idle
    <3>2. ASSUME NEW rate \in Rates,
                 limits' = [limits EXCEPT ![p] = IOLimit(rate, publishes[p].vol.cap)]
          PROVE  \A q \in Paths : \/ limits'[q] = limits[q]
                                  \/ q = p /\ limits'[p] = IOLimit(rate, publishes[p].vol.cap)
      BY <1>0, <3>2
    <3> QED
      BY <2>1, <2>3, <3>1, <3>2, ZenonT(30) DEF SetIOLimits
  <2> QED
    BY <1>4, <2>1, <2>2, <2>3, ZenonT(30)
<1> QED
  BY <1>1, <1>3, <1>5

\* Nobody else touches limits or copies, and only ResizeVolume the capacity.
LEMMA LimitsFrame ==
    ASSUME CapacityInv,
           \/ ProvisionLV \/ UpdateVolInfo \/ DeleteVolume \/ Destroy
           \/ Claim \/ Extend
    PROVE  UNCHANGED <<publishes, limits>> /\ vol'.cap = vol.cap
<1>1. vol \in VolumeRecord
  BY ZenonT(30) DEF CapacityInv, NodeTypeOK
<1>2. UNCHANGED <<publishes, limits>>
  BY ZenonT(30) DEF ProvisionLV, UpdateVolInfo, DeleteVolume, Destroy,
                    RemoveVolumeFilesystem, DestroyLV, RemoveVolFinalizer,
                    Claim, Extend, publishVars
<1>3. vol' = vol \/ \E phase \in Phases : vol' = [vol EXCEPT !.phase = phase]
  BY ZenonT(30) DEF ProvisionLV, UpdateVolInfo, DeleteVolume, Destroy,
                    RemoveVolumeFilesystem, DestroyLV, RemoveVolFinalizer,
                    Claim, Extend, volumeVars, Phases
<1> QED
  BY <1>1, <1>2, <1>3 DEF VolumeRecord

\* The inductive invariant for limits: the capacity is one that a claim asked
\* for, and the copy in a handler is not above it.
LimitsInv ==
    /\ \E size \in Sizes : vol.cap = getRoundedCapacity(size)
    /\ \A p \in Paths : publishes[p] # Idle => publishes[p].vol.cap <= vol.cap
    /\ LimitsWithinCapacity

\* At first there are no limits.
LEMMA LimitsInit == Init => LimitsInv
<1> SUFFICES ASSUME Init PROVE LimitsInv
  OBVIOUS
<1>1. vol.cap = getRoundedCapacity(FirstSize) /\ FirstSize \in Sizes
  BY ExpansionAssumption DEF Init, ExpandInit
<1>2. \A p \in Paths : publishes[p] = Idle /\ limits[p] = NoLimit
  BY DEF Init, PublishInit
<1> QED
  BY <1>1, <1>2, ZenonT(30) DEF LimitsInv, LimitsWithinCapacity

\* A capacity that grows raises no limit above what it grants.
LEMMA LimitsResize ==
    ASSUME RatesFit, CapacityInv, LimitsInv, NEW e \in ExpandCalls, Resize(e)
    PROVE  LimitsInv'
<1>0. /\ CapacityInv' /\ vol.cap <= vol'.cap
      /\ vol.cap \in Nat /\ vol'.cap \in Nat
  BY ResizeStep, ZenonT(30) DEF CapacityInv, NodeTypeOK, VolumeRecord
<1>1. UNCHANGED <<publishes, limits>>
  BY ZenonT(30) DEF Resize, publishVars
<1>2. /\ limits \in [Paths -> Nat \cup {NoLimit}]
      /\ \A p \in Paths : publishes[p] # Idle => publishes[p].vol.cap \in Nat
  BY ZenonT(30) DEF CapacityInv, NodeTypeOK, PublishCall, VolumeRecord
<1>3. PICK size \in Sizes : vol'.cap = getRoundedCapacity(size)
  <2>1. expands[e].pc = "update" /\ expands \in [ExpandCalls -> ExpandCall \cup {Idle}]
    BY ZenonT(30) DEF Resize, ResizeVolume, CapacityInv, NodeTypeOK
  <2>2. expands[e].want \in Sizes
    BY <2>1 DEF ExpandCall, Idle
  <2>3. vol' = vol \/ vol' = [vol EXCEPT !.cap = getRoundedCapacity(expands[e].want)]
    BY ZenonT(30) DEF Resize, ResizeVolume
  <2>4. vol \in VolumeRecord
    BY ZenonT(30) DEF CapacityInv, NodeTypeOK
  <2>5. vol' = vol \/ vol'.cap = getRoundedCapacity(expands[e].want)
    BY <2>3, <2>4 DEF VolumeRecord
  <2> QED
    BY <2>2, <2>5, ZenonT(30) DEF LimitsInv
<1>4. \A p \in Paths : publishes'[p] # Idle => publishes'[p].vol.cap <= vol'.cap
  BY <1>0, <1>1, <1>2 DEF LimitsInv
<1>5. ASSUME NEW p \in Paths, limits[p] # NoLimit
      PROVE  \E rate \in Rates : limits[p] <= IOLimit(rate, vol'.cap)
  <2>1. PICK rate \in Rates : limits[p] <= IOLimit(rate, vol.cap)
    BY <1>5, ZenonT(30) DEF LimitsInv, LimitsWithinCapacity
  <2>2. IOLimit(rate, vol.cap) <= IOLimit(rate, vol'.cap)
    BY <1>0, <1>3, LimitGrows
  <2>3. /\ limits[p] \in Nat
        /\ IOLimit(rate, vol.cap) \in Nat
        /\ IOLimit(rate, vol'.cap) \in Nat
    BY <1>0, <1>2, <1>5, LimitType
  <2> QED
    BY <2>1, <2>2, <2>3
<1>6. LimitsWithinCapacity'
  BY <1>1, <1>5, ZenonT(30) DEF LimitsWithinCapacity
<1> QED
  BY <1>3, <1>4, <1>6, ZenonT(30) DEF LimitsInv

\* A limit that is set is one that the present capacity grants.
LEMMA LimitsPublish ==
    ASSUME RatesFit, CapacityInv, LimitsInv, PublishNext
    PROVE  LimitsInv'
<1>0. /\ vol.cap \in Nat
      /\ \A p \in Paths : publishes[p] # Idle => publishes[p].vol.cap \in Nat
  BY ZenonT(30) DEF CapacityInv, NodeTypeOK, PublishCall, VolumeRecord
<1>1. PICK size \in Sizes : vol.cap = getRoundedCapacity(size)
  BY ZenonT(30) DEF LimitsInv
<1>2. /\ UNCHANGED vol
      /\ \A q \in Paths : publishes'[q] # Idle =>
            \/ publishes'[q].vol = vol
            \/ publishes[q] # Idle /\ publishes'[q].vol = publishes[q].vol
      /\ \A q \in Paths : limits'[q] # NoLimit =>
            \/ limits'[q] = limits[q]
            \/ /\ publishes[q] # Idle
               /\ \E rate \in Rates : limits'[q] = IOLimit(rate, publishes[q].vol.cap)
  BY PublishedLimits, ZenonT(30) DEF PublishNext
<1>3. \A q \in Paths : publishes'[q] # Idle => publishes'[q].vol.cap <= vol.cap
  BY <1>0, <1>2 DEF LimitsInv
<1>4. ASSUME NEW q \in Paths, limits'[q] # NoLimit
      PROVE  \E rate \in Rates : limits'[q] <= IOLimit(rate, vol.cap)
  <2>1. CASE limits'[q] = limits[q]
    BY <1>4, <2>1, ZenonT(30) DEF LimitsInv, LimitsWithinCapacity
  <2>2. ASSUME publishes[q] # Idle, NEW rate \in Rates,
               limits'[q] = IOLimit(rate, publishes[q].vol.cap)
        PROVE  limits'[q] <= IOLimit(rate, vol.cap)
    <3>1. publishes[q].vol.cap \in Nat /\ publishes[q].vol.cap <= vol.cap
      BY <1>0, <2>2, ZenonT(30) DEF LimitsInv
    <3> QED
      BY <1>1, <2>2, <3>1, LimitGrows, ZenonT(30)
  <2> QED
    BY <1>2, <1>4, <2>1, <2>2, ZenonT(30)
<1>5. LimitsWithinCapacity'
  BY <1>2, <1>4, ZenonT(30) DEF LimitsWithinCapacity
<1> QED
  BY <1>1, <1>2, <1>3, <1>5, ZenonT(30) DEF LimitsInv

\* Every step keeps the invariant for limits.
LEMMA LimitsNext ==
    ASSUME RatesFit, CapacityInv, LimitsInv, [Next]_vars
    PROVE  LimitsInv'
<1>1. ASSUME UNCHANGED <<publishes, limits>>, vol'.cap = vol.cap
      PROVE  LimitsInv'
  BY <1>1, ZenonT(30) DEF LimitsInv, LimitsWithinCapacity
<1>2. CASE UNCHANGED vars
  BY <1>1, <1>2, ZenonT(30) DEF vars
<1>3. CASE \/ ProvisionLV \/ UpdateVolInfo \/ DeleteVolume \/ Destroy
           \/ Claim \/ Extend
  BY <1>1, <1>3, LimitsFrame
<1>4. CASE PublishNext
  BY <1>4, LimitsPublish, ZenonT(30)
<1>5. CASE \E e \in ExpandCalls : Resize(e)
  BY <1>5, LimitsResize, ZenonT(30)
<1> QED
  BY <1>2, <1>3, <1>4, <1>5, ZenonT(30) DEF Next

\* The IO limits of a pod stay within what the rates grant for the capacity,
\* though they are computed from a copy of the volume and never renewed.
THEOREM LimitsStayWithin ==
    ASSUME RatesFit
    PROVE  Spec => []LimitsWithinCapacity
<1>1. CapacityInv /\ LimitsInv /\ [Next]_vars => LimitsInv'
  BY LimitsNext, ZenonT(30)
<1>2. LimitsInv => LimitsWithinCapacity
  BY DEF LimitsInv
<1> QED
  BY <1>1, <1>2, LimitsInit, CapacityInvariant, PTL DEF Spec

\* The inductive invariant for the exported limit: until the claim grows there
\* is one capacity, in the resource, in every copy and in every limit.
FirstInv ==
    /\ FirstSize <= want
    /\ want = FirstSize =>
          /\ resize = "idle" /\ nodeExpand = Idle
          /\ \A e \in ExpandCalls : expands[e] = Idle
          /\ vol.cap = getRoundedCapacity(FirstSize)
          /\ lv = 0 \/ lv = vol.cap
          /\ \A p \in Paths : publishes[p] # Idle => publishes[p].vol.cap = vol.cap
          /\ \A p \in Paths : limits[p] # NoLimit =>
                \E rate \in Rates : limits[p] = IOLimit(rate, vol.cap)

\* At first nobody has asked for more.
LEMMA FirstInit == Init => FirstInv
<1> SUFFICES ASSUME Init PROVE FirstInv
  OBVIOUS
<1>1. /\ want = FirstSize /\ resize = "idle" /\ nodeExpand = Idle /\ lv = 0
      /\ vol.cap = getRoundedCapacity(FirstSize)
  BY ZenonT(30) DEF Init, ExpandInit
<1>2. FirstSize \in Nat /\ FirstSize <= FirstSize
  BY ExpansionAssumption
<1>3. /\ \A e \in ExpandCalls : expands[e] = Idle
      /\ \A p \in Paths : publishes[p] = Idle /\ limits[p] = NoLimit
  BY DEF Init, ExpandInit, PublishInit
<1> QED
  BY <1>1, <1>2, <1>3, ZenonT(30) DEF FirstInv

\* Every step keeps it: an expansion begins with a claim that grows.
LEMMA FirstNext == CapacityInv /\ FirstInv /\ [Next]_vars => FirstInv'
<1> SUFFICES ASSUME CapacityInv, FirstInv, [Next]_vars PROVE FirstInv'
  OBVIOUS
<1>0. /\ want \in Nat /\ FirstSize \in Nat /\ FirstSize <= want
      /\ \A size \in Sizes : size \in Nat
  BY ExpansionAssumption, ZenonT(30) DEF CapacityInv, NodeTypeOK, FirstInv
<1>1. ASSUME UNCHANGED <<want, resize, nodeExpand, expands, publishes, limits>>,
             vol'.cap = vol.cap, lv' \in {0, lv, vol.cap}
      PROVE  FirstInv'
  BY <1>1, ZenonT(30) DEF FirstInv
<1>2. CASE UNCHANGED vars
  BY <1>1, <1>2, ZenonT(30) DEF vars
<1>3. CASE ProvisionLV \/ UpdateVolInfo \/ DeleteVolume \/ Destroy
  <2>1. /\ UNCHANGED <<want, resize, nodeExpand, expands>>
        /\ lv' \in {0, lv, vol.cap}
    BY <1>3, ZenonT(30) DEF ProvisionLV, UpdateVolInfo, DeleteVolume, Destroy,
       RemoveVolumeFilesystem, DestroyLV, RemoveVolFinalizer, expandVars
  <2> QED
    BY <1>1, <1>3, <2>1, LimitsFrame
<1>4. CASE PublishNext /\ UNCHANGED expandVars
  <2>1. UNCHANGED <<want, resize, nodeExpand, expands>>
    BY <1>4, ZenonT(30) DEF expandVars
  <2>2. /\ UNCHANGED <<vol, lv>>
        /\ \A q \in Paths : publishes'[q] # Idle =>
              \/ publishes'[q].vol = vol
              \/ publishes[q] # Idle /\ publishes'[q].vol = publishes[q].vol
        /\ \A q \in Paths : limits'[q] # NoLimit =>
              \/ limits'[q] = limits[q]
              \/ /\ publishes[q] # Idle
                 /\ \E rate \in Rates : limits'[q] = IOLimit(rate, publishes[q].vol.cap)
    BY <1>4, PublishedLimits, ZenonT(30) DEF PublishNext
  <2> QED
    BY <2>1, <2>2, ZenonT(30) DEF FirstInv
<1>5. ASSUME NEW size \in Sizes, size > want, want' = size
      PROVE  FirstInv'
  <2>1. FirstSize <= want' /\ want' # FirstSize
    BY <1>0, <1>5
  <2> QED
    BY <2>1, ZenonT(30) DEF FirstInv
<1>6. ASSUME want # FirstSize, UNCHANGED want
      PROVE  FirstInv'
  BY <1>6, ZenonT(30) DEF FirstInv
<1>7. CASE Claim
  <2>1. \/ \E size \in Sizes : size > want /\ want' = size
        \/ UNCHANGED want /\ (resize # "idle" \/ \E e \in ExpandCalls : expands[e] # Idle)
        \/ UNCHANGED <<want, resize, nodeExpand, expands>>
    <3>1. ASSUME NEW e \in ExpandCalls, GetVolumeToExpand(e)
          PROVE  UNCHANGED want /\ expands[e] # Idle
      BY <3>1 DEF GetVolumeToExpand, Idle
    <3>2. resize = "controller" \/ resize = "node" => resize # "idle"
      BY ZenonT(30)
    <3> QED
      BY <1>7, <3>1, <3>2, ZenonT(30)
         DEF Claim, ClaimNext, GrowClaim, Snapshot, GiveUp,
             ControllerExpandVolume, NodeExpandVolume, claimVars
  <2>2. UNCHANGED lv
    BY <1>7, ZenonT(30) DEF Claim, volumeVars
  <2>3. CASE UNCHANGED <<want, resize, nodeExpand, expands>>
    BY <1>1, <1>7, <2>2, <2>3, LimitsFrame
  <2>4. CASE UNCHANGED want /\ (resize # "idle" \/ \E e \in ExpandCalls : expands[e] # Idle)
    BY <1>6, <2>4, ZenonT(30) DEF FirstInv
  <2> QED
    BY <1>5, <2>1, <2>3, <2>4, ZenonT(30)
<1>8. ASSUME NEW e \in ExpandCalls, Resize(e)
      PROVE  FirstInv'
  <2>1. expands[e].pc = "update" /\ UNCHANGED want
    BY <1>8, ZenonT(30) DEF Resize, ResizeVolume
  <2>2. expands[e] # Idle
    BY <2>1 DEF Idle
  <2> QED
    BY <1>6, <2>1, <2>2, ZenonT(30) DEF FirstInv
<1>9. CASE Extend
  <2>1. /\ UNCHANGED want
        /\ nodeExpand.pc \in {"resize", "btrfs"} \/ nodeExpand # Idle
    BY <1>9, ZenonT(30)
       DEF Extend, ResizeNext, ExtendWithFS, ExtendLV, ResizeBTRFS,
           FailNodeExpand, RefuseNodeExpand, claimVars
  <2>2. nodeExpand # Idle
    BY <2>1 DEF Idle
  <2> QED
    BY <1>6, <2>1, <2>2, ZenonT(30) DEF FirstInv
<1> QED
  BY <1>2, <1>3, <1>4, <1>7, <1>8, <1>9, ZenonT(30) DEF Next

\* Until the claim grows, and from one Gi on, the limit that lvCollector exports
\* is the one that setIOLimits has set for the pods.
THEOREM ExportedLimitHolds ==
    ASSUME RatesFit
    PROVE  Spec => []ExportedLimitTrue
<1>1. Spec => []FirstInv
  BY FirstInit, FirstNext, CapacityInvariant, PTL DEF Spec
<1>2. CapacityInv /\ FirstInv => ExportedLimitTrue
  <2> SUFFICES ASSUME CapacityInv, FirstInv, want = FirstSize, lv >= Gi,
                      NEW p \in Paths, limits[p] # NoLimit
               PROVE  limits[p] \in exportedLimits
    BY ZenonT(30) DEF ExportedLimitTrue
  <2>1. /\ vol.cap = getRoundedCapacity(FirstSize)
        /\ lv = 0 \/ lv = vol.cap
    BY ZenonT(30) DEF FirstInv
  <2>2. PICK rate \in Rates : limits[p] = IOLimit(rate, vol.cap)
    BY ZenonT(30) DEF FirstInv
  <2>3. Gi \in Nat \ {0} /\ lv \in Nat
    BY Units DEF CapacityInv, NodeTypeOK
  <2>4. lv = vol.cap /\ lv > 0 /\ vol.cap <= getRoundedCapacity(FirstSize)
    <3>1. lv > 0 /\ lv # 0 /\ lv <= lv
      BY <2>3
    <3> QED
      BY <2>1, <3>1, ZenonT(30)
  <2>5. CapacityGB(vol.cap) = lv \div Gi
    BY <2>4, WholeGi DEF CapacityInv
  <2>6. IOLimit(rate, vol.cap) = rate * CapacityGB(vol.cap)
    BY <2>3, <2>4, LimitGrows, ExpansionAssumption
  <2>7. limits[p] = rate * (lv \div Gi)
    BY <2>2, <2>5, <2>6, ZenonT(30)
  <2> QED
    BY <2>4, <2>7, ZenonT(30) DEF exportedLimits
<1> QED
  BY <1>1, <1>2, CapacityInvariant, PTL
=============================================================================
