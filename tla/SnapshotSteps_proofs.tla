----------------------- MODULE SnapshotSteps_proofs ------------------------
(***************************************************************************)
(* What the API calls make of the history of an LVMSnapshot, and what the  *)
(* steps of an agent leave alone; the steps of CreateSnapshot,             *)
(* DeleteSnapshot and DeleteVolume preserve the invariant.                 *)
(***************************************************************************)
EXTENDS SnapshotInvariant, TLAPS

\* A leaf that names no prover is for SMT, in two tries.
USE SMTT(30), SMTT(60)

-----------------------------------------------------------------------------
\* The version x that a history h gets next, field by field: what
\* CreateSnapshot, the two Deletes, UpdateSnapInfo, and RemoveSnapFinalizer or
\* the garbage collector write.

IsNew(h, x) ==
    /\ ~ SnapExists(h)
    /\ x.uid = NextSnapUid(h)
    /\ x.thick = thick
    /\ x.state = "Pending" /\ ~ x.fin /\ ~ x.del /\ ~ x.gone

Keeps(a, b) == b.uid = a.uid /\ b.vol = a.vol /\ b.thick = a.thick

IsMarked(h, x) ==
    /\ SnapExists(h)
    /\ Keeps(Latest(h), x)
    /\ ~ Latest(h).del /\ x.del
    /\ x.state = Latest(h).state /\ x.fin = Latest(h).fin /\ ~ x.gone

IsReady(h, x) ==
    /\ SnapExists(h)
    /\ Keeps(Latest(h), x)
    /\ ~ Latest(h).del /\ ~ x.del
    /\ Latest(h).state = "Pending"
    /\ x.state = "Ready" /\ x.fin /\ ~ x.gone

IsRemoved(h, x) ==
    /\ SnapExists(h)
    /\ Keeps(Latest(h), x)
    /\ Latest(h).del /\ x.del
    /\ x.state = Latest(h).state /\ ~ x.fin /\ x.gone

Extends(h, x) ==
    IsNew(h, x) \/ IsMarked(h, x) \/ IsReady(h, x) \/ IsRemoved(h, x)

\* h goes over to g by at most one version.
Grows(h, g) ==
    \/ g = h
    \/ \E x \in SnapVersion : g = Append(h, x) /\ Extends(h, x)

\* A later version of a later version is a later version.
LEMMA FollowsTransitive ==
    ASSUME NEW a \in SnapVersion, NEW b \in SnapVersion, NEW c \in SnapVersion,
           Follows(a, b), Follows(b, c)
    PROVE  Follows(a, c)
BY DEF Follows, SnapVersion

\* In a history, the last version is the newest.
LEMMA LatestIsNewest ==
    ASSUME NEW h \in Seq(SnapVersion), HistoryOK(h), NEW i \in 1..Len(h)
    PROVE  /\ h[i] \in SnapVersion
           /\ Latest(h) \in SnapVersion
           /\ Latest(h) = h[Len(h)]
           /\ WellFormed(h[i])
           /\ WellFormed(Latest(h))
           /\ i = Len(h) \/ Follows(h[i], Latest(h))
<1>1. Len(h) \in 1..Len(h)
  OBVIOUS
<1>2. /\ h[i] \in SnapVersion
      /\ Latest(h) \in SnapVersion
      /\ Latest(h) = h[Len(h)]
  BY <1>1 DEF Latest
<1>3. WellFormed(h[i]) /\ WellFormed(Latest(h))
  BY <1>1, <1>2 DEF HistoryOK
<1>4. i = Len(h) \/ Follows(h[i], Latest(h))
  BY <1>1, <1>2 DEF HistoryOK
<1>5. QED
  BY <1>2, <1>3, <1>4

\* The last version of a history that is not empty.
LEMMA LatestOK ==
    ASSUME NEW h \in Seq(SnapVersion), HistoryOK(h), Len(h) > 0
    PROVE  /\ Latest(h) \in SnapVersion
           /\ Latest(h) = h[Len(h)]
           /\ WellFormed(Latest(h))
<1>1. Len(h) \in 1..Len(h)
  OBVIOUS
<1>2. QED
  BY <1>1, LatestIsNewest

\* Two versions of a history, in order.
LEMMA VersionOrder ==
    ASSUME NEW h \in Seq(SnapVersion), HistoryOK(h),
           NEW i \in 1..Len(h), NEW j \in 1..Len(h), i <= j
    PROVE  /\ h[i] \in SnapVersion /\ h[j] \in SnapVersion
           /\ h[i].uid \in Nat /\ h[j].uid \in Nat
           /\ h[i].uid <= h[j].uid
           /\ h[i].uid = h[j].uid =>
                 /\ h[i].vol = h[j].vol
                 /\ h[i].del => h[j].del
<1>1. h[i] \in SnapVersion /\ h[j] \in SnapVersion
  OBVIOUS
<1>2. h[i].uid \in Nat /\ h[j].uid \in Nat
  BY <1>1, ZenonT(30) DEF SnapVersion
<1>3. i = j \/ Follows(h[i], h[j])
  BY DEF HistoryOK
<1>4. QED
  BY <1>1, <1>2, <1>3 DEF Follows

\* What is written fits the version before it.
LEMMA ExtendsFits ==
    ASSUME NEW h \in Seq(SnapVersion), HistoryOK(h), NEW x \in SnapVersion,
           Extends(h, x)
    PROVE  /\ WellFormed(x)
           /\ Len(h) > 0 => Follows(Latest(h), x)
<1>1. Len(h) > 0 => /\ Latest(h) \in SnapVersion
                    /\ WellFormed(Latest(h))
  BY LatestOK
<1>2. CASE IsNew(h, x)
  <2>1. WellFormed(x)
    BY <1>2 DEF IsNew, WellFormed
  <2>2. ASSUME Len(h) > 0 PROVE Follows(Latest(h), x)
    <3>1. Latest(h).uid \in Nat /\ x.uid = Latest(h).uid + 1
      BY <1>1, <1>2, <2>2 DEF IsNew, NextSnapUid, SnapVersion
    <3>2. QED
      BY <3>1 DEF Follows
  <2>3. QED
    BY <2>1, <2>2
<1>3. ASSUME Len(h) > 0, ~ Latest(h).gone, Keeps(Latest(h), x),
             x.fin <=> (x.state = "Ready" /\ ~ x.gone), x.gone => x.del,
             Latest(h).del => x.del /\ x.state = Latest(h).state,
             Latest(h).state = "Ready" => x.state = "Ready"
      PROVE  WellFormed(x) /\ Follows(Latest(h), x)
  <2>1. Latest(h).uid \in Nat /\ x.thick = thick
    BY <1>1, <1>3 DEF SnapVersion, Keeps, WellFormed
  <2>2. WellFormed(x)
    BY <1>3, <2>1 DEF WellFormed
  <2>3. Follows(Latest(h), x)
    BY <1>3, <2>1 DEF Follows, Keeps
  <2>4. QED
    BY <2>2, <2>3
<1>4. CASE IsMarked(h, x)
  BY <1>1, <1>3, <1>4 DEF IsMarked, SnapExists, WellFormed
<1>5. CASE IsReady(h, x)
  BY <1>1, <1>3, <1>5 DEF IsReady, SnapExists
<1>6. CASE IsRemoved(h, x)
  BY <1>1, <1>3, <1>6 DEF IsRemoved, SnapExists
<1>7. QED
  BY <1>2, <1>4, <1>5, <1>6 DEF Extends

\* A history that grows stays a history, and keeps the versions it had.
LEMMA GrowsOK ==
    ASSUME NEW h \in Seq(SnapVersion), NEW g, HistoryOK(h), Grows(h, g)
    PROVE  /\ g \in Seq(SnapVersion)
           /\ HistoryOK(g)
           /\ Len(g) >= Len(h)
           /\ \A i \in 1..Len(h) : g[i] = h[i]
<1>1. CASE g = h
  BY <1>1
<1>2. ASSUME NEW x \in SnapVersion, g = Append(h, x), Extends(h, x)
      PROVE  /\ g \in Seq(SnapVersion)
             /\ HistoryOK(g)
             /\ Len(g) >= Len(h)
             /\ \A i \in 1..Len(h) : g[i] = h[i]
  <2>1. WellFormed(x) /\ (Len(h) > 0 => Follows(Latest(h), x))
    BY <1>2, ExtendsFits
  <2>2. /\ g \in Seq(SnapVersion)
        /\ Len(g) = Len(h) + 1
        /\ \A i \in 1..Len(h) : g[i] = h[i]
        /\ g[Len(g)] = x
        /\ Len(h) \in Nat
    BY <1>2
  <2>3. \A i \in 1..Len(g) : WellFormed(g[i])
    BY <2>1, <2>2 DEF HistoryOK
  <2>4. ASSUME NEW i \in 1..Len(h) PROVE Follows(h[i], x)
    <3>1. /\ h[i] \in SnapVersion /\ Latest(h) \in SnapVersion
          /\ i = Len(h) \/ Follows(h[i], Latest(h))
          /\ Latest(h) = h[Len(h)]
      BY <2>4, LatestIsNewest
    <3>2. Follows(Latest(h), x)
      BY <2>1, <2>2, <2>4
    <3>3. QED
      BY <3>1, <3>2, FollowsTransitive, ZenonT(30)
  <2>5. ASSUME NEW i \in 1..Len(g), NEW j \in 1..Len(g), i < j
        PROVE  Follows(g[i], g[j])
    <3>1. i \in 1..Len(h) /\ (j \in 1..Len(h) \/ j = Len(g))
      BY <2>2, <2>5
    <3>2. CASE j \in 1..Len(h)
      BY <2>2, <2>5, <3>1, <3>2, ZenonT(30) DEF HistoryOK
    <3>3. CASE j = Len(g)
      BY <2>2, <2>4, <3>1, <3>3
    <3>4. QED
      BY <3>1, <3>2, <3>3
  <2>6. QED
    BY <2>2, <2>3, <2>5 DEF HistoryOK
<1>3. QED
  BY <1>1, <1>2 DEF Grows

-----------------------------------------------------------------------------
\* The calls, one by one.

\* ProvisionSnapshot creates a snapshot of a name that is free.
LEMMA CreatedExtends ==
    ASSUME NEW h \in Seq(SnapVersion), HistoryOK(h), ~ SnapExists(h),
           NEW v \in Volumes, NEW here \in BOOLEAN, thick \in BOOLEAN
    PROVE  \E x \in SnapVersion : /\ SnapCreated(h, v, here, thick) = Append(h, x)
                                  /\ IsNew(h, x)
<1> DEFINE x == NewSnapshot(NextSnapUid(h), v, here, thick)
<1>1. Len(h) > 0 => Latest(h) \in SnapVersion
  BY LatestOK
<1>2. NextSnapUid(h) \in Nat \ {0}
  BY <1>1 DEF NextSnapUid, SnapVersion
<1>3. x \in SnapVersion
  BY <1>2 DEF NewSnapshot, SnapVersion
<1>4. IsNew(h, x)
  BY DEF IsNew, NewSnapshot
<1>5. SnapCreated(h, v, here, thick) = Append(h, x)
  BY DEF SnapCreated
<1>6. QED
  BY <1>3, <1>4, <1>5, Zenon

\* DeleteSnapshot marks a snapshot that is there, or finds it marked.
LEMMA DeletedExtends ==
    ASSUME NEW h \in Seq(SnapVersion), HistoryOK(h), SnapExists(h)
    PROVE  \/ SnapDeleted(h) = h
           \/ \E x \in SnapVersion : /\ SnapDeleted(h) = Append(h, x)
                                     /\ IsMarked(h, x)
<1> DEFINE a == Latest(h)
           x == [a EXCEPT !.del = TRUE]
<1>1. a \in SnapVersion /\ ~ a.gone
  BY LatestOK DEF SnapExists
<1>2. CASE a.del
  BY <1>2 DEF SnapDeleted
<1>3. CASE ~ a.del
  <2>1. /\ x \in SnapVersion
        /\ x.uid = a.uid /\ x.vol = a.vol /\ x.thick = a.thick
        /\ x.state = a.state /\ x.fin = a.fin /\ x.gone = a.gone
        /\ x.del = TRUE
    BY <1>1, ZenonT(30) DEF SnapVersion
  <2>2. SnapDeleted(h) = Append(h, x)
    BY <1>3 DEF SnapDeleted
  <2>3. a = Latest(h)
    OBVIOUS
  <2> HIDE DEF a, x
  <2>4. IsMarked(h, x)
    BY <1>1, <1>3, <2>1, <2>3 DEF IsMarked, Keeps
  <2>5. QED
    BY <2>1, <2>2, <2>4
<1>4. QED
  BY <1>2, <1>3

\* The garbage collector removes a marked snapshot without a finalizer, which
\* was never Ready.
LEMMA CollectedExtends ==
    ASSUME NEW h \in Seq(SnapVersion), HistoryOK(h), SnapExists(h),
           Latest(h).del, ~ Latest(h).fin
    PROVE  \E x \in SnapVersion :
              /\ Append(h, [Latest(h) EXCEPT !.gone = TRUE]) = Append(h, x)
              /\ IsRemoved(h, x)
              /\ x.state # "Ready"
<1> DEFINE a == Latest(h)
           x == [a EXCEPT !.gone = TRUE]
<1>1. a \in SnapVersion /\ ~ a.gone /\ a.del /\ ~ a.fin /\ WellFormed(a)
  BY LatestOK DEF SnapExists
<1>2. /\ x \in SnapVersion
      /\ x.uid = a.uid /\ x.vol = a.vol /\ x.thick = a.thick
      /\ x.state = a.state /\ x.fin = a.fin /\ x.del = a.del
      /\ x.gone = TRUE
  BY <1>1, ZenonT(30) DEF SnapVersion
<1>3. a = Latest(h) /\ Append(h, [Latest(h) EXCEPT !.gone = TRUE]) = Append(h, x)
  OBVIOUS
<1> HIDE DEF a, x
<1>4. IsRemoved(h, x)
  BY <1>1, <1>2, <1>3 DEF IsRemoved, Keeps
<1>5. x.state # "Ready"
  BY <1>1, <1>2 DEF WellFormed
<1>6. QED
  BY <1>2, <1>3, <1>4, <1>5

\* UpdateSnapInfo, with a copy that is the last version.
LEMMA SnapInfoExtends ==
    ASSUME NEW h \in Seq(SnapVersion), HistoryOK(h), SnapExists(h),
           ~ Latest(h).del, Latest(h).state = "Pending"
    PROVE  \E x \in SnapVersion :
              /\ SnapUpdated(h, WithSnapInfo(Latest(h))) = Append(h, x)
              /\ IsReady(h, x)
<1> DEFINE a == Latest(h)
           b == WithSnapInfo(a)
           x == [b EXCEPT !.gone = b.del /\ ~ b.fin]
<1>0. a \in SnapVersion /\ ~ a.gone /\ ~ a.del
  BY LatestOK DEF SnapExists
<1>1. a \in SnapVersion /\ a.gone = FALSE /\ a.del = FALSE
  BY <1>0 DEF SnapVersion
<1>2. /\ b \in SnapVersion
      /\ b.uid = a.uid /\ b.vol = a.vol /\ b.thick = a.thick
      /\ b.state = "Ready" /\ b.fin = TRUE /\ b.del = a.del
  BY <1>1, ZenonT(30) DEF SnapVersion, WithSnapInfo
<1>3. a = Latest(h) /\ SnapUpdated(h, WithSnapInfo(Latest(h))) = Append(h, x)
  BY DEF SnapUpdated
<1> HIDE DEF a, b
<1>4. (b.del /\ ~ b.fin) = FALSE
  BY <1>1, <1>2
<1>5. /\ x \in SnapVersion
      /\ x.uid = b.uid /\ x.vol = b.vol /\ x.thick = b.thick
      /\ x.state = b.state /\ x.fin = b.fin /\ x.del = b.del
      /\ x.gone = FALSE
  BY <1>2, <1>4, ZenonT(30) DEF SnapVersion
<1> HIDE DEF x
<1>6. IsReady(h, x)
  BY <1>1, <1>2, <1>3, <1>5 DEF IsReady, Keeps
<1>7. QED
  BY <1>3, <1>5, <1>6

\* RemoveSnapFinalizer, with a copy that is the last version.
LEMMA UnfinalizedExtends ==
    ASSUME NEW h \in Seq(SnapVersion), HistoryOK(h), SnapExists(h),
           Latest(h).del
    PROVE  \E x \in SnapVersion :
              /\ SnapUpdated(h, WithoutSnapFinalizer(Latest(h))) = Append(h, x)
              /\ IsRemoved(h, x)
<1> DEFINE a == Latest(h)
           b == WithoutSnapFinalizer(a)
           x == [b EXCEPT !.gone = b.del /\ ~ b.fin]
<1>0. a \in SnapVersion /\ ~ a.gone /\ a.del
  BY LatestOK DEF SnapExists
<1>1. a \in SnapVersion /\ a.gone = FALSE /\ a.del = TRUE
  BY <1>0 DEF SnapVersion
<1>2. /\ b \in SnapVersion
      /\ b.uid = a.uid /\ b.vol = a.vol /\ b.thick = a.thick
      /\ b.state = a.state /\ b.fin = FALSE /\ b.del = a.del
  BY <1>1, ZenonT(30) DEF SnapVersion, WithoutSnapFinalizer
<1>3. /\ a = Latest(h)
      /\ SnapUpdated(h, WithoutSnapFinalizer(Latest(h))) = Append(h, x)
  BY DEF SnapUpdated
<1> HIDE DEF a, b
<1>4. (b.del /\ ~ b.fin) = TRUE
  BY <1>1, <1>2
<1>5. /\ x \in SnapVersion
      /\ x.uid = b.uid /\ x.vol = b.vol /\ x.thick = b.thick
      /\ x.state = b.state /\ x.fin = b.fin /\ x.del = b.del
      /\ x.gone = TRUE
  BY <1>2, <1>4, ZenonT(30) DEF SnapVersion
<1> HIDE DEF x
<1>6. IsRemoved(h, x)
  BY <1>1, <1>2, <1>3, <1>5 DEF IsRemoved, Keeps
<1>7. QED
  BY <1>3, <1>5, <1>6

-----------------------------------------------------------------------------
\* What a step leaves alone.

\* The parts of the invariant that speak of one snapshot.
SnapOK(s) ==
    /\ HistoryOK(snaps[s])
    /\ pos[s] <= Len(snaps[s])
    /\ WorkerOK(s)
    /\ ReadyOK(s)
    /\ RemovedOK(s)

\* The logical volumes of s are not touched, or one goes with its origin.
KeepsLVs(s) ==
    /\ HasLV(s)' => HasLV(s)
    /\ \A v \in Volumes : LVOf(s, v) => LVOf(s, v)'
    /\ \A snap \in SnapVersion : LVMade(s, snap) => LVMade(s, snap)'
    /\ "lvs" \in faults => "lvs" \in faults'

\* What the invariant says of one snapshot.
LEMMA SnapFacts ==
    ASSUME SnapInv, NEW s \in Snapshots
    PROVE  /\ snaps[s] \in Seq(SnapVersion)
           /\ Len(snaps[s]) \in Nat
           /\ pos[s] \in Nat
           /\ sync[s] \in SnapSync
           /\ SnapOK(s)
BY DEF SnapInv, SnapTypeOK, SnapOK

\* A worker's copy is a version that the cache has seen.
LEMMA CopyFacts ==
    ASSUME SnapInv, NEW s \in Snapshots, Busy(s)
    PROVE  /\ sync[s].rv \in 1..pos[s]
           /\ sync[s].rv \in 1..Len(snaps[s])
           /\ pos[s] \in 1..Len(snaps[s])
           /\ Copy(s) = snaps[s][sync[s].rv]
           /\ Copy(s) \in SnapVersion
           /\ WellFormed(Copy(s))
<1>1. /\ snaps[s] \in Seq(SnapVersion) /\ HistoryOK(snaps[s])
      /\ pos[s] \in Nat /\ pos[s] <= Len(snaps[s]) /\ Len(snaps[s]) \in Nat
      /\ WorkerOK(s)
  BY SnapFacts, ZenonT(30) DEF SnapOK
<1>2. sync[s].rv \in 1..pos[s]
  BY <1>1 DEF WorkerOK
<1>3. sync[s].rv \in 1..Len(snaps[s]) /\ pos[s] \in 1..Len(snaps[s])
  BY <1>1, <1>2
<1>4. QED
  BY <1>1, <1>2, <1>3, LatestIsNewest, ZenonT(30) DEF Copy

\* A worker is not disturbed by a new version of its snapshot, nor by what the
\* informer learns of it.
LEMMA WorkerStable ==
    ASSUME SnapInv, NEW s \in Snapshots, Grows(snaps[s], snaps'[s]),
           pos'[s] \in Nat, pos[s] <= pos'[s], sync'[s] = sync[s], KeepsLVs(s)
    PROVE  WorkerOK(s)'
<1>1. SUFFICES ASSUME Busy(s) PROVE WorkerOK(s)'
  BY ZenonT(30) DEF WorkerOK, Busy
<1>2. /\ sync[s].rv \in 1..pos[s]
      /\ sync[s].rv \in 1..Len(snaps[s])
      /\ Copy(s) = snaps[s][sync[s].rv]
      /\ Copy(s) \in SnapVersion
  BY <1>1, CopyFacts, ZenonT(30)
<1>3. /\ snaps[s] \in Seq(SnapVersion) /\ HistoryOK(snaps[s])
      /\ pos[s] \in Nat /\ WorkerOK(s)
  BY SnapFacts, ZenonT(30) DEF SnapOK
<1>4. snaps'[s][sync[s].rv] = snaps[s][sync[s].rv]
  BY <1>2, <1>3, GrowsOK, ZenonT(30)
<1>5. Copy(s)' = Copy(s)
  BY <1>2, <1>4, ZenonT(30) DEF Copy
<1>6. sync'[s].rv \in 1..pos'[s]
  BY <1>2, <1>3
<1>7. /\ HasLV(s)' => HasLV(s)
      /\ LVOf(s, Copy(s).vol) => LVOf(s, Copy(s).vol)'
      /\ LVMade(s, Copy(s)) => LVMade(s, Copy(s))'
      /\ "lvs" \in faults => "lvs" \in faults'
  <2>1. Copy(s).vol \in Volumes
    BY <1>2, ZenonT(30) DEF SnapVersion
  <2>2. QED
    BY <1>2, <1>5, <2>1, ZenonT(30) DEF KeepsLVs
<1>8. QED
  BY <1>1, <1>3, <1>5, <1>6, <1>7 DEF WorkerOK

\* Another actor writes to s: it creates the snapshot, marks it, or removes
\* one that was never Ready.
OtherWrites(s) ==
    \/ snaps'[s] = snaps[s]
    \/ \E x \in SnapVersion :
          /\ snaps'[s] = Append(snaps[s], x)
          /\ \/ IsNew(snaps[s], x)
             \/ IsMarked(snaps[s], x)
             \/ IsRemoved(snaps[s], x) /\ x.state # "Ready"

\* What is left of a snapshot whose resource and agent do not change.
LEMMA Unwritten ==
    ASSUME SnapInv, NEW s \in Snapshots, snaps'[s] = snaps[s],
           pos'[s] = pos[s], sync'[s] = sync[s], KeepsLVs(s)
    PROVE  ReadyOK(s)' /\ RemovedOK(s)'
<1>1. /\ snaps[s] \in Seq(SnapVersion) /\ HistoryOK(snaps[s])
      /\ ReadyOK(s) /\ RemovedOK(s)
  BY SnapFacts, ZenonT(30) DEF SnapOK
<1>2. /\ Latest(snaps[s])' = Latest(snaps[s])
      /\ Cached(s)' = Cached(s)
      /\ Copy(s)' = Copy(s)
      /\ Busy(s)' = Busy(s)
  BY DEF Latest, Cached, Copy, Busy
<1>3. ReadyOK(s)'
  <2>1. SUFFICES ASSUME Len(snaps[s]) > 0, Latest(snaps[s]).state = "Ready"
                 PROVE  ReadyOK(s)'
    BY <1>2 DEF ReadyOK
  <2>2. Latest(snaps[s]) \in SnapVersion /\ Latest(snaps[s]).vol \in Volumes
    <3>1. Latest(snaps[s]) \in SnapVersion
      BY <1>1, <2>1, LatestOK
    <3>2. QED
      BY <3>1 DEF SnapVersion
  <2>3. /\ LVOf(s, Latest(snaps[s]).vol) => LVOf(s, Latest(snaps[s]).vol)'
        /\ LVMade(s, Latest(snaps[s])) => LVMade(s, Latest(snaps[s]))'
    BY <1>2, <2>2 DEF KeepsLVs
  <2>4. QED
    BY <1>1, <1>2, <2>1, <2>3, ZenonT(30) DEF ReadyOK
<1>4. RemovedOK(s)'
  <2>1. /\ HasLV(s)' => HasLV(s)
        /\ "lvs" \in faults => "lvs" \in faults'
    BY DEF KeepsLVs
  <2>2. QED
    BY <1>1, <1>2, <2>1, ZenonT(30) DEF RemovedOK
<1>5. QED
  BY <1>3, <1>4

\* A snapshot survives what other actors do.
LEMMA SnapStable ==
    ASSUME SnapInv, NEW s \in Snapshots, OtherWrites(s), thick' = thick,
           pos'[s] = pos[s], sync'[s] = sync[s], KeepsLVs(s)
    PROVE  SnapOK(s)' /\ snaps'[s] \in Seq(SnapVersion)
<1>1. /\ snaps[s] \in Seq(SnapVersion) /\ HistoryOK(snaps[s])
      /\ Len(snaps[s]) \in Nat /\ pos[s] \in Nat /\ pos[s] <= Len(snaps[s])
      /\ ReadyOK(s)
  BY SnapFacts, ZenonT(30) DEF SnapOK
<1>2. Grows(snaps[s], snaps'[s])
  BY DEF OtherWrites, Grows, Extends
<1>3. /\ snaps'[s] \in Seq(SnapVersion)
      /\ HistoryOK(snaps'[s])
      /\ Len(snaps'[s]) >= Len(snaps[s])
      /\ \A i \in 1..Len(snaps[s]) : snaps'[s][i] = snaps[s][i]
  BY <1>1, <1>2, GrowsOK, ZenonT(30)
<1>4. HistoryOK(snaps[s])'
  BY <1>3, ZenonT(30) DEF HistoryOK, WellFormed
<1>5. pos'[s] <= Len(snaps'[s])
  BY <1>1, <1>3
<1>6. WorkerOK(s)'
  BY <1>1, <1>2, WorkerStable
<1>7. ReadyOK(s)' /\ RemovedOK(s)'
  <2>1. CASE snaps'[s] = snaps[s]
    BY <2>1, Unwritten
  <2>2. ASSUME NEW x \in SnapVersion, snaps'[s] = Append(snaps[s], x),
               x.state # "Ready"
        PROVE  ReadyOK(s)' /\ RemovedOK(s)'
    <3>1. Latest(snaps[s])' = x
      BY <1>1, <2>2 DEF Latest
    <3>2. QED
      BY <2>2, <3>1 DEF ReadyOK, RemovedOK
  <2>3. ASSUME NEW x \in SnapVersion, snaps'[s] = Append(snaps[s], x),
               IsMarked(snaps[s], x), x.state = "Ready"
        PROVE  ReadyOK(s)' /\ RemovedOK(s)'
    <3>1. Latest(snaps[s])' = x
      BY <1>1, <2>3 DEF Latest
    <3>2. /\ Len(snaps[s]) > 0 /\ Latest(snaps[s]).state = "Ready"
          /\ x.uid = Latest(snaps[s]).uid /\ x.vol = Latest(snaps[s]).vol
          /\ x.del /\ ~ x.gone
      BY <2>3, ZenonT(30) DEF IsMarked, Keeps, SnapExists
    <3>3. /\ pos[s] >= 1
          /\ Cached(s).uid = x.uid
          /\ Busy(s) => Copy(s).uid = x.uid
          /\ LVOf(s, x.vol)
      BY <1>1, <3>2 DEF ReadyOK
    <3>4. Cached(s)' = Cached(s)
      <4>1. pos[s] \in 1..Len(snaps[s])
        BY <1>1, <3>3
      <4>2. QED
        BY <1>3, <4>1 DEF Cached
    <3>5. Busy(s)' = Busy(s) /\ (Busy(s) => Copy(s)' = Copy(s))
      <4>1. Busy(s) => sync[s].rv \in 1..Len(snaps[s])
        BY CopyFacts, ZenonT(30)
      <4>2. QED
        BY <1>3, <4>1, ZenonT(30) DEF Busy, Copy
    <3>6. LVOf(s, Latest(snaps[s]).vol)'
      <4>1. x.vol \in Volumes
        BY <2>3 DEF SnapVersion
      <4>2. LVOf(s, x.vol)'
        BY <3>3, <4>1, ZenonT(30) DEF KeepsLVs
      <4>3. QED
        BY <3>1, <4>2, ZenonT(30)
    <3>7. ReadyOK(s)'
      BY <3>1, <3>2, <3>3, <3>4, <3>5, <3>6, ZenonT(30) DEF ReadyOK
    <3>8. RemovedOK(s)'
      BY <3>1, <3>2, ZenonT(30) DEF RemovedOK
    <3>9. QED
      BY <3>7, <3>8
  <2>4. QED
    BY <2>1, <2>2, <2>3, ZenonT(30) DEF OtherWrites, IsNew
<1>8. QED
  BY <1>3, <1>4, <1>5, <1>6, <1>7 DEF SnapOK

\* A step that touches neither origins nor snapshot LVs.
LEMMA LVsUnchanged ==
    ASSUME NEW s \in Snapshots, UNCHANGED <<origins, snapLVs>>,
           faults \subseteq faults'
    PROVE  KeepsLVs(s)
BY DEF KeepsLVs, HasLV, LVOf, LVMade

-----------------------------------------------------------------------------
\* Steps of the informer, the workqueue and the agent as a whole.

\* The cache of s moves on to version p.
CacheMove(s, p) ==
    /\ pos[s] < p
    /\ pos'[s] = p
    /\ sync'[s] = sync[s]
    /\ snaps'[s] = snaps[s]
    /\ thick' = thick
    /\ KeepsLVs(s)

\* The invariant of s survives it (Deliver and Relist of the informer).
LEMMA CacheMoves ==
    ASSUME SnapInv, NEW s \in Snapshots, NEW p \in 1..Len(snaps[s]),
           CacheMove(s, p)
    PROVE  SnapOK(s)'
<1>1. /\ snaps[s] \in Seq(SnapVersion) /\ HistoryOK(snaps[s])
      /\ Len(snaps[s]) \in Nat /\ pos[s] \in Nat
      /\ ReadyOK(s) /\ RemovedOK(s)
  BY SnapFacts, ZenonT(30) DEF SnapOK
<1>2. HistoryOK(snaps[s])' /\ pos'[s] <= Len(snaps'[s])
  BY <1>1 DEF HistoryOK, WellFormed, CacheMove
<1>3. WorkerOK(s)'
  <2>1. Grows(snaps[s], snaps'[s])
    BY ZenonT(30) DEF Grows, CacheMove
  <2>2. pos'[s] \in Nat /\ pos[s] <= pos'[s]
    BY <1>1 DEF CacheMove
  <2>3. QED
    BY <1>1, <2>1, <2>2, WorkerStable, ZenonT(30) DEF CacheMove
<1>4. /\ Latest(snaps[s])' = Latest(snaps[s])
      /\ Copy(s)' = Copy(s)
      /\ Busy(s)' = Busy(s)
      /\ Cached(s)' = snaps[s][p]
      /\ Len(snaps[s])' = Len(snaps[s])
  BY ZenonT(30) DEF Latest, Copy, Busy, Cached, CacheMove
<1>5. /\ Latest(snaps[s]) \in SnapVersion
      /\ Latest(snaps[s]).vol \in Volumes
      /\ Latest(snaps[s]) = snaps[s][Len(snaps[s])]
      /\ Len(snaps[s]) \in 1..Len(snaps[s])
  <2>1. Len(snaps[s]) \in 1..Len(snaps[s])
    BY <1>1
  <2>2. Latest(snaps[s]) \in SnapVersion
    BY <1>1, <2>1, LatestOK
  <2>3. QED
    BY <2>1, <2>2, ZenonT(30) DEF SnapVersion, Latest
<1>6. ASSUME pos[s] >= 1, Cached(s).uid = Latest(snaps[s]).uid
      PROVE  /\ snaps[s][p].uid = Latest(snaps[s]).uid
             /\ Cached(s).del => snaps[s][p].del
  <2>1. pos[s] \in 1..Len(snaps[s]) /\ pos[s] <= p
    BY <1>1, <1>6 DEF CacheMove
  <2>2. Cached(s) = snaps[s][pos[s]]
    BY DEF Cached
  <2>3. /\ Cached(s).uid \in Nat /\ snaps[s][p].uid \in Nat
        /\ Cached(s).uid <= snaps[s][p].uid
        /\ Cached(s).uid = snaps[s][p].uid => (Cached(s).del => snaps[s][p].del)
    BY <1>1, <2>1, <2>2, VersionOrder
  <2>4. /\ snaps[s][p].uid <= Latest(snaps[s]).uid
        /\ Latest(snaps[s]).uid \in Nat
    BY <1>1, <1>5, VersionOrder
  <2>5. snaps[s][p].uid = Latest(snaps[s]).uid
    BY <1>6, <2>3, <2>4
  <2>6. QED
    BY <1>6, <2>3, <2>5
<1>7. ReadyOK(s)'
  <2>1. SUFFICES ASSUME Latest(snaps[s]).state = "Ready"
                 PROVE  ReadyOK(s)'
    BY <1>4, ZenonT(30) DEF ReadyOK
  <2>2. /\ pos[s] >= 1
        /\ Cached(s).uid = Latest(snaps[s]).uid
        /\ Busy(s) => Copy(s).uid = Latest(snaps[s]).uid
        /\ LVOf(s, Latest(snaps[s]).vol)
        /\ ~ Latest(snaps[s]).del => LVMade(s, Latest(snaps[s]))
    <3>1. Len(snaps[s]) > 0
      BY <1>5
    <3>2. QED
      BY <1>1, <2>1, <3>1, ZenonT(30) DEF ReadyOK
  <2>3. pos'[s] >= 1 /\ Cached(s)'.uid = Latest(snaps[s]).uid
    <3>1. pos'[s] >= 1
      BY <1>1, <2>2 DEF CacheMove
    <3>2. QED
      BY <1>4, <1>6, <2>2, <3>1, ZenonT(30)
  <2>4. /\ LVOf(s, Latest(snaps[s]).vol)'
        /\ LVMade(s, Latest(snaps[s])) => LVMade(s, Latest(snaps[s]))'
    BY <1>4, <1>5, <2>2, ZenonT(30) DEF CacheMove, KeepsLVs
  <2>5. QED
    BY <1>4, <2>2, <2>3, <2>4, ZenonT(30) DEF ReadyOK
<1>8. RemovedOK(s)'
  <2>1. SUFFICES ASSUME Latest(snaps[s]).state = "Ready", Latest(snaps[s]).gone
                 PROVE  RemovedOK(s)'
    BY <1>4, ZenonT(30) DEF RemovedOK
  <2>0. Len(snaps[s]) > 0
    BY <1>5
  <2>2. /\ ~ HasLV(s) \/ "lvs" \in faults
        /\ Cached(s).del
        /\ Busy(s) => Copy(s).del
    BY <1>1, <2>0, <2>1, ZenonT(30) DEF RemovedOK
  <2>3. pos[s] >= 1 /\ Cached(s).uid = Latest(snaps[s]).uid
    BY <1>1, <2>0, <2>1, ZenonT(30) DEF ReadyOK
  <2>4. Cached(s)'.del
    BY <1>4, <1>6, <2>2, <2>3, ZenonT(30)
  <2>5. /\ HasLV(s)' => HasLV(s)
        /\ "lvs" \in faults => "lvs" \in faults'
    BY ZenonT(30) DEF CacheMove, KeepsLVs
  <2>6. QED
    BY <1>4, <2>2, <2>4, <2>5, ZenonT(30) DEF RemovedOK
<1>9. QED
  BY <1>2, <1>3, <1>7, <1>8, ZenonT(30) DEF SnapOK

\* A worker makes the logical volume of a copy that is not marked, or removes
\* the one of a copy that is, or does neither.
WorksOnLV(s) ==
    /\ origins' = origins
    /\ \/ snapLVs' = snapLVs
       \/ /\ Busy(s) /\ ~ Copy(s).del
          /\ snapLVs' = snapLVs \cup {<<s, Copy(s).vol, Copy(s).thick>>}
       \/ /\ Busy(s) /\ Copy(s).del
          /\ snapLVs' = {lv \in snapLVs : lv[1] # s}

\* A worker that does not write takes the cached version of s or goes on with
\* its copy.
WorkerMove(s) ==
    /\ snaps'[s] = snaps[s]
    /\ pos'[s] = pos[s]
    /\ thick' = thick
    /\ Busy(s)' => \/ Busy(s) /\ sync'[s].rv = sync[s].rv
                   \/ pos[s] >= 1 /\ sync'[s].rv = pos[s]
    /\ "lvs" \in faults => "lvs" \in faults'
    /\ WorksOnLV(s)

\* The invariant of s survives what a worker does without writing.
LEMMA WorkerMoves ==
    ASSUME SnapInv, NEW s \in Snapshots, WorkerMove(s), WorkerOK(s)'
    PROVE  SnapOK(s)'
<1>0. WorksOnLV(s) /\ ("lvs" \in faults => "lvs" \in faults')
  BY ZenonT(30) DEF WorkerMove
<1>1. /\ snaps[s] \in Seq(SnapVersion) /\ HistoryOK(snaps[s])
      /\ Len(snaps[s]) \in Nat /\ pos[s] \in Nat /\ pos[s] <= Len(snaps[s])
      /\ ReadyOK(s) /\ RemovedOK(s)
  BY SnapFacts, ZenonT(30) DEF SnapOK
<1>2. HistoryOK(snaps[s])' /\ pos'[s] <= Len(snaps'[s])
  <2>1. HistoryOK(snaps[s])'
    <3>1. thick' = thick /\ snaps'[s] = snaps[s]
      BY ZenonT(30) DEF WorkerMove
    <3>2. QED
      BY <1>1, <3>1 DEF HistoryOK, WellFormed
  <2>2. QED
    BY <1>1, <2>1, ZenonT(30) DEF WorkerMove
<1>3. /\ Latest(snaps[s])' = Latest(snaps[s])
      /\ Cached(s)' = Cached(s)
      /\ Busy(s)' => Copy(s)' = Cached(s) \/ (Busy(s) /\ Copy(s)' = Copy(s))
      /\ Len(snaps[s])' = Len(snaps[s]) /\ pos'[s] = pos[s]
  BY ZenonT(30) DEF Latest, Copy, Cached, WorkerMove
<1>4. ReadyOK(s)'
  <2>1. SUFFICES ASSUME Len(snaps[s]) > 0, Latest(snaps[s]).state = "Ready"
                 PROVE  ReadyOK(s)'
    BY <1>3, ZenonT(30) DEF ReadyOK
  <2>2. /\ pos[s] >= 1
        /\ Cached(s).uid = Latest(snaps[s]).uid
        /\ Busy(s) => Copy(s).uid = Latest(snaps[s]).uid
        /\ LVOf(s, Latest(snaps[s]).vol)
        /\ ~ Latest(snaps[s]).del => LVMade(s, Latest(snaps[s]))
    BY <1>1, <2>1, ZenonT(30) DEF ReadyOK
  <2>3. Busy(s) => /\ Copy(s).vol = Latest(snaps[s]).vol
                   /\ Copy(s).del => Latest(snaps[s]).del
    <3>1. SUFFICES ASSUME Busy(s)
                   PROVE  /\ Copy(s).vol = Latest(snaps[s]).vol
                          /\ Copy(s).del => Latest(snaps[s]).del
      OBVIOUS
    <3>2. /\ sync[s].rv \in 1..Len(snaps[s])
          /\ Copy(s) = snaps[s][sync[s].rv]
      BY <3>1, CopyFacts, ZenonT(30)
    <3>3. /\ Len(snaps[s]) \in 1..Len(snaps[s])
          /\ sync[s].rv <= Len(snaps[s])
          /\ Latest(snaps[s]) = snaps[s][Len(snaps[s])]
      <4>1. Len(snaps[s]) \in 1..Len(snaps[s]) /\ sync[s].rv <= Len(snaps[s])
        BY <1>1, <2>1, <3>2
      <4>2. QED
        BY <4>1, ZenonT(30) DEF Latest
    <3>4. LET a == snaps[s][sync[s].rv]
              b == snaps[s][Len(snaps[s])]
          IN  a.uid = b.uid => a.vol = b.vol /\ (a.del => b.del)
      BY <1>1, <3>2, <3>3, VersionOrder, ZenonT(30)
    <3>5. QED
      BY <2>2, <3>1, <3>2, <3>3, <3>4, ZenonT(30)
  <2>4. LVOf(s, Latest(snaps[s]).vol)'
    <3>1. \A lv \in snapLVs' :
             \/ lv \in snapLVs
             \/ Busy(s) /\ lv[2] = Copy(s).vol
      BY <1>0 DEF WorksOnLV
    <3>2. QED
      BY <1>3, <2>2, <2>3, <3>1 DEF LVOf
  <2>5. ~ Latest(snaps[s]).del => LVMade(s, Latest(snaps[s]))'
    <3>1. /\ origins' = origins
          /\ ~ Latest(snaps[s]).del =>
                \A k \in BOOLEAN, v \in Volumes :
                   <<s, v, k>> \in snapLVs => <<s, v, k>> \in snapLVs'
      BY <1>0, <2>3 DEF WorksOnLV
    <3>2. Latest(snaps[s]).vol \in Volumes /\ Latest(snaps[s]).thick \in BOOLEAN
      BY <1>1, <2>1, LatestOK, ZenonT(30) DEF SnapVersion
    <3>3. QED
      BY <1>3, <2>2, <3>1, <3>2, ZenonT(30) DEF LVMade
  <2>6. QED
    BY <1>3, <2>2, <2>4, <2>5, ZenonT(30) DEF ReadyOK
<1>5. RemovedOK(s)'
  <2>1. SUFFICES ASSUME Len(snaps[s]) > 0, Latest(snaps[s]).gone,
                        Latest(snaps[s]).state = "Ready"
                 PROVE  RemovedOK(s)'
    BY <1>3, ZenonT(30) DEF RemovedOK
  <2>2. /\ ~ HasLV(s) \/ "lvs" \in faults
        /\ Cached(s).del
        /\ Busy(s) => Copy(s).del
    BY <1>1, <2>1, ZenonT(30) DEF RemovedOK
  <2>3. /\ HasLV(s)' => HasLV(s)
        /\ "lvs" \in faults => "lvs" \in faults'
    BY <1>0, <2>2 DEF HasLV, WorksOnLV
  <2>4. QED
    BY <1>3, <2>2, <2>3, ZenonT(30) DEF RemovedOK
<1>6. QED
  BY <1>2, <1>4, <1>5, ZenonT(30) DEF SnapOK

-----------------------------------------------------------------------------
\* What the workers write.

\* A worker whose copy is still the last version: so is what the cache holds.
LEMMA CurrentCopy ==
    ASSUME SnapInv, NEW s \in Snapshots, Busy(s), sync[s].rv = Len(snaps[s])
    PROVE  /\ SnapExists(snaps[s])
           /\ Copy(s) = Latest(snaps[s])
           /\ pos[s] = Len(snaps[s])
           /\ pos[s] \in 1..Len(snaps[s])
           /\ Cached(s) = Latest(snaps[s])
           /\ Latest(snaps[s]) \in SnapVersion
<1>1. /\ sync[s].rv \in 1..pos[s]
      /\ pos[s] \in 1..Len(snaps[s])
      /\ Copy(s) = snaps[s][sync[s].rv]
      /\ Copy(s) \in SnapVersion
  BY CopyFacts
<1>2. pos[s] \in Nat /\ Len(snaps[s]) \in Nat /\ pos[s] <= Len(snaps[s])
  BY SnapFacts, ZenonT(30) DEF SnapOK
<1>3. pos[s] = Len(snaps[s]) /\ Len(snaps[s]) > 0
  BY <1>1, <1>2
<1>0. WorkerOK(s)
  BY SnapFacts, ZenonT(30) DEF SnapOK
<1>4. ~ Copy(s).gone
  BY <1>0 DEF WorkerOK
<1>5. Copy(s) = Latest(snaps[s]) /\ Cached(s) = Latest(snaps[s])
  BY <1>1, <1>3 DEF Latest, Cached
<1>6. QED
  BY <1>1, <1>3, <1>4, <1>5 DEF SnapExists

\* A worker writes version x and is done with s.
Writes(s, x) ==
    /\ Busy(s)
    /\ sync[s].rv = Len(snaps[s])
    /\ snaps'[s] = Append(snaps[s], x)
    /\ pos'[s] = pos[s]
    /\ ~ Busy(s)'
    /\ thick' = thick

\* What such a write does to the history and to the worker.
LEMMA WriteFacts ==
    ASSUME SnapInv, NEW s \in Snapshots, NEW x \in SnapVersion, Writes(s, x),
           Extends(snaps[s], x)
    PROVE  /\ HistoryOK(snaps[s])'
           /\ pos'[s] <= Len(snaps'[s])
           /\ WorkerOK(s)'
           /\ Latest(snaps[s])' = x
           /\ Cached(s)' = Latest(snaps[s])
           /\ pos'[s] >= 1
<1>1. snaps[s] \in Seq(SnapVersion) /\ HistoryOK(snaps[s])
  BY SnapFacts, ZenonT(30) DEF SnapOK
<1>2. /\ pos[s] = Len(snaps[s])
      /\ pos[s] \in 1..Len(snaps[s])
  BY CurrentCopy DEF Writes
<1>3. Grows(snaps[s], snaps'[s])
  BY DEF Grows, Writes
<1>4. HistoryOK(snaps'[s])
  BY <1>1, <1>3, GrowsOK
<1>5. HistoryOK(snaps[s])'
  BY <1>4, ZenonT(30) DEF HistoryOK, WellFormed, Writes
<1>6. WorkerOK(s)'
  BY ZenonT(30) DEF WorkerOK, Writes
<1>7. /\ Latest(snaps[s])' = x
      /\ pos'[s] <= Len(snaps'[s])
      /\ pos'[s] >= 1
  BY <1>1, <1>2 DEF Latest, Writes
<1>8. Cached(s)' = Latest(snaps[s])
  BY <1>1, <1>2 DEF Latest, Cached, Writes
<1>9. QED
  BY <1>5, <1>6, <1>7, <1>8

\* UpdateSnapInfo makes the snapshot Ready, whose logical volume is there.
LEMMA ReadyWritten ==
    ASSUME SnapInv, NEW s \in Snapshots, NEW x \in SnapVersion, Writes(s, x),
           IsReady(snaps[s], x), sync[s].pc = "ready", KeepsLVs(s)
    PROVE  SnapOK(s)'
<1>1. /\ HistoryOK(snaps[s])' /\ pos'[s] <= Len(snaps'[s]) /\ WorkerOK(s)'
      /\ Latest(snaps[s])' = x
      /\ Cached(s)' = Latest(snaps[s])
      /\ pos'[s] >= 1
  BY WriteFacts, ZenonT(30) DEF Extends
<1>2. Copy(s) = Latest(snaps[s])
  BY CurrentCopy DEF Writes
<1>0. WorkerOK(s)
  BY SnapFacts, ZenonT(30) DEF SnapOK
<1>3. LVMade(s, Copy(s)) /\ LVOf(s, Copy(s).vol)
  BY <1>0, ZenonT(30) DEF WorkerOK, Writes
<1>4. /\ x.uid = Latest(snaps[s]).uid /\ x.vol = Latest(snaps[s]).vol
      /\ x.thick = Latest(snaps[s]).thick /\ ~ x.gone
  BY DEF IsReady, Keeps
<1>5. LVMade(s, x) /\ LVOf(s, x.vol)
  BY <1>2, <1>3, <1>4 DEF LVMade
<1>6. LVMade(s, Latest(snaps[s]))' /\ LVOf(s, Latest(snaps[s]).vol)'
  <2>1. x.vol \in Volumes
    BY DEF SnapVersion
  <2>2. QED
    BY <1>1, <1>5, <2>1, ZenonT(30) DEF KeepsLVs
<1>7. ReadyOK(s)'
  BY <1>1, <1>4, <1>6, ZenonT(30) DEF ReadyOK, Writes
<1>8. RemovedOK(s)'
  BY <1>1, <1>4, ZenonT(30) DEF RemovedOK
<1>9. QED
  BY <1>1, <1>7, <1>8 DEF SnapOK

\* RemoveSnapFinalizer removes the snapshot, whose logical volume is gone.
LEMMA RemovalWritten ==
    ASSUME SnapInv, NEW s \in Snapshots, NEW x \in SnapVersion, Writes(s, x),
           IsRemoved(snaps[s], x), sync[s].pc = "unfinalize", KeepsLVs(s)
    PROVE  SnapOK(s)'
<1>1. /\ HistoryOK(snaps[s])' /\ pos'[s] <= Len(snaps'[s]) /\ WorkerOK(s)'
      /\ Latest(snaps[s])' = x
      /\ Cached(s)' = Latest(snaps[s])
      /\ pos'[s] >= 1
  BY WriteFacts, ZenonT(30) DEF Extends
<1>0. WorkerOK(s) /\ ReadyOK(s)
  BY SnapFacts, ZenonT(30) DEF SnapOK
<1>2. ~ HasLV(s) \/ "lvs" \in faults
  BY <1>0, ZenonT(30) DEF WorkerOK, Writes
<1>3. /\ x.uid = Latest(snaps[s]).uid /\ x.vol = Latest(snaps[s]).vol
      /\ x.state = Latest(snaps[s]).state
      /\ x.del /\ Latest(snaps[s]).del /\ Len(snaps[s]) > 0
  BY DEF IsRemoved, Keeps, SnapExists
<1>4. x.state = "Ready" => LVOf(s, x.vol)
  BY <1>0, <1>3, ZenonT(30) DEF ReadyOK
<1>5. x.state = "Ready" => LVOf(s, Latest(snaps[s]).vol)'
  <2>1. x.vol \in Volumes
    BY DEF SnapVersion
  <2>2. QED
    BY <1>1, <1>4, <2>1, ZenonT(30) DEF KeepsLVs
<1>6. ReadyOK(s)'
  BY <1>1, <1>3, <1>5, ZenonT(30) DEF ReadyOK, Writes
<1>7. ~ HasLV(s)' \/ "lvs" \in faults'
  BY <1>2, ZenonT(30) DEF KeepsLVs
<1>8. RemovedOK(s)'
  BY <1>1, <1>3, <1>7, ZenonT(30) DEF RemovedOK, Writes
<1>9. QED
  BY <1>1, <1>6, <1>8, ZenonT(30) DEF SnapOK

-----------------------------------------------------------------------------
\* Steps of the controller plugin.

\* A request in progress names a snapshot and a volume.
LEMMA RequestFacts ==
    ASSUME SnapInv
    PROVE  /\ \A c \in CreateCalls : creates[c].pc # "none" =>
                 /\ creates[c] \in CreateCall
                 /\ creates[c].snap \in Snapshots
                 /\ creates[c].vol \in Volumes
           /\ \A d \in DeleteCalls : deletes[d].pc # "none" =>
                 /\ deletes[d] \in DeleteCall
                 /\ deletes[d].vol \in Volumes
                 /\ deletes[d].before \in [Snapshots -> Nat]
<1>1. /\ creates \in [CreateCalls -> CreateCall \cup {NoRequest}]
      /\ deletes \in [DeleteCalls -> DeleteCall \cup {NoRequest}]
  BY DEF SnapInv, SnapTypeOK
<1>2. NoRequest.pc = "none"
  BY DEF NoRequest
<1>3. \A c \in CreateCalls : creates[c].pc # "none" => creates[c] \in CreateCall
  BY <1>1, <1>2
<1>4. \A d \in DeleteCalls : deletes[d].pc # "none" => deletes[d] \in DeleteCall
  BY <1>1, <1>2
<1>5. \A k \in CreateCall : k.snap \in Snapshots /\ k.vol \in Volumes
  BY DEF CreateCall
<1>6. \A k \in DeleteCall : k.vol \in Volumes /\ k.before \in [Snapshots -> Nat]
  BY DEF DeleteCall
<1>7. QED
  BY <1>3, <1>4, <1>5, <1>6

\* One snapshot gets one new version.
Written(s, x) == snaps' = [snaps EXCEPT ![s] = Append(snaps[s], x)]

\* What a request does to the resources: nothing, or it creates a snapshot or
\* marks one.
LEMMA ControllerWrites ==
    ASSUME SnapInv, ControllerNext
    PROVE  /\ \/ snaps' = snaps
              \/ \E s \in Snapshots, x \in SnapVersion :
                    /\ Written(s, x)
                    /\ IsNew(snaps[s], x) \/ IsMarked(snaps[s], x)
           /\ thick' = thick
<1>1. snaps \in [Snapshots -> Seq(SnapVersion)] /\ thick \in BOOLEAN
  BY DEF SnapInv, SnapTypeOK
<1>2. ASSUME NEW s \in Snapshots, DeleteSnapshot(s)
      PROVE  /\ \/ snaps' = snaps
                \/ \E x \in SnapVersion : Written(s, x) /\ IsMarked(snaps[s], x)
             /\ thick' = thick
  <2>1. /\ SnapExists(snaps[s])
        /\ snaps' = [snaps EXCEPT ![s] = SnapDeleted(snaps[s])]
        /\ thick' = thick
    BY <1>2 DEF DeleteSnapshot
  <2>2. snaps[s] \in Seq(SnapVersion) /\ HistoryOK(snaps[s])
    BY <1>2, SnapFacts DEF SnapOK
  <2>3. \/ SnapDeleted(snaps[s]) = snaps[s]
        \/ \E x \in SnapVersion : /\ SnapDeleted(snaps[s]) = Append(snaps[s], x)
                                  /\ IsMarked(snaps[s], x)
    BY <2>1, <2>2, DeletedExtends, ZenonT(30)
  <2>4. CASE SnapDeleted(snaps[s]) = snaps[s]
    BY <1>1, <2>1, <2>4
  <2>5. CASE SnapDeleted(snaps[s]) # snaps[s]
    <3>1. PICK x \in SnapVersion : /\ SnapDeleted(snaps[s]) = Append(snaps[s], x)
                                   /\ IsMarked(snaps[s], x)
      BY <2>3, <2>5
    <3>2. Written(s, x)
      BY <2>1, <3>1 DEF Written
    <3>3. QED
      BY <2>1, <3>1, <3>2, ZenonT(30)
  <2>6. QED
    BY <2>4, <2>5
<1>3. ASSUME NEW c \in CreateCalls, ProvisionSnapshot(c)
      PROVE  /\ \/ snaps' = snaps
                \/ \E s \in Snapshots, x \in SnapVersion :
                      Written(s, x) /\ IsNew(snaps[s], x)
             /\ thick' = thick
  <2> DEFINE s == creates[c].snap
             v == creates[c].vol
             here == v \in LocalVolumes
  <2>1. s \in Snapshots /\ v \in Volumes /\ here \in BOOLEAN
    BY <1>3, RequestFacts DEF ProvisionSnapshot
  <2>2. /\ thick' = thick
        /\ \/ snaps' = snaps
           \/ /\ ~ SnapExists(snaps[s])
              /\ snaps' = [snaps EXCEPT ![s] =
                              SnapCreated(snaps[s], v, here, thick)]
    BY <1>3 DEF ProvisionSnapshot
  <2> HIDE DEF s, v, here
  <2>3. snaps[s] \in Seq(SnapVersion) /\ HistoryOK(snaps[s])
    BY <2>1, SnapFacts DEF SnapOK
  <2>4. ASSUME ~ SnapExists(snaps[s]),
               snaps' = [snaps EXCEPT ![s] = SnapCreated(snaps[s], v, here, thick)]
        PROVE  \E x \in SnapVersion : Written(s, x) /\ IsNew(snaps[s], x)
    <3>1. PICK x \in SnapVersion :
             /\ SnapCreated(snaps[s], v, here, thick) = Append(snaps[s], x)
             /\ IsNew(snaps[s], x)
      BY <1>1, <2>1, <2>3, <2>4, CreatedExtends
    <3>2. Written(s, x)
      BY <2>4, <3>1, ZenonT(30) DEF Written
    <3>3. QED
      BY <3>1, <3>2
  <2>5. snaps' = snaps \/ \E x \in SnapVersion : Written(s, x) /\ IsNew(snaps[s], x)
    BY <2>2, <2>4
  <2>6. QED
    BY <2>1, <2>2, <2>5, ZenonT(30)
<1>4. CASE UNCHANGED <<snaps, thick>>
  BY <1>4
<1>5. QED
  BY <1>2, <1>3, <1>4, ZenonT(30)
     DEF ControllerNext, CreateSnapshot, ValidateSnapshotRequest,
         GetLVMSnapshotStatus, GetSourceVolume, FinalStatus, EndCreate,
         ValidateDeleteVolumeReq, GetVolumeToDelete, DeleteLVMVolume,
         WaitForDestroy, AbortDelete

\* The handlers keep the types of their own state.
LEMMA CreateTypes ==
    ASSUME SnapInv, NEW c \in CreateCalls,
           \/ \E s \in Snapshots, v \in Volumes : CreateSnapshot(c, s, v)
           \/ ValidateSnapshotRequest(c)
           \/ GetLVMSnapshotStatus(c)
           \/ GetSourceVolume(c)
           \/ ProvisionSnapshot(c)
           \/ FinalStatus(c)
           \/ EndCreate(c)
    PROVE  creates' \in [CreateCalls -> CreateCall \cup {NoRequest}]
<1> DEFINE T == [CreateCalls -> CreateCall \cup {NoRequest}]
<1>1. creates \in T
  BY DEF SnapInv, SnapTypeOK
<1>2. \A k \in CreateCall \cup {NoRequest} : [creates EXCEPT ![c] = k] \in T
  BY <1>1
<1>3. Return(c) => creates' \in T
  BY <1>2 DEF Return
<1>4. ASSUME NEW pc \in {"validate", "status", "getVolume", "provision",
                         "finalStatus", "answered"},
             creates[c].pc # "none", Goto(c, pc)
      PROVE  creates' \in T
  <2>1. creates[c] \in CreateCall
    BY <1>4, RequestFacts
  <2>2. [creates[c] EXCEPT !.pc = pc] \in CreateCall
    BY <1>4, <2>1 DEF CreateCall
  <2>3. creates' = [creates EXCEPT ![c] = [creates[c] EXCEPT !.pc = pc]]
    BY <1>4 DEF Goto
  <2>4. QED
    BY <1>2, <2>2, <2>3
<1>5. ASSUME NEW s \in Snapshots, NEW v \in Volumes, CreateSnapshot(c, s, v)
      PROVE  creates' \in T
  <2>1. [pc |-> "validate", snap |-> s, vol |-> v] \in CreateCall
    BY DEF CreateCall
  <2>2. QED
    BY <1>2, <1>5, <2>1, ZenonT(30) DEF CreateSnapshot
<1> SUFFICES creates' \in T
  OBVIOUS
<1> HIDE DEF T
<1>6. CASE ValidateSnapshotRequest(c)
  BY <1>3, <1>4, <1>6, ZenonT(30) DEF ValidateSnapshotRequest
<1>7. CASE GetLVMSnapshotStatus(c)
  BY <1>3, <1>4, <1>7, ZenonT(30) DEF GetLVMSnapshotStatus, Answer
<1>8. CASE GetSourceVolume(c)
  BY <1>3, <1>4, <1>8, ZenonT(30) DEF GetSourceVolume
<1>9. CASE ProvisionSnapshot(c)
  BY <1>3, <1>4, <1>9, ZenonT(30) DEF ProvisionSnapshot
<1>10. CASE FinalStatus(c)
  BY <1>3, <1>4, <1>10, ZenonT(30) DEF FinalStatus, Answer
<1>11. CASE EndCreate(c)
  BY <1>3, <1>11 DEF EndCreate
<1>12. QED
  BY <1>5, <1>6, <1>7, <1>8, <1>9, <1>10, <1>11

\* The same of DeleteVolume.
LEMMA DeleteTypes ==
    ASSUME SnapInv, NEW d \in DeleteCalls,
           \/ \E v \in LocalVolumes : ValidateDeleteVolumeReq(d, v)
           \/ GetVolumeToDelete(d)
           \/ DeleteLVMVolume(d)
           \/ WaitForDestroy(d)
           \/ AbortDelete(d)
    PROVE  /\ deletes' \in [DeleteCalls -> DeleteCall \cup {NoRequest}]
           /\ vols' \in [Volumes -> Phases]
<1> DEFINE T == [DeleteCalls -> DeleteCall \cup {NoRequest}]
<1>1. deletes \in T /\ vols \in [Volumes -> Phases]
  BY DEF SnapInv, SnapTypeOK
<1>2. \A k \in DeleteCall \cup {NoRequest} : [deletes EXCEPT ![d] = k] \in T
  BY <1>1
<1>3. ReturnDelete(d) => deletes' \in T
  BY <1>2 DEF ReturnDelete
<1>4. ASSUME NEW pc \in {"get", "delete", "wait"}, deletes[d].pc # "none",
             GotoDelete(d, pc)
      PROVE  deletes' \in T
  <2>1. deletes[d] \in DeleteCall
    BY <1>4, RequestFacts
  <2>2. [deletes[d] EXCEPT !.pc = pc] \in DeleteCall
    BY <1>4, <2>1 DEF DeleteCall
  <2>3. deletes' = [deletes EXCEPT ![d] = [deletes[d] EXCEPT !.pc = pc]]
    BY <1>4 DEF GotoDelete
  <2>4. QED
    BY <1>2, <2>2, <2>3
<1>5. ASSUME NEW v \in LocalVolumes, ValidateDeleteVolumeReq(d, v)
      PROVE  deletes' \in T /\ vols' = vols
  <2> DEFINE b == [s \in Snapshots |-> NextSnapUid(snaps[s])]
  <2>1. ASSUME NEW s \in Snapshots PROVE NextSnapUid(snaps[s]) \in Nat
    <3>1. snaps[s] \in Seq(SnapVersion) /\ HistoryOK(snaps[s])
      BY <2>1, SnapFacts DEF SnapOK
    <3>2. Len(snaps[s]) > 0 => Latest(snaps[s]) \in SnapVersion
      BY <3>1, LatestOK
    <3>3. QED
      BY <3>1, <3>2 DEF NextSnapUid, SnapVersion
  <2>2. b \in [Snapshots -> Nat]
    BY <2>1
  <2>3. /\ deletes' = [deletes EXCEPT ![d] = [pc |-> "get", vol |-> v, before |-> b]]
        /\ vols' = vols
    BY <1>5 DEF ValidateDeleteVolumeReq
  <2> HIDE DEF b
  <2>4. [pc |-> "get", vol |-> v, before |-> b] \in DeleteCall
    BY <2>2, LocalAssumption DEF DeleteCall
  <2>5. QED
    BY <1>2, <2>3, <2>4
<1> SUFFICES deletes' \in T /\ vols' \in [Volumes -> Phases]
  OBVIOUS
<1> HIDE DEF T
<1>6. CASE GetVolumeToDelete(d)
  BY <1>1, <1>3, <1>4, <1>6, ZenonT(30) DEF GetVolumeToDelete
<1>7. CASE DeleteLVMVolume(d)
  <2>1. deletes' \in T
    BY <1>3, <1>4, <1>7, ZenonT(30) DEF DeleteLVMVolume
  <2>2. vols' = vols \/ vols' = [vols EXCEPT ![deletes[d].vol] = "deleting"]
    BY <1>7 DEF DeleteLVMVolume
  <2>3. vols' \in [Volumes -> Phases]
    BY <1>1, <2>2 DEF Phases
  <2>4. QED
    BY <2>1, <2>3
<1>8. CASE WaitForDestroy(d)
  BY <1>1, <1>3, <1>8 DEF WaitForDestroy
<1>9. CASE AbortDelete(d)
  BY <1>1, <1>3, <1>9 DEF AbortDelete
<1>10. QED
  BY <1>1, <1>5, <1>6, <1>7, <1>8, <1>9

\* Uids only go up, and a version of an earlier uid is of the same volume.
LEMMA UidGrows ==
    ASSUME NEW h \in Seq(SnapVersion), HistoryOK(h), NEW g, Grows(h, g)
    PROVE  /\ NextSnapUid(h) \in Nat /\ NextSnapUid(g) \in Nat
           /\ NextSnapUid(h) <= NextSnapUid(g)
           /\ SnapExists(g) /\ Latest(g).uid < NextSnapUid(h) =>
                 /\ SnapExists(h)
                 /\ Latest(g).uid = Latest(h).uid
                 /\ Latest(g).vol = Latest(h).vol
<1>1. Len(h) > 0 => Latest(h) \in SnapVersion /\ Latest(h).uid \in Nat
  <2>1. Len(h) > 0 => Latest(h) \in SnapVersion
    BY LatestOK
  <2>2. QED
    BY <2>1 DEF SnapVersion
<1>2. NextSnapUid(h) \in Nat
  BY <1>1 DEF NextSnapUid
<1>3. CASE g = h
  BY <1>2, <1>3
<1>4. ASSUME NEW x \in SnapVersion, g = Append(h, x), Extends(h, x)
      PROVE  /\ NextSnapUid(g) \in Nat
             /\ NextSnapUid(h) <= NextSnapUid(g)
             /\ SnapExists(g) /\ Latest(g).uid < NextSnapUid(h) =>
                   /\ SnapExists(h)
                   /\ Latest(g).uid = Latest(h).uid
                   /\ Latest(g).vol = Latest(h).vol
  <2>1. x.uid \in Nat
    BY DEF SnapVersion
  <2>2. Latest(g) = x /\ NextSnapUid(g) = x.uid + 1
    BY <1>4 DEF Latest, NextSnapUid
  <2>3. CASE IsNew(h, x)
    BY <1>2, <2>1, <2>2, <2>3 DEF IsNew
  <2>4. CASE ~ IsNew(h, x)
    <3>1. /\ SnapExists(h) /\ Len(h) > 0
          /\ x.uid = Latest(h).uid /\ x.vol = Latest(h).vol
      BY <1>4, <2>4, ZenonT(30)
         DEF Extends, IsMarked, IsReady, IsRemoved, Keeps, SnapExists
    <3>2. NextSnapUid(h) = Latest(h).uid + 1
      BY <3>1 DEF NextSnapUid
    <3>3. QED
      BY <2>1, <2>2, <3>1, <3>2
  <2>5. QED
    BY <2>3, <2>4
<1>5. QED
  BY <1>2, <1>3, <1>4 DEF Grows

\* What a DeleteVolume found when it arrived stays true of the snapshots there
\* were.
LEMMA DeleteStable ==
    ASSUME SnapInv, NEW d \in DeleteCalls,
           \A s \in Snapshots : Grows(snaps[s], snaps'[s]),
           deletes'[d].pc # "none" =>
              /\ deletes[d].pc # "none"
              /\ deletes'[d].vol = deletes[d].vol
              /\ deletes'[d].before = deletes[d].before
    PROVE  DeleteOK(d)'
<1>1. SUFFICES ASSUME deletes'[d].pc # "none", NEW s \in Snapshots
               PROVE  /\ deletes[d].before[s] <= NextSnapUid(snaps'[s])
                      /\ SnapExists(snaps'[s])
                         /\ Latest(snaps'[s]).uid < deletes[d].before[s]
                         => Latest(snaps'[s]).vol # deletes[d].vol
  BY ZenonT(30) DEF DeleteOK
<1>2. DeleteOK(d)
  BY DEF SnapInv
<1>3. /\ deletes[d].before[s] <= NextSnapUid(snaps[s])
      /\ SnapExists(snaps[s]) /\ Latest(snaps[s]).uid < deletes[d].before[s]
         => Latest(snaps[s]).vol # deletes[d].vol
  BY <1>1, <1>2, ZenonT(30) DEF DeleteOK
<1>4. deletes[d].before[s] \in Nat
  BY <1>1, RequestFacts
<1>5. snaps[s] \in Seq(SnapVersion) /\ HistoryOK(snaps[s])
  BY SnapFacts, ZenonT(30) DEF SnapOK
<1>6. /\ NextSnapUid(snaps[s]) \in Nat /\ NextSnapUid(snaps'[s]) \in Nat
      /\ NextSnapUid(snaps[s]) <= NextSnapUid(snaps'[s])
      /\ /\ SnapExists(snaps'[s])
         /\ Latest(snaps'[s]).uid < NextSnapUid(snaps[s])
         => /\ SnapExists(snaps[s])
            /\ Latest(snaps'[s]).uid = Latest(snaps[s]).uid
            /\ Latest(snaps'[s]).vol = Latest(snaps[s]).vol
  BY <1>5, UidGrows
<1>7. SnapExists(snaps'[s]) => Latest(snaps'[s]).uid \in Nat
  <2>1. snaps'[s] \in Seq(SnapVersion)
    BY <1>5, GrowsOK
  <2>2. SnapExists(snaps'[s]) => Latest(snaps'[s]) \in SnapVersion
    BY <2>1 DEF SnapExists, Latest
  <2>3. QED
    BY <2>2 DEF SnapVersion
<1>8. QED
  BY <1>3, <1>4, <1>6, <1>7

\* A DeleteVolume that arrives has found no snapshot of its volume.
LEMMA DeleteArrives ==
    ASSUME SnapInv, NEW d \in DeleteCalls, NEW v \in Volumes,
           ValidateDeleteVolumeReq(d, v)
    PROVE  DeleteOK(d)'
<1> DEFINE b == [s \in Snapshots |-> NextSnapUid(snaps[s])]
<1>1. deletes \in [DeleteCalls -> DeleteCall \cup {NoRequest}]
  BY DEF SnapInv, SnapTypeOK
<1>2. /\ deletes'[d] = [pc |-> "get", vol |-> v, before |-> b]
      /\ snaps' = snaps
      /\ GetSnapshotForVolume(v) = {}
  BY <1>1 DEF ValidateDeleteVolumeReq
<1>3. \A s \in Snapshots : b[s] = NextSnapUid(snaps[s])
  OBVIOUS
<1> HIDE DEF b
<1>4. deletes'[d].vol = v /\ deletes'[d].before = b
  BY <1>2
<1>5. \A s \in Snapshots : SnapExists(snaps[s]) => Latest(snaps[s]).vol # v
  BY <1>2 DEF GetSnapshotForVolume
<1>6. \A s \in Snapshots : NextSnapUid(snaps[s]) \in Nat
  <2>1. ASSUME NEW s \in Snapshots PROVE NextSnapUid(snaps[s]) \in Nat
    <3>1. snaps[s] \in Seq(SnapVersion) /\ HistoryOK(snaps[s])
      BY SnapFacts, ZenonT(30) DEF SnapOK
    <3>2. Grows(snaps[s], snaps[s])
      BY DEF Grows
    <3>3. QED
      BY <3>1, <3>2, UidGrows
  <2>2. QED
    BY <2>1, ZenonT(30)
<1>7. QED
  BY <1>2, <1>3, <1>4, <1>5, <1>6 DEF DeleteOK

\* The two halves of the type invariant.
ControllerTypeOK ==
    /\ snaps \in [Snapshots -> Seq(SnapVersion)]
    /\ vols \in [Volumes -> Phases]
    /\ thick \in BOOLEAN
    /\ creates \in [CreateCalls -> CreateCall \cup {NoRequest}]
    /\ deletes \in [DeleteCalls -> DeleteCall \cup {NoRequest}]

AgentTypeOK ==
    /\ pos \in [Snapshots -> Nat]
    /\ queue \in SUBSET Snapshots
    /\ delayed \in SUBSET Snapshots
    /\ sync \in [Snapshots -> SnapSync]
    /\ origins \in SUBSET Volumes
    /\ snapLVs \in SUBSET (Snapshots \X Volumes \X BOOLEAN)
    /\ faults \in SUBSET FaultKinds

\* What is to be shown of a step.
LEMMA InvFromParts ==
    ASSUME ControllerTypeOK', AgentTypeOK', \A s \in Snapshots : SnapOK(s)',
           \A d \in DeleteCalls : DeleteOK(d)'
    PROVE  SnapInv'
<1>1. SnapTypeOK'
  BY DEF ControllerTypeOK, AgentTypeOK, SnapTypeOK
<1>2. QED
  BY <1>1 DEF SnapInv, SnapOK

\* A new version of one snapshot leaves the other ones alone.
LEMMA WrittenFacts ==
    ASSUME SnapInv, NEW s \in Snapshots, NEW x \in SnapVersion, Written(s, x)
    PROVE  /\ snaps' \in [Snapshots -> Seq(SnapVersion)]
           /\ snaps'[s] = Append(snaps[s], x)
           /\ \A t \in Snapshots : t # s => snaps'[t] = snaps[t]
<1>1. snaps \in [Snapshots -> Seq(SnapVersion)]
  BY DEF SnapInv, SnapTypeOK
<1>2. Append(snaps[s], x) \in Seq(SnapVersion)
  BY <1>1
<1>3. QED
  BY <1>1, <1>2 DEF Written

\* The steps of the controller preserve the invariant.
LEMMA ControllerStep ==
    ASSUME SnapInv, ControllerNext, UNCHANGED agentVars
    PROVE  SnapInv'
<1>1. /\ ControllerTypeOK /\ AgentTypeOK
      /\ pos' = pos /\ sync' = sync /\ origins' = origins
      /\ snapLVs' = snapLVs /\ faults' = faults
  BY ZenonT(30)
     DEF SnapInv, SnapTypeOK, ControllerTypeOK, AgentTypeOK, agentVars
<1>2. thick' = thick
  BY ControllerWrites
<1>3. /\ snaps' \in [Snapshots -> Seq(SnapVersion)]
      /\ \A s \in Snapshots : OtherWrites(s)
  <2>1. CASE snaps' = snaps
    BY <1>1, <2>1 DEF ControllerTypeOK, OtherWrites
  <2>2. ASSUME NEW s \in Snapshots, NEW x \in SnapVersion, Written(s, x),
               IsNew(snaps[s], x) \/ IsMarked(snaps[s], x)
        PROVE  /\ snaps' \in [Snapshots -> Seq(SnapVersion)]
               /\ \A t \in Snapshots : OtherWrites(t)
    <3>1. /\ snaps' \in [Snapshots -> Seq(SnapVersion)]
          /\ snaps'[s] = Append(snaps[s], x)
          /\ \A t \in Snapshots : t # s => snaps'[t] = snaps[t]
      BY <2>2, WrittenFacts, ZenonT(30)
    <3>2. OtherWrites(s)
      BY <2>2, <3>1, ZenonT(30) DEF OtherWrites
    <3>3. \A t \in Snapshots : t # s => OtherWrites(t)
      BY <3>1 DEF OtherWrites
    <3>4. QED
      BY <3>1, <3>2, <3>3
  <2>3. QED
    BY <2>1, <2>2, ControllerWrites
<1>4. \A s \in Snapshots : SnapOK(s)'
  <2>1. ASSUME NEW s \in Snapshots PROVE SnapOK(s)'
    <3>1. KeepsLVs(s)
      BY <1>1, LVsUnchanged
    <3>2. QED
      BY <1>1, <1>2, <1>3, <3>1, SnapStable
  <2>2. QED
    BY <2>1
<1>5. \A s \in Snapshots : Grows(snaps[s], snaps'[s])
  BY <1>3 DEF OtherWrites, Grows, Extends
<1>6. AgentTypeOK'
  BY <1>1 DEF AgentTypeOK, agentVars
<1>7. ASSUME deletes' = deletes, vols' = vols,
             creates' \in [CreateCalls -> CreateCall \cup {NoRequest}]
      PROVE  ControllerTypeOK' /\ \A d \in DeleteCalls : DeleteOK(d)'
  <2>1. ControllerTypeOK'
    BY <1>1, <1>2, <1>3, <1>7 DEF ControllerTypeOK
  <2>2. \A d \in DeleteCalls : DeleteOK(d)'
    BY <1>5, <1>7, DeleteStable
  <2>3. QED
    BY <2>1, <2>2
<1>8. ASSUME NEW d \in DeleteCalls, creates' = creates,
             \/ \E v \in LocalVolumes : ValidateDeleteVolumeReq(d, v)
             \/ GetVolumeToDelete(d)
             \/ DeleteLVMVolume(d)
             \/ WaitForDestroy(d)
             \/ AbortDelete(d)
      PROVE  ControllerTypeOK' /\ \A e \in DeleteCalls : DeleteOK(e)'
  <2>1. ControllerTypeOK'
    BY <1>1, <1>2, <1>3, <1>8, DeleteTypes DEF ControllerTypeOK
  <2>2. deletes \in [DeleteCalls -> DeleteCall \cup {NoRequest}]
    BY <1>1 DEF ControllerTypeOK
  <2>3. ASSUME \E pc \in {"wait", "delete"} : GotoDelete(d, pc),
               deletes[d].pc # "none"
        PROVE  \A e \in DeleteCalls : DeleteOK(e)'
    <3>1. /\ deletes'[d].vol = deletes[d].vol
          /\ deletes'[d].before = deletes[d].before
          /\ \A e \in DeleteCalls : e # d => deletes'[e] = deletes[e]
      BY <2>2, <2>3 DEF GotoDelete
    <3>2. QED
      BY <1>5, <2>3, <3>1, DeleteStable
  <2>4. ASSUME ReturnDelete(d)
        PROVE  \A e \in DeleteCalls : DeleteOK(e)'
    <3>1. /\ deletes'[d].pc = "none"
          /\ \A e \in DeleteCalls : e # d => deletes'[e] = deletes[e]
      BY <2>2, <2>4 DEF ReturnDelete, NoRequest
    <3>2. QED
      BY <1>5, <3>1, DeleteStable
  <2>5. ASSUME NEW v \in LocalVolumes, ValidateDeleteVolumeReq(d, v)
        PROVE  \A e \in DeleteCalls : DeleteOK(e)'
    <3>1. \A e \in DeleteCalls : e # d => deletes'[e] = deletes[e]
      BY <2>2, <2>5 DEF ValidateDeleteVolumeReq
    <3>2. DeleteOK(d)'
      BY <2>5, DeleteArrives, LocalAssumption
    <3>3. QED
      BY <1>5, <3>1, <3>2, DeleteStable
  <2>6. QED
    BY <1>8, <2>1, <2>3, <2>4, <2>5, ZenonT(30)
       DEF GetVolumeToDelete, DeleteLVMVolume, WaitForDestroy, AbortDelete
<1>9. ControllerTypeOK' /\ \A d \in DeleteCalls : DeleteOK(d)'
  <2>1. ASSUME NEW s \in Snapshots, DeleteSnapshot(s)
        PROVE  ControllerTypeOK' /\ \A d \in DeleteCalls : DeleteOK(d)'
    BY <1>1, <1>7, <2>1 DEF DeleteSnapshot, ControllerTypeOK
  <2>2. ASSUME NEW c \in CreateCalls,
               \/ \E s \in Snapshots, v \in Volumes : CreateSnapshot(c, s, v)
               \/ ValidateSnapshotRequest(c)
               \/ GetLVMSnapshotStatus(c)
               \/ GetSourceVolume(c)
               \/ ProvisionSnapshot(c)
               \/ FinalStatus(c)
               \/ EndCreate(c)
        PROVE  ControllerTypeOK' /\ \A d \in DeleteCalls : DeleteOK(d)'
    <3>1. deletes' = deletes /\ vols' = vols
      BY <2>2, ZenonT(30)
         DEF CreateSnapshot, ValidateSnapshotRequest, GetLVMSnapshotStatus,
             GetSourceVolume, ProvisionSnapshot, FinalStatus, EndCreate
    <3>2. QED
      BY <1>7, <2>2, <3>1, CreateTypes
  <2>3. ASSUME NEW d \in DeleteCalls,
               \/ \E v \in LocalVolumes : ValidateDeleteVolumeReq(d, v)
               \/ GetVolumeToDelete(d)
               \/ DeleteLVMVolume(d)
               \/ WaitForDestroy(d)
               \/ AbortDelete(d)
        PROVE  ControllerTypeOK' /\ \A e \in DeleteCalls : DeleteOK(e)'
    <3>1. creates' = creates
      BY <2>3, ZenonT(30)
         DEF ValidateDeleteVolumeReq, GetVolumeToDelete, DeleteLVMVolume,
             WaitForDestroy, AbortDelete
    <3>2. QED
      BY <1>8, <2>3, <3>1
  <2>4. QED
    BY <2>1, <2>2, <2>3, ZenonT(30) DEF ControllerNext
<1>10. QED
  BY <1>4, <1>6, <1>9, InvFromParts
=============================================================================
