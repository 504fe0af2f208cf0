------------------------ MODULE VolumeHistory_proofs ------------------------
(***************************************************************************)
(* Lemmas about histories of an LVMVolume and about what a step leaves     *)
(* alone; and that the writes of the CSI controller and of the garbage     *)
(* collector, and the steps of the informers, preserve the invariants.     *)
(***************************************************************************)
EXTENDS VolumeInvariant, TLAPS

\* A leaf that names no prover is for SMT, in two tries.
USE SMTT(30), SMTT(60)

\* Histories.

\* h goes over to g by at most one version, which fits its predecessor.
Grows(h, g) ==
    \/ g = h
    \/ \E new \in Version :
          /\ g = Append(h, new)
          /\ WellFormed(new)
          /\ Len(h) > 0 => Follows(h[Len(h)], new)

\* A later version of a later version is a later version.
LEMMA FollowsTransitive ==
    ASSUME NEW a \in Version, NEW b \in Version, NEW c \in Version,
           Follows(a, b), Follows(b, c)
    PROVE  Follows(a, c)
BY DEF Follows, Version

\* A history that grows stays a history, and keeps the versions it had.
LEMMA GrowsOK ==
    ASSUME NEW h \in Seq(Version), NEW g, HistoryOK(h), Grows(h, g)
    PROVE  /\ g \in Seq(Version)
           /\ HistoryOK(g)
           /\ Len(g) >= Len(h)
           /\ \A i \in 1..Len(h) : g[i] = h[i]
<1>1. CASE g = h
  BY <1>1
<1>2. CASE g # h
  <2>1. PICK new \in Version : /\ g = Append(h, new)
                               /\ WellFormed(new)
                               /\ Len(h) > 0 => Follows(h[Len(h)], new)
    BY <1>2 DEF Grows
  <2>2. /\ g \in Seq(Version)
        /\ Len(g) = Len(h) + 1
        /\ \A i \in 1..Len(h) : g[i] = h[i]
        /\ g[Len(g)] = new
        /\ Len(h) \in Nat
    BY <2>1
  <2>3. \A i \in 1..Len(g) : WellFormed(g[i])
    BY <2>1, <2>2 DEF HistoryOK
  <2>4. ASSUME NEW i \in 1..Len(g), NEW j \in 1..Len(g), i < j
        PROVE  Follows(g[i], g[j])
    <3>1. CASE j \in 1..Len(h)
      BY <3>1, <2>2, <2>4 DEF HistoryOK
    <3>2. CASE j = Len(g) /\ i = Len(h)
      BY <3>2, <2>1, <2>2, <2>4
    <3>3. CASE j = Len(g) /\ i < Len(h)
      <4>1. h[i] \in Version /\ h[Len(h)] \in Version /\ Len(h) \in 1..Len(h)
        BY <3>3, <2>2, <2>4
      <4>2. Follows(h[i], h[Len(h)])
        BY <3>3, <4>1, <2>4 DEF HistoryOK
      <4>3. Follows(h[Len(h)], new)
        BY <2>1, <4>1
      <4>4. QED
        BY <4>1, <4>2, <4>3, <2>2, <3>3, FollowsTransitive
    <3>4. QED
      BY <2>2, <2>4, <3>1, <3>2, <3>3
  <2>5. QED
    BY <2>2, <2>3, <2>4 DEF HistoryOK
<1>3. QED
  BY <1>1, <1>2

\* In a history, the last version is the newest.
LEMMA LatestIsNewest ==
    ASSUME NEW h \in Seq(Version), HistoryOK(h), NEW i \in 1..Len(h)
    PROVE  /\ h[i] \in Version
           /\ Latest(h) \in Version
           /\ Latest(h) = h[Len(h)]
           /\ WellFormed(h[i])
           /\ WellFormed(Latest(h))
           /\ i = Len(h) \/ Follows(h[i], Latest(h))
           /\ h[i].uid <= Latest(h).uid
<1>1. Len(h) \in 1..Len(h)
  OBVIOUS
<1>2. /\ h[i] \in Version
      /\ Latest(h) \in Version
      /\ Latest(h) = h[Len(h)]
  BY <1>1 DEF Latest
<1>3. WellFormed(h[i]) /\ WellFormed(Latest(h))
  BY <1>1, <1>2 DEF HistoryOK
<1>4. i = Len(h) \/ Follows(h[i], Latest(h))
  BY <1>1, <1>2 DEF HistoryOK
<1>5. h[i].uid <= Latest(h).uid
  BY <1>2, <1>4 DEF Follows, Version
<1>6. QED
  BY <1>2, <1>3, <1>4, <1>5

\* Create, of a name that is free.
LEMMA CreatedGrows ==
    ASSUME NEW h \in Seq(Version), HistoryOK(h), ~ Exists(h),
           NEW owner \in Nodes, NEW cap \in Capacities
    PROVE  /\ Grows(h, Created(h, owner, cap))
           /\ Len(Created(h, owner, cap)) = Len(h) + 1
           /\ Latest(Created(h, owner, cap)).state = "Pending"
<1> DEFINE new == NewVolume(NextUid(h), owner, cap)
<1>1. Len(h) > 0 => Latest(h) \in Version /\ Latest(h) = h[Len(h)]
  BY DEF Latest
<1>2. NextUid(h) \in Nat \ {0}
  BY <1>1 DEF NextUid, Version
<1>3. new \in Version /\ WellFormed(new) /\ new.state = "Pending"
  BY <1>2 DEF Version, NewVolume, WellFormed
<1>4. Len(h) > 0 => Follows(h[Len(h)], new)
  BY <1>1 DEF NextUid, NewVolume, Follows, Version
<1>5. QED
  BY <1>3, <1>4 DEF Grows, Created, Latest

\* What Delete makes of a version: the same one with a deletion timestamp.
LEMMA MarkedVersion ==
    ASSUME NEW vol \in Version, WellFormed(vol), ~ vol.gone,
           NEW new, new = [vol EXCEPT !.del = TRUE]
    PROVE  /\ new \in Version
           /\ new.del /\ new.state = vol.state /\ ~ new.gone
           /\ new.vg = vol.vg /\ new.owner = vol.owner /\ new.node = vol.node
           /\ WellFormed(new)
           /\ Follows(vol, new)
<1>1. /\ new \in Version
      /\ new.uid = vol.uid
      /\ new.owner = vol.owner
      /\ new.vg = vol.vg
      /\ new.state = vol.state
      /\ new.node = vol.node
      /\ new.fin = vol.fin
      /\ new.gone = vol.gone
      /\ new.del = TRUE
  BY ZenonT(30) DEF Version
<1>2. vol.gone = FALSE
  BY DEF Version
<1>3. WellFormed(new)
  BY <1>1, <1>2 DEF WellFormed
<1>4. Follows(vol, new)
  BY <1>1, <1>2 DEF Follows, Version
<1>5. QED
  BY <1>1, <1>2, <1>3, <1>4

\* The garbage collector removes a marked version that has no finalizer,
\* which is never a Ready one.
LEMMA RemovedVersion ==
    ASSUME NEW vol \in Version, WellFormed(vol), ~ vol.gone, vol.del, ~ vol.fin,
           NEW new, new = [vol EXCEPT !.gone = TRUE]
    PROVE  /\ new \in Version
           /\ new.state = vol.state /\ new.state # "Ready"
           /\ new.owner = vol.owner /\ new.node = vol.node
           /\ WellFormed(new)
           /\ Follows(vol, new)
<1>1. /\ new \in Version
      /\ new.uid = vol.uid
      /\ new.owner = vol.owner
      /\ new.vg = vol.vg
      /\ new.state = vol.state
      /\ new.node = vol.node
      /\ new.fin = vol.fin
      /\ new.del = vol.del
      /\ new.gone = TRUE
  BY ZenonT(30) DEF Version
<1>2. vol.state # "Ready"
  BY DEF WellFormed
<1>3. WellFormed(new)
  BY <1>1, <1>2 DEF WellFormed
<1>4. Follows(vol, new)
  BY <1>1 DEF Follows, Version
<1>5. QED
  BY <1>1, <1>2, <1>3, <1>4

\* Delete, of a volume that is there: it is marked, and is still there.
LEMMA DeletedGrows ==
    ASSUME NEW h \in Seq(Version), HistoryOK(h), Exists(h)
    PROVE  /\ Grows(h, Deleted(h))
           /\ Latest(Deleted(h)).del /\ ~ Latest(Deleted(h)).gone
           /\ Latest(Deleted(h)).state = Latest(h).state
           /\ Latest(Deleted(h)).owner = Latest(h).owner
           /\ Latest(Deleted(h)).node = Latest(h).node
<1>1. /\ Len(h) \in 1..Len(h)
      /\ Latest(h) \in Version
      /\ Latest(h) = h[Len(h)]
      /\ WellFormed(Latest(h))
      /\ ~ Latest(h).gone
  BY LatestIsNewest DEF Exists
<1>2. CASE Latest(h).del
  BY <1>1, <1>2 DEF Deleted, Grows
<1>3. CASE ~ Latest(h).del
  <2> DEFINE new == [Latest(h) EXCEPT !.del = TRUE]
  <2>1. /\ new \in Version
        /\ new.del /\ new.state = Latest(h).state /\ ~ new.gone
        /\ new.owner = Latest(h).owner /\ new.node = Latest(h).node
        /\ WellFormed(new) /\ Follows(Latest(h), new)
    BY <1>1, MarkedVersion, ZenonT(30)
  <2>2. Deleted(h) = Append(h, new)
    BY <1>3 DEF Deleted
  <2> HIDE DEF new
  <2>3. Latest(Deleted(h)) = new /\ Grows(h, Deleted(h))
    BY <1>1, <2>1, <2>2 DEF Grows, Latest
  <2>4. QED
    BY <2>1, <2>3
<1>4. QED
  BY <1>2, <1>3

\* GarbageCollect: the last version of a volume that was never Ready.
LEMMA CollectedGrows ==
    ASSUME NEW h \in Seq(Version), HistoryOK(h), Exists(h),
           Latest(h).del, ~ Latest(h).fin,
           NEW g, g = Append(h, [Latest(h) EXCEPT !.gone = TRUE])
    PROVE  /\ Grows(h, g)
           /\ Latest(g).state = Latest(h).state
           /\ Latest(g).state # "Ready"
           /\ Latest(g).owner = Latest(h).owner
           /\ Latest(g).node = Latest(h).node
<1> DEFINE new == [Latest(h) EXCEPT !.gone = TRUE]
<1>1. /\ Len(h) \in 1..Len(h)
      /\ Latest(h) \in Version
      /\ Latest(h) = h[Len(h)]
      /\ WellFormed(Latest(h))
      /\ ~ Latest(h).gone
  BY LatestIsNewest DEF Exists
<1>2. /\ new \in Version
      /\ new.state = Latest(h).state /\ new.state # "Ready"
      /\ new.owner = Latest(h).owner /\ new.node = Latest(h).node
      /\ WellFormed(new) /\ Follows(Latest(h), new)
  BY <1>1, RemovedVersion, ZenonT(30)
<1>3. g = Append(h, new)
  OBVIOUS
<1> HIDE DEF new
<1>4. Latest(g) = new /\ Grows(h, g)
  BY <1>1, <1>2, <1>3 DEF Grows, Latest
<1>5. QED
  BY <1>2, <1>4

\* What the workers write: UpdateVolGroup, UpdateVolInfo and
\* RemoveVolFinalizer, each with a copy that is the last version.
LEMMA VolGroupVersion ==
    ASSUME NEW vol \in Version, WellFormed(vol), ~ vol.gone, ~ vol.del,
           vol.state = "Pending", NEW vg \in VGs,
           NEW upd, upd = WithVolGroup(vol, vg),
           NEW new, new = Stored(upd)
    PROVE  /\ new \in Version
           /\ new = upd
           /\ new.uid = vol.uid
           /\ new.vg = vg /\ new.state = "Pending" /\ ~ new.gone /\ ~ new.del
           /\ WellFormed(new)
           /\ Follows(vol, new)
<1>1. /\ upd \in Version
      /\ upd.uid = vol.uid
      /\ upd.owner = vol.owner
      /\ upd.vg = vg
      /\ upd.state = vol.state
      /\ upd.fin = vol.fin
      /\ upd.del = vol.del
      /\ upd.gone = vol.gone
  BY DEF Version, WithVolGroup
<1>2. vol.fin = FALSE /\ vol.del = FALSE /\ vol.gone = FALSE
  BY DEF WellFormed, Version
<1>3. (upd.del /\ ~ upd.fin) = upd.gone
  BY <1>1, <1>2, ZenonT(30)
<1>4. new = upd
  BY <1>1, <1>3 DEF Version, Stored
<1>5. WellFormed(upd)
  BY <1>1, <1>2 DEF WellFormed
<1>6. Follows(vol, upd)
  BY <1>1, <1>2 DEF Follows, Version
<1>7. QED
  BY <1>1, <1>2, <1>4, <1>5, <1>6

\* UpdateVolInfo makes a Pending version Ready or Failed.
LEMMA VolInfoVersion ==
    ASSUME NEW vol \in Version, WellFormed(vol), ~ vol.gone, ~ vol.del,
           vol.state = "Pending", NEW n \in Nodes,
           NEW state \in {"Ready", "Failed"}, state = "Ready" => vol.vg \in VGs,
           NEW upd, upd = WithVolInfo(vol, state, n),
           NEW new, new = Stored(upd)
    PROVE  /\ new \in Version
           /\ new = upd
           /\ new.uid = vol.uid /\ new.vg = vol.vg /\ new.owner = vol.owner
           /\ new.node = n /\ new.state = state /\ ~ new.gone /\ ~ new.del
           /\ WellFormed(new)
           /\ Follows(vol, new)
<1>1. /\ upd \in Version
      /\ upd.uid = vol.uid
      /\ upd.owner = vol.owner
      /\ upd.vg = vol.vg
      /\ upd.state = state
      /\ upd.node = n
      /\ upd.fin = (state = "Ready")
      /\ upd.del = vol.del
      /\ upd.gone = vol.gone
  BY ZenonT(30) DEF Version, WithVolInfo
<1>2. vol.del = FALSE /\ vol.gone = FALSE
  BY DEF WellFormed, Version
<1>3. (upd.del /\ ~ upd.fin) = upd.gone
  BY <1>1, <1>2, ZenonT(30)
<1>4. new = upd
  BY <1>1, <1>3 DEF Version, Stored
<1>5. WellFormed(upd)
  BY <1>1, <1>2, ZenonT(30) DEF WellFormed
<1>6. Follows(vol, upd)
  BY <1>1, <1>2 DEF Follows, Version
<1>7. QED
  BY <1>1, <1>2, <1>4, <1>5, <1>6

\* RemoveVolFinalizer turns a version with a deletion timestamp into a
\* removed one.
LEMMA UnfinalizedVersion ==
    ASSUME NEW vol \in Version, WellFormed(vol), ~ vol.gone, vol.del,
           NEW upd, upd = WithoutFinalizer(vol),
           NEW new, new = Stored(upd)
    PROVE  /\ new \in Version
           /\ new.uid = vol.uid /\ new.vg = vol.vg /\ new.owner = vol.owner
           /\ new.node = vol.node
           /\ new.state = vol.state /\ new.gone /\ new.del
           /\ WellFormed(new)
           /\ Follows(vol, new)
<1>1. vol.del = TRUE /\ vol.gone = FALSE
  BY DEF Version
<1>2. /\ upd \in Version
      /\ upd.del = vol.del
      /\ upd.fin = FALSE
  BY ZenonT(30) DEF Version, WithoutFinalizer
<1>3. (upd.del /\ ~ upd.fin) = TRUE
  BY <1>1, <1>2
<1>4. /\ new \in Version
      /\ new.uid = vol.uid
      /\ new.owner = vol.owner
      /\ new.vg = vol.vg
      /\ new.state = vol.state
      /\ new.node = vol.node
      /\ new.fin = FALSE
      /\ new.del = vol.del
      /\ new.gone = TRUE
  BY <1>2, <1>3, ZenonT(30) DEF Version, WithoutFinalizer, Stored
<1>5. WellFormed(new)
  BY <1>1, <1>4 DEF WellFormed
<1>6. Follows(vol, new)
  BY <1>1, <1>4 DEF Follows, Version
<1>7. QED
  BY <1>1, <1>4, <1>5, <1>6

\* Update, with a version that fits the last one.
LEMMA UpdatedGrows ==
    ASSUME NEW h \in Seq(Version), HistoryOK(h), Exists(h), NEW vol,
           NEW new \in Version,
           new = Stored(vol),
           WellFormed(new), Follows(Latest(h), new)
    PROVE  /\ Grows(h, Updated(h, vol))
           /\ Latest(Updated(h, vol)) = new
           /\ Len(Updated(h, vol)) \in Nat
           /\ Len(Updated(h, vol)) >= Len(h)
           /\ Updated(h, vol)[Len(Updated(h, vol))] = new
<1>1. Len(h) > 0 /\ Latest(h) = h[Len(h)]
  BY DEF Exists, Latest
<1>2. CASE new = Latest(h)
  BY <1>1, <1>2 DEF Updated, Grows, Latest
<1>3. CASE new # Latest(h)
  <2>1. Updated(h, vol) = Append(h, new)
    BY <1>3 DEF Updated
  <2>2. QED
    BY <1>1, <2>1 DEF Grows, Latest
<1>4. QED
  BY <1>2, <1>3

-----------------------------------------------------------------------------
\* What a step leaves alone.

\* Nothing that agent n keeps for v changes, but for its queue.
SameAgent(n, v) ==
    /\ pos'[n][v] = pos[n][v]
    /\ sync'[n][v] = sync[n][v]
    /\ \A vg \in VGs : <<vg, v>> \in lvs'[n] <=> <<vg, v>> \in lvs[n]

\* A worker is not disturbed by a new version of its volume.
LEMMA WorkerStable ==
    ASSUME Inv, NEW n \in Nodes, NEW v \in Volumes,
           Grows(crs[v], crs'[v]), SameAgent(n, v)
    PROVE  WorkerOK(n, v)'
<1>1. /\ crs[v] \in Seq(Version)
      /\ HistoryOK(crs[v])
      /\ WorkerOK(n, v)
      /\ pos[n][v] \in Nat
      /\ pos[n][v] <= Len(crs[v])
  BY DEF Inv, TypeOK
<1>2. /\ Len(crs'[v]) >= Len(crs[v])
      /\ \A i \in 1..Len(crs[v]) : crs'[v][i] = crs[v][i]
      /\ crs'[v] \in Seq(Version)
  BY <1>1, GrowsOK
<1>3. SUFFICES ASSUME Busy(n, v)
               PROVE  WorkerOK(n, v)'
  BY ZenonT(30) DEF WorkerOK, Busy, SameAgent
<1>4. /\ sync[n][v].rv \in 1..Len(crs[v])
      /\ pos[n][v] \in 1..Len(crs[v])
      /\ Copy(n, v) \in Version
      /\ WellFormed(Copy(n, v))
  <2>1. sync[n][v].rv \in 1..Len(crs[v]) /\ pos[n][v] >= 1
    BY <1>1, <1>3, ZenonT(30) DEF WorkerOK
  <2>2. pos[n][v] \in 1..Len(crs[v])
    BY <1>1, <2>1
  <2>3. crs[v][sync[n][v].rv] \in Version /\ WellFormed(crs[v][sync[n][v].rv])
    BY <1>1, <2>1 DEF HistoryOK
  <2>4. QED
    BY <2>1, <2>2, <2>3, ZenonT(30) DEF Copy
<1>5. Copy(n, v)' = Copy(n, v) /\ Cached(n, v)' = Cached(n, v)
  <2>1. pos'[n][v] = pos[n][v] /\ sync'[n][v] = sync[n][v]
    BY DEF SameAgent
  <2>2. /\ crs'[v][sync[n][v].rv] = crs[v][sync[n][v].rv]
        /\ crs'[v][pos[n][v]] = crs[v][pos[n][v]]
    BY <1>2, <1>4, ZenonT(30)
  <2>3. QED
    BY <2>1, <2>2, ZenonT(30) DEF Copy, Cached
<1>6. Copy(n, v).state = "Ready" => Copy(n, v).vg \in VGs
  BY <1>4 DEF WellFormed
<1>7. sync'[n][v].rv \in 1..Len(crs'[v])
  BY <1>2, <1>4 DEF SameAgent
<1>8. QED
  BY <1>1, <1>3, <1>5, <1>6, <1>7, ZenonT(30) DEF WorkerOK, SameAgent, Busy

\* Neither is the reason why an agent has work for a volume.
LEMMA ConcernStable ==
    ASSUME Inv, NEW n \in Nodes, NEW v \in Volumes,
           Grows(crs[v], crs'[v]),
           v \in queue'[n] \/ v \in delayed'[n] \/ Busy(n, v)' =>
               v \in queue[n] \/ v \in delayed[n] \/ Busy(n, v)
    PROVE  ConcernOK(n, v)'
<1>1. crs[v] \in Seq(Version) /\ HistoryOK(crs[v]) /\ ConcernOK(n, v)
  BY DEF Inv, TypeOK
<1>2. /\ Len(crs'[v]) >= Len(crs[v])
      /\ \A i \in 1..Len(crs[v]) : crs'[v][i] = crs[v][i]
      /\ crs'[v] \in Seq(Version)
  BY <1>1, GrowsOK
<1>3. QED
  BY <1>1, <1>2 DEF ConcernOK

\* If all lives have one owner after a step, they had it before.
LEMMA SingleOwnerBefore ==
    ASSUME Inv, NEW v \in Volumes, Grows(crs[v], crs'[v]), SingleOwner(v)'
    PROVE  /\ SingleOwner(v)
           /\ \A i \in 1..Len(crs[v]) :
                 crs[v][i].owner = Latest(crs'[v]).owner
<1>1. crs[v] \in Seq(Version) /\ HistoryOK(crs[v])
  BY DEF Inv, TypeOK
<1>2. /\ Len(crs'[v]) >= Len(crs[v])
      /\ \A i \in 1..Len(crs[v]) : crs'[v][i] = crs[v][i]
      /\ crs'[v] \in Seq(Version)
  BY <1>1, GrowsOK
<1>3. /\ DOMAIN crs[v] = 1..Len(crs[v])
      /\ DOMAIN crs'[v] = 1..Len(crs'[v])
      /\ Len(crs[v]) \in Nat /\ Len(crs'[v]) \in Nat
  BY <1>1, <1>2
<1>4. \A i, j \in 1..Len(crs'[v]) : crs'[v][i].owner = crs'[v][j].owner
  BY <1>3, ZenonT(30) DEF SingleOwner
<1>5. 1..Len(crs[v]) \subseteq 1..Len(crs'[v])
  BY <1>2, <1>3
<1>6. ASSUME NEW i \in 1..Len(crs[v]), NEW j \in 1..Len(crs[v])
      PROVE  crs[v][i].owner = crs[v][j].owner
  <2>1. crs'[v][i] = crs[v][i] /\ crs'[v][j] = crs[v][j]
    BY <1>2
  <2>2. QED
    BY <1>4, <1>5, <2>1, ZenonT(30)
<1>7. ASSUME NEW i \in 1..Len(crs[v])
      PROVE  crs[v][i].owner = Latest(crs'[v]).owner
  <2>1. Len(crs'[v]) \in 1..Len(crs'[v])
    BY <1>2, <1>3
  <2>2. QED
    BY <1>2, <1>4, <1>5, <2>1, ZenonT(30) DEF Latest
<1>8. SingleOwner(v)
  BY <1>3, <1>6, ZenonT(30) DEF SingleOwner
<1>9. QED
  BY <1>7, <1>8

\* The properties of a volume whose history does not change and for which no
\* agent does anything.
LEMMA SameOK ==
    ASSUME Inv, NEW v \in Volumes, crs'[v] = crs[v],
           \A n \in Nodes : SameAgent(n, v)
    PROVE  ReadyOK(v)' /\ OwnerOK(v)' /\ RemovedOK(v)'
<1>1. /\ crs[v] \in Seq(Version) /\ HistoryOK(crs[v])
      /\ ReadyOK(v) /\ OwnerOK(v) /\ RemovedOK(v)
  BY DEF Inv, TypeOK
<1>2. Latest(crs[v])' = Latest(crs[v]) /\ Exists(crs[v])' = Exists(crs[v])
  BY DEF Latest, Exists
<1>3. SingleOwner(v)' = SingleOwner(v)
  BY DEF SingleOwner
<1>4. Len(crs[v]) > 0 =>
        /\ Latest(crs[v]) \in Version
        /\ WellFormed(Latest(crs[v]))
  BY <1>1, LatestIsNewest, Len(crs[v]) \in 1..Len(crs[v]) \/ ~ Len(crs[v]) > 0
<1>5. \A n \in Nodes : /\ Copy(n, v)' = Copy(n, v)
                       /\ Cached(n, v)' = Cached(n, v)
                       /\ Busy(n, v)' = Busy(n, v)
  BY ZenonT(30) DEF Copy, Cached, Busy, SameAgent
<1>6. OwnerOK(v)'
  BY <1>1, <1>2, <1>3 DEF OwnerOK
<1>7. ReadyOK(v)'
  <2>1. SUFFICES ASSUME Ready(v), ~ Latest(crs[v]).del
                 PROVE  ReadyOK(v)'
    BY <1>2, ZenonT(30) DEF ReadyOK, Ready
  <2>2. /\ Latest(crs[v]).node \in Nodes
        /\ Latest(crs[v]).vg \in VGs
    BY <1>4, <2>1 DEF Ready, Exists, WellFormed
  <2>3. QED
    BY <1>1, <1>5, <2>1, <2>2, ZenonT(30) DEF ReadyOK, SameAgent
<1>8. RemovedOK(v)'
  <2>1. SUFFICES ASSUME Len(crs[v]) > 0, Latest(crs[v]).gone,
                        Latest(crs[v]).state = "Ready", SingleOwner(v)
                 PROVE  RemovedOK(v)'
    BY <1>3, ZenonT(30) DEF RemovedOK
  <2>2. /\ Latest(crs[v]).owner \in Nodes
        /\ Latest(crs[v]).vg \in VGs
    BY <1>4, <2>1 DEF WellFormed, Version
  <2>3. PICK n \in Nodes : n = Latest(crs[v]).owner
    BY <2>2
  <2>4. /\ <<Latest(crs[v]).vg, v>> \notin lvs[n]
        /\ pos[n][v] >= 1
        /\ Cached(n, v).uid = Latest(crs[v]).uid
        /\ Cached(n, v).del
        /\ Busy(n, v) => Copy(n, v).del
    BY <1>1, <2>1, <2>3, ZenonT(30) DEF RemovedOK
  <2>5. pos'[n][v] = pos[n][v]
        /\ (<<Latest(crs[v]).vg, v>> \in lvs'[n]
               <=> <<Latest(crs[v]).vg, v>> \in lvs[n])
    BY <2>2 DEF SameAgent
  <2>6. QED
    BY <1>2, <1>5, <2>3, <2>4, <2>5, ZenonT(30) DEF RemovedOK
<1>9. QED
  BY <1>6, <1>7, <1>8

-----------------------------------------------------------------------------
\* Steps of the controller plugin.

\* What a request does to the resources: it creates one, deletes one, or
\* changes nothing.
LEMMA ControllerEffect ==
    ASSUME Inv, NEW v \in Volumes, NEW c \in Calls, ControllerNext(v, c)
    PROVE  \/ crs' = crs
           \/ /\ ~ Exists(crs[v])
              /\ \E owner \in Nodes, cap \in Capacities :
                    crs' = [crs EXCEPT ![v] = Created(crs[v], owner, cap)]
           \/ /\ Exists(crs[v])
              /\ crs' = [crs EXCEPT ![v] = Deleted(crs[v])]
<1>1. calls[v][c].cap \in Capacities
  BY DEF Inv, TypeOK, Call
<1>2. CASE DeleteFailed(v, c)
  BY <1>2 DEF DeleteFailed
<1>3. CASE DeleteCall(v, c)
  BY <1>3 DEF DeleteCall
<1>4. CASE ProvisionVolume(v, c)
  BY <1>1, <1>4 DEF ProvisionVolume
<1>5. CASE UNCHANGED crs
  BY <1>5
<1>6. QED
  BY <1>2, <1>3, <1>4, <1>5, ZenonT(30)
     DEF ControllerNext, CreateVolume, GetLVMVolume,
         WaitForLVMVolumeProcessed, WaitForLVMVolumeDestroy, DeleteVolume,
         DeleteGet, DeleteWait, Abort

\* The handlers keep the type of their own state.
LEMMA ControllerCalls ==
    ASSUME Inv, NEW v \in Volumes, NEW c \in Calls, ControllerNext(v, c)
    PROVE  calls' \in [Volumes -> [Calls -> Call]]
<1>1. calls \in [Volumes -> [Calls -> Call]]
  BY DEF Inv, TypeOK
<1>2. \A pc \in {"none"} \cup CreatePC \cup DeletePC :
         Goto(v, c, pc) => calls' \in [Volumes -> [Calls -> Call]]
  BY <1>1 DEF Goto, Call
<1>3. \A k \in Call :
         [calls EXCEPT ![v][c] = k] \in [Volumes -> [Calls -> Call]]
  BY <1>1
<1>4. Return(v, c) => calls' \in [Volumes -> [Calls -> Call]]
  <2>1. \A k \in Call : [k EXCEPT !.pc = "none", !.created = FALSE] \in Call
    BY ZenonT(30) DEF Call
  <2>2. calls[v][c] \in Call
    BY <1>1
  <2> DEFINE k == [calls[v][c] EXCEPT !.pc = "none", !.created = FALSE]
  <2>3. k \in Call
    BY <2>1, <2>2, ZenonT(30)
  <2>4. Return(v, c) => calls' = [calls EXCEPT ![v][c] = k]
    BY DEF Return
  <2> HIDE DEF k
  <2>5. QED
    BY <1>3, <2>3, <2>4, ZenonT(30)
<1>5. CASE CreateVolume(v, c)
  <2>1. PICK cap \in Capacities :
          calls' = [calls EXCEPT ![v][c] =
                        [pc |-> "get", cap |-> cap, created |-> FALSE]]
    BY <1>5, ZenonT(30) DEF CreateVolume
  <2>2. [pc |-> "get", cap |-> cap, created |-> FALSE] \in Call
    BY DEF Call, CreatePC
  <2>3. QED
    BY <1>3, <2>1, <2>2, ZenonT(30)
<1>6. CASE ProvisionVolume(v, c)
  <2>1. \A k \in Call :
           [k EXCEPT !.pc = "waitProcessed", !.created = TRUE] \in Call
    BY ZenonT(30) DEF Call, CreatePC
  <2>2. calls[v][c] \in Call
    BY <1>1
  <2> DEFINE k == [calls[v][c] EXCEPT !.pc = "waitProcessed",
                                      !.created = TRUE]
  <2>3. k \in Call
    BY <2>1, <2>2, ZenonT(30)
  <2>4. Return(v, c) \/ calls' = [calls EXCEPT ![v][c] = k]
    BY <1>6 DEF ProvisionVolume
  <2> HIDE DEF k
  <2>5. QED
    BY <1>4, <1>3, <2>3, <2>4
<1>7. CASE GetLVMVolume(v, c)
  BY <1>2, <1>4, <1>7 DEF GetLVMVolume, Processed, CreatePC
<1>8. CASE WaitForLVMVolumeProcessed(v, c)
  BY <1>2, <1>4, <1>8 DEF WaitForLVMVolumeProcessed, Processed, CreatePC
<1>9. CASE DeleteFailed(v, c)
  BY <1>2, <1>4, <1>9 DEF DeleteFailed, CreatePC
<1>10. CASE WaitForLVMVolumeDestroy(v, c)
  BY <1>2, <1>4, <1>10 DEF WaitForLVMVolumeDestroy, CreatePC
<1>11. CASE DeleteVolume(v, c) \/ DeleteGet(v, c)
  BY <1>2, <1>4, <1>11 DEF DeleteVolume, DeleteGet, DeletePC
<1>12. CASE DeleteCall(v, c) \/ DeleteWait(v, c) \/ Abort(v, c)
  BY <1>2, <1>4, <1>12 DEF DeleteCall, DeleteWait, Abort, DeletePC
<1>13. QED
  BY <1>5, <1>6, <1>7, <1>8, <1>9, <1>10, <1>11, <1>12, ZenonT(30)
     DEF ControllerNext

\* Others than the agents leave the resource of v as it is, make a Pending one
\* of it, or go on with one that stays as it was but for being marked or, when
\* it is not Ready, removed.
LEMMA ResourceStep ==
    ASSUME Inv, NEW v \in Volumes, UNCHANGED agentVars,
           calls' \in [Volumes -> [Calls -> Call]],
           crs' = [crs EXCEPT ![v] = crs'[v]],
           \/ crs'[v] = crs[v]
           \/ /\ Latest(crs'[v]).state = "Pending"
              /\ Grows(crs[v], crs'[v])
           \/ /\ Latest(crs'[v]).del \/ Latest(crs'[v]).state # "Ready"
              /\ Latest(crs'[v]).state = "Ready" => ~ Latest(crs'[v]).gone
              /\ Latest(crs'[v]).state = Latest(crs[v]).state
              /\ Latest(crs'[v]).owner = Latest(crs[v]).owner
              /\ Latest(crs'[v]).node = Latest(crs[v]).node
              /\ Len(crs[v]) > 0
              /\ Grows(crs[v], crs'[v])
    PROVE  Inv'
<1>1. /\ crs \in [Volumes -> Seq(Version)]
      /\ crs[v] \in Seq(Version)
      /\ HistoryOK(crs[v])
      /\ ReadyOK(v) /\ OwnerOK(v) /\ RemovedOK(v)
  BY DEF Inv, TypeOK
<1>2. /\ pos' = pos /\ queue' = queue /\ delayed' = delayed
      /\ sync' = sync /\ lvs' = lvs /\ faults' = faults
  BY DEF agentVars
<1>4. \A w \in Volumes : /\ Grows(crs[w], crs'[w])
                         /\ w # v => crs'[w] = crs[w]
  BY <1>1 DEF Grows
<1>5. \A w \in Volumes : /\ crs'[w] \in Seq(Version)
                         /\ HistoryOK(crs'[w])
                         /\ Len(crs'[w]) >= Len(crs[w])
  <2>1. \A w \in Volumes : crs[w] \in Seq(Version) /\ HistoryOK(crs[w])
    BY <1>1, ZenonT(30) DEF Inv
  <2>2. QED
    BY <1>4, <2>1, GrowsOK, ZenonT(30)
<1>6. \A n \in Nodes, w \in Volumes : SameAgent(n, w)
  BY <1>2 DEF SameAgent
<1>7. TypeOK'
  <2>1. crs' \in [Volumes -> Seq(Version)]
    BY <1>1, <1>5
  <2>2. QED
    BY <1>2, <2>1 DEF Inv, TypeOK
<1>8. \A n \in Nodes, w \in Volumes : pos'[n][w] <= Len(crs'[w])
  BY <1>2, <1>5 DEF Inv, TypeOK
<1>9. \A n \in Nodes, w \in Volumes : WorkerOK(n, w)'
  BY <1>4, <1>6, WorkerStable
<1>10. \A n \in Nodes, w \in Volumes : ConcernOK(n, w)'
  BY <1>2, <1>4, ConcernStable DEF Busy
<1>11. ReadyOK(v)' /\ OwnerOK(v)' /\ RemovedOK(v)'
  <2>1. CASE crs'[v] = crs[v]
    BY <1>6, <2>1, SameOK
  <2>2. CASE Latest(crs'[v]).state = "Pending"
    <3>1. Latest(crs[v])'.state # "Ready"
      BY <2>2
    <3>2. QED
      BY <3>1, ZenonT(30) DEF ReadyOK, OwnerOK, RemovedOK, Ready
  <2>3. CASE /\ Latest(crs'[v]).del \/ Latest(crs'[v]).state # "Ready"
             /\ Latest(crs'[v]).state = "Ready" => ~ Latest(crs'[v]).gone
             /\ Latest(crs'[v]).state = Latest(crs[v]).state
             /\ Latest(crs'[v]).owner = Latest(crs[v]).owner
             /\ Latest(crs'[v]).node = Latest(crs[v]).node
             /\ Len(crs[v]) > 0
    <3>1. ReadyOK(v)' /\ RemovedOK(v)'
      BY <2>3, ZenonT(30) DEF ReadyOK, RemovedOK, Ready
    <3>2. OwnerOK(v)'
      BY <1>1, <1>4, <2>3, SingleOwnerBefore, ZenonT(30) DEF OwnerOK
    <3>3. QED
      BY <3>1, <3>2
  <2>4. QED
    BY <2>1, <2>2, <2>3
<1>12. \A w \in Volumes : ReadyOK(w)' /\ OwnerOK(w)' /\ RemovedOK(w)'
  BY <1>4, <1>6, <1>11, SameOK
<1>13. QED
  BY <1>5, <1>7, <1>8, <1>9, <1>10, <1>12, ZenonT(30) DEF Inv

\* The steps of the CSI controller preserve the invariant.
LEMMA ControllerStep ==
    ASSUME Inv, NEW v \in Volumes, NEW c \in Calls,
           ControllerNext(v, c), UNCHANGED agentVars
    PROVE  Inv'
<1>1. /\ crs \in [Volumes -> Seq(Version)]
      /\ crs[v] \in Seq(Version)
      /\ HistoryOK(crs[v])
  BY DEF Inv, TypeOK
<1>2. calls' \in [Volumes -> [Calls -> Call]]
  BY ControllerCalls
<1>3. CASE crs' = crs
  BY <1>1, <1>2, <1>3, ResourceStep
<1>4. CASE /\ ~ Exists(crs[v])
           /\ \E owner \in Nodes, cap \in Capacities :
                 crs' = [crs EXCEPT ![v] = Created(crs[v], owner, cap)]
  <2>1. /\ crs' = [crs EXCEPT ![v] = crs'[v]]
        /\ Latest(crs'[v]).state = "Pending"
        /\ Grows(crs[v], crs'[v])
    BY <1>1, <1>4, CreatedGrows
  <2>2. QED
    BY <1>2, <2>1, ResourceStep
<1>5. CASE /\ Exists(crs[v])
           /\ crs' = [crs EXCEPT ![v] = Deleted(crs[v])]
  <2>1. crs'[v] = Deleted(crs[v]) /\ Len(crs[v]) > 0
    BY <1>1, <1>5 DEF Exists
  <2>2. crs' = [crs EXCEPT ![v] = crs'[v]]
    BY <1>1, <1>5
  <2>3. /\ Grows(crs[v], crs'[v])
        /\ Latest(crs'[v]).del /\ ~ Latest(crs'[v]).gone
        /\ Latest(crs'[v]).state = Latest(crs[v]).state
        /\ Latest(crs'[v]).owner = Latest(crs[v]).owner
        /\ Latest(crs'[v]).node = Latest(crs[v]).node
    BY <1>1, <1>5, <2>1, DeletedGrows
  <2>4. QED
    BY <1>2, <2>1, <2>2, <2>3, ResourceStep, ZenonT(30)
<1>6. QED
  BY <1>3, <1>4, <1>5, ControllerEffect

\* So does the garbage collector, which only removes what is not Ready.
LEMMA CollectStep ==
    ASSUME Inv, NEW v \in Volumes, GarbageCollect(v),
           UNCHANGED <<calls, agentVars>>
    PROVE  Inv'
<1>1. /\ crs \in [Volumes -> Seq(Version)]
      /\ crs[v] \in Seq(Version)
      /\ HistoryOK(crs[v])
      /\ calls' \in [Volumes -> [Calls -> Call]]
      /\ UNCHANGED agentVars
  BY DEF Inv, TypeOK
<1> DEFINE g == Append(crs[v], [Latest(crs[v]) EXCEPT !.gone = TRUE])
<1>2. /\ crs' = [crs EXCEPT ![v] = g]
      /\ Exists(crs[v]) /\ Latest(crs[v]).del /\ ~ Latest(crs[v]).fin
  BY DEF GarbageCollect
<1>3. /\ Grows(crs[v], g)
      /\ Latest(g).state = Latest(crs[v]).state
      /\ Latest(g).state # "Ready"
      /\ Latest(g).owner = Latest(crs[v]).owner
      /\ Latest(g).node = Latest(crs[v]).node
  BY <1>1, <1>2, CollectedGrows, ZenonT(30)
<1> HIDE DEF g
<1>4. crs'[v] = g /\ crs' = [crs EXCEPT ![v] = crs'[v]] /\ Len(crs[v]) > 0
  BY <1>1, <1>2 DEF Exists
<1>5. QED
  BY <1>1, <1>3, <1>4, ResourceStep, ZenonT(30)

-----------------------------------------------------------------------------
\* Steps of the informer.

\* Two versions of a history, in order.
LEMMA VersionOrder ==
    ASSUME NEW h \in Seq(Version), HistoryOK(h),
           NEW i \in 1..Len(h), NEW j \in 1..Len(h), i <= j
    PROVE  /\ h[i] \in Version /\ h[j] \in Version
           /\ h[i].uid \in Nat /\ h[j].uid \in Nat
           /\ h[i].uid <= h[j].uid
           /\ h[i].uid = h[j].uid /\ h[i].del => h[j].del
<1>1. h[i] \in Version /\ h[j] \in Version
  OBVIOUS
<1>2. h[i].uid \in Nat /\ h[j].uid \in Nat
  BY <1>1 DEF Version
<1>3. i = j \/ Follows(h[i], h[j])
  BY DEF HistoryOK
<1>4. QED
  BY <1>1, <1>2, <1>3 DEF Follows

\* The cache of n moves on to version p of v, and v may be enqueued if n owns
\* that version.
LEMMA CacheStep ==
    ASSUME Inv, NEW n \in Nodes, NEW v \in Volumes, NEW p \in 1..Len(crs[v]),
           pos[n][v] < p, pos' = [pos EXCEPT ![n][v] = p],
           \/ queue' = queue
           \/ /\ queue' = [queue EXCEPT ![n] = @ \cup {v}]
              /\ crs[v][p].owner = n,
           UNCHANGED <<crs, calls, delayed, sync, lvs>>, faults' \in Nat
    PROVE  Inv'
<1>1. /\ crs \in [Volumes -> Seq(Version)]
      /\ pos \in [Nodes -> [Volumes -> Nat]]
      /\ queue \in [Nodes -> SUBSET Volumes]
      /\ crs[v] \in Seq(Version)
      /\ HistoryOK(crs[v])
      /\ pos[n][v] \in Nat
      /\ ReadyOK(v) /\ OwnerOK(v) /\ RemovedOK(v) /\ WorkerOK(n, v)
  BY DEF Inv, TypeOK
<1>2. /\ pos'[n][v] = p
      /\ \A m \in Nodes, w \in Volumes :
            m # n \/ w # v => pos'[m][w] = pos[m][w]
  BY <1>1
<1>3. TypeOK'
  <2>1. pos' \in [Nodes -> [Volumes -> Nat]]
    BY <1>1
  <2>2. queue' \in [Nodes -> SUBSET Volumes]
    BY <1>1
  <2>3. QED
    BY <2>1, <2>2 DEF Inv, TypeOK
<1>4. \A w \in Volumes : HistoryOK(crs'[w]) /\ Grows(crs[w], crs'[w])
  BY DEF Inv, Grows
<1>5. \A m \in Nodes, w \in Volumes : pos'[m][w] <= Len(crs'[w])
  <2>1. p <= Len(crs[v])
    BY <1>1
  <2>2. QED
    BY <1>2, <2>1 DEF Inv
<1>6. \A m \in Nodes, w \in Volumes : m # n \/ w # v => SameAgent(m, w)
  BY <1>2 DEF SameAgent
<1>7. pos[n][v] >= 1 =>
        /\ Cached(n, v).uid \in Nat
        /\ Cached(n, v).uid <= Cached(n, v)'.uid
        /\ Cached(n, v).uid = Cached(n, v)'.uid /\ Cached(n, v).del =>
              Cached(n, v)'.del
  <2>1. SUFFICES ASSUME pos[n][v] >= 1
                 PROVE  /\ Cached(n, v).uid \in Nat
                        /\ Cached(n, v).uid <= Cached(n, v)'.uid
                        /\ /\ Cached(n, v).uid = Cached(n, v)'.uid
                           /\ Cached(n, v).del
                           => Cached(n, v)'.del
    OBVIOUS
  <2>2. pos[n][v] \in 1..Len(crs[v]) /\ pos[n][v] <= p
    BY <1>1, <2>1
  <2>3. Cached(n, v)' = crs[v][p] /\ Cached(n, v) = crs[v][pos[n][v]]
    BY <1>2 DEF Cached
  <2>4. /\ crs[v][pos[n][v]].uid \in Nat
        /\ crs[v][pos[n][v]].uid <= crs[v][p].uid
        /\ crs[v][pos[n][v]].uid = crs[v][p].uid /\ crs[v][pos[n][v]].del =>
              crs[v][p].del
    BY <1>1, <2>2, VersionOrder, ZenonT(30)
  <2>5. QED
    BY <2>3, <2>4, ZenonT(30)
<1>8. /\ Cached(n, v)'.uid \in Nat
      /\ Cached(n, v)'.uid <= Latest(crs[v]).uid
      /\ Latest(crs[v]) \in Version
      /\ Latest(crs[v]).uid \in Nat
      /\ WellFormed(Latest(crs[v]))
      /\ Latest(crs[v])' = Latest(crs[v])
  <2>1. Cached(n, v)' = crs[v][p] /\ crs[v][p] \in Version
    BY <1>1, <1>2 DEF Cached
  <2>2. /\ Cached(n, v)'.uid <= Latest(crs[v]).uid
        /\ Latest(crs[v]) \in Version
        /\ WellFormed(Latest(crs[v]))
    BY <1>1, <2>1, LatestIsNewest, ZenonT(30)
  <2>3. QED
    BY <2>1, <2>2, ZenonT(30) DEF Version
<1>9. WorkerOK(n, v)'
  <2>1. SUFFICES ASSUME Busy(n, v) PROVE WorkerOK(n, v)'
    BY ZenonT(30) DEF WorkerOK, Busy
  <2>2. Copy(n, v)' = Copy(n, v) /\ Copy(n, v) \in Version
    <3>1. sync[n][v].rv \in 1..Len(crs[v])
      BY <1>1, <2>1, ZenonT(30) DEF WorkerOK
    <3>2. crs[v][sync[n][v].rv] \in Version
      BY <1>1, <3>1
    <3>3. QED
      BY <3>2, ZenonT(30) DEF Copy
  <2>3. Copy(n, v).uid <= Cached(n, v)'.uid
    <3>1. Copy(n, v).uid \in Nat
      BY <2>2 DEF Version
    <3>2. Copy(n, v).uid <= Cached(n, v).uid /\ pos[n][v] >= 1
      BY <1>1, <2>1, ZenonT(30) DEF WorkerOK
    <3>3. QED
      BY <1>7, <1>8, <3>1, <3>2
  <2>4. sync[n][v].rv <= pos[n][v] => sync[n][v].rv <= p
    <3>1. sync[n][v].rv \in 1..Len(crs[v])
      BY <1>1, <2>1, ZenonT(30) DEF WorkerOK
    <3>2. QED
      BY <1>1, <3>1
  <2>5. p >= 1
    BY <1>1
  <2>6. QED
    BY <1>1, <1>2, <2>1, <2>2, <2>3, <2>4, <2>5, ZenonT(30) DEF WorkerOK, Busy
<1>10. \A m \in Nodes, w \in Volumes : WorkerOK(m, w)'
  BY <1>4, <1>6, <1>9, WorkerStable
<1>11. \A m \in Nodes, w \in Volumes : ConcernOK(m, w)'
  <2>1. ASSUME NEW m \in Nodes, NEW w \in Volumes,
               w \in queue'[m] => w \in queue[m]
        PROVE  ConcernOK(m, w)'
    BY <1>4, <2>1, ConcernStable DEF Busy
  <2>2. CASE queue' = queue
    BY <2>1, <2>2
  <2>3. CASE /\ queue' = [queue EXCEPT ![n] = @ \cup {v}]
             /\ crs[v][p].owner = n
    <3>1. ConcernOK(n, v)'
      BY <1>1, <2>3 DEF ConcernOK
    <3>2. \A m \in Nodes, w \in Volumes :
             m # n \/ w # v => (w \in queue'[m] => w \in queue[m])
      BY <1>1, <2>3
    <3>3. QED
      BY <2>1, <3>1, <3>2
  <2>4. QED
    BY <2>2, <2>3
<1>12. OwnerOK(v)'
  BY <1>1, <1>8, ZenonT(30) DEF OwnerOK, SingleOwner
<1>13. ReadyOK(v)'
  <2>1. SUFFICES ASSUME Ready(v), ~ Latest(crs[v]).del
                 PROVE  ReadyOK(v)'
    BY <1>8, ZenonT(30) DEF ReadyOK, Ready, Exists
  <2>2. /\ Latest(crs[v]).node \in Nodes
        /\ Latest(crs[v]).vg \in VGs
    BY <1>8, <2>1 DEF Ready, WellFormed
  <2>3. CASE Latest(crs[v]).node # n
    <3>1. SameAgent(Latest(crs[v]).node, v)
      BY <1>6, <2>2, <2>3
    <3>2. QED
      BY <1>1, <1>8, <2>1, <2>2, <3>1, ZenonT(30)
        DEF ReadyOK, SameAgent, Cached, Copy, Busy
  <2>4. CASE Latest(crs[v]).node = n
    <3>1. Cached(n, v)'.uid = Latest(crs[v]).uid
      <4>1. pos[n][v] >= 1 /\ Cached(n, v).uid = Latest(crs[v]).uid
        BY <1>1, <2>1, <2>4, ZenonT(30) DEF ReadyOK
      <4>2. QED
        BY <1>7, <1>8, <4>1
    <3>2. pos'[n][v] >= 1
      BY <1>1, <1>2
    <3>3. Busy(n, v)' = Busy(n, v) /\ Copy(n, v)' = Copy(n, v)
      BY DEF Busy, Copy
    <3>4. /\ <<Latest(crs[v]).vg, v>> \in lvs[n]
          /\ Busy(n, v) => Copy(n, v).uid = Latest(crs[v]).uid
      BY <1>1, <2>1, <2>4, ZenonT(30) DEF ReadyOK
    <3>5. QED
      BY <1>8, <2>4, <3>1, <3>2, <3>3, <3>4, ZenonT(30) DEF ReadyOK
  <2>5. QED
    BY <2>3, <2>4
<1>14. RemovedOK(v)'
  <2>1. SUFFICES ASSUME Len(crs[v]) > 0, Latest(crs[v]).gone,
                        Latest(crs[v]).state = "Ready", SingleOwner(v)
                 PROVE  RemovedOK(v)'
    BY <1>8, ZenonT(30) DEF RemovedOK, SingleOwner
  <2>2. Latest(crs[v]).owner \in Nodes
    BY <1>8 DEF Version
  <2>3. CASE Latest(crs[v]).owner # n
    <3>1. SameAgent(Latest(crs[v]).owner, v)
      BY <1>6, <2>2, <2>3
    <3>2. QED
      BY <1>1, <1>8, <2>1, <2>2, <3>1, ZenonT(30)
        DEF RemovedOK, SameAgent, Cached, Copy, Busy
  <2>4. CASE Latest(crs[v]).owner = n
    <3>1. Cached(n, v)'.uid = Latest(crs[v]).uid /\ Cached(n, v)'.del
      <4>1. /\ pos[n][v] >= 1
            /\ Cached(n, v).uid = Latest(crs[v]).uid
            /\ Cached(n, v).del
        BY <1>1, <2>1, <2>4, ZenonT(30) DEF RemovedOK
      <4>2. QED
        BY <1>7, <1>8, <4>1
    <3>2. /\ <<Latest(crs[v]).vg, v>> \notin lvs'[n]
          /\ Busy(n, v)' => Copy(n, v)'.del
      BY <1>1, <2>1, <2>4, ZenonT(30) DEF RemovedOK, Copy, Busy
    <3>3. pos'[n][v] >= 1
      BY <1>1, <1>2
    <3>4. QED
      BY <1>8, <2>4, <3>1, <3>2, <3>3, ZenonT(30) DEF RemovedOK
  <2>5. QED
    BY <2>3, <2>4
<1>15. \A w \in Volumes : ReadyOK(w)' /\ OwnerOK(w)' /\ RemovedOK(w)'
  BY <1>6, <1>12, <1>13, <1>14, SameOK
<1>16. QED
  BY <1>3, <1>10, <1>11, <1>15 DEF Inv

\* An event of the watch moves a cache forward by one version.
LEMMA DeliverStep ==
    ASSUME Inv, NEW n \in Nodes, NEW v \in Volumes, Deliver(n, v),
           UNCHANGED calls
    PROVE  Inv'
<1>1. /\ crs[v] \in Seq(Version)
      /\ pos \in [Nodes -> [Volumes -> Nat]]
      /\ faults \in Nat
  BY DEF Inv, TypeOK
<1> DEFINE p == pos[n][v] + 1
<1>2. p \in 1..Len(crs[v]) /\ pos[n][v] < p /\ pos' = [pos EXCEPT ![n][v] = p]
  <2>1. /\ pos[n][v] < Len(crs[v])
        /\ pos' = [pos EXCEPT ![n][v] = p]
    BY ZenonT(30) DEF Deliver
  <2>2. pos[n][v] \in Nat /\ Len(crs[v]) \in Nat
    BY <1>1
  <2>3. QED
    BY <2>1, <2>2
<1>3. \/ queue' = queue
      \/ /\ queue' = [queue EXCEPT ![n] = @ \cup {v}]
         /\ crs[v][p].owner = n
  <2>1. PICK wanted : Enqueue(n, v, wanted) /\ (wanted => crs[v][p].owner = n)
    BY ZenonT(30) DEF Deliver, addVol, updateVol, deleteVol
  <2>2. QED
    BY <2>1, ZenonT(30) DEF Enqueue
<1>4. UNCHANGED <<crs, calls, delayed, sync, lvs>> /\ faults' \in Nat
  BY <1>1 DEF Deliver
<1> HIDE DEF p
<1>5. QED
  BY <1>2, <1>3, <1>4, CacheStep, ZenonT(30)

\* A list moves a cache forward to the last version.
LEMMA RelistStep ==
    ASSUME Inv, NEW n \in Nodes, NEW v \in Volumes, Relist(n, v),
           UNCHANGED calls
    PROVE  Inv'
<1>1. /\ crs[v] \in Seq(Version)
      /\ pos \in [Nodes -> [Volumes -> Nat]]
      /\ pos[n][v] \in Nat
      /\ faults \in Nat
  BY DEF Inv, TypeOK
<1> DEFINE p == Len(crs[v])
<1>2. p \in 1..Len(crs[v]) /\ pos[n][v] < p /\ pos' = [pos EXCEPT ![n][v] = p]
  BY <1>1 DEF Relist
<1>3. \/ queue' = queue
      \/ /\ queue' = [queue EXCEPT ![n] = @ \cup {v}]
         /\ crs[v][p].owner = n
  BY ZenonT(30) DEF Relist, Enqueue, addVol, updateVol, Latest
<1>4. UNCHANGED <<crs, calls, delayed, sync, lvs>> /\ faults' \in Nat
  BY <1>1 DEF Relist, Fault
<1> HIDE DEF p
<1>5. QED
  BY <1>2, <1>3, <1>4, CacheStep, ZenonT(30)

-----------------------------------------------------------------------------
\* One volume group per volume.

\* What agent n keeps for v, its logical volumes aside, does not change.
SameTokens(n, v) ==
    /\ pos'[n][v] = pos[n][v]
    /\ sync'[n][v] = sync[n][v]
    /\ v \in queue'[n] <=> v \in queue[n]
    /\ v \in delayed'[n] <=> v \in delayed[n]

\* The versions of a history with m versions.
LEMMA Indices ==
    ASSUME NEW m \in Nat
    PROVE  /\ m >= 1 => m \in 1..m /\ m # 0
           /\ \A k \in Nat : k >= 1 /\ k <= m => k \in 1..m
           /\ \A k \in 1..m : k \in Nat /\ k >= 1 /\ k <= m /\ k # 0
           /\ \A k \in Nat, j \in 1..m : k < j => k <= m /\ k <= j
           /\ \A k \in Nat : (k = 0 \/ k >= 1) /\ (k >= 1 => k # 0) /\ (k >= 1 <=> k > 0)
  OBVIOUS

\* The successor of a version number, and histories that grew.
LEMMA Successors ==
    ASSUME NEW m \in Nat
    PROVE  /\ m + 1 # 0 /\ 0 + 1 = 1
           /\ m > 0 \/ m = 0
           /\ \A k \in Nat : k >= m /\ m # 0 => k # 0
           /\ \A k \in Nat : k < m => k + 1 \in 1..m /\ k < k + 1
           /\ \A k \in Nat, j \in 1..m : k < j => k # m
  OBVIOUS

\* A step that leaves alone the resource of v and what its owner keeps for it,
\* and creates no logical volume of v, preserves StrayOK(v).
LEMMA StrayStable ==
    ASSUME NEW v \in Volumes, StrayOK(v), crs'[v] = crs[v],
           \A m \in Nodes, vg \in VGs : <<vg, v>> \in lvs'[m] => <<vg, v>> \in lvs[m],
           FirstLife(v) => SameTokens(Latest(crs[v]).owner, v)
    PROVE  StrayOK(v)'
<1>1. /\ Latest(crs[v])' = Latest(crs[v])
      /\ Exists(crs[v])' = Exists(crs[v])
      /\ FirstLife(v)' = FirstLife(v)
  BY ZenonT(30) DEF Latest, Exists, FirstLife
<1>2. InPlace(v) => InPlace(v)'
  BY <1>1, ZenonT(30) DEF InPlace
<1>3. ASSUME FirstLife(v)
      PROVE  (ProvisionOK(v) => ProvisionOK(v)') /\ (ProvisionedOK(v) => ProvisionedOK(v)')
  <2>1. PICK n : n = Latest(crs[v]).owner
    BY ZenonT(30)
  <2>2. /\ pos'[n][v] = pos[n][v] /\ sync'[n][v] = sync[n][v]
        /\ Waits(n, v)' <=> Waits(n, v)
        /\ Busy(n, v)' <=> Busy(n, v)
        /\ Cached(n, v)' = Cached(n, v) /\ Copy(n, v)' = Copy(n, v)
        /\ v \in queue'[n] /\ v \in delayed'[n] => v \in queue[n] /\ v \in delayed[n]
    <3>1. SameTokens(n, v)
      BY <1>3, <2>1, ZenonT(30)
    <3>2. QED
      BY <3>1, ZenonT(30) DEF SameTokens, Waits, Busy, Cached, Copy
  <2>3. Latest(crs[v])'.owner = n
    BY <1>1, <2>1, ZenonT(30)
  <2>4. ProvisionOK(v) => ProvisionOK(v)'
    BY <1>2, <2>1, <2>2, <2>3, ZenonT(30) DEF ProvisionOK
  <2>5. ProvisionedOK(v) => ProvisionedOK(v)'
    BY <1>2, <2>1, <2>2, <2>3, ZenonT(30) DEF ProvisionedOK
  <2>6. QED
    BY <2>4, <2>5, ZenonT(30)
<1>4. QED
  BY <1>1, <1>3, ZenonT(30) DEF StrayOK

\* In its first life a volume has one owner, whose agent is the only one with
\* work for it, and no version of it is a removed one.
LEMMA FirstLifeFacts ==
    ASSUME Inv, NEW v \in Volumes, FirstLife(v)
    PROVE  /\ Len(crs[v]) \in Nat /\ Len(crs[v]) >= 1
           /\ Latest(crs[v]) \in Version
           /\ WellFormed(Latest(crs[v])) /\ ~ Latest(crs[v]).gone
           /\ Latest(crs[v]).owner \in Nodes
           /\ \A i \in 1..Len(crs[v]) :
                 /\ crs[v][i].owner = Latest(crs[v]).owner
                 /\ ~ crs[v][i].gone
           /\ \A i, j \in 1..Len(crs[v]) : i <= j =>
                 /\ crs[v][i].del => crs[v][j].del
                 /\ crs[v][i].del \/ crs[v][i].state = "Ready" =>
                       crs[v][j].state = crs[v][i].state
           /\ \A m \in Nodes :
                 Waits(m, v) \/ Busy(m, v) => m = Latest(crs[v]).owner
<1>1. crs[v] \in Seq(Version) /\ HistoryOK(crs[v])
  BY ZenonT(30) DEF Inv, TypeOK
<1>2. Len(crs[v]) \in Nat /\ Len(crs[v]) >= 1 /\ Len(crs[v]) \in 1..Len(crs[v])
  BY <1>1 DEF FirstLife, Exists
<1>3. /\ Latest(crs[v]) \in Version /\ Latest(crs[v]) = crs[v][Len(crs[v])]
      /\ WellFormed(Latest(crs[v]))
      /\ ~ Latest(crs[v]).gone /\ Latest(crs[v]).uid = 1
  BY <1>1, <1>2, LatestIsNewest, ZenonT(30) DEF FirstLife, Exists
<1>4. Latest(crs[v]).owner \in Nodes
  BY <1>3, ZenonT(30) DEF Version
<1>5. \A i \in 1..Len(crs[v]) : crs[v][i].uid = 1
  <2>1. ASSUME NEW i \in 1..Len(crs[v])
        PROVE  crs[v][i].uid = 1
    <3>1. crs[v][i] \in Version /\ crs[v][i].uid <= Latest(crs[v]).uid
      BY <1>1, LatestIsNewest, ZenonT(30)
    <3>2. crs[v][i].uid \in Nat \ {0}
      BY <3>1, ZenonT(30) DEF Version
    <3>3. QED
      BY <1>3, <3>1, <3>2
  <2>2. QED
    BY <2>1, ZenonT(30)
<1>6. ASSUME NEW i \in 1..Len(crs[v]), NEW j \in 1..Len(crs[v]), i <= j
      PROVE  /\ i # j => ~ crs[v][i].gone
             /\ crs[v][i].owner = crs[v][j].owner
             /\ crs[v][i].del => crs[v][j].del
             /\ crs[v][i].del \/ crs[v][i].state = "Ready" =>
                   crs[v][j].state = crs[v][i].state
  <2>1. i = j \/ Follows(crs[v][i], crs[v][j])
    BY <1>1, <1>6 DEF HistoryOK
  <2>2. QED
    BY <1>5, <2>1, ZenonT(30) DEF Follows
<1>7. \A i \in 1..Len(crs[v]) : crs[v][i].owner = Latest(crs[v]).owner /\ ~ crs[v][i].gone
  BY <1>2, <1>3, <1>6
<1>8. \A m \in Nodes : Waits(m, v) \/ Busy(m, v) => m = Latest(crs[v]).owner
  <2>1. \A m \in Nodes : ConcernOK(m, v)
    BY ZenonT(30) DEF Inv
  <2>2. QED
    BY <1>7, <2>1, ZenonT(30) DEF ConcernOK, Waits
<1>9. QED
  BY <1>2, <1>3, <1>4, <1>6, <1>7, <1>8, ZenonT(30)

\* What an agent keeps for a volume in its first life.
LEMMA FirstLifeAgent ==
    ASSUME Inv, NEW n \in Nodes, NEW v \in Volumes, FirstLife(v)
    PROVE  /\ pos[n][v] \in Nat /\ pos[n][v] <= Len(crs[v])
           /\ Len(crs[v]) \in Nat /\ Len(crs[v]) \in 1..Len(crs[v])
           /\ queue \in [Nodes -> SUBSET Volumes]
           /\ delayed \in [Nodes -> SUBSET Volumes]
           /\ sync \in [Nodes -> [Volumes -> Sync]]
           /\ WorkerOK(n, v)
<1>1. Len(crs[v]) \in Nat /\ Len(crs[v]) >= 1
  BY FirstLifeFacts, ZenonT(30)
<1>2. Len(crs[v]) \in 1..Len(crs[v])
  BY <1>1, Indices, ZenonT(30)
<1>3. QED
  BY <1>1, <1>2, ZenonT(30) DEF Inv, TypeOK

\* Nobody has anything to do for a name that was never used.
LEMMA UnusedName ==
    ASSUME Inv, NEW v \in Volumes, Len(crs[v]) = 0, NEW m \in Nodes
    PROVE  pos[m][v] = 0 /\ ~ Waits(m, v) /\ ~ Busy(m, v)
<1>1. pos[m][v] \in Nat /\ pos[m][v] <= 0 /\ ConcernOK(m, v)
  BY ZenonT(30) DEF Inv, TypeOK
<1>2. ~ \E i \in 1..Len(crs[v]) : crs[v][i].owner = m
  OBVIOUS
<1>3. QED
  BY <1>1, <1>2 DEF ConcernOK, Waits

\* A volume is in its first life only if it was before, or is new.
LEMMA FirstLifeBefore ==
    ASSUME NEW h \in Seq(Version), NEW g \in Seq(Version), HistoryOK(g),
           g = h \/ \E new : g = Append(h, new),
           Len(h) > 0, Exists(g), Latest(g).uid = 1
    PROVE  Exists(h) /\ Latest(h).uid = 1
<1>1. SUFFICES ASSUME NEW new, g = Append(h, new)
               PROVE  Exists(h) /\ Latest(h).uid = 1
  BY ZenonT(30)
<1>2. /\ Len(g) = Len(h) + 1 /\ Len(h) \in 1..Len(g) /\ Len(g) \in 1..Len(g)
      /\ g[Len(h)] = h[Len(h)] /\ Len(h) < Len(g)
  BY <1>1
<1>3. Follows(h[Len(h)], g[Len(g)]) /\ h[Len(h)] \in Version
  BY <1>2 DEF HistoryOK
<1>4. h[Len(h)].uid = 1
  BY <1>3 DEF Follows, Version, Latest
<1>5. QED
  BY <1>3, <1>4, ZenonT(30) DEF Follows, Exists, Latest

\* A volume that a Get finds has a last version.
LEMMA LatestVersion ==
    ASSUME NEW h \in Seq(Version)
    PROVE  Len(h) \in Nat /\ (Exists(h) => Latest(h) \in Version)
  BY DEF Exists, Latest

\* A write that appends a version makes it the last one.
LEMMA AppendLatest ==
    ASSUME NEW h \in Seq(Version), NEW new, NEW g, g = Append(h, new)
    PROVE  Latest(g) = new /\ Len(g) = Len(h) + 1 /\ Len(g) > 0
  BY DEF Latest

\* A Create leaves a Pending volume with the owner of the request.
LEMMA CreatedLatest ==
    ASSUME NEW h \in Seq(Version), NEW o \in Nodes, NEW cap \in Capacities,
           NEW g, g = Created(h, o, cap)
    PROVE  /\ Latest(g).owner = o /\ Latest(g).state = "Pending"
           /\ Len(g) = Len(h) + 1
<1>1. PICK new : new = NewVolume(NextUid(h), o, cap)
  OBVIOUS
<1>2. new.owner = o /\ new.state = "Pending"
  BY <1>1 DEF NewVolume
<1>3. g = Append(h, new)
  BY <1>1, ZenonT(30) DEF Created
<1>4. QED
  BY <1>2, <1>3, AppendLatest, ZenonT(30)

\* Create, Delete and the garbage collector preserve it: a new name has no
\* logical volume and no worker, a marked volume is no longer to be provisioned.
LEMMA StrayResource ==
    ASSUME Inv, Inv', NEW v \in Volumes, StrayOK(v), UNCHANGED agentVars,
           \/ /\ ~ Exists(crs[v])
              /\ \E owner \in Nodes, cap \in Capacities :
                    crs'[v] = Created(crs[v], owner, cap)
           \/ Exists(crs[v]) /\ crs'[v] = Deleted(crs[v])
           \/ /\ Exists(crs[v])
              /\ crs'[v] = Append(crs[v], [Latest(crs[v]) EXCEPT !.gone = TRUE])
    PROVE  StrayOK(v)'
<1>1. /\ crs[v] \in Seq(Version) /\ HistoryOK(crs[v]) /\ Len(crs[v]) \in Nat
      /\ crs'[v] \in Seq(Version) /\ HistoryOK(crs'[v]) /\ Len(crs'[v]) \in Nat
      /\ UNCHANGED <<pos, queue, delayed, sync, lvs>>
  <2>1. /\ crs[v] \in Seq(Version) /\ HistoryOK(crs[v])
        /\ crs'[v] \in Seq(Version) /\ HistoryOK(crs'[v])
        /\ UNCHANGED <<pos, queue, delayed, sync, lvs>>
    BY ZenonT(30) DEF Inv, TypeOK, agentVars
  <2>2. QED
    BY <2>1, LatestVersion, ZenonT(30)
<1>2. crs'[v] = crs[v] \/ \E new : crs'[v] = Append(crs[v], new)
  BY ZenonT(30) DEF Created, Deleted
<1>3. Len(crs[v]) > 0 /\ FirstLife(v)' => FirstLife(v)
  BY <1>1, <1>2, FirstLifeBefore, ZenonT(30) DEF FirstLife, Exists, Latest
<1>4. CASE /\ ~ Exists(crs[v])
           /\ \E owner \in Nodes, cap \in Capacities :
                 crs'[v] = Created(crs[v], owner, cap)
  <2>1. PICK o \in Nodes, cap \in Capacities : crs'[v] = Created(crs[v], o, cap)
    BY <1>4, ZenonT(30)
  <2>2. /\ Len(crs'[v]) = Len(crs[v]) + 1 /\ Len(crs'[v]) # 0
        /\ Latest(crs[v])'.owner = o /\ Latest(crs[v])'.state = "Pending"
    <3>1. /\ Len(crs'[v]) = Len(crs[v]) + 1
          /\ Latest(crs'[v]).owner = o /\ Latest(crs'[v]).state = "Pending"
      <4>1. crs[v] \in Seq(Version)
        BY <1>1, ZenonT(30)
      <4>2. ASSUME NEW g, g = Created(crs[v], o, cap)
            PROVE  /\ Len(g) = Len(crs[v]) + 1
                   /\ Latest(g).owner = o /\ Latest(g).state = "Pending"
        BY <4>1, <4>2, CreatedLatest
      <4>3. QED
        BY <2>1, <4>2, ZenonT(30)
    <3>2. QED
      BY <1>1, <3>1, Successors, ZenonT(30) DEF Latest
  <2>3. CASE Len(crs[v]) > 0
    BY <1>3, <1>4, <2>2, <2>3, ZenonT(30) DEF StrayOK, FirstLife
  <2>4. CASE Len(crs[v]) = 0
    <3>1. 0 + 1 = 1
      BY Successors, 0 \in Nat, ZenonT(30)
    <3>2. Len(crs'[v]) = 1
      BY <2>2, <2>4, <3>1, ZenonT(30)
    <3>3. /\ \A m \in Nodes, vg \in VGs : <<vg, v>> \notin lvs'[m]
          /\ InPlace(v)'
      BY <1>1, <2>4, ZenonT(30) DEF StrayOK, InPlace
    <3>4. ~ Waits(o, v) /\ ~ Busy(o, v)
      BY <2>4, UnusedName, ZenonT(30)
    <3>5. ~ Waits(o, v)' /\ ~ Busy(o, v)' /\ sync'[o][v].pc = "idle"
      BY <1>1, <3>4, ZenonT(30) DEF Waits, Busy
    <3>6. ProvisionOK(v)'
      BY <2>2, <3>2, <3>3, <3>5, ZenonT(30) DEF ProvisionOK
    <3>7. QED
      BY <2>2, <3>6, ZenonT(30) DEF StrayOK
  <2>5. QED
    BY <1>1, <2>3, <2>4, Successors, ZenonT(30)
<1>5. CASE Exists(crs[v]) /\ crs'[v] = Deleted(crs[v])
  <2>1. Len(crs[v]) > 0
    BY <1>5, ZenonT(30) DEF Exists
  <2>2. /\ Latest(crs[v])'.del
        /\ Latest(crs[v])'.state = Latest(crs[v]).state
        /\ Latest(crs[v])'.owner = Latest(crs[v]).owner
        /\ Grows(crs[v], crs'[v])
    BY <1>1, <1>5, DeletedGrows, ZenonT(30) DEF Latest
  <2>3. /\ Len(crs'[v]) # 0
        /\ \A i \in 1..Len(crs[v]) : crs'[v][i] = crs[v][i]
    <3>1. /\ crs'[v] \in Seq(Version) /\ Len(crs'[v]) >= Len(crs[v])
          /\ \A i \in 1..Len(crs[v]) : crs'[v][i] = crs[v][i]
      BY <1>1, <2>2, GrowsOK, ZenonT(30)
    <3>2. Len(crs'[v]) \in Nat /\ Len(crs[v]) # 0
      BY <1>1, <2>1, Indices, ZenonT(30)
    <3>3. QED
      BY <1>1, <3>1, <3>2, Successors, ZenonT(30)
  <2>4. Latest(crs[v])'.vg = Latest(crs[v]).vg
    <3>1. Latest(crs[v]) \in Version
      BY <1>1, <2>1 DEF Latest
    <3>2. \A vol \in Version : [vol EXCEPT !.del = TRUE].vg = vol.vg
      BY ZenonT(30) DEF Version
    <3>3. Latest(crs[v])' \in {Latest(crs[v]), [Latest(crs[v]) EXCEPT !.del = TRUE]}
      BY <1>1, <1>5, <2>1 DEF Deleted, Latest
    <3>4. QED
      BY <3>1, <3>2, <3>3, ZenonT(30)
  <2>5. SUFFICES ASSUME FirstLife(v), Latest(crs[v]).state = "Ready"
                 PROVE  ProvisionedOK(v)'
    BY <1>3, <2>1, <2>2, <2>3, ZenonT(30) DEF StrayOK
  <2>6. PICK n \in Nodes : n = Latest(crs[v]).owner
    BY <2>5, FirstLifeFacts, ZenonT(30)
  <2>7. /\ InPlace(v)
        /\ pos[n][v] \in 1..Len(crs[v])
        /\ Waits(n, v) => Cached(n, v).state = "Ready"
        /\ Busy(n, v) => Copy(n, v).state = "Ready"
        /\ Busy(n, v) => sync[n][v].rv \in 1..Len(crs[v])
    <3>1. ProvisionedOK(v) /\ WorkerOK(n, v)
      BY <2>5, ZenonT(30) DEF StrayOK, Inv
    <3>2. pos[n][v] >= 1 /\ pos[n][v] \in Nat /\ pos[n][v] <= Len(crs[v])
      BY <2>5, <2>6, <3>1, FirstLifeAgent, ZenonT(30) DEF ProvisionedOK
    <3>3. pos[n][v] \in 1..Len(crs[v])
      BY <1>1, <3>2
    <3>4. QED
      BY <2>6, <3>1, <3>3, ZenonT(30) DEF ProvisionedOK, WorkerOK
  <2>8. InPlace(v)'
    BY <1>1, <2>2, <2>4, <2>7, ZenonT(30) DEF InPlace
  <2>9. /\ pos'[n][v] >= 1
        /\ Waits(n, v)' => Cached(n, v)'.state = "Ready"
        /\ Busy(n, v)' => Copy(n, v)'.state = "Ready"
    <3>1. (Waits(n, v)' <=> Waits(n, v)) /\ (Busy(n, v)' <=> Busy(n, v))
      BY <1>1, ZenonT(30) DEF Waits, Busy
    <3>2. pos'[n][v] >= 1
      BY <1>1, <2>7, Indices, ZenonT(30)
    <3>3. QED
      BY <1>1, <2>3, <2>7, <3>1, <3>2, ZenonT(30) DEF Cached, Copy
  <2>10. QED
    BY <2>2, <2>6, <2>8, <2>9, ZenonT(30) DEF ProvisionedOK
<1>6. CASE /\ Exists(crs[v])
           /\ crs'[v] = Append(crs[v], [Latest(crs[v]) EXCEPT !.gone = TRUE])
  <2>1. Len(crs'[v]) > 0 /\ Latest(crs[v])' = [Latest(crs[v]) EXCEPT !.gone = TRUE]
    <3>1. /\ Len(crs'[v]) > 0
          /\ Latest(crs'[v]) = [Latest(crs[v]) EXCEPT !.gone = TRUE]
      BY <1>1, <1>6, AppendLatest, ZenonT(30)
    <3>2. QED
      BY <3>1, ZenonT(30) DEF Latest
  <2>2. Latest(crs[v])'.gone
    <3>1. Latest(crs[v]) \in Version
      BY <1>1, <1>6, LatestVersion, ZenonT(30)
    <3>2. QED
      BY <2>1, <3>1, ZenonT(30) DEF Version
  <2>3. QED
    BY <2>1, <2>2 DEF StrayOK, FirstLife, Exists, Latest
<1>7. QED
  BY <1>4, <1>5, <1>6, ZenonT(30)

\* A cache that moves on to version p: a volume is enqueued only for its first
\* version or a marked one.
LEMMA StrayCache ==
    ASSUME Inv, NEW n \in Nodes, NEW v \in Volumes, StrayOK(v),
           FirstLife(v), n = Latest(crs[v]).owner,
           NEW p \in 1..Len(crs[v]), pos[n][v] < p, pos'[n][v] = p,
           \/ queue' = queue
           \/ /\ queue' = [queue EXCEPT ![n] = @ \cup {v}]
              /\ InCache(n, v) /\ ~ crs[v][p].gone => crs[v][p].del,
           UNCHANGED <<crs, delayed, sync, lvs>>
    PROVE  StrayOK(v)'
<1>1. /\ pos[n][v] \in Nat /\ Len(crs[v]) \in Nat
      /\ queue \in [Nodes -> SUBSET Volumes]
      /\ WorkerOK(n, v)
  BY FirstLifeAgent, ZenonT(30)
<1>2. /\ \A i \in 1..Len(crs[v]) : ~ crs[v][i].gone
      /\ \A i, j \in 1..Len(crs[v]) : i <= j =>
            /\ crs[v][i].del => crs[v][j].del
            /\ crs[v][i].del \/ crs[v][i].state = "Ready" =>
                  crs[v][j].state = crs[v][i].state
      /\ Len(crs[v]) \in 1..Len(crs[v])
  BY <1>1, FirstLifeFacts, Indices, ZenonT(30)
<1>3. pos[n][v] >= 1 => InCache(n, v)
  <2>1. pos[n][v] >= 1 => pos[n][v] \in 1..Len(crs[v])
    BY <1>1, Indices, ZenonT(30)
  <2>2. QED
    BY <1>1, <1>2, <2>1, Indices, ZenonT(30) DEF InCache, Cached
<1>4. /\ Latest(crs[v])' = Latest(crs[v]) /\ FirstLife(v)' = FirstLife(v)
      /\ Copy(n, v)' = Copy(n, v) /\ (Busy(n, v)' <=> Busy(n, v))
      /\ Cached(n, v)' = crs[v][p]
      /\ Len(crs'[v]) = Len(crs[v])
  BY ZenonT(30) DEF Latest, Exists, FirstLife, Copy, Busy, Cached
<1>5. v \in queue'[n] => \/ v \in queue[n]
                         \/ pos[n][v] = 0
                         \/ crs[v][p].del
  BY <1>1, <1>2, <1>3, Indices, ZenonT(30)
<1>6. CASE Latest(crs[v]).state = "Pending" /\ ~ Latest(crs[v]).del
  <2>1. ~ crs[v][p].del
    BY <1>1, <1>2, <1>6, Indices, ZenonT(30) DEF Latest
  <2>2. /\ InPlace(v)
        /\ pos[n][v] = 0 => Len(crs[v]) = 1 /\ ~ Busy(n, v)
        /\ ~ Waits(n, v)
        /\ Busy(n, v) => sync[n][v].rv = Len(crs[v])
        /\ sync[n][v].pc \notin {"retryVG", "listVGs"}
        /\ sync[n][v].pc \in {"setVG", "create", "failed"} =>
              \A m \in Nodes, vg \in VGs : <<vg, v>> \notin lvs[m]
    <3>1. ProvisionOK(v) /\ pos[n][v] # Len(crs[v])
      BY <1>1, <1>6, Successors, ZenonT(30) DEF StrayOK
    <3>2. QED
      BY <3>1, ZenonT(30) DEF ProvisionOK
  <2>3. InPlace(v)'
    BY <1>4, <2>2, ZenonT(30) DEF InPlace
  <2>4. Waits(n, v)' => pos[n][v] = 0 /\ v \notin delayed[n]
    BY <1>5, <2>1, <2>2, ZenonT(30) DEF Waits
  <2>5. pos[n][v] = 0 => p = Len(crs[v])
    <3>1. \A k \in 1..1 : k = 1
      OBVIOUS
    <3>2. pos[n][v] = 0 => Len(crs[v]) = 1
      BY <2>2, ZenonT(30)
    <3>3. QED
      BY <3>1, <3>2, ZenonT(30)
  <2>6. pos'[n][v] # 0
    OBVIOUS
  <2>7. ProvisionOK(v)'
    BY <1>4, <2>2, <2>3, <2>4, <2>5, <2>6, ZenonT(30) DEF ProvisionOK
  <2>8. QED
    BY <1>1, <1>2, <1>4, <1>6, <2>7, ZenonT(30) DEF StrayOK
<1>7. CASE Latest(crs[v]).state = "Ready"
  <2>1. ProvisionedOK(v)
    BY <1>7, ZenonT(30) DEF StrayOK
  <2>2. /\ InPlace(v)'
        /\ Busy(n, v)' => Copy(n, v)'.state = "Ready"
    BY <1>4, <2>1, ZenonT(30) DEF ProvisionedOK, InPlace
  <2>3. pos[n][v] >= 1 /\ (Waits(n, v) => crs[v][pos[n][v]].state = "Ready")
    BY <2>1, ZenonT(30) DEF ProvisionedOK, Cached
  <2>4. crs[v][p].del => crs[v][p].state = "Ready"
    BY <1>1, <1>2, <1>7, Indices, ZenonT(30) DEF Latest
  <2>5. Waits(n, v) => crs[v][p].state = "Ready"
    <3>1. pos[n][v] \in 1..Len(crs[v]) /\ pos[n][v] <= p
      BY <1>1, <2>3, Indices, ZenonT(30)
    <3>2. QED
      BY <1>2, <2>3, <3>1, ZenonT(30)
  <2>6. Waits(n, v)' => crs[v][p].state = "Ready"
    BY <1>1, <1>5, <2>3, <2>4, <2>5, Indices, ZenonT(30) DEF Waits
  <2>7. ProvisionedOK(v)'
    BY <1>1, <1>4, <2>2, <2>6, Indices, ZenonT(30) DEF ProvisionedOK
  <2>8. QED
    BY <1>1, <1>2, <1>4, <1>7, <2>7, ZenonT(30) DEF StrayOK
<1>8. QED
  BY <1>1, <1>2, <1>4, <1>6, <1>7, ZenonT(30) DEF StrayOK

\* A key of the owner moves from the delay to the queue, or is added to the
\* queue by the resync of a marked version.
LEMMA StrayQueue ==
    ASSUME Inv, NEW n \in Nodes, NEW v \in Volumes, StrayOK(v),
           FirstLife(v), n = Latest(crs[v]).owner,
           Resync(n, v) \/ AddAfterDelay(n, v)
    PROVE  StrayOK(v)'
<1>1. /\ pos[n][v] \in Nat /\ pos[n][v] <= Len(crs[v]) /\ Len(crs[v]) \in Nat
      /\ queue \in [Nodes -> SUBSET Volumes]
      /\ delayed \in [Nodes -> SUBSET Volumes]
      /\ Len(crs[v]) \in 1..Len(crs[v])
  BY FirstLifeAgent, ZenonT(30)
<1>2. UNCHANGED <<crs, pos, sync, lvs>>
  BY ZenonT(30) DEF Resync, AddAfterDelay
<1>3. /\ Latest(crs[v])' = Latest(crs[v]) /\ FirstLife(v)' = FirstLife(v)
      /\ Copy(n, v)' = Copy(n, v) /\ (Busy(n, v)' <=> Busy(n, v))
      /\ Cached(n, v)' = Cached(n, v)
      /\ Len(crs'[v]) = Len(crs[v]) /\ Len(crs'[v]) # 0
      /\ InPlace(v) => InPlace(v)'
  BY <1>1, <1>2, Indices, ZenonT(30)
     DEF Latest, Exists, FirstLife, Copy, Busy, Cached, InPlace
<1>4. CASE AddAfterDelay(n, v)
  <2>1. v \in delayed[n] /\ v \notin delayed'[n]
    BY <1>1, <1>4, ZenonT(30) DEF AddAfterDelay
  <2>2. Waits(n, v)
    BY <2>1, ZenonT(30) DEF Waits
  <2>3. ProvisionOK(v) => ProvisionOK(v)'
    BY <1>2, <1>3, <2>1, <2>2, ZenonT(30) DEF ProvisionOK
  <2>4. ProvisionedOK(v) => ProvisionedOK(v)'
    BY <1>2, <1>3, <2>2, ZenonT(30) DEF ProvisionedOK
  <2>5. QED
    BY <1>3, <2>3, <2>4, ZenonT(30) DEF StrayOK
<1>5. CASE Resync(n, v)
  <2>1. pos[n][v] \in 1..Len(crs[v]) /\ crs[v][pos[n][v]].del
    <3>1. pos[n][v] > 0 /\ crs[v][pos[n][v]].del
      BY <1>5, ZenonT(30) DEF Resync, InCache, updateVol, Cached
    <3>2. QED
      BY <1>1, <3>1, Indices, ZenonT(30)
  <2>2. Latest(crs[v]).del /\ Cached(n, v).state = Latest(crs[v]).state
    <3>1. \A i, j \in 1..Len(crs[v]) : i <= j =>
             /\ crs[v][i].del => crs[v][j].del
             /\ crs[v][i].del => crs[v][j].state = crs[v][i].state
      BY FirstLifeFacts, ZenonT(30)
    <3>2. QED
      BY <1>1, <2>1, <3>1, ZenonT(30) DEF Latest, Cached
  <2>3. ProvisionedOK(v) /\ Latest(crs[v]).state = "Ready" => ProvisionedOK(v)'
    BY <1>2, <1>3, <2>2, ZenonT(30) DEF ProvisionedOK
  <2>4. QED
    BY <1>3, <2>2, <2>3, ZenonT(30) DEF StrayOK
<1>6. QED
  BY <1>4, <1>5, ZenonT(30)

\* A worker of the owner that starts takes the last version of a volume that
\* is to be provisioned, and goes to choose a volume group only when none is
\* set.
LEMMA StrayStart ==
    ASSUME Inv, NEW n \in Nodes, NEW v \in Volumes, StrayOK(v),
           FirstLife(v), n = Latest(crs[v]).owner, StartSync(n, v)
    PROVE  StrayOK(v)'
<1>1. /\ pos[n][v] \in Nat /\ pos[n][v] <= Len(crs[v]) /\ Len(crs[v]) \in Nat
      /\ queue \in [Nodes -> SUBSET Volumes]
      /\ sync \in [Nodes -> [Volumes -> Sync]]
      /\ Len(crs[v]) \in 1..Len(crs[v])
  BY FirstLifeAgent, ZenonT(30)
<1>2. /\ UNCHANGED <<crs, pos, delayed, lvs>>
      /\ v \in queue[n] /\ v \notin queue'[n]
      /\ ~ Busy(n, v)
  BY <1>1, ZenonT(30) DEF StartSync, Busy
<1>3. /\ Latest(crs[v])' = Latest(crs[v]) /\ FirstLife(v)' = FirstLife(v)
      /\ Cached(n, v)' = Cached(n, v)
      /\ Len(crs'[v]) = Len(crs[v]) /\ Len(crs'[v]) # 0
      /\ InPlace(v) => InPlace(v)'
      /\ Waits(n, v)
  BY <1>1, <1>2, Indices, ZenonT(30)
     DEF Latest, Exists, FirstLife, Cached, InPlace, Waits
<1>4. \/ ~ Busy(n, v)' /\ ~ (InCache(n, v) /\ FirstStep(Cached(n, v)) # "idle")
      \/ /\ sync'[n][v].pc = FirstStep(Cached(n, v))
         /\ sync'[n][v].rv = pos[n][v]
  BY <1>1, <1>2, ZenonT(30) DEF StartSync, Busy
<1>5. CASE Latest(crs[v]).state = "Pending" /\ ~ Latest(crs[v]).del
  <2>1. /\ InPlace(v) /\ pos[n][v] = Len(crs[v]) /\ v \notin delayed[n]
    BY <1>2, <1>3, <1>5, ZenonT(30) DEF StrayOK, ProvisionOK
  <2>2. ~ Waits(n, v)'
    BY <1>2, <2>1, ZenonT(30) DEF Waits
  <2>3. Cached(n, v) = Latest(crs[v]) /\ InCache(n, v)
    <3>1. pos[n][v] > 0
      BY <1>1, <2>1, Indices, ZenonT(30)
    <3>2. ~ Latest(crs[v]).gone
      BY FirstLifeFacts, ZenonT(30)
    <3>3. QED
      BY <2>1, <3>1, <3>2, ZenonT(30) DEF Cached, Latest, InCache
  <2>4. FirstStep(Cached(n, v)) = IF Latest(crs[v]).vg # NoVG THEN "retryVG" ELSE "listVGs"
    BY <1>5, <2>3, ZenonT(30) DEF FirstStep
  <2>5. /\ sync'[n][v].pc = IF Latest(crs[v]).vg # NoVG THEN "retryVG" ELSE "listVGs"
        /\ sync'[n][v].rv = Len(crs'[v])
    BY <1>3, <1>4, <2>1, <2>3, <2>4, ZenonT(30)
  <2>6. sync'[n][v].pc = "listVGs" =>
          \A m \in Nodes, vg \in VGs : <<vg, v>> \notin lvs'[m]
    BY <1>2, <2>1, <2>5, CRAssumption, ZenonT(30) DEF InPlace
  <2>7. sync'[n][v].pc \notin {"setVG", "create", "failed"} /\ pos'[n][v] # 0
    BY <1>1, <1>2, <2>1, <2>5, Indices, ZenonT(30)
  <2>8. ProvisionOK(v)'
    BY <1>2, <1>3, <2>1, <2>2, <2>5, <2>6, <2>7, ZenonT(30) DEF ProvisionOK
  <2>9. QED
    BY <1>3, <1>5, <2>8, ZenonT(30) DEF StrayOK
<1>6. CASE Latest(crs[v]).state = "Ready"
  <2>1. ProvisionedOK(v)
    BY <1>6, ZenonT(30) DEF StrayOK
  <2>2. Cached(n, v).state = "Ready"
    BY <1>3, <2>1, ZenonT(30) DEF ProvisionedOK
  <2>3. Busy(n, v)' => Copy(n, v)'.state = "Ready"
    BY <1>2, <1>4, <2>2, ZenonT(30) DEF Copy, Cached
  <2>4. ProvisionedOK(v)'
    BY <1>2, <1>3, <2>1, <2>2, <2>3, ZenonT(30) DEF ProvisionedOK
  <2>5. QED
    BY <1>3, <1>6, <2>4, ZenonT(30) DEF StrayOK
<1>7. QED
  BY <1>3, <1>5, <1>6, ZenonT(30) DEF StrayOK

\* What a busy worker of the owner works on, in the first life: the last
\* version while the volume is to be provisioned, a marked Ready version once
\* it is Ready, which the cache does not precede.
LEMMA StrayWorker ==
    ASSUME Inv, NEW n \in Nodes, NEW v \in Volumes, StrayOK(v),
           FirstLife(v), n = Latest(crs[v]).owner, Busy(n, v)
    PROVE  /\ Latest(crs[v]).state = "Pending" /\ ~ Latest(crs[v]).del =>
                 /\ sync[n][v].rv = Len(crs[v])
                 /\ Copy(n, v) = Latest(crs[v])
                 /\ sync[n][v].pc \notin {"destroy", "unfinalize"}
                 /\ pos[n][v] # 0
                 /\ ~ Waits(n, v)
           /\ Latest(crs[v]).state = "Ready" =>
                 /\ sync[n][v].pc \in {"destroy", "unfinalize"}
                 /\ Cached(n, v).state = "Ready"
<1>1. /\ WorkerOK(n, v) /\ sync[n][v] \in Sync
      /\ pos[n][v] \in Nat /\ pos[n][v] <= Len(crs[v]) /\ Len(crs[v]) \in Nat
  BY FirstLifeFacts, ZenonT(30) DEF Inv, TypeOK
<1>2. /\ sync[n][v].rv \in 1..Len(crs[v])
      /\ pos[n][v] >= 1
      /\ IF sync[n][v].pc \in {"destroy", "unfinalize"}
         THEN Copy(n, v).del /\ sync[n][v].rv <= pos[n][v]
         ELSE Copy(n, v).state = "Pending" /\ ~ Copy(n, v).del
  BY <1>1, ZenonT(30) DEF WorkerOK
<1>3. ASSUME Latest(crs[v]).state = "Pending", ~ Latest(crs[v]).del
      PROVE  /\ sync[n][v].rv = Len(crs[v])
             /\ Copy(n, v) = Latest(crs[v])
             /\ sync[n][v].pc \notin {"destroy", "unfinalize"}
             /\ pos[n][v] # 0
             /\ ~ Waits(n, v)
  <2>1. sync[n][v].rv = Len(crs[v]) /\ ~ Waits(n, v)
    BY <1>3, ZenonT(30) DEF StrayOK, ProvisionOK
  <2>2. Copy(n, v) = Latest(crs[v])
    BY <2>1, ZenonT(30) DEF Copy, Latest
  <2>3. QED
    BY <1>1, <1>2, <1>3, <2>1, <2>2, Indices, ZenonT(30)
<1>4. ASSUME Latest(crs[v]).state = "Ready"
      PROVE  /\ sync[n][v].pc \in {"destroy", "unfinalize"}
             /\ Cached(n, v).state = "Ready"
  <2>1. Copy(n, v).state = "Ready"
    BY <1>4, ZenonT(30) DEF StrayOK, ProvisionedOK
  <2>2. sync[n][v].pc \in {"destroy", "unfinalize"} /\ sync[n][v].rv <= pos[n][v]
    BY <1>2, <2>1, ZenonT(30)
  <2>3. pos[n][v] \in 1..Len(crs[v])
    BY <1>1, <1>2, Indices, ZenonT(30)
  <2>4. crs[v][pos[n][v]].state = "Ready"
    <3>1. \A i, j \in 1..Len(crs[v]) : i <= j =>
             (crs[v][i].del \/ crs[v][i].state = "Ready" =>
                  crs[v][j].state = crs[v][i].state)
      BY FirstLifeFacts, ZenonT(30)
    <3>2. sync[n][v].rv \in 1..Len(crs[v]) /\ crs[v][sync[n][v].rv].state = "Ready"
      BY <1>2, <2>1, ZenonT(30) DEF Copy
    <3>3. QED
      BY <2>2, <2>3, <3>1, <3>2, ZenonT(30)
  <2>5. QED
    BY <2>2, <2>4, ZenonT(30) DEF Cached
<1>5. QED
  BY <1>3, <1>4, ZenonT(30)
=============================================================================
