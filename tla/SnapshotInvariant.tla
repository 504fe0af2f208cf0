------------------------- MODULE SnapshotInvariant --------------------------
(***************************************************************************)
(* The inductive invariant behind the safety of SnapshotLifecycle.         *)
(***************************************************************************)
EXTENDS SnapshotLifecycle

\* What holds of every version by itself.
WellFormed(snap) ==
    /\ snap.thick = thick
    /\ snap.fin <=> (snap.state = "Ready" /\ ~ snap.gone)
    /\ snap.gone => snap.del

\* What holds of a version b that is later than a.
Follows(a, b) ==
    /\ a.uid <= b.uid
    /\ a.uid = b.uid =>
          /\ ~ a.gone
          /\ a.vol = b.vol
          /\ a.del => b.del /\ b.state = a.state
          /\ a.state = "Ready" => b.state = "Ready"

HistoryOK(h) ==
    /\ \A i \in 1..Len(h) : WellFormed(h[i])
    /\ \A i, j \in 1..Len(h) : i < j => Follows(h[i], h[j])

Busy(s) == sync[s].pc # "idle"

\* The logical volume that a version of s stands for is there, or it went with
\* its origin.
LVMade(s, snap) ==
    \/ <<s, snap.vol, snap.thick>> \in snapLVs
    \/ snap.thick /\ snap.vol \notin origins

\* No logical volume of that name was made from another volume.
LVOf(s, v) == \A lv \in snapLVs : lv[1] = s => lv[2] = v

\* A worker's copy is a version of the resource, not newer than the cache, and
\* fit for what the worker is doing with it.
WorkerOK(s) ==
    Busy(s) =>
        /\ sync[s].rv \in 1..pos[s]
        /\ ~ Copy(s).gone
        /\ IF sync[s].pc \in {"destroy", "unfinalize"}
           THEN Copy(s).del
           ELSE Copy(s).state = "Pending" /\ ~ Copy(s).del
        /\ sync[s].pc = "ready" => LVMade(s, Copy(s)) /\ LVOf(s, Copy(s).vol)
        /\ sync[s].pc = "unfinalize" => ~ HasLV(s) \/ "lvs" \in faults

\* Once the snapshot is Ready the agent has forgotten its earlier lives, and a
\* logical volume of that name is one of this life; until someone asks for its
\* deletion it is there.
ReadyOK(s) ==
    Len(snaps[s]) > 0 /\ Latest(snaps[s]).state = "Ready" =>
        /\ pos[s] >= 1
        /\ Cached(s).uid = Latest(snaps[s]).uid
        /\ Busy(s) => Copy(s).uid = Latest(snaps[s]).uid
        /\ LVOf(s, Latest(snaps[s]).vol)
        /\ ~ Latest(snaps[s]).del => LVMade(s, Latest(snaps[s]))

\* Once a Ready snapshot is removed it has no logical volume, and neither the
\* cache nor the worker takes it for one to be made.
RemovedOK(s) ==
    /\ Len(snaps[s]) > 0
    /\ Latest(snaps[s]).gone
    /\ Latest(snaps[s]).state = "Ready"
    => /\ ~ HasLV(s) \/ "lvs" \in faults
       /\ Cached(s).del
       /\ Busy(s) => Copy(s).del

\* A DeleteVolume that is in progress found no snapshot of its volume among
\* the ones that existed when it arrived.
DeleteOK(d) ==
    deletes[d].pc # "none" =>
        \A s \in Snapshots :
            /\ deletes[d].before[s] <= NextSnapUid(snaps[s])
            /\ SnapExists(snaps[s])
               /\ Latest(snaps[s]).uid < deletes[d].before[s]
               => Latest(snaps[s]).vol # deletes[d].vol

SnapInv ==
    /\ SnapTypeOK
    /\ \A s \in Snapshots : HistoryOK(snaps[s])
    /\ \A s \in Snapshots : pos[s] <= Len(snaps[s])
    /\ \A s \in Snapshots : WorkerOK(s)
    /\ \A s \in Snapshots : ReadyOK(s)
    /\ \A s \in Snapshots : RemovedOK(s)
    /\ \A d \in DeleteCalls : DeleteOK(d)
=============================================================================
