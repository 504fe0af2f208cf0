-------------------------- MODULE VolumeInvariant ---------------------------
(***************************************************************************)
(* The inductive invariant behind the safety of VolumeLifecycle.           *)
(***************************************************************************)
EXTENDS VolumeLifecycle

\* What holds of every version by itself.
WellFormed(vol) ==
    /\ vol.fin <=> (vol.state = "Ready" /\ ~ vol.gone)
    /\ vol.gone => vol.del
    /\ vol.state = "Ready" => vol.vg \in VGs /\ vol.node \in Nodes

\* What holds of a version b that is later than a.
Follows(a, b) ==
    /\ a.uid <= b.uid
    /\ a.uid = b.uid =>
          /\ ~ a.gone
          /\ a.owner = b.owner
          /\ a.del => /\ b.del
                      /\ b.state = a.state /\ b.vg = a.vg /\ b.node = a.node
          /\ a.state # "Pending" => /\ b.state = a.state
                                    /\ b.vg = a.vg
                                    /\ b.node = a.node

HistoryOK(h) ==
    /\ \A i \in 1..Len(h) : WellFormed(h[i])
    /\ \A i, j \in 1..Len(h) : i < j => Follows(h[i], h[j])

Busy(n, v) == sync[n][v].pc # "idle"

\* A worker's copy is a version of the resource, of a life that the cache of
\* its node has seen, and fit for what the worker is doing with it.
WorkerOK(n, v) ==
    Busy(n, v) =>
        /\ sync[n][v].rv \in 1..Len(crs[v])
        /\ pos[n][v] >= 1
        /\ ~ Copy(n, v).gone
        /\ Copy(n, v).uid <= Cached(n, v).uid
        /\ IF sync[n][v].pc \in {"destroy", "unfinalize"}
           THEN Copy(n, v).del /\ sync[n][v].rv <= pos[n][v]
           ELSE Copy(n, v).state = "Pending" /\ ~ Copy(n, v).del
        /\ sync[n][v].pc \in {"retryVG", "create", "ready"} =>
              Copy(n, v).vg \in VGs
        /\ sync[n][v].pc = "ready" => <<Copy(n, v).vg, v>> \in lvs[n]
        /\ sync[n][v].pc = "unfinalize" /\ Copy(n, v).state = "Ready" =>
              <<Copy(n, v).vg, v>> \notin lvs[n]

\* An agent has work only for names that it owned in some life.
ConcernOK(n, v) ==
    v \in queue[n] \/ v \in delayed[n] \/ Busy(n, v) =>
        \E i \in 1..Len(crs[v]) : crs[v][i].owner = n

\* The node that made the volume Ready has its logical volume, and neither its
\* cache nor its worker is behind the life in which it did.
ReadyOK(v) ==
    Ready(v) /\ ~ Latest(crs[v]).del =>
        LET n == Latest(crs[v]).node
        IN  /\ <<Latest(crs[v]).vg, v>> \in lvs[n]
            /\ pos[n][v] >= 1
            /\ Cached(n, v).uid = Latest(crs[v]).uid
            /\ Busy(n, v) => Copy(n, v).uid = Latest(crs[v]).uid

OwnerOK(v) ==
    /\ Len(crs[v]) > 0
    /\ Latest(crs[v]).state = "Ready"
    /\ SingleOwner(v)
    => Latest(crs[v]).node = Latest(crs[v]).owner

\* Once a Ready volume is removed its owner has no logical volume, and both
\* its cache and its worker know that the volume was to be deleted.
RemovedOK(v) ==
    /\ Len(crs[v]) > 0
    /\ Latest(crs[v]).gone
    /\ Latest(crs[v]).state = "Ready"
    /\ SingleOwner(v)
    => LET n == Latest(crs[v]).owner
       IN  /\ <<Latest(crs[v]).vg, v>> \notin lvs[n]
           /\ pos[n][v] >= 1
           /\ Cached(n, v).uid = Latest(crs[v]).uid
           /\ Cached(n, v).del
           /\ Busy(n, v) => Copy(n, v).del

\* All of it together: what syncVol does with an old copy of a volume, whoever
\* has deleted, created or updated the resource since, fits the last version.
Inv ==
    /\ TypeOK
    /\ \A v \in Volumes : HistoryOK(crs[v])
    /\ \A n \in Nodes, v \in Volumes : pos[n][v] <= Len(crs[v])
    /\ \A n \in Nodes, v \in Volumes : WorkerOK(n, v)
    /\ \A n \in Nodes, v \in Volumes : ConcernOK(n, v)
    /\ \A v \in Volumes : ReadyOK(v)
    /\ \A v \in Volumes : OwnerOK(v)
    /\ \A v \in Volumes : RemovedOK(v)

-----------------------------------------------------------------------------
\* What keeps a volume in one volume group, in its first life, when no API call
\* and no stat of a device returns an error.

FirstLife(v) == Exists(crs[v]) /\ Latest(crs[v]).uid = 1

Waits(n, v) == v \in queue[n] \/ v \in delayed[n]

\* The logical volumes of v are on its owner, in the group it names.
InPlace(v) ==
    \A m \in Nodes, vg \in VGs : <<vg, v>> \in lvs[m] =>
        m = Latest(crs[v]).owner /\ vg = Latest(crs[v]).vg

\* A volume that is to be provisioned has at most one key or worker, at work
\* on the last version, and no logical volume when the group may change.
ProvisionOK(v) ==
    LET n == Latest(crs[v]).owner IN
    /\ InPlace(v)
    /\ pos[n][v] = 0 => Len(crs[v]) = 1 /\ ~ Busy(n, v)
    /\ Waits(n, v) => /\ pos[n][v] = Len(crs[v])
                      /\ ~ Busy(n, v)
                      /\ ~ (v \in queue[n] /\ v \in delayed[n])
    /\ Busy(n, v) => sync[n][v].rv = Len(crs[v])
    /\ sync[n][v].pc \in {"retryVG", "listVGs"} => pos[n][v] = Len(crs[v])
    /\ sync[n][v].pc \in {"listVGs", "setVG", "create", "failed"} =>
          \A m \in Nodes, vg \in VGs : <<vg, v>> \notin lvs[m]

\* Once it is Ready, no key and no worker has an earlier version in hand.
ProvisionedOK(v) ==
    LET n == Latest(crs[v]).owner IN
    /\ InPlace(v)
    /\ pos[n][v] >= 1
    /\ Waits(n, v) => Cached(n, v).state = "Ready"
    /\ Busy(n, v) => Copy(n, v).state = "Ready"

StrayOK(v) ==
    /\ Len(crs[v]) = 0 => \A m \in Nodes, vg \in VGs : <<vg, v>> \notin lvs[m]
    /\ FirstLife(v) /\ Latest(crs[v]).state = "Pending" /\ ~ Latest(crs[v]).del =>
          ProvisionOK(v)
    /\ FirstLife(v) /\ Latest(crs[v]).state = "Ready" => ProvisionedOK(v)

StrayInv == \A v \in Volumes : StrayOK(v)
=============================================================================
