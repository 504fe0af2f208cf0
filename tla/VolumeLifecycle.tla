-------------------------- MODULE VolumeLifecycle --------------------------
(***************************************************************************)
(* Volumes from CreateVolume to DeleteVolume: the controller plugin and    *)
(* the agents of all nodes, which meet only in the LVMVolume resources.    *)
(***************************************************************************)
EXTENDS VolumeController, VolumeAgent

vars == <<crs, calls, pos, queue, delayed, sync, lvs, faults>>

Init == ControllerInit /\ AgentInit

Next ==
    \/ \E v \in Volumes, c \in Calls :
          ControllerNext(v, c) /\ UNCHANGED agentVars
    \/ \E n \in Nodes, v \in Volumes : AgentNext(n, v) /\ UNCHANGED calls
    \/ \E n \in Nodes : Crash(n) /\ UNCHANGED calls
    \/ \E v \in Volumes : GarbageCollect(v) /\ UNCHANGED <<calls, agentVars>>

Spec == Init /\ [][Next]_vars

\* The watch delivers, the delay of a retry ends, the resync timer fires,
\* workers are goroutines that the runtime schedules, and the garbage
\* collector of Kubernetes runs: each of these goes on as long as it can.
\* Nothing is assumed of requests, of which LVM commands succeed, or of the
\* order in which volume groups are tried.
Fairness ==
    \A n \in Nodes, v \in Volumes :
        /\ WF_vars(Deliver(n, v) /\ UNCHANGED calls)
        /\ WF_vars(Resync(n, v) /\ UNCHANGED calls)
        /\ WF_vars(AddAfterDelay(n, v) /\ UNCHANGED calls)
        /\ WF_vars(StartSync(n, v) /\ UNCHANGED calls)
        /\ WF_vars(SyncVol(n, v) /\ UNCHANGED calls)
        /\ WF_vars(GarbageCollect(v) /\ UNCHANGED <<calls, agentVars>>)

FairSpec == Spec /\ Fairness

-----------------------------------------------------------------------------
\* Safety.

\* Every variable has the type its declaration states.
TypeOK ==
    /\ crs \in [Volumes -> Seq(Version)]
    /\ calls \in [Volumes -> [Calls -> Call]]
    /\ pos \in [Nodes -> [Volumes -> Nat]]
    /\ queue \in [Nodes -> SUBSET Volumes]
    /\ delayed \in [Nodes -> SUBSET Volumes]
    /\ sync \in [Nodes -> [Volumes -> Sync]]
    /\ lvs \in [Nodes -> SUBSET (VGs \X Volumes)]
    /\ faults \in Nat

Ready(v) == Exists(crs[v]) /\ Latest(crs[v]).state = "Ready"

\* A volume that the resource says is Ready, and nobody has asked to delete,
\* has its logical volume: on the node whose agent made it Ready, in the
\* volume group the resource names.  UpdateVolInfo(Ready) writes a copy taken
\* before lvcreate ran, and stale workers on any node may run DestroyVolume.
ReadyHasLV ==
    \A v \in Volumes :
        Ready(v) /\ ~ Latest(crs[v]).del =>
            <<Latest(crs[v]).vg, v>> \in lvs[Latest(crs[v]).node]

\* All the lives of the name have been given to the same node.
SingleOwner(v) ==
    \A i, j \in DOMAIN crs[v] : crs[v][i].owner = crs[v][j].owner

\* As long as the name is not moved to another node, only the agent of the
\* owner makes the volume Ready: syncVol itself does not compare OwnerNodeID
\* with its own node, the event handlers do.
OwnerProvisions ==
    \A v \in Volumes :
        Ready(v) /\ SingleOwner(v) => Latest(crs[v]).node = Latest(crs[v]).owner

\* The resource of a volume that was Ready goes away only after its logical
\* volume has: RemoveVolFinalizer follows a DestroyVolume that succeeded, and
\* no worker with an old copy creates the logical volume anew.
RemovedHasNoLV ==
    \A v \in Volumes :
        /\ Len(crs[v]) > 0
        /\ Latest(crs[v]).gone
        /\ Latest(crs[v]).state = "Ready"
        /\ SingleOwner(v)
        => <<Latest(crs[v]).vg, v>> \notin lvs[Latest(crs[v]).owner]

\* In its first life, a Ready volume has no logical volume but the one its
\* resource names: the volume group is written to the resource before lvcreate
\* runs, "for ensuring idempotency and avoiding volume leaks during crash", and
\* tried first when syncVol runs again.
NoStrayLV ==
    \A n \in Nodes, v \in Volumes, vg \in VGs :
        /\ Ready(v)
        /\ Latest(crs[v]).uid = 1
        /\ <<vg, v>> \in lvs[n]
        => Latest(crs[v]).vg = vg

-----------------------------------------------------------------------------
\* The promise to the orchestrator.

Phase(vol) ==
    IF vol.gone THEN "absent"
    ELSE IF vol.del THEN "deleting"
    ELSE IF vol.state = "Pending" THEN "pending"
    ELSE IF vol.state = "Ready" THEN "ready"
    ELSE "failed"

\* What the contract knows of a volume.
LifeOf(vol) ==
    [uid |-> vol.uid, phase |-> Phase(vol), owner |-> vol.owner,
     cap |-> vol.cap, vg |-> vol.vg, node |-> vol.node]

Life(h) ==
    IF Len(h) = 0
    THEN [uid |-> 0, phase |-> "absent", owner |-> NoNode, cap |-> 0,
          vg |-> NoVG, node |-> NoNode]
    ELSE LifeOf(Latest(h))

Lives == [v \in Volumes |-> Life(crs[v])]

Contract == INSTANCE VolumeContract WITH life <- Lives

\* The versions of the resource follow the contract: no write of a stale copy
\* by a worker and no Delete by name takes a volume off its path.
KeepsContract == Contract!Spec

-----------------------------------------------------------------------------
\* Liveness.

\* Life u of the volume waits for its agent.
Pending(v, u) ==
    /\ Exists(crs[v])
    /\ Latest(crs[v]).uid = u
    /\ Latest(crs[v]).state = "Pending"

\* Every new volume is provisioned or found impossible, or is deleted: the
\* agent misses no event, and no retry is lost.
PendingIsProcessed ==
    \A v \in Volumes : \A u \in 1..MaxLives : Pending(v, u) ~> ~ Pending(v, u)

\* A volume marked for deletion goes away.
DeletionCompletes ==
    \A v \in Volumes :
        (Exists(crs[v]) /\ Latest(crs[v]).del) ~> ~ Exists(crs[v])

-----------------------------------------------------------------------------
\* Statements of the repository that the code does not keep.

\* "OwnerNodeID is the Node ID where the volume group is present which is
\* where the volume has been provisioned."
ProvisionedOnOwner ==
    \A v \in Volumes :
        Ready(v) => Latest(crs[v]).node = Latest(crs[v]).owner

\* "In case volume ends up in failed state and rescheduling is required, func
\* is also deleting the lvm volume resource": only a request to delete the
\* volume deletes one that is Ready.
RescheduleDeletesFailed ==
    [][\A v \in Volumes :
          Ready(v) /\ ~ Latest(crs[v]).del /\ Latest(crs[v])'.del
          => \E c \in Calls : calls[v][c].pc \in DeletePC]_vars

\* "mark volume for leak protection if pvc gets deleted before the creation
\* of pv": once the resource is gone and every agent knows it and has nothing
\* left to do for the volume, no logical volume remains.
NothingLeaked ==
    \A v \in Volumes :
        /\ ~ Exists(crs[v])
        /\ \A n \in Nodes : /\ pos[n][v] = Len(crs[v])
                            /\ v \notin queue[n] \cup delayed[n]
                            /\ sync[n][v].pc = "idle"
        => \A n \in Nodes, vg \in VGs : <<vg, v>> \notin lvs[n]
=============================================================================
