------------------------- MODULE SnapshotLifecycle -------------------------
(***************************************************************************)
(* Snapshots from CreateSnapshot to DeleteSnapshot, while their volumes    *)
(* may be deleted: the controller plugin and the agent of one node.        *)
(***************************************************************************)
EXTENDS SnapshotAgent

vars == <<snaps, vols, thick, creates, deletes, pos, queue, delayed, sync,
          origins, snapLVs, faults>>

Init == ControllerInit /\ AgentInit

\* Steps of the agent that leave the resources alone, and those that do not.
Handle(s) ==
    /\ Deliver(s) \/ Relist(s) \/ Resync(s) \/ AddAfterDelay(s) \/ StartSync(s)
    /\ UNCHANGED controllerVars

Work(s) == SyncSnap(s) /\ UNCHANGED <<vols, thick, creates, deletes>>

Collect(s) ==
    GarbageCollect(s) /\ UNCHANGED <<vols, thick, creates, deletes, agentVars>>

Next ==
    \/ ControllerNext /\ UNCHANGED agentVars
    \/ \E s \in Snapshots : Handle(s) \/ Work(s)
    \/ Crash /\ UNCHANGED controllerVars
    \/ \E s \in Snapshots : Collect(s)
    \/ \E v \in LocalVolumes : \/ DestroyVolume(v) /\ UNCHANGED controllerVars
                               \/ RemoveVolume(v) /\ UNCHANGED agentVars

Spec == Init /\ [][Next]_vars

\* The watch delivers, delays end, the resync timer fires, workers run and so
\* does the garbage collector.  Nothing is assumed of requests or of the
\* deletion of volumes.
Fairness ==
    \A s \in Snapshots :
        /\ WF_vars(Deliver(s) /\ UNCHANGED controllerVars)
        /\ WF_vars(Resync(s) /\ UNCHANGED controllerVars)
        /\ WF_vars(AddAfterDelay(s) /\ UNCHANGED controllerVars)
        /\ WF_vars(StartSync(s) /\ UNCHANGED controllerVars)
        /\ WF_vars(Work(s))
        /\ WF_vars(Collect(s))

FairSpec == Spec /\ Fairness

-----------------------------------------------------------------------------
\* Safety.

\* Every variable has the type its declaration states.
SnapTypeOK ==
    /\ snaps \in [Snapshots -> Seq(SnapVersion)]
    /\ vols \in [Volumes -> Phases]
    /\ thick \in BOOLEAN
    /\ creates \in [CreateCalls -> CreateCall \cup {NoRequest}]
    /\ deletes \in [DeleteCalls -> DeleteCall \cup {NoRequest}]
    /\ pos \in [Snapshots -> Nat]
    /\ queue \in SUBSET Snapshots
    /\ delayed \in SUBSET Snapshots
    /\ sync \in [Snapshots -> SnapSync]
    /\ origins \in SUBSET Volumes
    /\ snapLVs \in SUBSET (Snapshots \X Volumes \X BOOLEAN)
    /\ faults \in SUBSET FaultKinds

\* A snapshot the resource says is Ready, and nobody has asked to delete, has
\* its logical volume on the node, made from the volume its label names.
\* There is one way to lose it: a DeleteVolume that found no snapshots before
\* this one was created, whose lvremove takes a thick snapshot with its origin.
ReadySnapHasLV ==
    \A s \in Snapshots :
        LET snap == Latest(snaps[s]) IN
        /\ SnapExists(snaps[s]) /\ snap.state = "Ready" /\ ~ snap.del
        => \/ <<s, snap.vol, snap.thick>> \in snapLVs
           \/ snap.thick /\ snap.vol \notin origins

\* The resource of a snapshot that was Ready goes away only after its logical
\* volume: UpdateSnapInfo adds the finalizer together with Ready, and
\* RemoveSnapFinalizer follows DestroySnapshot.  An lvs that fails breaks this.
RemovedSnapHasNoLV ==
    \A s \in Snapshots :
        /\ Len(snaps[s]) > 0
        /\ Latest(snaps[s]).gone
        /\ Latest(snaps[s]).state = "Ready"
        /\ "lvs" \notin faults
        => ~ HasLV(s)

\* "volume should not be deleted if there are active snapshots present for the
\* volume": a DeleteVolume never marks a volume that has a Ready snapshot
\* which existed when the request arrived.  The label by
\* which snapshots are listed survives UpdateSnapInfo.
DeleteSparesSnapshots ==
    [][\A d \in DeleteCalls :
          deletes[d].pc = "delete" /\ deletes'[d].pc = "wait"
          => ~ \E lv \in snapLVs :
                  /\ lv[2] = deletes[d].vol
                  /\ SnapExists(snaps[lv[1]])
                  /\ Latest(snaps[lv[1]]).state = "Ready"
                  /\ Latest(snaps[lv[1]]).uid < deletes[d].before[lv[1]]]_vars

\* A CreateSnapshot that answers ReadyToUse does so for a snapshot whose
\* logical volume has been made: it is there, or the snapshot is being
\* deleted, or it went with its volume.
ReadyAnswerHasLV ==
    [][\A c \in CreateCalls :
          creates[c].pc # "answered" /\ creates'[c].pc = "answered"
          => LET s == creates[c].snap IN
             \/ HasLV(s)
             \/ Latest(snaps[s]).del
             \/ thick /\ Latest(snaps[s]).vol \notin origins]_vars

-----------------------------------------------------------------------------
\* The promise to the orchestrator.

SnapPhase(snap) ==
    IF snap.gone THEN "absent"
    ELSE IF snap.del THEN "deleting"
    ELSE IF snap.state = "Pending" THEN "pending"
    ELSE "ready"

SnapLife(h) ==
    IF Len(h) = 0
    THEN [uid |-> 0, phase |-> "absent", vol |-> NoLabel]
    ELSE [uid |-> Latest(h).uid, phase |-> SnapPhase(Latest(h)),
          vol |-> Latest(h).vol]

SnapLives == [s \in Snapshots |-> SnapLife(snaps[s])]

SContract ==
    INSTANCE SnapshotContract WITH life <- SnapLives, NoSource <- NoLabel

\* The versions of the resource follow the contract, whatever stale copies
\* workers write.
KeepsSnapContract == SContract!Spec

-----------------------------------------------------------------------------
\* Liveness.

\* The snapshot waits for this agent.
PendingSnap(s) ==
    /\ SnapExists(snaps[s])
    /\ Latest(snaps[s]).state = "Pending"
    /\ Latest(snaps[s]).here

\* A snapshot of a volume that is still there becomes Ready or is deleted.
\* There is one way to stay Pending: the agent crashed, or an update failed,
\* after lvcreate, which from then on fails because the snapshot exists.
PendingSnapBecomesReady ==
    \A s \in Snapshots :
        PendingSnap(s) ~> \/ ~ PendingSnap(s)
                          \/ HasLV(s) /\ faults \cap {"crash", "api"} # {}
                          \/ Latest(snaps[s]).vol \notin origins

\* A snapshot marked for deletion goes away, whatever fails on the way.
SnapDeletionCompletes ==
    \A s \in Snapshots :
        /\ SnapExists(snaps[s])
        /\ Latest(snaps[s]).del
        /\ Latest(snaps[s]).here
        ~> ~ SnapExists(snaps[s])
=============================================================================
