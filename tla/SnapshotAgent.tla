--------------------------- MODULE SnapshotAgent ---------------------------
(***************************************************************************)
(* The LVMSnapshot controller in the agent of one node: event handlers,    *)
(* workqueue, and the workers that run syncSnap on the copy they took from *)
(* the informer cache, which is the version snaps[s][rv].                  *)
(*                                                                         *)
(* The logical volumes of the node are the origins and their snapshots.    *)
(* The LVMVolume controller of the same agent appears as far as it touches *)
(* them: it removes the origin of a volume that is being deleted.          *)
(***************************************************************************)
EXTENDS SnapshotController, FiniteSets

CONSTANTS
    Threads,      \* workers of the agent
    FaultKinds,   \* which faults occur, of "api", "lvm", "lvs", "crash", "relist"
    MaxFaults     \* bound: how many of these kinds occur, each once

VARIABLES
    pos,       \* pos[s]: the version of s in the informer cache, 0 for none
    queue,     \* keys waiting in the workqueue
    delayed,   \* keys AddRateLimited holds back
    sync,      \* sync[s]: the worker that is processing s
    origins,   \* volumes whose logical volume is on the node
    snapLVs,   \* snapshot LVs <<s, v, thick>>: name, origin, has its own size
    faults     \* the kinds of fault that have occurred

agentVars == <<pos, queue, delayed, sync, origins, snapLVs, faults>>

SnapSync ==
    [pc : {"idle", "create", "ready", "destroy", "unfinalize"},
     rv : Nat]                 \* resourceVersion of the worker's copy

Idle == [pc |-> "idle", rv |-> 0]

AgentInit ==
    /\ pos = [s \in Snapshots |-> 0]
    /\ queue = {}
    /\ delayed = {}
    /\ sync = [s \in Snapshots |-> Idle]
    /\ origins = LocalVolumes
    /\ snapLVs = {}
    /\ faults = {}

Fault(kind) ==
    /\ kind \in FaultKinds \ faults
    /\ Cardinality(faults) < MaxFaults
    /\ faults' = faults \cup {kind}

\* The LV of snapshot s is on the node.
HasLV(s) == \E lv \in snapLVs : lv[1] = s

-----------------------------------------------------------------------------
\* Informer events.

Cached(s) == snaps[s][pos[s]]

InCache(s) == pos[s] > 0 /\ ~ Cached(s).gone

Enqueue(s, wanted) == queue' = IF wanted THEN queue \cup {s} ELSE queue

\* addSnap.
addSnap(new) == new.here

\* Wrong updateSnap: a snapshot that is being deleted is not looked at.
updateSnapPending(new) == new.here /\ new.state = "Pending"

\* updateSnap: "update on Snapshot CR does not make sense unless it is a
\* deletion candidate".
updateSnap(new) == new.here /\ new.del

\* deleteSnap, with the last state of the snapshot.
deleteSnap(old) == old.here

\* The watch hands the informer the next version of s.
Deliver(s) ==
    /\ pos[s] < Len(snaps[s])
    /\ pos' = [pos EXCEPT ![s] = @ + 1]
    /\ LET new == snaps[s][pos[s] + 1] IN
          Enqueue(s, IF new.gone THEN deleteSnap(new)
                     ELSE IF InCache(s) THEN updateSnap(new)
                     ELSE addSnap(new))
    /\ UNCHANGED <<delayed, sync, origins, snapLVs, faults>>

\* The watch broke and the informer lists again: only the last version is
\* seen, and a removed snapshot is a tombstone, which deleteSnap rejects.
Relist(s) ==
    /\ Fault("relist")
    /\ pos[s] < Len(snaps[s])
    /\ pos' = [pos EXCEPT ![s] = Len(snaps[s])]
    /\ LET new == Latest(snaps[s]) IN
          Enqueue(s, /\ ~ new.gone
                     /\ IF InCache(s) THEN updateSnap(new) ELSE addSnap(new))
    /\ UNCHANGED <<delayed, sync, origins, snapLVs>>

\* The periodic resync of the informer.
Resync(s) ==
    /\ InCache(s)
    /\ updateSnap(Cached(s))
    /\ Enqueue(s, TRUE)
    /\ UNCHANGED <<pos, delayed, sync, origins, snapLVs, faults>>

-----------------------------------------------------------------------------
\* Workers.

Copy(s) == snaps[s][sync[s].rv]

Proceed(s, pc) == sync' = [sync EXCEPT ![s].pc = pc]

Finish(s) == sync' = [sync EXCEPT ![s] = Idle]

\* syncHandler returned an error: AddRateLimited.
Requeue(s) ==
    /\ Finish(s)
    /\ delayed' = delayed \cup {s}

\* The delay of AddRateLimited is over.
AddAfterDelay(s) ==
    /\ s \in delayed
    /\ delayed' = delayed \ {s}
    /\ Enqueue(s, TRUE)
    /\ UNCHANGED <<pos, sync, origins, snapLVs, faults>>

\* Where syncSnap goes first; "idle" when there is nothing to do.
FirstStep(snap) ==
    IF snap.del THEN "destroy"
    ELSE IF snap.state = "Pending" THEN "create"
    ELSE "idle"

\* processNextWorkItem, syncHandler's read of the cache and syncSnap's tests.
StartSync(s) ==
    /\ s \in queue
    /\ sync[s].pc = "idle"
    /\ Cardinality({t \in Snapshots : sync[t].pc # "idle"}) < Threads
    /\ queue' = queue \ {s}
    /\ sync' = IF InCache(s) /\ FirstStep(Cached(s)) # "idle"
               THEN [sync EXCEPT ![s] =
                        [pc |-> FirstStep(Cached(s)), rv |-> pos[s]]]
               ELSE sync
    /\ UNCHANGED <<pos, delayed, origins, snapLVs, faults>>

\* Wrong CreateLV: the error of lvcreate is dropped.
CreateLVUnchecked(s) ==
    /\ sync[s].pc = "create"
    /\ \/ snapLVs' = snapLVs \cup {<<s, Copy(s).vol, Copy(s).thick>>}
       \/ UNCHANGED snapLVs
    /\ Proceed(s, "ready")
    /\ UNCHANGED <<snaps, delayed, faults>>

\* lvm.CreateSnapshot: lvcreate fails when the origin is not there and, since
\* nothing looks for it first, when the snapshot is there already.
CreateLV(s) ==
    /\ sync[s].pc = "create"
    /\ \/ /\ Copy(s).vol \in origins /\ ~ HasLV(s)
          /\ snapLVs' = snapLVs \cup {<<s, Copy(s).vol, Copy(s).thick>>}
          /\ Proceed(s, "ready")
          /\ UNCHANGED <<delayed, faults>>
       \/ /\ Copy(s).vol \notin origins \/ HasLV(s)
          /\ Requeue(s)
          /\ UNCHANGED <<snapLVs, faults>>
       \/ Fault("lvm") /\ Requeue(s) /\ UNCHANGED snapLVs
    /\ UNCHANGED snaps

\* Wrong Update: the object is written without its resourceVersion.
UpdateUnconditionally(s, snap) ==
    /\ snaps' = [snaps EXCEPT ![s] = SnapUpdated(@, snap)]
    /\ Finish(s)
    /\ UNCHANGED <<delayed, faults>>

\* The worker writes its copy as snap and is done; a copy that is not the last
\* version is refused.  An error may hide that the write was made.
Update(s, snap) ==
    LET current == sync[s].rv = Len(snaps[s])
        written == [snaps EXCEPT ![s] = SnapUpdated(@, snap)]
    IN  \/ /\ current
           /\ snaps' = written
           /\ Finish(s)
           /\ UNCHANGED <<delayed, faults>>
        \/ ~ current /\ Requeue(s) /\ UNCHANGED <<snaps, faults>>
        \/ /\ Fault("api")
           /\ \/ UNCHANGED snaps
              \/ current /\ snaps' = written
           /\ Requeue(s)

\* Wrong UpdateSnapInfo: the snapshot is made and nothing is written.
UpdateSnapInfoForgotten(s) ==
    /\ sync[s].pc = "ready"
    /\ Finish(s)
    /\ UNCHANGED <<snaps, delayed, snapLVs, faults>>

\* UpdateSnapInfo.  A Pending copy has no finalizer, so the test for one does
\* not end it.
UpdateSnapInfo(s) ==
    /\ sync[s].pc = "ready"
    /\ Update(s, WithSnapInfo(Copy(s)))
    /\ UNCHANGED snapLVs

\* DestroySnapshot: a snapshot that lvs does not list counts as destroyed,
\* and so does one for which lvs fails, since !ok is tested before err.
DestroyLV(s) ==
    /\ sync[s].pc = "destroy"
    /\ \/ /\ snapLVs' = {lv \in snapLVs : lv[1] # s}
          /\ Proceed(s, "unfinalize")
          /\ UNCHANGED <<delayed, faults>>
       \/ /\ Fault("lvs")
          /\ Proceed(s, "unfinalize")
          /\ UNCHANGED <<delayed, snapLVs>>
       \/ /\ HasLV(s)
          /\ Fault("lvm")
          /\ Requeue(s)
          /\ UNCHANGED snapLVs
    /\ UNCHANGED snaps

RemoveSnapFinalizer(s) ==
    /\ sync[s].pc = "unfinalize"
    /\ Update(s, WithoutSnapFinalizer(Copy(s)))
    /\ UNCHANGED snapLVs

SyncSnap(s) ==
    /\ CreateLV(s) \/ UpdateSnapInfo(s) \/ DestroyLV(s) \/ RemoveSnapFinalizer(s)
    /\ UNCHANGED <<pos, queue, origins>>

\* The agent is killed and comes up again.
Crash ==
    /\ Fault("crash")
    /\ pos' = [s \in Snapshots |-> Len(snaps[s])]
    /\ queue' = {s \in Snapshots : /\ SnapExists(snaps[s])
                                   /\ addSnap(Latest(snaps[s]))}
    /\ delayed' = {}
    /\ sync' = [s \in Snapshots |-> Idle]
    /\ UNCHANGED <<origins, snapLVs>>

-----------------------------------------------------------------------------
\* The LVMVolume controller of the agent.

\* DestroyVolume: lvremove -y takes the snapshots that have their own size
\* with the origin; thin ones become volumes of their own.
DestroyVolume(v) ==
    /\ vols[v] = "deleting"
    /\ v \in origins
    /\ origins' = origins \ {v}
    /\ snapLVs' = {lv \in snapLVs : ~ (lv[2] = v /\ lv[3])}
    /\ UNCHANGED <<pos, queue, delayed, sync, faults>>

\* RemoveVolFinalizer, which follows it.
RemoveVolume(v) ==
    /\ vols[v] = "deleting"
    /\ v \notin origins
    /\ vols' = [vols EXCEPT ![v] = "absent"]
    /\ UNCHANGED <<snaps, thick, creates, deletes>>
=============================================================================
