---------------------------- MODULE VolumeAgent ----------------------------
(***************************************************************************)
(* The LVMVolume controller that runs in the agent of every node: informer *)
(* event handlers, the rate limited workqueue, and the workers that bring  *)
(* the logical volumes of the node in line with the resources.             *)
(*                                                                         *)
(* syncVol is a sequence of API calls and LVM commands; each is one step   *)
(* here, between which other actors move.  A worker works on the copy it   *)
(* took from the informer cache, which is the version crs[v][rv].          *)
(***************************************************************************)
EXTENDS LVMVolumeCR, FiniteSets

CONSTANTS
    Threads,      \* workers of one agent
    FaultKinds,   \* which faults occur, of "api", "lvm", "stat", "crash", "relist"
    MaxFaults     \* bound: how many faults occur

VARIABLES
    pos,       \* pos[n][v]: the version of v in the cache of n, 0 for none
    queue,     \* queue[n]: keys waiting in the workqueue of n
    delayed,   \* delayed[n]: keys AddRateLimited holds back
    sync,      \* sync[n][v]: the worker that is processing v on n
    lvs,       \* lvs[n]: the logical volumes <<vg, v>> on node n
    faults     \* faults so far

agentVars == <<pos, queue, delayed, sync, lvs, faults>>

Sync ==
    [pc   : {"idle", "retryVG", "listVGs", "setVG", "create", "ready",
             "failed", "destroy", "unfinalize"},
     rv   : Nat,           \* resourceVersion of the worker's copy
     todo : SUBSET VGs]    \* volume groups the loop has not tried yet

Idle == [pc |-> "idle", rv |-> 0, todo |-> {}]

AgentInit ==
    /\ pos = [n \in Nodes |-> [v \in Volumes |-> 0]]
    /\ queue = [n \in Nodes |-> {}]
    /\ delayed = [n \in Nodes |-> {}]
    /\ sync = [n \in Nodes |-> [v \in Volumes |-> Idle]]
    /\ lvs = [n \in Nodes |-> {}]
    /\ faults = 0

Fault(kind) ==
    /\ kind \in FaultKinds
    /\ faults < MaxFaults
    /\ faults' = faults + 1

-----------------------------------------------------------------------------
\* Informer events.

\* What the informer cache of n holds for v.
Cached(n, v) == crs[v][pos[n][v]]

InCache(n, v) == pos[n][v] > 0 /\ ~ Cached(n, v).gone

Enqueue(n, v, wanted) ==
    queue' = IF wanted THEN [queue EXCEPT ![n] = @ \cup {v}] ELSE queue

\* Wrong addVol: the event of any node's volume is taken.
addVolOfAnyNode(n, new) == TRUE

\* addVol: a volume that was not in the cache.
addVol(n, new) == new.owner = n

\* updateVol, also called for every cached volume by the periodic resync.
updateVol(n, new) == new.owner = n /\ new.del

\* deleteVol, with the last state of the volume.
deleteVol(n, old) == old.owner = n

\* The watch hands the informer the next version of v.
Deliver(n, v) ==
    /\ pos[n][v] < Len(crs[v])
    /\ pos' = [pos EXCEPT ![n][v] = @ + 1]
    /\ LET new == crs[v][pos[n][v] + 1] IN
          Enqueue(n, v, IF new.gone THEN deleteVol(n, new)
                        ELSE IF InCache(n, v) THEN updateVol(n, new)
                        ELSE addVol(n, new))
    /\ UNCHANGED <<crs, delayed, sync, lvs, faults>>

\* The watch broke and the informer lists again: it sees the last version
\* only.  A volume that was deleted and created again in between is an update
\* to it, and one that is gone a tombstone, which deleteVol cannot decode.
Relist(n, v) ==
    /\ Fault("relist")
    /\ pos[n][v] < Len(crs[v])
    /\ pos' = [pos EXCEPT ![n][v] = Len(crs[v])]
    /\ LET new == Latest(crs[v]) IN
          Enqueue(n, v, /\ ~ new.gone
                        /\ IF InCache(n, v) THEN updateVol(n, new)
                                            ELSE addVol(n, new))
    /\ UNCHANGED <<crs, delayed, sync, lvs>>

Resync(n, v) ==
    /\ InCache(n, v)
    /\ updateVol(n, Cached(n, v))
    /\ Enqueue(n, v, TRUE)
    /\ UNCHANGED <<crs, pos, delayed, sync, lvs, faults>>

-----------------------------------------------------------------------------
\* Workers.  At most one of them processes a key at a time.

Copy(n, v) == crs[v][sync[n][v].rv]

Proceed(n, v, pc) == sync' = [sync EXCEPT ![n][v] = [@ EXCEPT !.pc = pc]]

\* Wrong Requeue: the key is forgotten.
RequeueForgotten(n, v) ==
    /\ sync' = [sync EXCEPT ![n][v] = Idle]
    /\ UNCHANGED delayed

\* syncHandler returned an error: AddRateLimited.
Requeue(n, v) ==
    /\ sync' = [sync EXCEPT ![n][v] = Idle]
    /\ delayed' = [delayed EXCEPT ![n] = @ \cup {v}]

\* The delay of AddRateLimited is over.
AddAfterDelay(n, v) ==
    /\ v \in delayed[n]
    /\ delayed' = [delayed EXCEPT ![n] = @ \ {v}]
    /\ Enqueue(n, v, TRUE)
    /\ UNCHANGED <<crs, pos, sync, lvs, faults>>

\* Wrong FirstStep: the test for an empty volGroup is missing.
FirstStepRetryAlways(vol) ==
    IF vol.del THEN "destroy"
    ELSE IF vol.state # "Pending" THEN "idle"
    ELSE "retryVG"

\* Wrong FirstStep: a volGroup that is set is not tried first.
FirstStepRetryNever(vol) ==
    IF vol.del THEN "destroy"
    ELSE IF vol.state # "Pending" THEN "idle"
    ELSE "listVGs"

\* Where syncVol goes first with the volume vol; "idle" when it returns nil.
FirstStep(vol) ==
    IF vol.del THEN "destroy"
    ELSE IF vol.state # "Pending" THEN "idle"
    ELSE IF vol.vg # NoVG THEN "retryVG"
    ELSE "listVGs"

\* processNextWorkItem, syncHandler's read of the cache, and the tests at the
\* head of syncVol.
StartSync(n, v) ==
    /\ v \in queue[n]
    /\ sync[n][v].pc = "idle"
    /\ Cardinality({w \in Volumes : sync[n][w].pc # "idle"}) < Threads
    /\ queue' = [queue EXCEPT ![n] = @ \ {v}]
    /\ sync' = IF InCache(n, v) /\ FirstStep(Cached(n, v)) # "idle"
               THEN [sync EXCEPT ![n][v] =
                        [pc   |-> FirstStep(Cached(n, v)),
                         rv   |-> pos[n][v],
                         todo |-> {}]]
               ELSE sync
    /\ UNCHANGED <<crs, pos, delayed, lvs, faults>>

\* Wrong Update: the object is written without its resourceVersion.
UpdateUnconditionally(n, v, vol, next) ==
    /\ crs' = [crs EXCEPT ![v] = Updated(@, vol)]
    /\ sync' = [sync EXCEPT ![n][v] = next]
    /\ UNCHANGED <<delayed, faults>>

\* The worker updates the resource to vol and goes on with the state next.
\* The API server refuses a copy that is not the last version.  The answer
\* may also be an error that says nothing about whether the update was made.
Update(n, v, vol, next) ==
    LET current == sync[n][v].rv = Len(crs[v])
        written == [crs EXCEPT ![v] = Updated(@, vol)]
    IN  \/ /\ current
           /\ crs' = written
           /\ sync' = [sync EXCEPT ![n][v] = next]
           /\ UNCHANGED <<delayed, faults>>
        \/ /\ ~ current
           /\ Requeue(n, v)
           /\ UNCHANGED <<crs, faults>>
        \/ /\ Fault("api")
           /\ \/ UNCHANGED crs
              \/ current /\ crs' = written
           /\ Requeue(n, v)

-----------------------------------------------------------------------------
\* Provisioning.

\* Wrong CreateLV: the error of lvcreate is dropped.
CreateLVUnchecked(n, v, failurePC) ==
    /\ \/ lvs' = [lvs EXCEPT ![n] = @ \cup {<<Copy(n, v).vg, v>>}]
       \/ UNCHANGED lvs
    /\ Proceed(n, v, "ready")
    /\ UNCHANGED faults

\* lvm.CreateVolume of the worker's copy: an LV that is there already counts
\* as created (unless the stat of its device fails); otherwise lvcreate
\* succeeds or fails.
CreateLV(n, v, failurePC) ==
    LET lv == <<Copy(n, v).vg, v>>
    IN  \/ /\ lvs' = [lvs EXCEPT ![n] = @ \cup {lv}]
           /\ Proceed(n, v, "ready")
           /\ UNCHANGED faults
        \/ /\ IF lv \in lvs[n] THEN Fault("stat") ELSE UNCHANGED faults
           /\ Proceed(n, v, failurePC)
           /\ UNCHANGED lvs

\* The copy names a volume group already, which is tried first.
RetryVolGroup(n, v) ==
    /\ sync[n][v].pc = "retryVG"
    /\ CreateLV(n, v, "listVGs")
    /\ UNCHANGED <<crs, pos, queue, delayed>>

\* getVgPriorityList: some of the volume groups match and have the space.
GetVgPriorityList(n, v) ==
    /\ sync[n][v].pc = "listVGs"
    /\ \/ /\ \E vgs \in SUBSET VGs :
                sync' = [sync EXCEPT ![n][v] =
                    [@ EXCEPT !.pc = IF vgs = {} THEN "failed" ELSE "setVG",
                              !.todo = vgs]]
          /\ UNCHANGED <<delayed, faults>>
       \/ Fault("lvm") /\ Requeue(n, v)
    /\ UNCHANGED <<crs, pos, queue, lvs>>

\* Head of the loop: the volume group is recorded before it is used.
UpdateVolGroup(n, v) ==
    /\ sync[n][v].pc = "setVG"
    /\ \E vg \in sync[n][v].todo :
          LET vol == WithVolGroup(Copy(n, v), vg)
          IN  Update(n, v, vol,
                     [pc   |-> "create",
                      rv   |-> Len(Updated(crs[v], vol)),
                      todo |-> sync[n][v].todo \ {vg}])
    /\ UNCHANGED <<pos, queue, lvs>>

\* Rest of the loop: the next volume group is tried when this one fails.
CreateVolumeInVG(n, v) ==
    /\ sync[n][v].pc = "create"
    /\ CreateLV(n, v, IF sync[n][v].todo = {} THEN "failed" ELSE "setVG")
    /\ UNCHANGED <<crs, pos, queue, delayed>>

\* UpdateVolInfo at the end of syncVol; it does nothing for a copy that has a
\* finalizer.
UpdateVolInfo(n, v, state) ==
    /\ IF Copy(n, v).fin
       THEN /\ sync' = [sync EXCEPT ![n][v] = Idle]
            /\ UNCHANGED <<crs, delayed, faults>>
       ELSE Update(n, v, WithVolInfo(Copy(n, v), state, n), Idle)
    /\ UNCHANGED <<pos, queue, lvs>>

MarkReady(n, v) ==
    sync[n][v].pc = "ready" /\ UpdateVolInfo(n, v, "Ready")

MarkFailed(n, v) ==
    sync[n][v].pc = "failed" /\ UpdateVolInfo(n, v, "Failed")

-----------------------------------------------------------------------------
\* Deprovisioning.

\* DestroyVolume of the worker's copy: an LV that is not there counts as
\* destroyed; otherwise wipefs or lvremove may fail.
DestroyVolume(n, v) ==
    /\ sync[n][v].pc = "destroy"
    /\ LET lv == <<Copy(n, v).vg, v>> IN
          \/ /\ lvs' = [lvs EXCEPT ![n] = @ \ {lv}]
             /\ Proceed(n, v, "unfinalize")
             /\ UNCHANGED <<delayed, faults>>
          \/ /\ Copy(n, v).vg # NoVG
             /\ Fault("lvm")
             /\ Requeue(n, v)
             /\ UNCHANGED lvs
    /\ UNCHANGED <<crs, pos, queue>>

RemoveVolFinalizer(n, v) ==
    /\ sync[n][v].pc = "unfinalize"
    /\ Update(n, v, WithoutFinalizer(Copy(n, v)), Idle)
    /\ UNCHANGED <<pos, queue, lvs>>

-----------------------------------------------------------------------------
\* The agent is killed and comes up again: its LVs stay, its workqueue and
\* its workers are lost, and the first list makes an add event per volume.
Crash(n) ==
    /\ Fault("crash")
    /\ pos' = [pos EXCEPT ![n] = [v \in Volumes |-> Len(crs[v])]]
    /\ queue' = [queue EXCEPT ![n] =
                    {v \in Volumes : /\ Exists(crs[v])
                                     /\ addVol(n, Latest(crs[v]))}]
    /\ delayed' = [delayed EXCEPT ![n] = {}]
    /\ sync' = [sync EXCEPT ![n] = [v \in Volumes |-> Idle]]
    /\ UNCHANGED <<crs, lvs>>

SyncVol(n, v) ==
    \/ RetryVolGroup(n, v)
    \/ GetVgPriorityList(n, v)
    \/ UpdateVolGroup(n, v)
    \/ CreateVolumeInVG(n, v)
    \/ MarkReady(n, v)
    \/ MarkFailed(n, v)
    \/ DestroyVolume(n, v)
    \/ RemoveVolFinalizer(n, v)

AgentNext(n, v) ==
    \/ Deliver(n, v)
    \/ Relist(n, v)
    \/ Resync(n, v)
    \/ AddAfterDelay(n, v)
    \/ StartSync(n, v)
    \/ SyncVol(n, v)
=============================================================================
