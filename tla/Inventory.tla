------------------------------ MODULE Inventory ------------------------------
(***************************************************************************)
(* The agent process of one node, This: how its three controllers start    *)
(* under a shared lock, and how the LVMNode controller reports the volume  *)
(* groups of the node in its LVMNode resource.                             *)
(*                                                                         *)
(* The informer cache holds a copy of the resource and whether the copy    *)
(* still is the latest version, which is what an Update is accepted for.   *)
(* The other nodes are represented by their LVMNode resources.             *)
(***************************************************************************)
EXTENDS Scheduling

CONSTANTS
    This,          \* the node of the agent
    Controllers,   \* its controllers, among them
    NodeCtl, VolCtl,        \* those of LVMNode and LVMVolume
    NoOne,         \* no controller holds the lock
    Capacity,      \* the largest free space of a volume group
    MaxTrouble     \* changes by administrators, failures and crashes

ASSUME InventoryAssumption ==
    /\ This \in Nodes
    /\ {NodeCtl, VolCtl} \subseteq Controllers
    /\ NoOne \notin Controllers
    /\ Capacity \in Nat \ {0}

VARIABLES
    free,       \* free space of This's volume groups, as LVM knows it
    lvmnode,    \* the LVMNode resources
    cache,      \* the agent's informer: [copy, fresh, synced]
    queued,     \* the node's key is in the workqueue, or waits for it
    sync,       \* the worker: [pc, copy, fresh, vgs]
    ctl,        \* how far controllers are: "off", "start", "building", "running"
    lock,       \* the holder of ControllerMutex
    trouble     \* how much of MaxTrouble happened

agentVars == <<cache, queued, sync>>
startVars == <<ctl, lock>>
inventoryVars == <<free, lvmnode, cache, queued, sync, ctl, lock,
                   trouble>>

Trouble == /\ trouble < MaxTrouble
           /\ trouble' = trouble + 1

NoReport == [exists |-> FALSE, groups |-> <<>>, owner |-> "none"]

NoCache == [copy |-> NoReport, fresh |-> FALSE, synced |-> FALSE]

Idle == [pc |-> "idle", copy |-> NoReport, fresh |-> FALSE, vgs |-> <<>>]

InventoryInit ==
    /\ free = [g \in Groups |-> Capacity]
    /\ lvmnode = [n \in Nodes |->
          IF n = This THEN NoReport
          ELSE [exists |-> TRUE, groups |-> [g \in Groups |-> Capacity - 1],
                owner |-> "ours"]]
    /\ cache = NoCache
    /\ queued = FALSE
    /\ sync = Idle
    /\ ctl = [c \in Controllers |-> "off"]
    /\ lock = NoOne
    /\ trouble = 0

-----------------------------------------------------------------------------
(***************************************************************************)
(* Starting the controllers, and the death of the process.                 *)
(***************************************************************************)
\* The process starts a goroutine for every controller.
NewNode ==
    /\ \A c \in Controllers : ctl[c] = "off"
    /\ ctl' = [c \in Controllers |-> "start"]
    /\ UNCHANGED <<lock, free, lvmnode, agentVars, trouble>>

\* Wrong Lock: the controllers are built without the lock.
LockShared(c) ==
    /\ ctl[c] = "start"
    /\ ctl' = [ctl EXCEPT ![c] = "building"]
    /\ lock' = c
    /\ UNCHANGED <<free, lvmnode, agentVars, trouble>>

\* Start up to controllerMtx.Lock().
Lock(c) ==
    /\ ctl[c] = "start"
    /\ lock = NoOne
    /\ ctl' = [ctl EXCEPT ![c] = "building"]
    /\ lock' = c
    /\ UNCHANGED <<free, lvmnode, agentVars, trouble>>

\* Wrong Build: the lock is kept, as a deferred Unlock would.
BuildLocked(c) ==
    /\ ctl[c] = "building"
    /\ ctl' = [ctl EXCEPT ![c] = "running"]
    /\ UNCHANGED <<lock, free, lvmnode, agentVars, trouble>>

\* The constructor, Unlock, and Run.
Build(c) ==
    /\ ctl[c] = "building"
    /\ ctl' = [ctl EXCEPT ![c] = "running"]
    /\ lock' = NoOne
    /\ UNCHANGED <<free, lvmnode, agentVars, trouble>>

\* A controller whose Start fails, even with the lock held, ends the process
\* (klog.Fatalf), and so does a crash.  Kubernetes starts it again.
Restart ==
    /\ Trouble
    /\ ctl' = [c \in Controllers |-> "off"]
    /\ lock' = NoOne
    /\ cache' = NoCache
    /\ queued' = FALSE
    /\ sync' = Idle
    /\ UNCHANGED <<free, lvmnode>>

-----------------------------------------------------------------------------
(***************************************************************************)
(* Events, the poll timer and the workqueue.                               *)
(***************************************************************************)
Running == ctl[NodeCtl] = "running"

\* Nothing is held to be the latest version after someone wrote.
Outdated == /\ cache' = [cache EXCEPT !.fresh = FALSE]
            /\ sync' = [sync EXCEPT !.fresh = FALSE]

\* The informer catches up; addNode, updateNode and deleteNode enqueue.
Deliver ==
    /\ Running
    /\ ~ cache.fresh
    /\ cache' = [copy |-> lvmnode[This], fresh |-> TRUE, synced |-> TRUE]
    /\ queued' = (queued \/ lvmnode[This].exists \/ cache.copy.exists)
    /\ UNCHANGED <<free, lvmnode, sync, startVars, trouble>>

\* The timer of Run, first after no time, then every poll interval.
Poll ==
    /\ Running
    /\ cache.synced
    /\ queued' = TRUE
    /\ UNCHANGED <<free, lvmnode, cache, sync, startVars, trouble>>

\* processNextWorkItem and syncNode's read of the cache.
Take ==
    /\ queued
    /\ cache.synced
    /\ sync.pc = "idle"
    /\ queued' = FALSE
    /\ sync' = [pc |-> "list", copy |-> cache.copy, fresh |-> cache.fresh,
                vgs |-> <<>>]
    /\ UNCHANGED <<free, lvmnode, cache, startVars, trouble>>

\* An error: AddRateLimited, the key comes back after a delay.
Requeue == /\ sync' = Idle
           /\ queued' = TRUE

-----------------------------------------------------------------------------
(***************************************************************************)
(* The sync.                                                               *)
(***************************************************************************)
\* What parseVolumeGroup makes of a row whose bad fields do not parse.  The
\* error of a field is overwritten by the next field the map's random order
\* brings, and the errors of the counts always are; the field then is 0.
parseVolumeGroup(value, bad) ==
    {[free |-> IF "free" \in bad THEN 0 ELSE value, err |-> e] :
        e \in IF bad \cap {"free", "size"} = {} THEN {FALSE} ELSE BOOLEAN}

\* decodeVgsJSON: the reports a listing may give, when the fields bad[g] of
\* group g do not parse.  One row in error makes no report.
decodeVgsJSON(bad) ==
    {vgs \in [Groups -> 0 .. Capacity] :
        \A g \in Groups :
            [free |-> vgs[g], err |-> FALSE] \in parseVolumeGroup(free[g], bad[g])}

NothingBad == [g \in Groups |-> {}]

\* ListLVMVolumeGroup(true): pvscan and vgs succeed.
ListLVMVolumeGroup ==
    /\ sync.pc = "list"
    /\ \E vgs \in decodeVgsJSON(NothingBad) :
           sync' = [sync EXCEPT !.pc = "write", !.vgs = vgs]
    /\ UNCHANGED <<free, lvmnode, cache, queued, startVars, trouble>>

\* A field of one group does not parse, or pvscan or vgs fails.
ListFaulty ==
    /\ sync.pc = "list"
    /\ Trouble
    /\ \/ \E g \in Groups, field \in {"count", "size", "free"} :
             \E vgs \in decodeVgsJSON([NothingBad EXCEPT ![g] = {field}]) :
                 sync' = [sync EXCEPT !.pc = "write", !.vgs = vgs]
          /\ UNCHANGED queued
       \/ Requeue
    /\ UNCHANGED <<free, lvmnode, cache, startVars>>

\* isOwnerRefsUpdateRequired.
isOwnerRefsUpdateRequired(owner) == owner # "ours"

\* Wrong UpdateRequired: the volume groups are not compared.
UpdateRequiredForOwner == isOwnerRefsUpdateRequired(sync.copy.owner)

UpdateRequired ==
    \/ isOwnerRefsUpdateRequired(sync.copy.owner)
    \/ sync.copy.groups # sync.vgs

\* The API server creates what is absent and updates the latest version.
Accepted == IF sync.copy.exists THEN lvmnode[This].exists /\ sync.fresh
                                ELSE ~ lvmnode[This].exists

\* syncNode after the listing: nothing, Create or Update.
SyncNode ==
    /\ sync.pc = "write"
    /\ \/ /\ sync.copy.exists /\ ~ UpdateRequired
          /\ sync' = Idle
          /\ UNCHANGED <<lvmnode, cache, queued>>
       \/ /\ ~ sync.copy.exists \/ UpdateRequired
          /\ Accepted
          /\ lvmnode' = [lvmnode EXCEPT ![This] =
                [exists |-> TRUE, groups |-> sync.vgs, owner |-> "ours"]]
          /\ sync' = Idle
          /\ cache' = [cache EXCEPT !.fresh = FALSE]
          /\ UNCHANGED queued
       \/ /\ ~ sync.copy.exists \/ UpdateRequired
          /\ ~ Accepted
          /\ Requeue
          /\ UNCHANGED <<lvmnode, cache>>
    /\ UNCHANGED <<free, startVars, trouble>>

\* Create or Update fails for another reason.
SyncNodeFails ==
    /\ sync.pc = "write"
    /\ ~ sync.copy.exists \/ UpdateRequired
    /\ Trouble
    /\ Requeue
    /\ UNCHANGED <<free, lvmnode, cache, startVars>>

-----------------------------------------------------------------------------
(***************************************************************************)
(* Administrators.                                                         *)
(***************************************************************************)
\* A group grows, shrinks, or is used by something else.
ChangeFree ==
    /\ Trouble
    /\ \E g \in Groups, x \in 0 .. Capacity :
          /\ x # free[g]
          /\ free' = [free EXCEPT ![g] = x]
    /\ UNCHANGED <<lvmnode, agentVars, startVars>>

\* The LVMNode is deleted, or its owner references are edited.
EditLVMNode ==
    /\ Trouble
    /\ lvmnode[This].exists
    /\ \E new \in {NoReport,
                   [lvmnode[This] EXCEPT !.owner = "none"],
                   [lvmnode[This] EXCEPT !.owner = "notController"]} :
          /\ new # lvmnode[This]
          /\ lvmnode' = [lvmnode EXCEPT ![This] = new]
    /\ Outdated
    /\ UNCHANGED <<free, queued, startVars>>

AgentNext ==
    \/ NewNode
    \/ \E c \in Controllers : Lock(c) \/ Build(c)
    \/ Restart
    \/ Deliver
    \/ Poll
    \/ Take
    \/ ListLVMVolumeGroup
    \/ ListFaulty
    \/ SyncNode
    \/ SyncNodeFails
    \/ ChangeFree
    \/ EditLVMNode

\* Go runs every goroutine, the timer fires and watches deliver.
AgentFairness ==
    /\ WF_inventoryVars(NewNode)
    /\ \A c \in Controllers : WF_inventoryVars(Lock(c)) /\ WF_inventoryVars(Build(c))
    /\ WF_inventoryVars(Deliver)
    /\ WF_inventoryVars(Poll)
    /\ WF_inventoryVars(Take)
    /\ WF_inventoryVars(ListLVMVolumeGroup)
    /\ WF_inventoryVars(SyncNode)
=============================================================================
