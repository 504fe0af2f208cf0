------------------------------ MODULE Placement ------------------------------
(***************************************************************************)
(* Where volumes go: CreateVolume lists resources, lets the scheduler pick *)
(* a node and creates the LVMVolume; the node's agent picks the volume     *)
(* group.  Composed with Inventory, whose reports the choice is made from. *)
(*                                                                         *)
(* VolumeLifecycle has the steps between LVMVolume and agent one by one;   *)
(* here an agent provisions, or fails and is cleaned up after, in a step.  *)
(***************************************************************************)
EXTENDS Inventory

CONSTANTS
    Volumes,    \* names of requested volumes
    Placed,     \* LVMVolumes that are there already
    Requests,   \* what every one may ask for: [size, segment, caps]
    Classes,    \* storage classes: <<parameters, absentFirst>>
    PoolMeta    \* what LVM takes for the metadata of a new thin pool

\* The sizes that leave room for rounding.
Sizes == 1 .. MaxInt - 2 * Gi

\* The volumes that are there have their groups, requested sizes can be
\* rounded, and the slack is for more than the metadata.
ASSUME PlacementAssumption ==
    /\ PoolMeta \in 1 .. PoolSlack
    /\ NoGroup \notin Groups
    /\ \A v \in Placed : v.node \in Nodes /\ v.group \in Groups
    /\ \A v \in Volumes : \A request \in Requests[v] : request.size \in Sizes

VARIABLES
    class,      \* the parameters of all requests: [schd, pattern, thin]
    absentFirst,\* the library prefers nodes without a weight
    vols,       \* the LVMVolumes: [name, node, group, cap]
    pools,      \* the groups with a thin pool, of every node
    calls       \* CreateVolume calls: [pc, cap, segment, nmap, undisturbed]

vars == <<free, lvmnode, cache, queued, sync, ctl, lock, trouble,
          class, absentFirst, vols, pools, calls>>
classVars == <<class, absentFirst>>

Segments == {Zone[n] : n \in Nodes} \cup {NoSegment}

NoCall == [pc |-> "idle", cap |-> 0, segment |-> NoSegment, nmap |-> <<>>,
           undisturbed |-> FALSE]

\* The parameters of a storage class, m being a function from their names:
\* volgroup goes before vgpattern, and no pattern matches everything.
NewVolumeParams(m) ==
    LET Param(key, default) == IF key \in DOMAIN m THEN m[key] ELSE default IN
    [schd    |-> Param("scheduler", "SpaceWeighted"),
     pattern |-> IF "volgroup" \in DOMAIN m THEN {m["volgroup"]}
                 ELSE Param("vgpattern", Groups \cup {NoGroup}),
     thin    |-> Param("thinprovision", "no") = "yes"]

\* validateVolumeCreateReq: there are capabilities, each for one writer, or
\* for nobody in particular, and for a device or a filesystem.
validateVolumeCreateReq(request) ==
    /\ request.caps # {}
    /\ \A c \in request.caps : /\ c.access \in {"SINGLE_NODE_WRITER", "unset"}
                               /\ c.type \in {"block", "mount"}

Init ==
    /\ InventoryInit
    /\ \E c \in Classes : class = NewVolumeParams(c[1]) /\ absentFirst = c[2]
    /\ vols = Placed
    /\ pools = [n \in Nodes |-> {}]
    /\ calls = [v \in Volumes |-> NoCall]

-----------------------------------------------------------------------------
(***************************************************************************)
(* What is true of the nodes, and when the reports agree with it.          *)
(***************************************************************************)
FreeOf(n) == IF n = This THEN free ELSE lvmnode[n].groups

ReportsTrue == lvmnode[This].exists /\ lvmnode[This].groups = free

NonePending == \A v \in vols : v.group # NoGroup

\* Calls other than v's must expect something else than they listed.
Disturb(v, record) ==
    calls' = [w \in Volumes |-> IF w = v THEN record
                                ELSE [calls[w] EXCEPT !.undisturbed = FALSE]]

-----------------------------------------------------------------------------
(***************************************************************************)
(* CreateVolume.                                                           *)
(***************************************************************************)
\* The request arrives and getNodeMap lists the resources.
GetNodeMap(v) ==
    /\ calls[v].pc = "idle"
    /\ \E request \in Requests[v] :
       /\ validateVolumeCreateReq(request)
       /\ calls' = [calls EXCEPT ![v] =
                        [pc |-> "mapped",
                         cap |-> getRoundedCapacity(request.size),
                         segment |-> request.segment,
                         nmap |-> getNodeMap(class.schd, vols, lvmnode, class.pattern),
                         undisturbed |-> ReportsTrue /\ NonePending]]
    /\ UNCHANGED <<inventoryVars, classVars, vols, pools>>

\* The scheduler's first choice becomes the owner of a Pending volume.
CreateLVMVolume(v) ==
    /\ calls[v].pc = "mapped"
    /\ \E owner \in Scheduler(calls[v].nmap,
                              filterNodesByTopology(calls[v].segment),
                              absentFirst) :
          vols' = vols \cup {[name |-> v, node |-> owner, group |-> NoGroup,
                              cap |-> calls[v].cap]}
    /\ Disturb(v, [calls[v] EXCEPT !.pc = "wait", !.nmap = <<>>])
    /\ UNCHANGED <<inventoryVars, classVars, pools>>

-----------------------------------------------------------------------------
(***************************************************************************)
(* The agent of the owner.                                                 *)
(***************************************************************************)
\* What lvcreate takes from group g of n: the volume, a new thin pool with its
\* metadata, or nothing when the pool exists.
Taken(n, g, cap) ==
    IF ~ class.thin THEN cap
    ELSE IF g \in pools[n] THEN 0
    ELSE getThinPoolSize(FreeOf(n)[g], cap) + PoolMeta

\* lvcreate makes no empty pool, and none that fills its group: "thinpool size
\* can't be equal or greater than actual volumegroup size".
LVCreate(n, g, cap) ==
    /\ Taken(n, g, cap) <= FreeOf(n)[g]
    /\ class.thin /\ g \notin pools[n] => Taken(n, g, cap) > PoolMeta

\* The groups to try.  Thin volumes may go anywhere.
getVgPriorityList(n, cap) ==
    {g \in Groups \cap class.pattern : class.thin \/ FreeOf(n)[g] >= cap}

\* The groups in which lvcreate succeeds, and of them the fullest.
Usable(vol) ==
    {g \in getVgPriorityList(vol.node, vol.cap) : LVCreate(vol.node, g, vol.cap)}

\* Wrong Best: the fullest group is taken without a look at its space.
BestUnchecked(vol) ==
    {g \in Groups \cap class.pattern : \A h \in Groups \cap class.pattern :
        FreeOf(vol.node)[g] <= FreeOf(vol.node)[h]}

Best(vol) ==
    {g \in Usable(vol) : \A h \in Usable(vol) :
        FreeOf(vol.node)[g] <= FreeOf(vol.node)[h]}

\* The agent of This works once its volume controller runs.
Served(vol) == vol.node = This => ctl[VolCtl] = "running"

\* syncVol provisions the volume; the call is answered.
Provision(v) ==
    \E vol \in vols :
       /\ vol.name = v
       /\ vol.group = NoGroup
       /\ Served(vol)
       /\ \E g \in Best(vol) :
             LET left == FreeOf(vol.node)[g] - Taken(vol.node, g, vol.cap) IN
             /\ vols' = (vols \ {vol}) \cup {[vol EXCEPT !.group = g]}
             /\ IF vol.node = This
                THEN /\ free' = [free EXCEPT ![g] = left]
                     /\ UNCHANGED lvmnode
                ELSE /\ lvmnode' = [lvmnode EXCEPT ![vol.node].groups[g] = left]
                     /\ UNCHANGED free
             /\ pools' = [pools EXCEPT ![vol.node] =
                             IF class.thin THEN @ \cup {g} ELSE @]
       /\ Disturb(v, [NoCall EXCEPT !.pc = "done"])
       /\ UNCHANGED <<agentVars, startVars, trouble, classVars>>

\* No group will do: the volume fails, waitForLVMVolume deletes it and the
\* request is refused; it comes again.
Refuse(v) ==
    \E vol \in vols :
       /\ vol.name = v
       /\ vol.group = NoGroup
       /\ Served(vol)
       /\ Usable(vol) = {}
       /\ vols' = vols \ {vol}
       /\ calls' = [calls EXCEPT ![v] = NoCall]
       /\ UNCHANGED <<inventoryVars, classVars, pools>>

-----------------------------------------------------------------------------
\* The agent moves.  A change of the free space disturbs every call.
Agent ==
    /\ AgentNext
    /\ calls' = [v \in Volumes |->
          [calls[v] EXCEPT !.undisturbed = @ /\ free' = free]]
    /\ UNCHANGED <<classVars, vols, pools>>

Next ==
    \/ Agent
    \/ \E v \in Volumes :
          GetNodeMap(v) \/ CreateLVMVolume(v) \/ Provision(v) \/ Refuse(v)

Spec == Init /\ [][Next]_vars

FairSpec == Spec /\ AgentFairness
-----------------------------------------------------------------------------
Report == [exists : BOOLEAN, groups : {<<>>} \cup [Groups -> 0 .. Capacity],
           owner : {"none", "ours", "notController"}]

\* Every resource, cache and handler record has its type; free space stays
\* between nothing and the size of the group.
PlacementTypeOK ==
    /\ free \in [Groups -> 0 .. Capacity]
    /\ lvmnode \in [Nodes -> Report]
    /\ cache \in [copy : Report, fresh : BOOLEAN, synced : BOOLEAN]
    /\ sync.pc \in {"idle", "list", "write"}
    /\ sync.copy \in Report
    /\ ctl \in [Controllers -> {"off", "start", "building", "running"}]
    /\ lock \in Controllers \cup {NoOne}
    /\ \A v \in vols : /\ v.node \in Nodes
                       /\ v.group \in Groups \cup {NoGroup}
    /\ \A v \in Volumes : calls[v].pc \in {"idle", "mapped", "wait", "done"}

\* Only one controller registers its types at a time: AddToScheme "causes
\* panic with error saying concurrent map access" (lvmnode/start.go).
OneBuilds ==
    \A c, d \in Controllers :
        ctl[c] = "building" /\ ctl[d] = "building" => c = d

\* Once the process stops being restarted all its controllers run: no one
\* is left waiting for the lock that Start takes and releases by hand.
AllControllersRun == <>[](\A c \in Controllers : ctl[c] = "running")

\* The LVMNode ends up telling the truth, whatever was deleted, edited,
\* refused as a conflict or misread on the way: it exists, has the agent's
\* node as its owner, and shows the free space of every volume group.
ReportsConverge == <>[](ReportsTrue /\ lvmnode[This].owner = "ours")

\* The algorithm is SpaceWeighted, which any other name stands for, too.
BySpace == class.schd \notin {"VolumeWeighted", "CapacityWeighted"}

\* The largest request that is not rounded to more than cap.
Requestable(cap) ==
    IF cap >= Gi THEN (cap \div Gi) * Gi ELSE (cap \div Mi) * Mi

\* What GetCapacity answers says which requests can be provisioned: those of
\* the answer's whole Gi, or Mi below one Gi, since CreateVolume rounds a
\* request up before anyone compares it with free space.  When the reports are
\* true such a request fits the node the SpaceWeighted scheduler picks, and a
\* larger one fits no node of the topology, although it may be within the
\* answer.
CapacityIsPlaceable ==
    ReportsTrue /\ BySpace /\ ~ class.thin =>
        \A segment \in Segments :
            LET nodes == filterNodesByTopology(segment)
                cap == GetCapacity(lvmnode, nodes, class.pattern)
                nmap == getSpaceWeightedMap(lvmnode, class.pattern)
                Fits(n, size) ==
                    Usable([node |-> n, cap |-> getRoundedCapacity(size)]) # {}
            IN  \A size \in Sizes :
                    IF size <= Requestable(cap)
                    THEN \A n \in Scheduler(nmap, nodes, FALSE) : Fits(n, size)
                    ELSE \A n \in nodes : ~ Fits(n, size)

\* A volume the SpaceWeighted scheduler placed is refused only for a reason:
\* when the reports it listed were true and nothing moved since, no node of
\* the topology has a group for it.  For a thin volume without a pool, that is
\* a group which holds it with the metadata of its pool; and, unless some
\* group holds the volume but not the metadata, a group beyond the slack.  In
\* that case getThinPoolSize subtracts nothing and lvcreate fails, although a
\* smaller group might do.
RefusedForAReason ==
    [][\A v \in Volumes :
         /\ calls[v].pc = "wait" /\ calls'[v].pc = "idle"
         /\ calls[v].undisturbed
         /\ BySpace /\ ~ absentFirst
         => LET Below(size) ==
                  \A n \in filterNodesByTopology(calls[v].segment),
                     g \in Groups \cap class.pattern : FreeOf(n)[g] < size
            IN  IF class.thin
                THEN /\ Below(calls[v].cap + PoolMeta)
                     /\ Below(calls[v].cap) => Below(PoolSlack + 1)
                ELSE Below(calls[v].cap)]_vars

\* The load of a node, as each algorithm's comment defines it: the number or
\* the capacity of the volumes provisioned from the groups that are asked for,
\* or about to be.
Load(n) ==
    LET here == {v \in vols : /\ v.node = n
                              /\ v.group \in class.pattern \cup {NoGroup}} IN
    IF class.schd = "VolumeWeighted" THEN Cardinality(here)
    ELSE MapThenSumSet(LAMBDA v : v.cap, here)

BestFree(n) == Max({0} \cup {FreeOf(n)[g] : g \in Groups \cap class.pattern})

\* The owner of a new volume is a least loaded one of the nodes that have
\* volumes, or has the most free space of those that have any, unless the
\* listing was disturbed.  Pending volumes have no volGroup and weigh
\* nothing, which is why they disturb it.  Capacities are added as int64, so
\* their sums must be in its range.
LeastLoaded ==
    [][\A vol \in vols' \ vols :
         (vol.group = NoGroup /\ calls[vol.name].undisturbed) =>
            LET nodes == filterNodesByTopology(calls[vol.name].segment) IN
            IF BySpace
            THEN \/ absentFirst /\ BestFree(vol.node) = 0
                 \/ \A n \in nodes : BestFree(n) <= BestFree(vol.node)
            ELSE (\A n \in nodes : Load(n) \in 0 .. MaxInt)
                 => \A n \in nodes : Load(n) > 0 => Load(vol.node) <= Load(n)]_vars
=============================================================================
