# A TLA+ verification of LVM LocalPV

LVM LocalPV is a CSI driver that provisions Kubernetes volumes as LVM logical
volumes on the node that uses them. Its parts do not call each other: they
meet in custom resources of the Kubernetes API server and converge on what
these say. What can go wrong lies between the parts - overlapping requests,
stale caches, retries, crashes - and that is what is modelled here.

## The system

| Part | Source | State | Operations |
|---|---|---|---|
| CSI controller plugin | `pkg/driver/controller.go`, `params.go`, `schd_helper.go` | none but the requests in progress | CreateVolume, DeleteVolume, ControllerExpandVolume, CreateSnapshot, DeleteSnapshot, GetCapacity; leak protection callback |
| LVMVolume, LVMSnapshot, LVMNode resources and clients | `pkg/apis`, `pkg/builder`, `pkg/generated` | the objects, with resourceVersion, finalizers, deletion timestamp | Create, Get, List, Update, Delete |
| Volume controller of the agent | `pkg/mgmt/volume`, `pkg/lvm/volume.go` | informer cache, workqueue, workers | addVol, updateVol, deleteVol, syncVol |
| Snapshot controller of the agent | `pkg/mgmt/snapshot` | same | addSnap, updateSnap, deleteSnap, syncSnap |
| Node controller of the agent | `pkg/mgmt/lvmnode` | same, and a poll timer | syncNode |
| LVM commands | `pkg/lvm/lvm_util.go` | the logical volumes of the node | CreateVolume, DestroyVolume, ResizeLVMVolume, CreateSnapshot, DestroySnapshot, reports |
| CSI node plugin | `pkg/driver/agent.go`, `pkg/lvm/mount.go` | the mounts of the node | NodePublishVolume, NodeUnpublishVolume, NodeExpandVolume |
| IO limits | `pkg/lvm/iolimiter.go` | rates per volume group | SetIORateLimits, getRatePerGB |
| Collectors, gRPC server, identity, response builders | `pkg/collector`, `pkg/driver/grpc.go`, ... | none | read-only or plumbing |

Concurrency: every gRPC request is a goroutine and none takes a lock; every
agent runs two workers per controller, of which at most one has a given key;
informers deliver versions of a resource in order but late, and skip some when
a watch breaks. An update is refused unless it is made from the last version;
a delete is by name only. Deletes are in the foreground: they mark the
resource, and Kubernetes' garbage collector removes it some time later unless
it has the driver's finalizer, which only the agent takes off.

`PROJECT.json` lists all components, also those left out, and the hazards with
the lines where they bite.

## Modules

Four groups, each with one specification at its end that TLC runs:

    LVMVolumeCR          the LVMVolume resource and the API server
      VolumeController   CreateVolume and DeleteVolume
      VolumeAgent        the volume controller of every node, and LVM
        VolumeLifecycle  both together; properties, fairness
          VolumeInvariant         the inductive invariants
            MCVolumeLifecycle     the instances for TLC
            Volume*_proofs        the proofs
    VolumeContract       what is promised to whoever watches the resource

    LVMSnapshotCR        the LVMSnapshot resource
      SnapshotController CreateSnapshot, DeleteSnapshot, and DeleteVolume again
      SnapshotAgent      the snapshot controller of one node, and LVM
        SnapshotLifecycle         both together; properties, fairness
          SnapshotInvariant       the inductive invariant
            MCSnapshotLifecycle   the instance for TLC
            Snapshot*_proofs      the proofs
    SnapshotContract     what is promised about a snapshot

    Sizing               sizes: rounding, snapshots, thin pools, IO limits
      NodePublish        publish and unpublish, IO limits
        VolumeExpansion  ControllerExpandVolume, NodeExpandVolume, snapshots
          NodeService    all of it with the volume controller of the node
            MCNodeService
            NodeCapacity_proofs, NodeService_proofs
      Scheduling         node weights and GetCapacity
        Inventory        start of the agent, the LVMNode controller
          Placement      CreateVolume from request to volume group
            MCPlacement
            Placement_proofs

**LVMVolumeCR.** `crs[v]` is the sequence of all versions the name `v` has
had. Its indices are the resourceVersions, its last element is what a Get
returns, and deleting and re-creating a name continues the same sequence with
a new `uid`. A removed object leaves one last version with `gone` set, which
is what a delete event carries. `Updated` and `Deleted` are the API server's
treatment of finalizers; an update that changes nothing makes no version.
`status.error` is not kept: it is set whenever the state is Failed.
Nor are `spec.shared`, `spec.thinProvision` and `spec.vgPattern`: they are
never changed and the actions that depend on them choose freely instead.

**VolumeController.** One record per request in progress, whose `pc` is the
API call the handler will make next. The polling loops are the one poll that
ends them. `Abort` covers an expired deadline, an API error, a scheduler that
finds no node and a restart of the pod: each ends the handler and leaves the
resource as it is. The scheduler's choice is any node; Placement models it.
The callback of the leak protection controller is `deleteVolume` itself, so it
is a `DeleteVolume` request here. The request for snapshots of the volume is
in SnapshotController; without it more deletes are possible, not fewer.

**VolumeAgent.** An informer cache is a position `pos[n][v]` in the history;
`Deliver` moves it by one version and calls the handler the source registers
for the change it sees, `Relist` moves it to the end at once. `Resync` is the
informer's five minute resync. A worker's copy is the version it was taken
from; `sync[n][v]` holds its number, where in `syncVol` the worker is, and
which volume groups its loop has still to try. `queue` and `delayed` are the
two places where a workqueue keeps keys. `lvs[n]` are the logical volumes of
the node. lvcreate may always fail (space, or anything else), and so may,
within the bound on faults, listing volume groups (`"lvm"`), wipefs and
lvremove (`"lvm"`), the stat of an existing device (`"stat"`) and any update
(`"api"`, stored or not). `"crash"` kills the agent and lets it come up with a
fresh list, `"relist"` breaks a watch. The free space and the pattern decide
which volume groups `getVgPriorityList` returns and in which order: any subset
in any order.

**VolumeLifecycle** composes the two: controller steps leave the agents'
variables alone and the other way round; they share `crs`.

**VolumeContract** is the abstract specification: one record per name that
goes from absent to pending, chooses volume groups, becomes ready or failed,
is marked for deletion and is removed. `VolumeLifecycle` implements it under
the mapping `Lives`, which forgets everything but the last version of each
resource. Capacity is settled at creation there; expansion is in NodeService.

**LVMSnapshotCR, SnapshotController, SnapshotAgent** are built like their
counterparts for volumes: a history per name, one step per API call of a
handler, and an agent with cache position, workqueue and workers. A volume is
reduced to what VolumeContract promises of a Ready one (it is marked once and
removed once), and the agent's volume controller to the removal of its logical
volume. `thick` says whether snapshots have a size of their own: lvremove of an
origin takes thick snapshots with it and leaves thin ones alone. A second
lvcreate of the same snapshot fails, since, unlike for volumes, `CreateSnapshot`
does not look whether it exists. Faults are as in VolumeAgent, plus `"lvs"`,
the listing in `isSnapshotExists`.

**SnapshotContract** is the abstract specification of one snapshot's life, and
`SnapLives` the mapping under which SnapshotLifecycle implements it.

**Sizing** has the arithmetic as operators: `getRoundedCapacity`,
`getSnapSize` with `NewSnapshotParams`, `getThinPoolSize`, and the capacity and
product in `setIOLimits`. Integer operations wrap at `IntMod`, the number of
values of an int64; what the source computes with floats is computed exactly.
`Mi`, `Gi` and `IntMod` are constants, which the runs scale down and the proofs
leave open.

**NodePublish** is one volume on one node: its record, its logical volume and
filesystem (sizes, 0 for none), the mounts per target path, and a record per
`NodePublishVolume` handler between its Get, `verifyMountRequest` and the
mount. A block volume is bound without verification. Rates come from
`extractRateValues` and `getRatePerGB`; where the source iterates over a map,
the model allows every order. `exportedLimits` is what `lvCollector` shows.

**VolumeExpansion** adds the claim that asks for more, the orchestrator that
calls ControllerExpandVolume and, when the answer says so, NodeExpandVolume,
both handlers step by step, and a snapshot that comes and goes.

**NodeService** composes these with the volume controller of the same node.
`gaps` is a history variable: the kinds of overlap that occurred which the code
does not guard against - `"overlap"` (two publishes between check and mount),
`"late"` (a publish kubelet gave up on that mounts after the unpublish),
`"stacked"` (a block volume bound twice to one path), `"abandoned"` and
`"regrown"` (see `DoneMeansGrown`). Properties name the gaps that break them,
so that they say both what holds and what exactly does not.

**Scheduling** has `getVolumeWeightedMap`, `getCapacityWeightedMap`,
`getSpaceWeightedMap`, `getNodeMap`, `filterNodesByTopology` and `GetCapacity`.
The library that picks the lightest node is external: `Scheduler` is a node
with the least weight. What it does with nodes that are not in the map cannot
be seen in this repository; `absentFirst` covers both possibilities.

**Inventory** is the agent process: three controllers that start under
`ControllerMutex`, and the LVMNode controller with its informer, poll timer,
worker and the parsing of `vgs`. A field that does not parse may or may not
make an error, depending on the order of a map.

**Placement** lets CreateVolume requests use the LVMNode resources that
Inventory maintains: validation, parameters, node map, scheduler, and
`getVgPriorityList` with lvcreate on the chosen node. Only the node `This` has
an agent in the model; for the other nodes the LVMNode resource is the truth.
`undisturbed` marks a call whose listing was true and is so still.

## Properties

Volumes (VolumeLifecycle, VolumeInvariant):

* `TypeOK` - types of the variables.
* `ReadyHasLV` - a Ready volume that nobody asked to delete has its logical
  volume, whatever stale workers on any node do.
* `OwnerProvisions` - as long as a name is not moved between nodes, the node
  that made it Ready is its owner.
* `RemovedHasNoLV` - when the resource of a volume that was Ready is gone, its
  logical volume is gone too and nobody makes it anew.
* `NoStrayLV` - a Ready volume has no second logical volume in another group,
  unless API calls or stats of devices fail.
* `KeepsContract` - the refinement.
* `Inv` - the inductive invariant.
* `PendingIsProcessed`, `DeletionCompletes` - progress of the agents.

`OwnerProvisions` and `RemovedHasNoLV` are about names that stay on one node:
without that they fail in the way run `wrong_node` shows, since a logical
volume made by a node that is not the owner is destroyed by nobody.
`NoStrayLV` speaks of the first life only: what a volume that was deleted
while Pending leaves behind (run `leak`) would otherwise count.

Snapshots (SnapshotLifecycle, SnapshotInvariant):

* `SnapTypeOK` - types of the variables.
* `ReadySnapHasLV` - a Ready snapshot has its logical volume. The exception is
  a DeleteVolume that listed no snapshots before this one was created: its
  lvremove takes a thick snapshot along.
* `RemovedSnapHasNoLV` - a snapshot that was Ready is removed after its logical
  volume. An `lvs` that fails breaks this: `DestroySnapshot` tests `!ok` before
  `err` and takes the failure for absence.
* `DeleteSparesSnapshots` - DeleteVolume never marks a volume with a Ready
  snapshot that existed when the request came.
* `ReadyAnswerHasLV` - ReadyToUse is answered only for a snapshot that was made.
* `KeepsSnapContract` - the refinement.
* `SnapInv` - the inductive invariant.
* `PendingSnapBecomesReady` - a Pending snapshot becomes Ready or is deleted,
  unless its volume is gone, or its logical volume exists and a crash or an
  error of the API has occurred: when that comes between lvcreate and the write
  of Ready, it is never recovered from.
* `SnapDeletionCompletes` - a marked snapshot goes away.

Node service (NodeService):

* `NodeTypeOK` - types of the variables.
* `WallOfNorth` - an unshared filesystem volume is mounted at one path at most;
  broken by `"overlap"`.
* `MountedHasLV` - what is mounted exists, and its resource too, so that
  NodeUnpublishVolume can always succeed.
* `NoForgottenMount` - only paths in use are mounted; broken by `"late"` and
  `"stacked"`.
* `LVWithinCapacity` - filesystem, logical volume and capacity in this order.
* `SnapWithinOrigin` - a snapshot is not larger than its origin.
* `LimitsWithinCapacity` - no pod has a limit above what the rates grant for the
  present capacity.
* `ExportedLimitTrue` - the metrics show the limits that are set, from one Gi
  on and before any expansion. (Below one Gi `setIOLimits` rounds up and the
  collector down to 0, which its description calls "without limit".)
* `ExpandAnswerTrue` - NodeExpandVolume succeeds only with volume and
  filesystem at the requested size.
* `DoneMeansGrown` - when the controller says that nothing is left to be done,
  the logical volume has its size; broken by `"abandoned"` and `"regrown"`: the
  early return for a volume that is large enough asks for no node expansion.
* `ExpansionCompletes`, `DestroyCompletes` - progress.

Placement (Placement):

* `PlacementTypeOK` - types of the variables, and the free space of a group
  stays between nothing and its size.
* `OneBuilds` - one controller at a time runs its constructor.
* `AllControllersRun` - all controllers come to run.
* `ReportsConverge` - the LVMNode resource ends up true.
* `CapacityIsPlaceable` - which requests the answer of GetCapacity stands for.
  CreateVolume rounds a request up (`getRoundedCapacity`) before anyone compares
  it with free space, so the answer itself may not fit: 3.5 Gi of free space is
  the answer, and a request for 3.5 Gi becomes one for 4 Gi. A request within
  the whole Gi of the answer, or its whole Mi when it is below one Gi, fits the
  node the SpaceWeighted scheduler picks; a larger one fits no node.
* `RefusedForAReason` - an undisturbed SpaceWeighted request is refused only if
  no node has room. For a thin volume without a pool, room is for the pool and
  its metadata, or, in a group smaller than the volume, for a pool made smaller
  by the slack of `getThinPoolSize`. A group that holds the volume and not the
  metadata is neither: nothing is subtracted, lvcreate fails, and a smaller
  group on another node, which would have served, is not tried.
* `LeastLoaded` - an undisturbed request goes to a node with the most free
  space or, by the weighted algorithms, with the least load of those that have
  a load. Capacities are added as int64, so their sums must be in range.

SpaceWeighted is every algorithm name but VolumeWeighted and CapacityWeighted
(`BySpace`), as in `getNodeMap`. The load of a node is that of the groups the
storage class asks for, and of volumes that have no group yet.

## Runs

Sets of nodes, volume groups and requests are symmetric in the volume runs
without liveness; the other runs use no symmetry. Deadlock is
checked everywhere but in `node_service`, where a volume that was deleted is
the end.

| Run | Instance | Shows |
|---|---|---|
| `safety` | 1 node, 1 group, 2 requests, 2 lives, 1 fault of any kind | TypeOK, ReadyHasLV, RemovedHasNoLV; 673 679 states |
| `two_nodes` | 2 nodes, 1 group, 1 request, 2 lives, no faults | Inv, ReadyHasLV, OwnerProvisions, KeepsContract; 207 613 states |
| `two_vgs` | 1 node, 2 groups, 2 sizes, 1 life, 2 faults other than API errors and failing stats | NoStrayLV, KeepsContract; 142 586 states |
| `liveness` | 1 node, 2 groups, 1 life, 1 fault other than a broken watch | PendingIsProcessed, DeletionCompletes; 47 125 states |
| `snapshots` | 1 snapshot name, 2 volumes, 1 of them local, 1 CreateSnapshot and 1 DeleteVolume at a time, DeleteSnapshot at any time, 1 life, 1 fault of any kind, thick and thin | the snapshot properties; 199 958 states |
| `node_service` | 2 paths, 3 modes and a foreign volume, 3 sizes, 2 expand requests, 5 snapshot classes, 1 kind of gap, 1 failing expansion | the node service properties; 535 325 states |
| `placement` | 2 nodes in 2 zones, 2 groups, 2 controllers, 2 volumes beside 3 placed ones, 5 storage classes, 1 restart, failure or edit by an administrator | the placement properties; 233 311 states |

*Why these bounds.* One volume name is enough for the volume runs: names share
only the limit on workers, which delays but does not stop anyone. Two lives of
a name are what it takes to confuse an old one with a new one, two requests
what it takes for one to act on what the other has changed. `two_nodes` has the
state constraint `MovesAndStays`: the second life is on the other node and is
not deleted again, which is where two agents can get in each other's way. A
second life on the first node, and its deletion, are covered by `safety`; the
deletion of a second life that moved is in no run, and the proof of `Inv`,
which has no such constraint, covers it. `RemovedHasNoLV` is checked by `safety`
only, because what is left of it under this constraint is a first life. In `snapshots` two
volumes let a name be requested for the wrong one. In `node_service` two paths
give every overlap of publishes, three sizes an expansion on top of another
one; with Mi = 1, Gi = 2 and 6 bit integers the sizes lie at, between and above
the rounding boundaries. One kind of gap per behaviour is allowed, any number
of times. In `placement` the groups hold 3 units and a Gi is 2, so that
the answer of GetCapacity can be between two whole Gi, one request is rounded to
more than a group, and the second volume meets a group that is full or too
small. The slack and the metadata of a thin pool are 1 unit each: a group that
is as large as the volume, one within the slack and one that takes a smaller
pool all occur. Two of the agent's three controllers are enough to contend
for the lock, and the third takes no part in placement; `Trouble` counts restarts, misread listings, failed writes
and edits by administrators together.

Five runs show statements of the repository that the code does not keep:

* `wrong_node` (`ProvisionedOnOwner`) - `syncVol` does not look at the owner.
  A volume of n1 is deleted while its key is in the workqueue of n1, waiting
  for a worker or for a retry; the name is created again on n2; by the time n1
  gets to the key its cache holds the volume of n2, and n1 provisions it.
* `reschedule` (`RescheduleDeletesFailed`) - two CreateVolume requests see the
  volume Failed; one deletes it, provisions it again and gets it Ready; then
  the other one's delete, which is by name, hits the new volume.
* `stray_lv` (`NoStrayLV`) - lvcreate fails in g1 and succeeds in g2; the
  write of Ready is stored, but answered with an error. The retry works from a
  cache that still has the version with g1, tries that group first and
  succeeds now. Its own update is refused, the volume is Ready in g2, and the
  logical volume in g1 stays.
* `leak` (`NothingLeaked`) - a Pending volume does not have the driver's
  finalizer, so the garbage collector finishes its deletion while the worker is
  about to run lvcreate.
* `missed_event` (`PendingIsProcessed`) - a delete and a create of one name
  behind a broken watch arrive as one update, which `updateVol` ignores.

## Fairness

Volumes and snapshots: weak fairness of `Deliver`, `Resync`, `AddAfterDelay`,
`StartSync`, the worker (`SyncVol`, `SyncSnap`) and the garbage collector, for
each node and name: the watch delivers, timers fire, worker goroutines are
scheduled, and Kubernetes finishes what it has marked. Nothing is assumed of
requests, which may stall or never come, nor of which alternative a step takes:
an lvcreate that always fails is a fair behaviour (and ends in Failed). Faults
are bounded, so an lvremove that fails forever is not: no code can make up for
that.

Node service: weak fairness of `NodeExpandVolume` (kubelet asks again until the
volume is expanded), of the steps of that handler, and of the destruction of
the volume (its controller retries). Nothing is assumed of publishes, of claims
or of the controller's side of an expansion.

Placement: weak fairness of the goroutines of the agent, its poll timer and its
watch (`AgentFairness`). Requests may stall.

## Proofs

### Volumes

For every set of nodes, names, volume groups, sizes and requests, and every
bound on lives, workers and faults, TLAPS proves (`VolumeLifecycle_proofs`)

* `Invariance` - `Spec => []Inv`;
* `TypeCorrect`, `ReadyHasLVAlways`, `OwnerProvisionsAlways`,
  `RemovedHasNoLVAlways` - the safety properties, from `Inv`;
* `Refinement` - `Spec => KeepsContract`;
* `NoStrayLVAlways` - `Spec => []NoStrayLV`, if neither `"api"` nor `"stat"` is
  a kind of fault.

The only assumption is `CRAssumption`: "no node" is not a node and "no group"
not a group.

`Inv` (module VolumeInvariant) is needed because the properties speak of the
last version while every write is made from an older one. It says

* of histories (`HistoryOK`): each version is well formed - the finalizer is
  there exactly while a Ready volume exists - and a later version of the same
  life keeps owner, deletion mark and, once decided, state, group and node;
* of workers (`WorkerOK`): the copy exists, is of a life that the cache has
  reached, and fits the place in `syncVol`: destroying only what is marked,
  provisioning only what was Pending, going to Ready only with the logical
  volume there, and to the finalizer only with it gone;
* of queues (`ConcernOK`): an agent has work only for names it once owned;
* of Ready volumes (`ReadyOK`): cache and worker of the node that made the
  volume Ready are in that life, so that nothing destroys its logical volume
  before it is marked;
* of removed ones (`RemovedOK`): cache and worker of the owner know that it
  was marked, so that nothing creates the logical volume again.

`NoStrayLVAlways` rests on a second invariant, `StrayInv`, which holds together
with `Inv` when API calls and stats do not fail. In the first life of a name
only its owner has work for it. While the volume is Pending, the name is in at
most one of three places: the owner's workqueue, the delay of a retry, a
worker. The worker has the last version in hand, because without API errors its
updates are stored and a key waits only when the cache has them
(`ProvisionOK`). lvcreate then fails only where no logical volume exists, so
the worker goes to another group only when there is none anywhere. Once the
volume is Ready, nobody has an earlier version in hand (`ProvisionedOK`), and
nothing is created any more. Both hypotheses are needed. With API errors the
property fails as run `stray_lv` shows. With failing stats, `CreateVolume` may
take an existing logical volume for absent, fail in lvcreate and go on to the
next group; TLC finds that behaviour with one failing stat after a crash.

The argument is spread over a chain of modules: `VolumeHistory_proofs` (what
the API server does to a history, which facts are stable when it grows, and
from there the steps of the controller, of the garbage collector and of the
informers), `VolumeWorkers_proofs` (queues and workers, one lemma per step of
`syncVol`) and `VolumeLifecycle_proofs` (crash, induction, theorems,
refinement). Each of them ends with the lemmas that show the same steps to
preserve `StrayInv`.

### Snapshots

For every set of snapshot names, volumes and requests, and every bound on
lives, workers and faults, TLAPS proves (`SnapshotLifecycle_proofs`)

* `SnapInvariance` - `Spec => []SnapInv`;
* `SnapTypeCorrect`, `ReadySnapKeepsLV`, `RemovedSnapLeavesNoLV` - the
  invariants, from `SnapInv`;
* `DeletesSpareSnapshots`, `ReadyAnswersTrue` - the action properties, from
  `SnapInv` before the step;
* `SnapRefinement` - `Spec => KeepsSnapContract`.

The assumptions are `SnapAssumption` (a missing label names no volume) and
`LocalAssumption` (the volumes of the agent's node are volumes). The run
`snapshots` has one life per name; the proofs have any number of them.

`SnapInv` (module SnapshotInvariant) is built like `Inv`: what holds of every
version and of two versions of a life, what a worker's copy is fit for, what
cache and worker know of a snapshot that is Ready or removed. Two things are
particular to snapshots:

* A logical volume carries the name of the snapshot and the volume it was made
  from, and a name may be requested again for another volume. `LVOf` says that
  a Ready snapshot has no logical volume of another origin, and `LVMade` that
  it has its own, or lost it together with its origin.
* DeleteVolume lists snapshots first and marks the volume later. `DeleteOK`
  carries the empty list along: no snapshot that existed when the request came
  is one of this volume. Snapshots keep their volume for life (`Follows`), so a
  later write cannot spoil that.

The argument is in `SnapshotSteps_proofs` (histories, what the steps leave
alone, requests, informer, queue, and the worker's steps that write no
resource) and `SnapshotLifecycle_proofs` (those that do, induction, theorems,
refinement).

### Sizes

`NodeCapacity_proofs`, for all units Mi > 0 with Gi a multiple of Mi and any
even number of integers (`SizingAssumption`), as long as the size leaves room
for rounding:

* `RoundedCapacity` - `getRoundedCapacity` returns a multiple of Mi, above Gi
  one of Gi, that is not below the request and less than one Gi above it;
* `WholeGi` - from one Gi on, counting started Gi (`setIOLimits`) and whole Gi
  (the collector) gives the same number for a rounded capacity;
* `SnapSizeBound` - a snapshot of a rounded volume is not larger than it.

### Node service

For all sets of paths and requests, all sizes that leave room for rounding
(`ExpansionAssumption`), all rates (`PublishAssumption`) and all bounds:

* `CapacityInvariant`, and from it `NodeTypeCorrect`, `LVFitsCapacity` and
  `SnapshotFitsOrigin` (`NodeCapacity_proofs`). `CapacityInv` adds to the
  properties that the capacity is always a rounded one, on which the bound of
  a snapshot rests, that NodeExpandVolume works from a capacity that the
  resource has reached, and that ControllerExpandVolume only writes a capacity
  above the one it read; the API server then sees to it that the capacity
  never shrinks.
* `LimitsStayWithin` and `ExportedLimitHolds` (`NodeCapacity_proofs`), under
  the hypothesis `RatesFit`: the product of a rate and a capacity in Gi fits a
  uint64. The hypothesis is needed. A product that wraps may be smaller for
  the larger of two capacities, and then a limit set before an expansion
  exceeds what is granted after it. Run `node_service` evaluates `RatesFit`
  for its rates and sizes. `LimitsInv` adds that a publish in progress has a
  copy whose capacity is not above that of the resource; `FirstInv`, that
  until the claim grows there is one capacity everywhere, to which `WholeGi`
  applies.
* `MountInvariant`, and from it `MountedOnce`, `MountsHaveLV` and
  `MountsRemembered` (`NodeService_proofs`). In `MountInv` a handler that has
  passed `verifyMountRequest` counts like a mount.
* `ExpandAnswersTrue` - the action property `ExpandAnswerTrue`, from
  `AnswerInvariant`: whoever waits for the node waits for a capacity that is
  stored, and the resize of btrfs follows its lvextend.
* `DoneIsGrown` - the action property `DoneMeansGrown`, from
  `GrownInvariant`: as long as no expansion was abandoned and no claim raised
  while one was in progress, there is one ControllerExpandVolume at a time and the orchestrator
  waits for it; NodeExpandVolume runs only while it is waited for; and unless
  the node is to expand it, a Ready volume has the size in its resource. So
  the early return for a volume that is large enough is right.

### Placement

For all sets of controllers, nodes, zones, volume groups and requests, all
storage classes and any number of restarts, failures and edits, TLAPS proves
(`Placement_proofs`)

* `PlacementInvariant` - `Spec => []PlacementInv`;
* `PlacementTypeCorrect`, `OneControllerBuilds`, `CapacityAnswered` - the
  invariants, from `PlacementInv`;
* `RefusalsJustified`, `OwnersLeastLoaded` - the action properties
  `RefusedForAReason` and `LeastLoaded`, from `PlacementInv` before the step.

The assumptions are `SizingAssumption`, `InventoryAssumption` (the agent's node
is a node, its controllers are controllers, and a group has at least one unit)
and `PlacementAssumption` (volumes that are there from the start are in a group
of a node, requested sizes leave room for rounding, and the 256 Mi that
`getThinPoolSize` subtracts are enough for the metadata of the pool).

`PlacementInv` says

* who holds `ControllerMutex`: exactly the controller that is being built
  (`LockInv`);
* of the other nodes, that they report (`OthersInv`);
* of the handlers, what validation and rounding made of the request
  (`CallInv`);
* of a volume without a group, that a call waits for it and that it is the only
  one of its name (`PendingInv`), so that an agent which provisions or refuses
  a volume answers that call;
* of an undisturbed call (`ListedInv`), that the weights it works from are those
  of the volumes and reports as they are now, that no other call has a volume
  without a group, and that its own volume is on a node the scheduler picks from
  these weights.

`CapacityAnswered` needs one more lemma, `RoundedFits`: what
`getRoundedCapacity` makes of a request is at most a capacity exactly when the
request is at most its whole Gi, or Mi below one Gi.

From `ListedInv` a refusal is seen to be justified: the owner has the most
free space of all nodes asked for, and not enough. For a thin volume that is
one of two cases, the most free space being less than the volume and within the
slack, or enough for the volume and not for the metadata. That the scheduler's choice
has the most space needs the weights to order nodes like their space, which is
what the subtraction from MaxInt64 is for. Maxima over finite sets are reduced
to the existence of least elements. Of sums no more is used than that the node
map and the load add up the same volumes; what a sum over a set computes is
an induction and is not proved.

### Only model-checked

* Liveness (`PendingIsProcessed`, `DeletionCompletes`,
  `PendingSnapBecomesReady`, `SnapDeletionCompletes`, `ExpansionCompletes`,
  `DestroyCompletes`, `AllControllersRun`, `ReportsConverge`), since fairness
  and ENABLED are out of the prover's reach.

Every other property of a passing run is a theorem. `PlacementInv` and
`StrayInv` are no property of a run: TLC has checked them on the instances of
`placement` and `two_vgs` before they were proved.

## Abstractions to keep in mind

* A list from the API server returns the last version. (A list served from a
  lagging API server cache could move an informer back; that is left out.)
* The crash of an agent and its first list are one step: nothing of the agent
  runs in between.
* Logical volumes appear and vanish in one step, when the command succeeds.
* Names are created at most `MaxLives` times in a run; the proofs hold for
  every value.
* The garbage collector takes off its own finalizer also from a resource that
  still has the driver's, which makes one more version. A worker whose update
  is refused for that reason behaves as after an `"api"` fault that stored
  nothing.
* Sizes are scaled: the runs have a Gi of 2 units and integers of 5 or 6 bits.
  Rounding errors of floats (capacities above 2^53) are left out.
* The work of the volume controller in NodeService is what it does when nothing
  fails; VolumeLifecycle has its failures.
* Node and group are settled at once in NodeService and SnapshotLifecycle: one
  volume does not move.
* lvcreate refuses a new thin pool that leaves no room for its metadata, whose
  size is the constant `PoolMeta`: "thinpool size can't be equal or greater than
  actual volumegroup size" (`lvm_util.go:229`).
* GetCapacity reads LVMNode resources from an informer cache of the controller
  plugin, whose lag is not modelled; `CapacityIsPlaceable` is about true reports
  anyway. `filterNodesByTopology` looks at all nodes: the index by label that it
  would use is added to another informer (`controller.go:224` and `855`), which
  changes the cost and not the result.
* A `Start` of the LVMNode controller that returns an error does so with the
  lock held; its caller then ends the process, so that nobody waits for it.
* IO limits that cannot be set are logged and nothing else.
* Rates are pairs of a group and a number: an entry without a colon, which
  `extractRateValues` cannot split, is not an input of the model.
* The leak protection and scheduler libraries are modelled from their use here.

## Not modelled

* gRPC server, identity service, command line and start-up: they forward
  requests and start goroutines.
* Response builders, logging and version: formatting.
* Most generated code (clientsets, informers, listers, deep copies): what it
  does to the state is in the agents; the rest is typing.
* Collectors other than the exported IO limits, NodeGetVolumeStats,
  NodeGetInfo and the capability calls: they read and export, and keep no
  state.
* Argument lists of LVM commands and the parsing of lv and pv reports, which
  only feed metrics: strings in, strings out. Parsing of vgs reports, which
  decides where volumes go, is in Inventory.

No other part of the repository changes state that these properties speak of.
