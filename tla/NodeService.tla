----------------------------- MODULE NodeService -----------------------------
(***************************************************************************)
(* One volume from its provisioning to its deletion as the node plugin     *)
(* sees it: published, unpublished and expanded while the volume           *)
(* controller of the same node creates and destroys its logical volume.    *)
(*                                                                         *)
(* VolumeLifecycle is the detailed model of that controller; here its work *)
(* is the few steps it takes when nothing fails.                           *)
(***************************************************************************)
EXTENDS VolumeExpansion

CONSTANT Kinds  \* the volumes that are looked at: <<here, mode, shared>>

Modes == {"fs", "btrfs", "block"}

ASSUME KindsAssumption == Kinds \subseteq BOOLEAN \X Modes \X BOOLEAN

vars == <<vol, here, mode, shared, lv, fs, mounts, limits, inUse, publishes,
          gaps, want, resize, snapped, expands, nodeExpand, failures>>

Init ==
    /\ ExpandInit
    /\ PublishInit
    /\ vol = [phase |-> "pending", cap |-> getRoundedCapacity(want)]
    /\ \E kind \in Kinds :
          here = kind[1] /\ mode = kind[2] /\ shared = kind[3]
    /\ lv = 0
    /\ fs = 0
    /\ gaps = {}

-----------------------------------------------------------------------------
\* The volume controller of the owner node.

\* CreateVolume, ...
ProvisionLV ==
    /\ vol.phase = "pending"
    /\ here
    /\ lv = 0
    /\ lv' = vol.cap
    /\ UNCHANGED <<vol, here, mode, shared, fs, publishVars, expandVars, gaps>>

\* ... and UpdateVolInfo, which adds the finalizer.
UpdateVolInfo ==
    /\ vol.phase = "pending"
    /\ here => lv > 0
    /\ vol' = [vol EXCEPT !.phase = "ready"]
    /\ UNCHANGED <<here, mode, shared, lv, fs, publishVars, expandVars, gaps>>

\* The orchestrator deletes a volume that it knows to be nowhere in use.
DeleteVolume ==
    /\ vol.phase = "ready"
    /\ inUse = {}
    /\ ~ HasSnapshot
    /\ vol' = [vol EXCEPT !.phase = "deleting"]
    /\ UNCHANGED <<here, mode, shared, lv, fs, publishVars, expandVars, gaps>>

\* removeVolumeFilesystem: wipefs -af does not mind mounts.
RemoveVolumeFilesystem ==
    /\ vol.phase = "deleting"
    /\ fs > 0
    /\ fs' = 0
    /\ UNCHANGED <<vol, here, mode, shared, lv, publishVars, expandVars, gaps>>

\* Wrong DestroyLV: the volume is removed under its mounts.
DestroyLVInUse ==
    /\ vol.phase = "deleting"
    /\ lv > 0
    /\ fs = 0
    /\ lv' = 0
    /\ UNCHANGED <<vol, here, mode, shared, fs, publishVars, expandVars, gaps>>

\* Wrong DestroyLV: it expects a filesystem.
DestroyLVWithFS ==
    /\ vol.phase = "deleting"
    /\ lv > 0
    /\ fs > 0
    /\ Mounted = {}
    /\ lv' = 0
    /\ UNCHANGED <<vol, here, mode, shared, fs, publishVars, expandVars, gaps>>

\* lvremove, which refuses a volume that is in use.
DestroyLV ==
    /\ vol.phase = "deleting"
    /\ lv > 0
    /\ fs = 0
    /\ Mounted = {}
    /\ lv' = 0
    /\ UNCHANGED <<vol, here, mode, shared, fs, publishVars, expandVars, gaps>>

RemoveVolFinalizer ==
    /\ vol.phase = "deleting"
    /\ lv = 0
    /\ vol' = [vol EXCEPT !.phase = "absent"]
    /\ UNCHANGED <<here, mode, shared, lv, fs, publishVars, expandVars, gaps>>

Destroy == RemoveVolumeFilesystem \/ DestroyLV \/ RemoveVolFinalizer

-----------------------------------------------------------------------------
Claim == ClaimNext /\ UNCHANGED <<volumeVars, publishVars>>

Resize(e) ==
    /\ ResizeVolume(e)
    /\ UNCHANGED <<here, mode, shared, lv, fs, publishVars>>

Extend == ResizeNext /\ UNCHANGED <<vol, here, mode, shared, publishVars>>

Next ==
    \/ ProvisionLV
    \/ UpdateVolInfo
    \/ DeleteVolume
    \/ Destroy
    \/ PublishNext /\ UNCHANGED expandVars
    \/ Claim
    \/ \E e \in ExpandCalls : Resize(e)
    \/ Extend

Spec == Init /\ [][Next]_vars

\* Kubelet asks again until a volume is expanded, and the volume controller
\* retries.
Fairness ==
    /\ WF_vars(NodeExpandVolume /\ UNCHANGED <<volumeVars, publishVars>>)
    /\ WF_vars(Extend)
    /\ WF_vars(Destroy)

FairSpec == Spec /\ Fairness

-----------------------------------------------------------------------------
\* Every variable has the type its declaration states.
NodeTypeOK ==
    /\ vol \in VolumeRecord
    /\ here \in BOOLEAN
    /\ mode \in Modes
    /\ shared \in BOOLEAN
    /\ lv \in Nat
    /\ fs \in Nat
    /\ mounts \in [Paths -> 0 .. MaxStack]
    /\ limits \in [Paths -> Nat \cup {NoLimit}]
    /\ inUse \in SUBSET Paths
    /\ publishes \in [Paths -> PublishCall \cup {Idle}]
    /\ gaps \in SUBSET GapKinds
    /\ want \in Sizes
    /\ resize \in {"idle", "controller", "node"}
    /\ snapped \in Nat
    /\ expands \in [ExpandCalls -> ExpandCall \cup {Idle}]
    /\ nodeExpand \in NodeExpandCall \cup {Idle}
    /\ failures \in 0 .. MaxFailures

\* verifyMountRequest, "the famous Wall Of North": a filesystem volume that is
\* not shared is mounted at one path at most.  It is a check before the mount,
\* so two handlers that overlap can both pass it.
WallOfNorth ==
    mode # "block" /\ ~ shared /\ "overlap" \notin gaps
    => \A p, q \in Mounted : p = q

\* What is mounted is there: lvremove spares a device in use, and the resource
\* outlives its logical volume.  So NodeUnpublishVolume, which fails once the
\* resource is gone, never leaves a mount behind.  A filesystem is mounted
\* only after the volume has its finalizer.
MountedHasLV ==
    Mounted # {} => /\ lv > 0
                    /\ vol.phase # "absent"
                    /\ mode # "block" => vol.phase # "pending"

\* A path that kubelet has unpublished, and is not publishing, is not mounted.
\* Two gaps break this: a publish that kubelet gave up on and that mounts
\* after the unpublish, and a block volume bound twice to its path, of which
\* one unpublish takes off one.
NoForgottenMount ==
    gaps \cap {"late", "stacked"} = {} => Mounted \subseteq inUse

\* The resource is updated before the volume: a logical volume is never larger
\* than the capacity that is accounted for it, nor a filesystem than its
\* volume.
LVWithinCapacity ==
    vol.phase # "absent" => fs <= lv /\ lv <= vol.cap

\* A snapshot is never larger than its origin, "will be same or less than
\* source volume" (buildLVMSnapCreateArgs): an absolute size is capped and
\* rounding up does not pass a capacity that was rounded itself.
SnapWithinOrigin == snapped <= vol.cap

\* The IO limits of a pod are never above what the rates grant for the present
\* capacity: the copy of the volume that they were computed from may be stale,
\* but capacity only grows.
LimitsWithinCapacity ==
    \A p \in Paths :
        limits[p] # NoLimit
        => \E rate \in Rates : limits[p] <= IOLimit(rate, vol.cap)

\* The product of a rate and a capacity fits a uint64, as it does for every
\* volume when a rate is below 2^30 for each Gi.
RatesFit ==
    \A rate \in Rates, size \in Sizes :
        rate * CapacityGB(getRoundedCapacity(size)) < IntMod

\* The limit that the metrics of the volume show is the one that its pods have,
\* as long as nobody has asked for a larger volume: an expansion leaves the
\* limits of running pods alone.  It holds from one Gi on, where capacities
\* are multiples of Gi.  Below, setIOLimits counts a started Gi and the
\* collector none, which its description calls "without limit".
ExportedLimitTrue ==
    want = FirstSize /\ lv >= Gi
    => \A p \in Paths : limits[p] # NoLimit => limits[p] \in exportedLimits

\* When NodeExpandVolume succeeds, the volume has at least the requested size
\* and a filesystem fills it.  Steps that failed before do not matter: lvextend
\* -r may be repeated, and otherwise sizes are compared first.
ExpandAnswerTrue ==
    [][nodeExpand # Idle /\ nodeExpand' = Idle /\ resize = "node" /\ resize' = "idle"
       => /\ lv' >= getRoundedCapacity(want)
          /\ mode # "block" => fs' = lv']_vars

\* When the controller plugin answers that nothing is left to be done, the
\* logical volume has the size of the resource.  There are two gaps: a retry
\* of a request whose answer was lost, and a claim that grows again before
\* the node has expanded the volume, are answered by the early return for a
\* volume that is large enough, which does not ask for the node's expansion.
DoneMeansGrown ==
    [][/\ resize = "controller"
       /\ resize' = "idle"
       /\ gaps \cap {"abandoned", "regrown"} = {}
       /\ here
       /\ vol.phase = "ready"
       => lv = vol.cap]_vars

\* An expansion that waits for the node is done as long as a pod uses the
\* volume and it has no snapshot, however often NodeExpandVolume fails.
ExpansionCompletes ==
    resize = "node" ~> \/ resize # "node"
                       \/ HasSnapshot
                       \/ inUse \cap Mounted = {}
                       \/ vol.phase # "ready"

\* A deleted volume goes away, unless a publish that kubelet gave up on has
\* mounted it: lvremove then fails until somebody unmounts it.
DestroyCompletes == vol.phase = "deleting" ~> vol.phase = "absent" \/ Mounted # {}
=============================================================================
