----------------------------- MODULE NodePublish -----------------------------
(***************************************************************************)
(* NodePublishVolume and NodeUnpublishVolume of the node plugin, for one   *)
(* volume: the mounts of its device, the filesystem on it and the IO       *)
(* limits of the pods that use it.                                         *)
(*                                                                         *)
(* Each call that reads or changes something outside the handler is one    *)
(* step.  The handlers of different paths interleave, and kubelet may give *)
(* up on one that is still running: nothing in the plugin serialises them. *)
(***************************************************************************)
EXTENDS Sizing, FiniteSets, Sequences

CONSTANTS
    Paths,        \* target paths, one for each pod on the node
    VGName,       \* the volume's group
    Prefixes,     \* the proper prefixes of its name
    RateConfig,   \* the configured rates, key:rate each
    BadRate,      \* a rate that cannot be parsed
    NoLimit,      \* no IO limit is set
    MaxStack,     \* bound: bind mounts on one path
    MaxGaps       \* bound: kinds of gaps in one behaviour

ASSUME PublishAssumption ==
    /\ NoLimit \notin Nat
    /\ BadRate \notin Nat
    /\ \A i \in DOMAIN RateConfig : RateConfig[i].rate \in Nat \cup {BadRate}
    /\ MaxStack \in Nat \ {0}

VARIABLES
    vol,          \* the LVMVolume: its phase and its capacity
    here,         \* its owner node is this node
    mode,         \* "fs" (ext4, xfs), "btrfs" or "block"
    shared,       \* spec.shared is yes
    lv,           \* size of the logical volume on this node; 0: none
    fs,           \* size of the filesystem on it; 0: none
    mounts,       \* mounts[p]: how often the device is mounted at p
    limits,       \* limits[p]: the IO limit of the pod of p
    inUse,        \* paths kubelet has published and not yet unpublished
    publishes,    \* publishes[p]: the NodePublishVolume handler for p
    gaps          \* history: the kinds of gaps between handlers that occurred

volumeVars == <<vol, here, mode, shared, lv, fs>>
publishVars == <<mounts, limits, inUse, publishes>>

Phases == {"pending", "ready", "deleting", "absent"}

GapKinds == {"overlap", "late", "stacked", "abandoned", "regrown"}

VolumeRecord == [phase : Phases, cap : Nat]

PublishCall ==
    [pc  : {"verify", "mount"},
     vol : VolumeRecord] \* the copy that the Get returned

Idle == [pc |-> "none"]

Gap(kind) ==
    /\ Cardinality(gaps \cup {kind}) <= MaxGaps
    /\ gaps' = gaps \cup {kind}

GapIf(condition, kind) ==
    IF condition THEN Gap(kind) ELSE UNCHANGED gaps

Mounted == {p \in Paths : mounts[p] > 0}

PublishInit ==
    /\ mounts = [p \in Paths |-> 0]
    /\ limits = [p \in Paths |-> NoLimit]
    /\ inUse = {}
    /\ publishes = [p \in Paths |-> Idle]

-----------------------------------------------------------------------------
\* The rates of IO limits.

\* extractRateValues: a rate that cannot be parsed discards them all, and the
\* last entry of a key counts.
extractRateValues(config) ==
    IF \E i \in DOMAIN config : config[i].rate = BadRate
    THEN {}
    ELSE {config[i] : i \in {j \in DOMAIN config :
             \A k \in DOMAIN config : k > j => config[k].key # config[j].key}}

\* The rates that getRatePerGB may return for the volume group: that of its
\* name, else that of a prefix, whichever comes first in a map.
getRatePerGB(rates) ==
    LET exact  == {e \in rates : e.key = VGName}
        prefix == {e \in rates : e.key \in Prefixes} IN
    IF exact # {} THEN {e.rate : e \in exact}
    ELSE IF prefix # {} THEN {e.rate : e \in prefix}
    ELSE {0}

Rates == getRatePerGB(extractRateValues(RateConfig))

\* Wrong exportedLimits: counted in Mi.
exportedLimitsInMi ==
    {rate * (lv \div Mi) : rate \in IF lv > 0 THEN Rates ELSE {}}

\* What lvCollector.Collect may export as the volume's limit.
exportedLimits ==
    {rate * (lv \div Gi) : rate \in IF lv > 0 THEN Rates ELSE {}}

-----------------------------------------------------------------------------
\* NodePublishVolume.

Proceed(p, pc) == publishes' = [publishes EXCEPT ![p].pc = pc]

EndPublish(p) == publishes' = [publishes EXCEPT ![p] = Idle]

\* Kubelet sends the request, for the first time or again, while the volume
\* is not to be deleted, and GetVolAndMountInfo gets the volume.  A block
\* volume is then mounted without the checks of verifyMountRequest.
NodePublishVolume(p) ==
    /\ publishes[p] = Idle
    /\ vol.phase \in {"pending", "ready"}
    /\ inUse' = inUse \cup {p}
    /\ publishes' = [publishes EXCEPT ![p] =
                        [pc  |-> IF mode = "block" THEN "mount" ELSE "verify",
                         vol |-> vol]]
    /\ UNCHANGED <<volumeVars, mounts, limits, gaps>>

\* Wrong verifyMountRequest: the volume may be mounted anywhere.
VerifyAnywhere(p) ==
    /\ publishes[p].pc = "verify"
    /\ here
    /\ publishes[p].vol.phase # "pending"
    /\ Proceed(p, "mount")
    /\ UNCHANGED <<volumeVars, mounts, limits, inUse, gaps>>

\* verifyMountRequest: the volume must be owned by this node and have its
\* finalizer; it is already mounted here, or nowhere, or shared.  The gap: the
\* mounts are read while another handler is between its check and its mount.
VerifyMountRequest(p) ==
    /\ publishes[p].pc = "verify"
    /\ \/ /\ here
          /\ publishes[p].vol.phase # "pending"
          /\ p \notin Mounted
          /\ Mounted = {} \/ shared
          /\ Proceed(p, "mount")
          /\ GapIf(\E q \in Paths : publishes[q].pc = "mount", "overlap")
       \/ EndPublish(p) /\ UNCHANGED gaps  \* an error, or mounted already
    /\ UNCHANGED <<volumeVars, mounts, limits, inUse>>

\* Wrong SetIOLimits: one Gi too many.
SetIOLimitsAbove(p) ==
    \/ \E rate \in Rates :
          limits' = [limits EXCEPT ![p] =
                        IOLimit(rate, publishes[p].vol.cap + Gi)]
    \/ UNCHANGED limits

\* setIOLimits for the pod, from the capacity in the handler's copy.  There is
\* no control group once the pod is gone; errors are only logged, and the
\* limits may be switched off.
SetIOLimits(p) ==
    \/ /\ p \in inUse
       /\ \E rate \in Rates :
             limits' = [limits EXCEPT ![p] =
                           IOLimit(rate, publishes[p].vol.cap)]
    \/ UNCHANGED limits

\* The filesystem after a device without one was formatted.
Formatted == IF fs = 0 THEN lv ELSE fs

\* FormatAndMountVol.  The kernel refuses to mount the device twice at the same
\* path; a failure may come before or after the formatting.
FormatAndMountVol(p) ==
    /\ publishes[p].pc = "mount"
    /\ mode # "block"
    /\ \/ /\ lv > 0
          /\ mounts[p] = 0
          /\ mounts' = [mounts EXCEPT ![p] = 1]
          /\ fs' = Formatted
          /\ SetIOLimits(p)
       \/ /\ fs' \in {fs, Formatted}
          /\ UNCHANGED <<mounts, limits>>
    /\ EndPublish(p)
    /\ UNCHANGED <<vol, here, mode, shared, lv, inUse, gaps>>

\* MountBlock: the target file is made and the device bound to it, on top of
\* a mount that is there already.
MountBlock(p) ==
    /\ publishes[p].pc = "mount"
    /\ mode = "block"
    /\ \/ /\ lv > 0
          /\ mounts[p] < MaxStack
          /\ mounts' = [mounts EXCEPT ![p] = @ + 1]
          /\ GapIf(mounts[p] > 0, "stacked")
          /\ SetIOLimits(p)
       \/ UNCHANGED <<mounts, limits, gaps>>
    /\ EndPublish(p)
    /\ UNCHANGED <<volumeVars, inUse>>

-----------------------------------------------------------------------------
\* NodeUnpublishVolume.

\* UmountVolume takes off one mount, if there is one.
UmountVolume(p) ==
    mounts' = [mounts EXCEPT ![p] = IF @ > 0 THEN @ - 1 ELSE 0]

\* Wrong NodeUnpublishVolume: an unmount that fails is only logged.
NodeUnpublishIgnoring(p) ==
    /\ p \in inUse
    /\ vol.phase # "absent"
    /\ UmountVolume(p) \/ UNCHANGED mounts
    /\ inUse' = inUse \ {p}
    /\ limits' = [limits EXCEPT ![p] = NoLimit]
    /\ GapIf(publishes[p] # Idle, "late")
    /\ UNCHANGED <<volumeVars, publishes>>

\* Wrong NodeUnpublishVolume: it does not look whether the path is mounted.
NodeUnpublishUnchecked(p) ==
    /\ p \in inUse
    /\ vol.phase # "absent"
    /\ mounts' = [mounts EXCEPT ![p] = @ - 1]
    /\ inUse' = inUse \ {p}
    /\ limits' = [limits EXCEPT ![p] = NoLimit]
    /\ GapIf(publishes[p] # Idle, "late")
    /\ UNCHANGED <<volumeVars, publishes>>

\* NodeUnpublishVolume that succeeds; an error changes nothing.  The resource
\* must still be there.  The pod's control group is gone by then.  The gap:
\* kubelet has given up on a publish of the same path that is still running.
NodeUnpublishVolume(p) ==
    /\ p \in inUse
    /\ vol.phase # "absent"
    /\ UmountVolume(p)
    /\ inUse' = inUse \ {p}
    /\ limits' = [limits EXCEPT ![p] = NoLimit]
    /\ GapIf(publishes[p] # Idle, "late")
    /\ UNCHANGED <<volumeVars, publishes>>

PublishNext ==
    \E p \in Paths : \/ NodePublishVolume(p)
                     \/ VerifyMountRequest(p)
                     \/ FormatAndMountVol(p)
                     \/ MountBlock(p)
                     \/ NodeUnpublishVolume(p)
=============================================================================
