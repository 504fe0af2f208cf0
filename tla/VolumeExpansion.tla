--------------------------- MODULE VolumeExpansion ---------------------------
(***************************************************************************)
(* Expansion of the volume of NodePublish: ControllerExpandVolume of the   *)
(* controller plugin and NodeExpandVolume of the node plugin, called by    *)
(* the orchestrator until the size that the claim asks for is reached.     *)
(***************************************************************************)
EXTENDS NodePublish

CONSTANTS
    Sizes,        \* sizes a claim may ask for
    FirstSize,    \* the size it asks for at first
    ExpandCalls,  \* ControllerExpandVolume requests that can be in progress
    SnapClasses,  \* snapshot classes, acceptable or not
    MaxFailures   \* bound: NodeExpandVolume requests that fail

\* Sizes leave room for rounding.
ASSUME ExpansionAssumption ==
    /\ FirstSize \in Sizes
    /\ \A size \in Sizes : size \in Nat /\ size + 2 * Gi <= MaxInt
    /\ SnapClasses \subseteq SnapClass
    /\ MaxFailures \in Nat

VARIABLES
    want,         \* the size that the claim asks for
    resize,       \* who must act next: "idle", "controller" or "node"
    snapped,      \* the size of its (thick) snapshot, 0 without one
    expands,      \* expands[e]: the ControllerExpandVolume handler e
    nodeExpand,   \* the NodeExpandVolume handler
    failures      \* how many NodeExpandVolume requests have failed

claimVars == <<want, resize, snapped>>
expandVars == <<want, resize, snapped, expands, nodeExpand, failures>>

\* abandoned: the orchestrator no longer waits.
ExpandCall ==
    [pc : {"get"}, want : Sizes, abandoned : BOOLEAN]
    \cup
    [pc : {"update"}, want : Sizes, abandoned : BOOLEAN, vol : VolumeRecord]

NodeExpandCall ==
    [pc : {"resize", "btrfs"}, want : Sizes, cap : Nat]

HasSnapshot == snapped > 0

ExpandInit ==
    /\ want = FirstSize
    /\ resize = "idle"
    /\ snapped = 0
    /\ expands = [e \in ExpandCalls |-> Idle]
    /\ nodeExpand = Idle
    /\ failures = 0

-----------------------------------------------------------------------------
\* The orchestrator.

\* The user asks for more.  The gap: the node has not expanded the volume to
\* the previous size yet.
GrowClaim(size) ==
    /\ vol.phase = "ready"
    /\ size > want
    /\ want' = size
    /\ resize' = "controller"
    /\ GapIf(resize # "idle", "regrown")
    /\ UNCHANGED <<snapped, expands, nodeExpand, failures>>

\* The orchestrator stops waiting for an answer, and will ask again.
GiveUp(e) ==
    /\ expands[e] # Idle
    /\ ~ expands[e].abandoned
    /\ expands' = [expands EXCEPT ![e].abandoned = TRUE]
    /\ Gap("abandoned")
    /\ UNCHANGED <<claimVars, nodeExpand, failures>>

\* An answer counts when somebody waits for it and the claim is unchanged.
Answered(call, next) ==
    resize' = IF ~ call.abandoned /\ call.want = want THEN next ELSE resize

\* CreateSnapshot sizes a snapshot by the capacity it reads, and
\* DeleteSnapshot removes it, at any time.
Snapshot ==
    /\ vol.phase = "ready"
    /\ IF HasSnapshot
       THEN snapped' = 0
       ELSE \E class \in SnapClasses :
               /\ ValidSnapClass(class)
               /\ snapped' = SnapSize(NewSnapshotParams(class), vol.cap, FALSE)
    /\ UNCHANGED <<want, resize, expands, nodeExpand, failures, gaps>>

-----------------------------------------------------------------------------
\* ControllerExpandVolume.

EndExpand(e) == expands' = [expands EXCEPT ![e] = Idle]

\* The request, and the list of snapshots, which must be empty.
ControllerExpandVolume(e) ==
    /\ expands[e] = Idle
    /\ vol.phase = "ready"
    /\ resize = "controller"
    /\ \A d \in ExpandCalls : expands[d] # Idle => expands[d].abandoned
    /\ ~ HasSnapshot
    /\ expands' = [expands EXCEPT ![e] =
                      [pc |-> "get", want |-> want, abandoned |-> FALSE]]
    /\ UNCHANGED <<claimVars, nodeExpand, failures, gaps>>

\* GetLVMVolume.  "Controller expand volume must be idempotent": a volume
\* that is large enough already needs no expansion of the node either.
GetVolumeToExpand(e) ==
    /\ expands[e].pc = "get"
    /\ \/ /\ vol.phase # "absent"
          /\ vol.cap < getRoundedCapacity(expands[e].want)
          /\ expands' = [expands EXCEPT ![e] =
                            [pc |-> "update", want |-> @.want,
                             abandoned |-> @.abandoned, vol |-> vol]]
          /\ UNCHANGED resize
       \/ /\ vol.phase # "absent"
          /\ vol.cap >= getRoundedCapacity(expands[e].want)
          /\ EndExpand(e)
          /\ Answered(expands[e], "idle")
       \/ vol.phase = "absent" /\ EndExpand(e) /\ UNCHANGED resize
    /\ UNCHANGED <<want, snapped, nodeExpand, failures, gaps>>

\* Wrong ResizeVolume: the answer does not ask for the node's expansion.
ResizeVolumeOnly(e) ==
    /\ expands[e].pc = "update"
    /\ vol = expands[e].vol
    /\ vol' = [vol EXCEPT !.cap = getRoundedCapacity(expands[e].want)]
    /\ EndExpand(e)
    /\ Answered(expands[e], "idle")
    /\ UNCHANGED <<want, snapped, nodeExpand, failures, gaps>>

\* ResizeVolume: the Update is refused when the copy is not the current
\* version.
ResizeVolume(e) ==
    /\ expands[e].pc = "update"
    /\ \/ /\ vol = expands[e].vol
          /\ vol' = [vol EXCEPT !.cap = getRoundedCapacity(expands[e].want)]
          /\ Answered(expands[e], "node")
       \/ vol # expands[e].vol /\ UNCHANGED <<vol, resize>>
    /\ EndExpand(e)
    /\ UNCHANGED <<want, snapped, nodeExpand, failures, gaps>>

-----------------------------------------------------------------------------
\* NodeExpandVolume.

\* Kubelet expands a volume that a pod uses; the handler gets the volume.
NodeExpandVolume ==
    /\ nodeExpand = Idle
    /\ resize = "node"
    /\ inUse \cap Mounted # {}
    /\ vol.phase # "absent"
    /\ nodeExpand' = [pc |-> "resize", want |-> want, cap |-> vol.cap]
    /\ UNCHANGED <<claimVars, expands, failures, gaps>>

EndNodeExpand ==
    /\ nodeExpand' = Idle
    /\ resize' = IF nodeExpand.want = want /\ resize = "node" THEN "idle"
                 ELSE resize

\* lvextend -r expands the volume and the filesystem on it; the same size
\* again is no error.  LVM refuses to extend the origin of a thick snapshot.
ExtendWithFS ==
    /\ nodeExpand.pc = "resize"
    /\ mode = "fs"
    /\ lv > 0
    /\ fs > 0
    /\ lv <= nodeExpand.cap
    /\ lv < nodeExpand.cap => ~ HasSnapshot
    /\ lv' = nodeExpand.cap
    /\ fs' = nodeExpand.cap
    /\ EndNodeExpand
    /\ UNCHANGED <<want, snapped, expands, failures, gaps>>

\* Wrong ExtendLV: done, as there is no filesystem for lvextend to expand.
ExtendLVOnly ==
    /\ nodeExpand.pc = "resize"
    /\ mode # "fs"
    /\ lv > 0
    /\ lv < nodeExpand.cap => ~ HasSnapshot
    /\ lv' = IF lv < nodeExpand.cap THEN nodeExpand.cap ELSE lv
    /\ EndNodeExpand
    /\ UNCHANGED <<fs, want, snapped, expands, failures, gaps>>

\* Wrong ExtendLV: extended by the size that the volume should have.
ExtendLVBy ==
    /\ nodeExpand.pc = "resize"
    /\ mode # "fs"
    /\ lv > 0
    /\ lv < nodeExpand.cap => ~ HasSnapshot
    /\ lv' = IF lv < nodeExpand.cap THEN lv + nodeExpand.cap ELSE lv
    /\ EndNodeExpand
    /\ UNCHANGED <<fs, want, snapped, expands, failures, gaps>>

\* Wrong ExtendLV: the sizes are not compared before lvextend.
ExtendLVAlways ==
    /\ nodeExpand.pc = "resize"
    /\ mode # "fs"
    /\ lv > 0
    /\ lv < nodeExpand.cap
    /\ ~ HasSnapshot
    /\ lv' = nodeExpand.cap
    /\ IF mode = "btrfs"
       THEN nodeExpand' = [nodeExpand EXCEPT !.pc = "btrfs"] /\ UNCHANGED resize
       ELSE EndNodeExpand
    /\ UNCHANGED <<fs, want, snapped, expands, failures, gaps>>

\* Without -r, ResizeLVMVolume compares sizes first, as a second lvextend of
\* the same size would fail.  btrfs is left for a step of its own.
ExtendLV ==
    /\ nodeExpand.pc = "resize"
    /\ mode # "fs"
    /\ lv > 0
    /\ lv < nodeExpand.cap => ~ HasSnapshot
    /\ lv' = IF lv < nodeExpand.cap THEN nodeExpand.cap ELSE lv
    /\ IF mode = "btrfs"
       THEN nodeExpand' = [nodeExpand EXCEPT !.pc = "btrfs"] /\ UNCHANGED resize
       ELSE EndNodeExpand
    /\ UNCHANGED <<fs, want, snapped, expands, failures, gaps>>

\* ResizeBTRFS.
ResizeBTRFS ==
    /\ nodeExpand.pc = "btrfs"
    /\ fs > 0
    /\ fs' = lv
    /\ EndNodeExpand
    /\ UNCHANGED <<lv, want, snapped, expands, failures, gaps>>

\* A step fails, or the plugin stops.  lvextend may have done its part
\* before fsadm fails.
FailNodeExpand ==
    /\ nodeExpand # Idle
    /\ failures < MaxFailures
    /\ failures' = failures + 1
    /\ nodeExpand' = Idle
    /\ \/ UNCHANGED lv
       \/ /\ nodeExpand.pc = "resize"
          /\ lv > 0
          /\ lv < nodeExpand.cap
          /\ ~ HasSnapshot
          /\ lv' = nodeExpand.cap
    /\ UNCHANGED <<claimVars, expands, gaps, fs>>

\* lvextend is refused, or there is no filesystem left: kubelet asks again.
RefuseNodeExpand ==
    /\ \/ /\ nodeExpand.pc = "resize"
          /\ \/ lv = 0
             \/ lv < nodeExpand.cap /\ HasSnapshot
             \/ mode = "fs" /\ fs = 0
       \/ nodeExpand.pc = "btrfs" /\ fs = 0
    /\ nodeExpand' = Idle
    /\ UNCHANGED <<claimVars, expands, failures, gaps, lv, fs>>

\* The steps that leave the resource and the logical volume alone, ...
ClaimNext ==
    \/ \E size \in Sizes : GrowClaim(size)
    \/ Snapshot
    \/ \E e \in ExpandCalls : \/ GiveUp(e)
                              \/ ControllerExpandVolume(e)
                              \/ GetVolumeToExpand(e)
    \/ NodeExpandVolume

\* ... and those of NodeExpandVolume that run commands.
ResizeNext ==
    \/ ExtendWithFS
    \/ ExtendLV
    \/ ResizeBTRFS
    \/ FailNodeExpand
    \/ RefuseNodeExpand
=============================================================================
