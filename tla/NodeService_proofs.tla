------------------------ MODULE NodeService_proofs -------------------------
(***************************************************************************)
(* NodeService, for all sizes, paths and calls: what is mounted where, and *)
(* what the answers of ControllerExpandVolume and NodeExpandVolume mean.   *)
(***************************************************************************)
EXTENDS NodeCapacity_proofs

\* A leaf that names no prover is for SMT, in two tries.
USE SMTT(30), SMTT(60)

\* Mounts.

\* What is mounted exists.
LVInv ==
    /\ vol.phase = "absent" => lv = 0
    /\ Mounted # {} => lv > 0

\* A handler with a copy of the volume that has its finalizer is right about
\* it, and a filesystem is mounted only then.
FinalizerInv ==
    /\ \A p \in Paths :
          publishes[p] # Idle /\ publishes[p].vol.phase # "pending"
          => vol.phase # "pending"
    /\ mode # "block" =>
          /\ \A p \in Paths : publishes[p].pc = "mount" => vol.phase # "pending"
          /\ Mounted # {} => vol.phase # "pending"

\* At most one path is mounted or about to be.
WallInv ==
    mode # "block" /\ ~ shared /\ "overlap" \notin gaps =>
       /\ \A p, q \in Mounted : p = q
       /\ \A p \in Paths : publishes[p].pc = "mount" => Mounted = {}
       /\ \A p, q \in Paths :
             publishes[p].pc = "mount" /\ publishes[q].pc = "mount" => p = q

\* Kubelet remembers every path that is mounted or about to be.
UseInv ==
    /\ "late" \notin gaps => \A p \in Paths : publishes[p] # Idle => p \in inUse
    /\ "stacked" \notin gaps => \A p \in Paths : mounts[p] <= 1
    /\ gaps \cap {"late", "stacked"} = {} => Mounted \subseteq inUse

\* The inductive invariant for mounts.  A handler that has passed
\* verifyMountRequest and has not mounted yet counts like a mount: without it,
\* neither of the properties is inductive.
MountInv == LVInv /\ FinalizerInv /\ WallInv /\ UseInv

\* At first nothing is mounted and no handler runs.
LEMMA MountInit == Init => MountInv
  BY DEF Init, PublishInit, MountInv, LVInv, FinalizerInv, WallInv, UseInv,
         Mounted, Idle

\* Steps outside NodePublishVolume and NodeUnpublishVolume: they may not take
\* the logical volume from under its mounts, nor the finalizer off a volume.
LEMMA MountFrame ==
    ASSUME MountInv,
           UNCHANGED <<mode, shared, mounts, inUse, publishes>>,
           gaps \subseteq gaps',
           vol'.phase = "pending" => vol.phase = "pending",
           vol'.phase = "absent" => lv' = 0,
           Mounted # {} => lv' > 0
    PROVE  MountInv'
<1>1. Mounted' = Mounted
  BY DEF Mounted
<1>2. LVInv'
  BY <1>1 DEF LVInv
<1>3. FinalizerInv'
  BY <1>1, ZenonT(30) DEF MountInv, FinalizerInv
<1>4. WallInv'
  BY <1>1 DEF MountInv, WallInv
<1>5. UseInv'
  BY <1>1 DEF MountInv, UseInv
<1> QED
  BY <1>2, <1>3, <1>4, <1>5, ZenonT(30) DEF MountInv

\* A history of gaps only grows.
LEMMA GapsGrow ==
    ASSUME NEW kind, NEW condition, Gap(kind) \/ GapIf(condition, kind)
    PROVE  gaps \subseteq gaps' /\ (condition => Gap(kind) \/ kind \in gaps')
  BY DEF Gap, GapIf

\* The steps of the volume controller, of the claim and of expansion.
LEMMA MountOthers ==
    ASSUME CapacityInv, MountInv,
           \/ ProvisionLV \/ UpdateVolInfo \/ DeleteVolume \/ Destroy
           \/ Claim
           \/ \E e \in ExpandCalls : Resize(e)
           \/ Extend
    PROVE  MountInv'
<1> USE DEF publishVars, expandVars, volumeVars, claimVars
<1>0. vol.cap \in Nat /\ lv \in Nat /\ vol \in VolumeRecord
  BY DEF CapacityInv, NodeTypeOK, VolumeRecord
<1>1. CASE ProvisionLV
  <2>1. Mounted = {}
    BY <1>0, <1>1 DEF ProvisionLV, MountInv, LVInv
  <2> QED
    BY <1>1, <2>1, MountFrame DEF ProvisionLV
<1>2. CASE UpdateVolInfo
  <2>1. vol'.phase = "ready"
    BY <1>0, <1>2 DEF UpdateVolInfo, VolumeRecord
  <2>2. Mounted # {} => lv' > 0
    BY <1>2 DEF UpdateVolInfo, MountInv, LVInv
  <2> QED
    BY <1>2, <2>1, <2>2, MountFrame DEF UpdateVolInfo
<1>3. CASE DeleteVolume
  <2>1. vol'.phase = "deleting"
    BY <1>0, <1>3 DEF DeleteVolume, VolumeRecord
  <2>2. Mounted # {} => lv' > 0
    BY <1>3, ZenonT(30) DEF DeleteVolume, MountInv, LVInv
  <2> QED
    BY <1>3, <2>1, <2>2, MountFrame DEF DeleteVolume
<1>4. CASE RemoveVolumeFilesystem
  <2>1. Mounted # {} => lv' > 0
    BY <1>4 DEF RemoveVolumeFilesystem, MountInv, LVInv
  <2> QED
    BY <1>4, <2>1, MountFrame DEF RemoveVolumeFilesystem
<1>5. CASE DestroyLV
  BY <1>5, MountFrame DEF DestroyLV
<1>6. CASE RemoveVolFinalizer
  <2>1. vol'.phase = "absent"
    BY <1>0, <1>6 DEF RemoveVolFinalizer, VolumeRecord
  <2>2. Mounted # {} => lv' > 0
    BY <1>6 DEF RemoveVolFinalizer, MountInv, LVInv
  <2> QED
    BY <1>6, <2>1, <2>2, MountFrame DEF RemoveVolFinalizer
<1>7. CASE Claim
  <2>1. gaps \subseteq gaps'
    BY <1>7, GapsGrow, ZenonT(30)
       DEF Claim, ClaimNext, GrowClaim, Snapshot, GiveUp,
           ControllerExpandVolume, GetVolumeToExpand, NodeExpandVolume
  <2>2. UNCHANGED <<vol, lv, mode, shared, mounts, inUse, publishes>>
    BY <1>7 DEF Claim
  <2>3. (Mounted # {} => lv' > 0) /\ (vol'.phase = "absent" => lv' = 0)
    BY <2>2, ZenonT(30) DEF MountInv, LVInv
  <2> QED
    BY <2>1, <2>2, <2>3, MountFrame
<1>8. CASE \E e \in ExpandCalls : Resize(e)
  <2>1. vol'.phase = vol.phase
    BY <1>0, <1>8 DEF Resize, ResizeVolume, VolumeRecord
  <2>2. UNCHANGED <<lv, mode, shared, mounts, inUse, publishes, gaps>>
    BY <1>8 DEF Resize, ResizeVolume
  <2>3. (Mounted # {} => lv' > 0) /\ (vol'.phase = "absent" => lv' = 0)
    BY <2>1, <2>2, ZenonT(30) DEF MountInv, LVInv
  <2> QED
    BY <2>1, <2>2, <2>3, MountFrame
<1>9. CASE Extend
  <2>1. UNCHANGED <<vol, mode, shared, mounts, inUse, publishes, gaps>>
    BY <1>9, ZenonT(30)
       DEF Extend, ResizeNext, ExtendWithFS, ExtendLV, ResizeBTRFS,
           FailNodeExpand, RefuseNodeExpand
  <2>2. nodeExpand # Idle => nodeExpand.cap \in Nat
    BY DEF CapacityInv, NodeTypeOK, NodeExpandCall
  <2>3. nodeExpand # Idle
    BY <1>9 DEF Extend, ResizeNext, ExtendWithFS, ExtendLV, ResizeBTRFS,
                FailNodeExpand, RefuseNodeExpand, Idle
  <2>4. lv' \in Nat /\ (lv > 0 <=> lv' > 0)
    BY <1>0, <1>9, <2>2, <2>3
    DEF Extend, ResizeNext, ExtendWithFS, ExtendLV, ResizeBTRFS,
        FailNodeExpand, RefuseNodeExpand
  <2>5. (Mounted # {} => lv' > 0) /\ (vol'.phase = "absent" => lv' = 0)
    BY <1>0, <2>1, <2>4 DEF MountInv, LVInv
  <2> QED
    BY <2>1, <2>5, MountFrame
<1> QED
  BY <1>1, <1>2, <1>3, <1>4, <1>5, <1>6, <1>7, <1>8, <1>9 DEF Destroy

\* The types that the steps of publishing rely on.
PublishTypes ==
    /\ publishes \in [Paths -> PublishCall \cup {Idle}]
    /\ mounts \in [Paths -> 0 .. MaxStack]
    /\ \A q \in Paths : mounts[q] \in Int
    /\ lv \in Nat
    /\ MaxStack \in Nat

\* The handler for p ends; the others are as before.
LEMMA EndPublishOnly ==
    ASSUME NEW p \in Paths, PublishTypes, EndPublish(p)
    PROVE  /\ publishes'[p] = Idle
           /\ publishes'[p].pc = "none"
           /\ \A q \in Paths \ {p} : publishes'[q] = publishes[q]
  BY DEF EndPublish, PublishTypes, Idle

\* NodePublishVolume reads the volume.
LEMMA MountRequest ==
    ASSUME NEW p \in Paths, PublishTypes, MountInv, NodePublishVolume(p)
    PROVE  MountInv'
<1>1. UNCHANGED <<vol, lv, mode, shared, mounts, gaps>> /\ inUse' = inUse \cup {p}
  BY ZenonT(30) DEF NodePublishVolume, volumeVars
<1>2. Mounted' = Mounted
  BY <1>1 DEF Mounted
<1>3. /\ publishes'[p].vol = vol
      /\ mode # "block" => publishes'[p].pc = "verify"
      /\ \A q \in Paths \ {p} : publishes'[q] = publishes[q]
  BY DEF NodePublishVolume, PublishTypes
<1>4. LVInv'
  BY <1>1, <1>2, ZenonT(30) DEF MountInv, LVInv
<1>5. FinalizerInv'
  BY <1>1, <1>2, <1>3 DEF MountInv, FinalizerInv
<1>6. WallInv'
  BY <1>1, <1>2, <1>3 DEF MountInv, WallInv
<1>7. UseInv'
  BY <1>1, <1>2, <1>3 DEF MountInv, UseInv
<1> QED
  BY <1>4, <1>5, <1>6, <1>7, ZenonT(30) DEF MountInv

\* A handler that ends without a mount.
LEMMA MountEnd ==
    ASSUME NEW p \in Paths, PublishTypes, MountInv, EndPublish(p),
           UNCHANGED <<vol, lv, mode, shared, mounts, inUse, gaps>>
    PROVE  MountInv'
<1>1. Mounted' = Mounted
  BY DEF Mounted
<1>2. /\ publishes'[p] = Idle
      /\ publishes'[p].pc = "none"
      /\ \A q \in Paths \ {p} : publishes'[q] = publishes[q]
  BY EndPublishOnly, ZenonT(30)
<1>3. LVInv'
  BY <1>1, ZenonT(30) DEF MountInv, LVInv
<1>4. FinalizerInv'
  BY <1>1, <1>2 DEF MountInv, FinalizerInv
<1>5. WallInv'
  BY <1>1, <1>2 DEF MountInv, WallInv
<1>6. UseInv'
  BY <1>1, <1>2 DEF MountInv, UseInv
<1> QED
  BY <1>3, <1>4, <1>5, <1>6, ZenonT(30) DEF MountInv

\* verifyMountRequest lets the handler pass only when nothing is mounted and
\* no other handler has passed, the gap aside.
LEMMA MountVerify ==
    ASSUME NEW p \in Paths, PublishTypes, MountInv, VerifyMountRequest(p)
    PROVE  MountInv'
<1>1. UNCHANGED <<vol, lv, mode, shared, mounts, inUse>>
  BY ZenonT(30) DEF VerifyMountRequest, volumeVars
<1>2. CASE EndPublish(p) /\ UNCHANGED gaps
  BY <1>1, <1>2, MountEnd
<1>3. CASE /\ publishes[p].vol.phase # "pending"
           /\ Mounted = {} \/ shared
           /\ Proceed(p, "mount")
           /\ GapIf(\E q \in Paths : publishes[q].pc = "mount", "overlap")
  <2>1. Mounted' = Mounted
    BY <1>1 DEF Mounted
  <2>2. publishes[p] \in PublishCall /\ publishes[p] # Idle
    BY DEF VerifyMountRequest, PublishTypes, Idle
  <2>3. /\ publishes'[p].pc = "mount"
        /\ publishes'[p].vol = publishes[p].vol
        /\ \A q \in Paths \ {p} : publishes'[q] = publishes[q]
    BY <1>3, <2>2 DEF Proceed, PublishCall, PublishTypes
  <2>4. /\ gaps \subseteq gaps'
        /\ "overlap" \notin gaps' => \A q \in Paths : publishes[q].pc # "mount"
    BY <1>3 DEF GapIf, Gap
  <2>5. vol.phase # "pending"
    BY <1>3, <2>2, ZenonT(30) DEF MountInv, FinalizerInv
  <2>6. LVInv'
    BY <1>1, <2>1, ZenonT(30) DEF MountInv, LVInv
  <2>7. FinalizerInv'
    BY <1>1, <2>5, ZenonT(30) DEF FinalizerInv
  <2>8. WallInv'
    BY <1>1, <1>3, <2>1, <2>3, <2>4 DEF MountInv, WallInv
  <2>9. UseInv'
    BY <1>1, <2>1, <2>2, <2>3, <2>4 DEF MountInv, UseInv
  <2> QED
    BY <2>6, <2>7, <2>8, <2>9, ZenonT(30) DEF MountInv
<1> QED
  BY <1>2, <1>3, ZenonT(30) DEF VerifyMountRequest

\* FormatAndMountVol, after verifyMountRequest.
LEMMA MountFormat ==
    ASSUME NEW p \in Paths, PublishTypes, MountInv, FormatAndMountVol(p)
    PROVE  MountInv'
<1>1. /\ UNCHANGED <<vol, lv, mode, shared, inUse, gaps>>
      /\ EndPublish(p)
      /\ publishes[p].pc = "mount"
      /\ mode # "block"
  BY ZenonT(30) DEF FormatAndMountVol
<1>2. CASE UNCHANGED mounts
  BY <1>1, <1>2, MountEnd
<1>3. CASE mounts' = [mounts EXCEPT ![p] = 1] /\ lv > 0
  <2>1. \A q \in Paths : mounts'[q] = IF q = p THEN 1 ELSE mounts[q]
    BY <1>3 DEF PublishTypes
  <2>2. Mounted' = Mounted \cup {p}
    BY <2>1 DEF Mounted
  <2>3. /\ publishes'[p] = Idle
        /\ publishes'[p].pc = "none"
        /\ \A q \in Paths \ {p} : publishes'[q] = publishes[q]
    BY <1>1, EndPublishOnly, ZenonT(30)
  <2>4. publishes[p] # Idle
    BY <1>1 DEF Idle
  <2>5. vol.phase # "pending"
    BY <1>1, ZenonT(30) DEF MountInv, FinalizerInv
  <2>6. LVInv'
    BY <1>1, <1>3 DEF MountInv, LVInv, PublishTypes
  <2>7. FinalizerInv'
    BY <1>1, <2>5, ZenonT(30) DEF FinalizerInv
  <2>8. ~ shared /\ "overlap" \notin gaps =>
           Mounted = {} /\ \A q \in Paths \ {p} : publishes[q].pc # "mount"
    BY <1>1, ZenonT(30) DEF MountInv, WallInv
  <2>9. WallInv'
    BY <1>1, <2>2, <2>3, <2>8 DEF WallInv
  <2>10. "late" \notin gaps => p \in inUse
    BY <2>4, ZenonT(30) DEF MountInv, UseInv
  <2>11. UseInv'
    BY <1>1, <2>1, <2>2, <2>3, <2>10 DEF MountInv, UseInv
  <2> QED
    BY <2>6, <2>7, <2>9, <2>11, ZenonT(30) DEF MountInv
<1> QED
  BY <1>2, <1>3, ZenonT(30) DEF FormatAndMountVol

\* MountBlock, which may bind a path twice.
LEMMA MountBind ==
    ASSUME NEW p \in Paths, PublishTypes, MountInv, MountBlock(p)
    PROVE  MountInv'
<1>1. /\ UNCHANGED <<vol, lv, mode, shared, inUse>>
      /\ EndPublish(p)
      /\ publishes[p].pc = "mount"
      /\ mode = "block"
  BY ZenonT(30) DEF MountBlock, volumeVars
<1>2. CASE UNCHANGED <<mounts, gaps>>
  BY <1>1, <1>2, MountEnd
<1>3. CASE /\ mounts' = [mounts EXCEPT ![p] = @ + 1]
           /\ GapIf(mounts[p] > 0, "stacked")
           /\ lv > 0
  <2>1. \A q \in Paths : mounts'[q] = IF q = p THEN mounts[p] + 1 ELSE mounts[q]
    BY <1>3 DEF PublishTypes
  <2>2. mounts[p] \in Nat
    BY DEF PublishTypes
  <2>3. Mounted' = Mounted \cup {p}
    BY <2>1, <2>2 DEF Mounted
  <2>4. /\ publishes'[p] = Idle
        /\ publishes'[p].pc = "none"
        /\ \A q \in Paths \ {p} : publishes'[q] = publishes[q]
    BY <1>1, EndPublishOnly, ZenonT(30)
  <2>5. publishes[p] # Idle
    BY <1>1 DEF Idle
  <2>6. /\ gaps \subseteq gaps'
        /\ "stacked" \notin gaps' => mounts[p] = 0
    BY <1>3, <2>2 DEF GapIf, Gap
  <2>7. LVInv'
    BY <1>1, <1>3 DEF MountInv, LVInv, PublishTypes
  <2>8. FinalizerInv'
    BY <1>1, <2>4 DEF MountInv, FinalizerInv
  <2>9. WallInv'
    BY <1>1, ZenonT(30) DEF WallInv
  <2>10. "late" \notin gaps => p \in inUse
    BY <2>5, ZenonT(30) DEF MountInv, UseInv
  <2>11. UseInv'
    BY <1>1, <2>1, <2>3, <2>4, <2>6, <2>10 DEF MountInv, UseInv
  <2> QED
    BY <2>7, <2>8, <2>9, <2>11, ZenonT(30) DEF MountInv
<1> QED
  BY <1>2, <1>3, ZenonT(30) DEF MountBlock

\* NodeUnpublishVolume takes a mount off and lets kubelet forget the path.
LEMMA MountRemove ==
    ASSUME NEW p \in Paths, PublishTypes, MountInv, NodeUnpublishVolume(p)
    PROVE  MountInv'
<1>1. /\ UNCHANGED <<vol, lv, mode, shared, publishes>>
      /\ inUse' = inUse \ {p}
      /\ mounts' = [mounts EXCEPT ![p] = IF @ > 0 THEN @ - 1 ELSE 0]
      /\ GapIf(publishes[p] # Idle, "late")
  BY ZenonT(30) DEF NodeUnpublishVolume, UmountVolume, volumeVars
<1>2. \A q \in Paths : mounts'[q] = IF q # p THEN mounts[q]
                                    ELSE IF mounts[p] > 0 THEN mounts[p] - 1 ELSE 0
  BY <1>1 DEF PublishTypes
<1>3. mounts[p] \in Nat
  BY DEF PublishTypes
<1>4. Mounted' \subseteq Mounted /\ (mounts[p] <= 1 => p \notin Mounted')
  BY <1>2, <1>3 DEF Mounted
<1>5. \A q \in Paths : mounts[q] <= 1 => mounts'[q] <= 1
  BY <1>2, <1>3
<1>6. /\ gaps \subseteq gaps'
      /\ "late" \notin gaps' => publishes[p] = Idle
  BY <1>1 DEF GapIf, Gap
<1>7. LVInv'
  BY <1>1, <1>4 DEF MountInv, LVInv
<1>8. FinalizerInv'
  BY <1>1, <1>4 DEF MountInv, FinalizerInv
<1>9. WallInv'
  BY <1>1, <1>4, <1>6 DEF MountInv, WallInv
<1>10. UseInv'
  BY <1>1, <1>4, <1>5, <1>6 DEF MountInv, UseInv
<1> QED
  BY <1>7, <1>8, <1>9, <1>10, ZenonT(30) DEF MountInv

\* The steps of NodePublishVolume and NodeUnpublishVolume.
LEMMA MountPublish ==
    ASSUME CapacityInv, MountInv, PublishNext
    PROVE  MountInv'
<1>1. PublishTypes
  BY PublishAssumption DEF CapacityInv, NodeTypeOK, PublishTypes
<1> QED
  BY <1>1, MountRequest, MountVerify, MountFormat, MountBind, MountRemove
     DEF PublishNext

\* Every step keeps the invariant for mounts.
LEMMA MountNext == CapacityInv /\ MountInv /\ [Next]_vars => MountInv'
<1> SUFFICES ASSUME CapacityInv, MountInv, [Next]_vars PROVE MountInv'
  OBVIOUS
<1>1. CASE UNCHANGED vars
  BY <1>1, ZenonT(30) DEF vars, MountInv, LVInv, FinalizerInv, WallInv, UseInv, Mounted
<1>2. CASE \/ ProvisionLV \/ UpdateVolInfo \/ DeleteVolume \/ Destroy
           \/ Claim
           \/ \E e \in ExpandCalls : Resize(e)
           \/ Extend
  BY <1>2, MountOthers
<1>3. CASE PublishNext /\ UNCHANGED expandVars
  BY <1>3, MountPublish
<1> QED
  BY <1>1, <1>2, <1>3 DEF Next

\* The invariant for mounts holds throughout.
THEOREM MountInvariant == Spec => []MountInv
  BY MountInit, MountNext, CapacityInvariant, PTL DEF Spec

\* A filesystem volume that is not shared is mounted at one path at most,
\* unless two handlers were between verifyMountRequest and the mount at once.
THEOREM MountedOnce == Spec => []WallOfNorth
<1>1. MountInv => WallOfNorth
  BY ZenonT(30) DEF MountInv, WallInv, WallOfNorth
<1> QED
  BY <1>1, MountInvariant, PTL

\* Nothing is mounted without its logical volume and its resource, so that
\* NodeUnpublishVolume finds the resource it needs.
THEOREM MountsHaveLV == Spec => []MountedHasLV
<1>1. CapacityInv /\ MountInv => MountedHasLV
  BY DEF CapacityInv, NodeTypeOK, MountInv, LVInv, FinalizerInv, MountedHasLV
<1> QED
  BY <1>1, CapacityInvariant, MountInvariant, PTL

\* After NodeUnpublishVolume nothing is left mounted, but for a late publish
\* and for block volumes that were bound twice.
THEOREM MountsRemembered == Spec => []NoForgottenMount
<1>1. MountInv => NoForgottenMount
  BY ZenonT(30) DEF MountInv, UseInv, NoForgottenMount
<1> QED
  BY <1>1, MountInvariant, PTL

-----------------------------------------------------------------------------
\* The inductive invariant for expansion: whoever waits for the node waits
\* for a capacity that the resource has, and the btrfs step follows an
\* lvextend.
AnswerInv ==
    /\ resize = "node" => getRoundedCapacity(want) <= vol.cap
    /\ nodeExpand # Idle => getRoundedCapacity(nodeExpand.want) <= nodeExpand.cap
    /\ nodeExpand.pc = "btrfs" => /\ mode = "btrfs"
                                  /\ lv > 0 => nodeExpand.cap <= lv

\* At first there is no expansion.
LEMMA AnswerInit == Init => AnswerInv
  BY DEF Init, ExpandInit, AnswerInv, Idle

\* Every step keeps the invariant for expansion.
LEMMA AnswerNext == CapacityInv /\ AnswerInv /\ [Next]_vars => AnswerInv'
<1> SUFFICES ASSUME CapacityInv, AnswerInv, [Next]_vars PROVE AnswerInv'
  OBVIOUS
<1> USE DEF publishVars, expandVars, volumeVars, claimVars
<1>0. /\ NodeTypeOK
      /\ vol.cap \in Nat
      /\ getRoundedCapacity(want) \in Nat
      /\ nodeExpand # Idle => nodeExpand \in NodeExpandCall /\ nodeExpand.cap \in Nat
  BY ClaimRounded, ZenonT(30)
     DEF CapacityInv, NodeTypeOK, VolumeRecord, NodeExpandCall
<1>1. CASE UNCHANGED vars
  BY <1>1 DEF vars, AnswerInv
<1>2. CASE ProvisionLV \/ UpdateVolInfo \/ DeleteVolume \/ Destroy
  <2>1. UNCHANGED <<mode, expandVars>> /\ vol'.cap = vol.cap
    BY <1>0, <1>2, ZenonT(30)
       DEF ProvisionLV, UpdateVolInfo, DeleteVolume, Destroy,
           RemoveVolumeFilesystem, DestroyLV, RemoveVolFinalizer, NodeTypeOK,
           VolumeRecord
  <2>2. lv' \in {0, lv, vol.cap} /\ (lv' = vol.cap => lv' >= vol.cap)
    BY <1>0, <1>2 DEF ProvisionLV, UpdateVolInfo, DeleteVolume, Destroy,
       RemoveVolumeFilesystem, DestroyLV, RemoveVolFinalizer
  <2>3. nodeExpand # Idle => nodeExpand.cap <= vol.cap
    BY DEF CapacityInv
  <2> QED
    BY <1>0, <2>1, <2>2, <2>3 DEF AnswerInv, Idle
<1>3. CASE PublishNext /\ UNCHANGED expandVars
  <2>1. UNCHANGED <<vol, mode, lv>>
    BY <1>3, ZenonT(30)
       DEF PublishNext, NodePublishVolume, VerifyMountRequest,
           FormatAndMountVol, MountBlock, NodeUnpublishVolume, UmountVolume
  <2> QED
    BY <1>3, <2>1 DEF AnswerInv
<1>4. CASE Claim
  <2>1. UNCHANGED <<vol, mode, lv>>
    BY <1>4 DEF Claim
  <2>2. \/ resize' # "node"
        \/ UNCHANGED <<want, resize>>
    BY <1>4, ZenonT(30)
       DEF Claim, ClaimNext, GrowClaim, Snapshot, GiveUp, Answered,
           ControllerExpandVolume, GetVolumeToExpand, NodeExpandVolume
  <2>3. CASE UNCHANGED nodeExpand
    BY <2>1, <2>2, <2>3 DEF AnswerInv
  <2>4. CASE NodeExpandVolume
    BY <1>0, <2>1, <2>2, <2>4, ZenonT(30)
       DEF NodeExpandVolume, AnswerInv, Idle
  <2> QED
    BY <1>4, <2>3, <2>4, ZenonT(30)
       DEF Claim, ClaimNext, GrowClaim, Snapshot, GiveUp,
           ControllerExpandVolume, GetVolumeToExpand
<1>5. ASSUME NEW e \in ExpandCalls, Resize(e)
      PROVE  AnswerInv'
  <2>1. vol.cap <= vol'.cap /\ vol'.cap \in Nat
    BY <1>5, ResizeStep, ZenonT(30) DEF CapacityInv, NodeTypeOK, VolumeRecord
  <2>2. UNCHANGED <<mode, lv, want, nodeExpand>>
    BY <1>5 DEF Resize, ResizeVolume
  <2>3. \/ UNCHANGED resize
        \/ expands[e].want = want /\ vol'.cap = getRoundedCapacity(expands[e].want)
    BY <1>0, <1>5 DEF Resize, ResizeVolume, Answered, NodeTypeOK, VolumeRecord
  <2> QED
    BY <1>0, <2>1, <2>2, <2>3 DEF AnswerInv
<1>6. CASE Extend
  <2>1. UNCHANGED <<vol, mode, want>> /\ (resize' = "node" => resize = "node")
    BY <1>6 DEF Extend, ResizeNext, ExtendWithFS, ExtendLV, ResizeBTRFS,
                FailNodeExpand, RefuseNodeExpand, EndNodeExpand
  <2>2. CASE nodeExpand' = Idle
    BY <2>1, <2>2, ZenonT(30) DEF AnswerInv, Idle
  <2>3. CASE ExtendLV /\ mode = "btrfs"
    <3>1. nodeExpand \in NodeExpandCall
      BY <1>0, <2>3 DEF ExtendLV, Idle
    <3>2. /\ nodeExpand'.cap = nodeExpand.cap
          /\ nodeExpand'.want = nodeExpand.want
          /\ nodeExpand # Idle
      BY <2>3, <3>1 DEF ExtendLV, NodeExpandCall, Idle
    <3>3. nodeExpand.cap <= lv'
      BY <1>0, <2>3, <3>2 DEF ExtendLV, NodeTypeOK
    <3> QED
      BY <2>1, <2>3, <3>2, <3>3 DEF AnswerInv
  <2> QED
    BY <1>6, <2>2, <2>3, ZenonT(30)
       DEF Extend, ResizeNext, ExtendWithFS, ExtendLV, ResizeBTRFS,
           FailNodeExpand, RefuseNodeExpand, EndNodeExpand
<1> QED
  BY <1>1, <1>2, <1>3, <1>4, <1>5, <1>6 DEF Next

\* The invariant for expansion holds throughout.
THEOREM AnswerInvariant == Spec => []AnswerInv
  BY AnswerInit, AnswerNext, CapacityInvariant, PTL DEF Spec

\* When NodeExpandVolume answers, volume and filesystem have the size that
\* the claim asks for, whatever failed before.
THEOREM ExpandAnswersTrue == Spec => ExpandAnswerTrue
<1> DEFINE Answer ==
      nodeExpand # Idle /\ nodeExpand' = Idle /\ resize = "node" /\ resize' = "idle"
      => /\ lv' >= getRoundedCapacity(want)
         /\ mode # "block" => fs' = lv'
<1>1. ASSUME CapacityInv, AnswerInv, [Next]_vars
      PROVE  Answer \/ UNCHANGED vars
  <2> SUFFICES ASSUME nodeExpand # Idle, nodeExpand' = Idle, resize = "node",
                      resize' = "idle", Next
               PROVE  /\ lv' >= getRoundedCapacity(want)
                      /\ mode # "block" => fs' = lv'
    BY <1>1
  <2> USE DEF publishVars, expandVars, volumeVars, claimVars
  <2>1. Extend
    BY ZenonT(30)
       DEF Next, ProvisionLV, UpdateVolInfo, DeleteVolume, Destroy,
           RemoveVolumeFilesystem, DestroyLV, RemoveVolFinalizer, Resize,
           ResizeVolume, Claim, ClaimNext, GrowClaim, Snapshot, GiveUp,
           ControllerExpandVolume, GetVolumeToExpand, NodeExpandVolume
  <2>2. nodeExpand.want = want
    BY <2>1, ZenonT(30)
       DEF Extend, ResizeNext, ExtendWithFS, ExtendLV, ResizeBTRFS,
           FailNodeExpand, RefuseNodeExpand, EndNodeExpand
  <2>3. /\ nodeExpand.cap \in Nat
        /\ getRoundedCapacity(want) \in Nat
        /\ getRoundedCapacity(want) <= nodeExpand.cap
        /\ lv \in Nat /\ fs \in Nat /\ fs <= lv
    BY <1>1, <2>2, ClaimRounded, ZenonT(30)
       DEF CapacityInv, NodeTypeOK, NodeExpandCall, AnswerInv
  <2>4. CASE ExtendWithFS
    BY <2>3, <2>4 DEF ExtendWithFS
  <2>5. CASE ExtendLV
    <3>1. mode = "block"
      <4>1. mode # "btrfs"
        BY <1>1, <2>5 DEF ExtendLV, CapacityInv, NodeTypeOK, NodeExpandCall, Idle
      <4> QED
        BY <1>1, <2>5, <4>1, ZenonT(30)
           DEF ExtendLV, CapacityInv, NodeTypeOK, Modes
    <3> QED
      BY <2>3, <2>5, <3>1 DEF ExtendLV
  <2>6. CASE ResizeBTRFS
    BY <1>1, <2>3, <2>6 DEF ResizeBTRFS, AnswerInv
  <2> QED
    BY <2>1, <2>4, <2>5, <2>6 DEF Extend, ResizeNext, FailNodeExpand, RefuseNodeExpand
<1>2. CapacityInv /\ AnswerInv /\ [Next]_vars => [Answer]_vars
  BY <1>1
<1> QED
  BY <1>2, AnswerInvariant, CapacityInvariant, PTL DEF Spec, ExpandAnswerTrue

-----------------------------------------------------------------------------
\* The early return of ControllerExpandVolume.

\* Neither of the two gaps that mislead it has occurred.
Calm == gaps \cap {"abandoned", "regrown"} = {}

\* There is at most one call, and the orchestrator waits for it.
CallsWait ==
    /\ \A e \in ExpandCalls : expands[e] # Idle =>
          /\ resize = "controller"
          /\ ~ expands[e].abandoned
          /\ expands[e].want = want
    /\ \A d, e \in ExpandCalls : expands[d] # Idle /\ expands[e] # Idle => d = e

\* NodeExpandVolume runs only while it is waited for, for the capacity of the
\* resource.
NodeWaits == nodeExpand # Idle => resize = "node" /\ nodeExpand.cap = vol.cap

\* Unless the node is to expand it, the logical volume has the size of the
\* resource.
SizeKept ==
    /\ here /\ vol.phase = "ready" /\ resize # "node" => lv = vol.cap
    /\ vol.phase = "pending" => resize = "idle" /\ (lv = 0 \/ lv = vol.cap)

\* The inductive invariant: without the gaps, the orchestrator and the two
\* plugins agree on what is left to be done.
GrownInv == Calm => CallsWait /\ NodeWaits /\ SizeKept

\* At first nothing is asked for and nothing is made.
LEMMA GrownInit == Init => GrownInv
  BY DEF Init, ExpandInit, GrownInv, CallsWait, NodeWaits, SizeKept, Idle

\* A step that leaves the three of them alone.
LEMMA CallsFrame ==
    ASSUME CallsWait, NodeWaits, UNCHANGED <<want, resize, expands, nodeExpand>>,
           vol'.cap = vol.cap
    PROVE  CallsWait' /\ NodeWaits'
  BY ZenonT(30) DEF CallsWait, NodeWaits

\* The volume controller makes the logical volume as large as the resource says,
\* before the volume is ready.
LEMMA GrownController ==
    ASSUME CapacityInv, CallsWait, NodeWaits, SizeKept,
           ProvisionLV \/ UpdateVolInfo \/ DeleteVolume \/ Destroy
    PROVE  CallsWait' /\ NodeWaits' /\ SizeKept'
<1>0. vol \in VolumeRecord /\ vol.cap \in Nat /\ lv \in Nat
  BY ZenonT(30) DEF CapacityInv, NodeTypeOK, VolumeRecord
<1>1. UNCHANGED <<want, resize, expands, nodeExpand, here>>
  BY ZenonT(30) DEF ProvisionLV, UpdateVolInfo, DeleteVolume, Destroy,
                    RemoveVolumeFilesystem, DestroyLV, RemoveVolFinalizer, expandVars
<1>2. \/ UNCHANGED vol /\ vol.phase = "pending" /\ lv' = vol.cap
      \/ vol' = [vol EXCEPT !.phase = "ready"] /\ UNCHANGED lv
            /\ vol.phase = "pending" /\ (here => lv > 0)
      \/ vol' = [vol EXCEPT !.phase = "deleting"]
      \/ UNCHANGED vol /\ vol.phase = "deleting"
      \/ vol' = [vol EXCEPT !.phase = "absent"]
  BY ZenonT(30) DEF ProvisionLV, UpdateVolInfo, DeleteVolume, Destroy,
                    RemoveVolumeFilesystem, DestroyLV, RemoveVolFinalizer
<1>3. vol'.cap = vol.cap
  BY <1>0, <1>2 DEF VolumeRecord
<1>4. \/ vol'.phase = "pending" /\ vol.phase = "pending" /\ lv' = vol.cap
      \/ vol'.phase = "ready" /\ UNCHANGED lv
            /\ vol.phase = "pending" /\ (here => lv > 0)
      \/ vol'.phase \in {"deleting", "absent"}
  BY <1>0, <1>2 DEF VolumeRecord
<1>5. CallsWait' /\ NodeWaits'
  BY <1>1, <1>3, CallsFrame
<1>6. SizeKept'
  BY <1>0, <1>1, <1>3, <1>4 DEF SizeKept
<1> QED
  BY <1>5, <1>6

\* A claim that grows while nothing is left to be done finds no call in
\* progress, and the early return ends the only one.
LEMMA GrownClaim ==
    ASSUME CapacityInv, CallsWait, NodeWaits, SizeKept, Calm', Claim
    PROVE  CallsWait' /\ NodeWaits' /\ SizeKept'
<1>0. UNCHANGED <<vol, here, lv>>
  BY ZenonT(30) DEF Claim, volumeVars
<1>a. expands \in [ExpandCalls -> ExpandCall \cup {Idle}]
  BY ZenonT(30) DEF CapacityInv, NodeTypeOK
<1>1. ASSUME NEW size \in Sizes, GrowClaim(size)
      PROVE  CallsWait' /\ NodeWaits' /\ SizeKept'
  <2>1. /\ vol.phase = "ready" /\ resize' = "controller"
        /\ UNCHANGED <<expands, nodeExpand>>
        /\ GapIf(resize # "idle", "regrown")
    BY <1>1, ZenonT(30) DEF GrowClaim
  <2>2. resize = "idle"
    BY <2>1 DEF GapIf, Gap, Calm
  <2>3. nodeExpand = Idle /\ \A e \in ExpandCalls : expands[e] = Idle
    BY <2>2 DEF CallsWait, NodeWaits
  <2>4. CallsWait' /\ NodeWaits'
    BY <2>1, <2>3, ZenonT(30) DEF CallsWait, NodeWaits
  <2>5. SizeKept'
    BY <1>0, <2>1, <2>2 DEF SizeKept
  <2> QED
    BY <2>4, <2>5
<1>2. CASE UNCHANGED <<want, resize, expands, nodeExpand>>
  <2>1. CallsWait' /\ NodeWaits'
    BY <1>0, <1>2, CallsFrame
  <2>2. SizeKept'
    BY <1>0, <1>2, ZenonT(30) DEF SizeKept
  <2> QED
    BY <2>1, <2>2
<1>3. ASSUME NEW e \in ExpandCalls, GiveUp(e)
      PROVE  FALSE
  BY <1>3 DEF GiveUp, Gap, Calm
<1>4. ASSUME NEW e \in ExpandCalls, ControllerExpandVolume(e)
      PROVE  CallsWait' /\ NodeWaits' /\ SizeKept'
  <2> DEFINE call == [pc |-> "get", want |-> want, abandoned |-> FALSE]
  <2>1. /\ UNCHANGED <<want, resize, nodeExpand>>
        /\ resize = "controller"
        /\ expands' = [expands EXCEPT ![e] = call]
        /\ \A d \in ExpandCalls : expands[d] # Idle => expands[d].abandoned
    BY <1>4, ZenonT(30) DEF ControllerExpandVolume, claimVars
  <2>2. ~ call.abandoned /\ call.want = want
    BY ZenonT(30)
  <2> HIDE DEF call
  <2>3. \A d \in ExpandCalls : expands[d] = Idle
    BY <2>1, ZenonT(30) DEF CallsWait
  <2>4. \A d \in ExpandCalls : expands'[d] = IF d = e THEN call ELSE Idle
    BY <1>a, <2>1, <2>3
  <2>5. CallsWait'
    BY <2>1, <2>2, <2>4 DEF CallsWait
  <2>6. NodeWaits' /\ SizeKept'
    BY <1>0, <2>1, ZenonT(30) DEF NodeWaits, SizeKept
  <2> QED
    BY <2>5, <2>6
<1>5. ASSUME NEW e \in ExpandCalls, GetVolumeToExpand(e)
      PROVE  CallsWait' /\ NodeWaits' /\ SizeKept'
  <2> DEFINE call == [pc |-> "update", want |-> expands[e].want,
                      abandoned |-> expands[e].abandoned, vol |-> vol]
  <2>1. UNCHANGED <<want, nodeExpand>> /\ expands[e].pc = "get"
    BY <1>5, ZenonT(30) DEF GetVolumeToExpand
  <2>2. expands[e] # Idle
    BY <2>1 DEF Idle
  <2>3. /\ resize = "controller"
        /\ ~ expands[e].abandoned
        /\ expands[e].want = want
        /\ \A d \in ExpandCalls \ {e} : expands[d] = Idle
    BY <2>2 DEF CallsWait
  <2>4. call.want = want /\ ~ call.abandoned
    BY <2>3, ZenonT(30)
  <2>5. \/ expands' = [expands EXCEPT ![e] = call] /\ UNCHANGED resize
        \/ expands' = [expands EXCEPT ![e] = Idle] /\ resize' \in {"idle", resize}
    BY <1>5, <1>a DEF GetVolumeToExpand, EndExpand, Answered
  <2> HIDE DEF call
  <2>6. \/ /\ \A d \in ExpandCalls : expands'[d] = IF d = e THEN call ELSE Idle
           /\ UNCHANGED resize
        \/ /\ \A d \in ExpandCalls : expands'[d] = Idle
           /\ resize' \in {"idle", resize}
    BY <1>a, <2>3, <2>5
  <2>7. CallsWait'
    BY <2>1, <2>3, <2>4, <2>6 DEF CallsWait
  <2>8. nodeExpand = Idle /\ vol.phase # "pending" /\ resize' # "node"
    BY <2>3, <2>6 DEF NodeWaits, SizeKept
  <2>9. NodeWaits'
    BY <2>1, <2>8, ZenonT(30) DEF NodeWaits
  <2>10. SizeKept'
    BY <1>0, <2>3, <2>8 DEF SizeKept
  <2> QED
    BY <2>7, <2>9, <2>10
<1>6. CASE NodeExpandVolume
  <2>1. /\ UNCHANGED <<want, resize, expands>>
        /\ resize = "node"
        /\ nodeExpand'.cap = vol.cap
    BY <1>6, ZenonT(30) DEF NodeExpandVolume, claimVars
  <2>2. CallsWait'
    BY <2>1, ZenonT(30) DEF CallsWait
  <2>3. NodeWaits' /\ SizeKept'
    BY <1>0, <2>1, ZenonT(30) DEF NodeWaits, SizeKept
  <2> QED
    BY <2>2, <2>3
<1>7. Snapshot => UNCHANGED <<want, resize, expands, nodeExpand>>
  BY ZenonT(30) DEF Snapshot
<1> QED
  BY <1>1, <1>2, <1>3, <1>4, <1>5, <1>6, <1>7, ZenonT(30) DEF Claim, ClaimNext

\* ResizeVolume hands over to the node, or changes nothing but the call.
LEMMA GrownResize ==
    ASSUME CapacityInv, CallsWait, NodeWaits, SizeKept,
           NEW e \in ExpandCalls, Resize(e)
    PROVE  CallsWait' /\ NodeWaits' /\ SizeKept'
<1>0. /\ expands \in [ExpandCalls -> ExpandCall \cup {Idle}]
      /\ vol \in VolumeRecord
  BY ZenonT(30) DEF CapacityInv, NodeTypeOK
<1>1. /\ expands[e].pc = "update"
      /\ expands' = [expands EXCEPT ![e] = Idle]
      /\ UNCHANGED <<want, nodeExpand, here, lv>>
  BY ZenonT(30) DEF Resize, ResizeVolume, EndExpand
<1>2. expands[e] # Idle
  BY <1>1 DEF Idle
<1>3. /\ resize = "controller"
      /\ ~ expands[e].abandoned
      /\ expands[e].want = want
      /\ \A d \in ExpandCalls \ {e} : expands[d] = Idle
  BY <1>2 DEF CallsWait
<1>4. \A d \in ExpandCalls : expands'[d] = Idle
  BY <1>0, <1>1, <1>3
<1>5. CallsWait'
  BY <1>4, ZenonT(30) DEF CallsWait
<1>6. nodeExpand = Idle /\ vol.phase # "pending"
  BY <1>3 DEF NodeWaits, SizeKept
<1>7. NodeWaits'
  BY <1>1, <1>6, ZenonT(30) DEF NodeWaits
<1>8. \/ resize' = "node" /\ vol' = [vol EXCEPT !.cap = getRoundedCapacity(want)]
      \/ UNCHANGED <<vol, resize>>
  BY <1>3, ZenonT(30) DEF Resize, ResizeVolume, Answered
<1>9. vol'.phase = vol.phase
  BY <1>0, <1>8 DEF VolumeRecord
<1>10. SizeKept'
  BY <1>1, <1>6, <1>8, <1>9, ZenonT(30) DEF SizeKept
<1> QED
  BY <1>5, <1>7, <1>10

\* NodeExpandVolume answers when the logical volume has the size of the
\* resource.
LEMMA GrownExtend ==
    ASSUME CapacityInv, AnswerInv, CallsWait, NodeWaits, SizeKept, Extend
    PROVE  CallsWait' /\ NodeWaits' /\ SizeKept'
<1>0. /\ vol.cap \in Nat /\ lv \in Nat /\ fs \in Nat
      /\ fs <= lv /\ lv <= vol.cap
      /\ nodeExpand \in NodeExpandCall \cup {Idle}
  BY ZenonT(30) DEF CapacityInv, NodeTypeOK, VolumeRecord
<1>1. UNCHANGED <<vol, here, want, expands>>
  BY ZenonT(30) DEF Extend, ResizeNext, ExtendWithFS, ExtendLV, ResizeBTRFS,
                    FailNodeExpand, RefuseNodeExpand, claimVars
<1>2. nodeExpand.pc \in {"resize", "btrfs"} \/ nodeExpand # Idle
  BY ZenonT(30) DEF Extend, ResizeNext, ExtendWithFS, ExtendLV, ResizeBTRFS,
                    FailNodeExpand, RefuseNodeExpand
<1>3. nodeExpand # Idle
  BY <1>2 DEF Idle
<1>4. /\ resize = "node"
      /\ nodeExpand.cap = vol.cap
      /\ nodeExpand \in NodeExpandCall
      /\ vol.phase # "pending"
      /\ \A e \in ExpandCalls : expands[e] = Idle
  BY <1>0, <1>3 DEF NodeWaits, CallsWait, SizeKept
<1>5. CallsWait'
  BY <1>1, <1>4, ZenonT(30) DEF CallsWait
<1>6. \/ nodeExpand' = Idle
      \/ nodeExpand' = [nodeExpand EXCEPT !.pc = "btrfs"] /\ UNCHANGED resize
  BY ZenonT(30) DEF Extend, ResizeNext, ExtendWithFS, ExtendLV, ResizeBTRFS,
                    FailNodeExpand, RefuseNodeExpand, EndNodeExpand
<1>7. [nodeExpand EXCEPT !.pc = "btrfs"].cap = nodeExpand.cap
  BY <1>4, ZenonT(30) DEF NodeExpandCall
<1>8. NodeWaits'
  BY <1>1, <1>4, <1>6, <1>7, ZenonT(30) DEF NodeWaits
<1>9. resize' # "node" => lv' = vol.cap
  <2>1. CASE ExtendWithFS
    BY <1>4, <2>1, ZenonT(30) DEF ExtendWithFS
  <2>2. CASE ExtendLV
    <3>1. lv' = IF lv < nodeExpand.cap THEN nodeExpand.cap ELSE lv
      BY <2>2, ZenonT(30) DEF ExtendLV
    <3> QED
      BY <1>0, <1>4, <3>1
  <2>3. CASE ResizeBTRFS
    <3>1. nodeExpand.pc = "btrfs" /\ fs > 0 /\ UNCHANGED lv
      BY <2>3, ZenonT(30) DEF ResizeBTRFS
    <3>2. lv > 0
      BY <1>0, <3>1
    <3>3. nodeExpand.cap <= lv
      BY <3>1, <3>2, ZenonT(30) DEF AnswerInv
    <3> QED
      BY <1>0, <1>4, <3>1, <3>3
  <2>4. CASE FailNodeExpand \/ RefuseNodeExpand
    BY <1>4, <2>4, ZenonT(30) DEF FailNodeExpand, RefuseNodeExpand, claimVars
  <2> QED
    BY <2>1, <2>2, <2>3, <2>4, ZenonT(30) DEF Extend, ResizeNext
<1>10. SizeKept'
  BY <1>1, <1>4, <1>9, ZenonT(30) DEF SizeKept
<1> QED
  BY <1>5, <1>8, <1>10

\* A gap that has occurred stays on record.
LEMMA GapsKept == Next => gaps \subseteq gaps'
<1>1. Claim => gaps \subseteq gaps'
  BY GapsGrow, ZenonT(30)
     DEF Claim, ClaimNext, GrowClaim, Snapshot, GiveUp,
         ControllerExpandVolume, GetVolumeToExpand, NodeExpandVolume
<1>2. PublishNext => gaps \subseteq gaps'
  BY GapsGrow, ZenonT(30)
     DEF PublishNext, NodePublishVolume, VerifyMountRequest, FormatAndMountVol,
         MountBlock, NodeUnpublishVolume
<1>3. ProvisionLV \/ UpdateVolInfo \/ DeleteVolume \/ Destroy => UNCHANGED gaps
  BY ZenonT(30) DEF ProvisionLV, UpdateVolInfo, DeleteVolume, Destroy,
                    RemoveVolumeFilesystem, DestroyLV, RemoveVolFinalizer
<1>4. Extend \/ (\E e \in ExpandCalls : Resize(e)) => UNCHANGED gaps
  BY ZenonT(30) DEF Extend, ResizeNext, ExtendWithFS, ExtendLV, ResizeBTRFS,
                    FailNodeExpand, RefuseNodeExpand, Resize, ResizeVolume
<1> QED
  BY <1>1, <1>2, <1>3, <1>4 DEF Next

\* Every step keeps the invariant for the early return.
LEMMA GrownNext == CapacityInv /\ AnswerInv /\ GrownInv /\ [Next]_vars => GrownInv'
<1> SUFFICES ASSUME CapacityInv, AnswerInv, GrownInv, [Next]_vars, Calm'
             PROVE  CallsWait' /\ NodeWaits' /\ SizeKept'
  BY ZenonT(30) DEF GrownInv
<1>1. gaps \subseteq gaps'
  BY GapsKept DEF vars
<1>2. CallsWait /\ NodeWaits /\ SizeKept
  BY <1>1 DEF GrownInv, Calm
<1>3. ASSUME UNCHANGED <<vol, here, lv, want, resize, expands, nodeExpand>>
      PROVE  CallsWait' /\ NodeWaits' /\ SizeKept'
  <2>1. CallsWait' /\ NodeWaits'
    BY <1>2, <1>3, CallsFrame
  <2>2. SizeKept'
    BY <1>2, <1>3, ZenonT(30) DEF SizeKept
  <2> QED
    BY <2>1, <2>2
<1>4. CASE UNCHANGED vars
  BY <1>3, <1>4, ZenonT(30) DEF vars
<1>5. CASE PublishNext /\ UNCHANGED expandVars
  BY <1>3, <1>5, ZenonT(30)
     DEF PublishNext, NodePublishVolume, VerifyMountRequest, FormatAndMountVol,
         MountBlock, NodeUnpublishVolume, volumeVars, expandVars
<1>6. CASE ProvisionLV \/ UpdateVolInfo \/ DeleteVolume \/ Destroy
  BY <1>2, <1>6, GrownController, ZenonT(30)
<1>7. CASE Claim
  BY <1>2, <1>7, GrownClaim, ZenonT(30)
<1>8. CASE \E e \in ExpandCalls : Resize(e)
  BY <1>2, <1>8, GrownResize, ZenonT(30)
<1>9. CASE Extend
  BY <1>2, <1>9, GrownExtend, ZenonT(30)
<1> QED
  BY <1>4, <1>5, <1>6, <1>7, <1>8, <1>9, ZenonT(30) DEF Next

\* The invariant for the early return holds throughout.
THEOREM GrownInvariant == Spec => []GrownInv
  BY GrownInit, GrownNext, AnswerInvariant, CapacityInvariant, PTL DEF Spec

\* When ControllerExpandVolume answers that nothing is left to be done, the
\* logical volume has the size of the resource, but for a request that was
\* given up on and for a claim that grew before the node was done.
THEOREM DoneIsGrown == Spec => DoneMeansGrown
<1>1. GrownInv => (resize = "controller" /\ resize' = "idle"
                   /\ gaps \cap {"abandoned", "regrown"} = {}
                   /\ here /\ vol.phase = "ready" => lv = vol.cap)
  BY DEF GrownInv, Calm, SizeKept
<1> QED
  BY <1>1, GrownInvariant, PTL DEF DoneMeansGrown
=============================================================================
