------------------------- MODULE SnapshotController -------------------------
(***************************************************************************)
(* CreateSnapshot and DeleteSnapshot of the CSI controller plugin, and the *)
(* part of DeleteVolume that looks for snapshots.                          *)
(*                                                                         *)
(* As in VolumeController, each API call of a handler is one step, the     *)
(* handlers interleave, and Abort ends one anywhere.  The volumes are      *)
(* Ready at first; VolumeContract says what becomes of a volume then: it   *)
(* is marked for deletion once and removed once.                           *)
(***************************************************************************)
EXTENDS LVMSnapshotCR

CONSTANTS
    LocalVolumes, \* the volumes of the node whose agent is modelled
    CreateCalls,  \* CreateSnapshot requests that can be in progress
    DeleteCalls,  \* DeleteVolume requests for them that can be in progress
    MaxSnapLives  \* bound: how many times one snapshot name is created

ASSUME LocalAssumption == LocalVolumes \subseteq Volumes

VARIABLES
    vols,         \* vols[v]: what has become of the LVMVolume v
    thick,        \* the snapshot class, or a thick volume, asks for a size
    creates,      \* creates[c]: the CreateSnapshot handler c
    deletes       \* deletes[d]: the DeleteVolume handler d

controllerVars == <<snaps, vols, thick, creates, deletes>>

Phases == {"ready", "deleting", "absent"}

CreateCall ==
    [pc   : {"none", "validate", "status", "getVolume", "provision",
             "finalStatus", "answered"},
     snap : Snapshots,
     vol  : Volumes]

DeleteCall ==
    [pc     : {"none", "get", "delete", "wait"},
     vol    : Volumes,
     before : [Snapshots -> Nat]]  \* NextSnapUid when the request came

NoRequest == [pc |-> "none"]

ControllerInit ==
    /\ snaps = [s \in Snapshots |-> <<>>]
    /\ vols = [v \in Volumes |-> "ready"]
    /\ thick \in BOOLEAN
    /\ creates = [c \in CreateCalls |-> NoRequest]
    /\ deletes = [d \in DeleteCalls |-> NoRequest]

-----------------------------------------------------------------------------
\* CreateSnapshot.

Goto(c, pc) == creates' = [creates EXCEPT ![c].pc = pc]

Return(c) == creates' = [creates EXCEPT ![c] = NoRequest]

\* The answer, which says ReadyToUse when the snapshot is found Ready.
Answer(c, ready) == IF ready THEN Goto(c, "answered") ELSE Return(c)

CreateSnapshot(c, s, v) ==
    /\ creates[c].pc = "none"
    /\ creates' = [creates EXCEPT ![c] =
                      [pc |-> "validate", snap |-> s, vol |-> v]]
    /\ UNCHANGED <<snaps, vols, thick, deletes>>

\* validateSnapshotRequest: a snapshot of that name must be of this volume.
ValidateSnapshotRequest(c) ==
    /\ creates[c].pc = "validate"
    /\ LET h == snaps[creates[c].snap] IN
          IF SnapExists(h) /\ Latest(h).vol # creates[c].vol
          THEN Return(c)
          ELSE Goto(c, "status")
    /\ UNCHANGED <<snaps, vols, thick, deletes>>

\* GetLVMSnapshotStatus answers for a snapshot that exists, whatever volume
\* it is of.  Any error of the Get means that it does not.
GetLVMSnapshotStatus(c) ==
    /\ creates[c].pc = "status"
    /\ LET h == snaps[creates[c].snap] IN
          \/ SnapExists(h) /\ Answer(c, Latest(h).state = "Ready")
          \/ Goto(c, "getVolume")
    /\ UNCHANGED <<snaps, vols, thick, deletes>>

\* GetLVMVolume of the source.  Its state is not looked at.
GetSourceVolume(c) ==
    /\ creates[c].pc = "getVolume"
    /\ IF vols[creates[c].vol] = "absent" THEN Return(c) ELSE Goto(c, "provision")
    /\ UNCHANGED <<snaps, vols, thick, deletes>>

\* ProvisionSnapshot: the name may have been taken in the meantime.
ProvisionSnapshot(c) ==
    /\ creates[c].pc = "provision"
    /\ LET s == creates[c].snap
           v == creates[c].vol
       IN  \/ /\ ~ SnapExists(snaps[s])
              /\ NextSnapUid(snaps[s]) <= MaxSnapLives
              /\ snaps' = [snaps EXCEPT ![s] =
                              SnapCreated(@, v, v \in LocalVolumes, thick)]
              /\ Goto(c, "finalStatus")
           \/ SnapExists(snaps[s]) /\ Return(c) /\ UNCHANGED snaps
    /\ UNCHANGED <<vols, thick, deletes>>

\* The status that goes into the answer; an error of this Get is ignored.
FinalStatus(c) ==
    /\ creates[c].pc = "finalStatus"
    /\ LET h == snaps[creates[c].snap] IN
          Answer(c, SnapExists(h) /\ Latest(h).state = "Ready")
    /\ UNCHANGED <<snaps, vols, thick, deletes>>

\* The handler returns, with an answer or, at any point, with an error.
EndCreate(c) ==
    /\ creates[c].pc # "none"
    /\ Return(c)
    /\ UNCHANGED <<snaps, vols, thick, deletes>>

\* DeleteSnapshot is a single Delete; the volume in the id is not compared.
DeleteSnapshot(s) ==
    /\ SnapExists(snaps[s])
    /\ snaps' = [snaps EXCEPT ![s] = SnapDeleted(@)]
    /\ UNCHANGED <<vols, thick, creates, deletes>>

-----------------------------------------------------------------------------
\* DeleteVolume.

GotoDelete(d, pc) == deletes' = [deletes EXCEPT ![d].pc = pc]

ReturnDelete(d) == deletes' = [deletes EXCEPT ![d] = NoRequest]

\* Wrong ValidateDeleteVolumeReq: the snapshots are not looked for.
ValidateNothing(d, v) ==
    /\ deletes[d].pc = "none"
    /\ deletes' = [deletes EXCEPT ![d] =
                      [pc |-> "get", vol |-> v,
                       before |-> [s \in Snapshots |-> NextSnapUid(snaps[s])]]]
    /\ UNCHANGED <<snaps, vols, thick, creates>>

\* validateDeleteVolumeReq lists the snapshots of the volume; there must be
\* none.
ValidateDeleteVolumeReq(d, v) ==
    /\ deletes[d].pc = "none"
    /\ GetSnapshotForVolume(v) = {}
    /\ deletes' = [deletes EXCEPT ![d] =
                      [pc |-> "get", vol |-> v,
                       before |-> [s \in Snapshots |-> NextSnapUid(snaps[s])]]]
    /\ UNCHANGED <<snaps, vols, thick, creates>>

\* deleteVolume: the Get, ...
GetVolumeToDelete(d) ==
    /\ deletes[d].pc = "get"
    /\ LET phase == vols[deletes[d].vol] IN
          \/ phase = "absent" /\ ReturnDelete(d)
          \/ phase = "deleting" /\ GotoDelete(d, "wait")
          \/ phase = "ready" /\ GotoDelete(d, "delete")
    /\ UNCHANGED <<snaps, vols, thick, creates>>

\* ... the Delete, which marks the volume, ...
DeleteLVMVolume(d) ==
    /\ deletes[d].pc = "delete"
    /\ LET v == deletes[d].vol IN
          IF vols[v] = "absent"
          THEN ReturnDelete(d) /\ UNCHANGED vols
          ELSE /\ vols' = [vols EXCEPT ![v] = "deleting"]
               /\ GotoDelete(d, "wait")
    /\ UNCHANGED <<snaps, thick, creates>>

\* ... and WaitForLVMVolumeDestroy.
WaitForDestroy(d) ==
    /\ deletes[d].pc = "wait"
    /\ vols[deletes[d].vol] = "absent"
    /\ ReturnDelete(d)
    /\ UNCHANGED <<snaps, vols, thick, creates>>

\* The handler returns an error.
AbortDelete(d) ==
    /\ deletes[d].pc # "none"
    /\ ReturnDelete(d)
    /\ UNCHANGED <<snaps, vols, thick, creates>>

ControllerNext ==
    \/ \E s \in Snapshots : DeleteSnapshot(s)
    \/ \E c \in CreateCalls :
          \/ \E s \in Snapshots, v \in Volumes : CreateSnapshot(c, s, v)
          \/ ValidateSnapshotRequest(c)
          \/ GetLVMSnapshotStatus(c)
          \/ GetSourceVolume(c)
          \/ ProvisionSnapshot(c)
          \/ FinalStatus(c)
          \/ EndCreate(c)
    \/ \E d \in DeleteCalls :
          \/ \E v \in LocalVolumes : ValidateDeleteVolumeReq(d, v)
          \/ GetVolumeToDelete(d)
          \/ DeleteLVMVolume(d)
          \/ WaitForDestroy(d)
          \/ AbortDelete(d)
=============================================================================
