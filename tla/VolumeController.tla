-------------------------- MODULE VolumeController --------------------------
(***************************************************************************)
(* CreateVolume and DeleteVolume of the CSI controller plugin.             *)
(*                                                                         *)
(* A handler is a sequence of API calls; each is one step here, and the    *)
(* handlers of several requests for one volume interleave between them,    *)
(* since the gRPC server takes no lock.  Abort ends a handler anywhere:    *)
(* its context expired, an API call returned an error, the scheduler found *)
(* no node, or the controller pod was restarted.                           *)
(***************************************************************************)
EXTENDS LVMVolumeCR

CONSTANTS
    Calls,       \* requests that can be in progress for one volume
    MaxLives     \* bound: how many times one name is created

VARIABLE calls   \* calls[v][c]: handler c of a request for volume v

CreatePC == {"get", "waitProcessed", "delete", "waitDestroyed", "provision"}

DeletePC == {"deleteGet", "deleteCall", "deleteWait"}

Call ==
    [pc      : {"none"} \cup CreatePC \cup DeletePC,
     cap     : Capacities,   \* what CreateVolume asks for
     created : BOOLEAN]      \* CreateLVMVolume is past ProvisionVolume

ControllerInit ==
    /\ crs = [v \in Volumes |-> <<>>]
    /\ calls \in [Volumes -> [Calls -> {k \in Call : k.pc = "none"
                                                  /\ ~ k.created}]]

Goto(v, c, pc) == calls' = [calls EXCEPT ![v][c].pc = pc]

Return(v, c) ==
    calls' = [calls EXCEPT ![v][c] =
                  [@ EXCEPT !.pc = "none", !.created = FALSE]]

-----------------------------------------------------------------------------
\* CreateVolume.

CreateVolume(v, c) ==
    /\ calls[v][c].pc = "none"
    /\ \E cap \in Capacities :
          calls' = [calls EXCEPT ![v][c] =
                        [pc |-> "get", cap |-> cap, created |-> FALSE]]
    /\ UNCHANGED crs

\* Where waitForLVMVolume goes when it has read vol: a Ready volume is the
\* answer, a Failed one (its error is always set) is deleted and rescheduled.
Processed(v, c, vol) ==
    \/ vol.state = "Ready"  /\ Return(v, c)
    \/ vol.state = "Failed" /\ Goto(v, c, "delete")

\* The Get at the head of CreateLVMVolume and the branches on its result.
GetLVMVolume(v, c) ==
    /\ calls[v][c].pc = "get"
    /\ LET vol == Latest(crs[v]) IN
          \/ ~ Exists(crs[v]) /\ Goto(v, c, "provision")
          \/ Exists(crs[v]) /\ vol.del /\ Goto(v, c, "waitDestroyed")
          \/ /\ Exists(crs[v]) /\ ~ vol.del
             /\ \/ vol.cap # calls[v][c].cap /\ Return(v, c)
                \/ /\ vol.cap = calls[v][c].cap
                   /\ \/ vol.state = "Pending" /\ Goto(v, c, "waitProcessed")
                      \/ Processed(v, c, vol)
    /\ UNCHANGED crs

\* The poll of WaitForLVMVolumeProcessed that ends it.
WaitForLVMVolumeProcessed(v, c) ==
    /\ calls[v][c].pc = "waitProcessed"
    /\ \/ ~ Exists(crs[v]) /\ Return(v, c)
       \/ Exists(crs[v]) /\ Processed(v, c, Latest(crs[v]))
    /\ UNCHANGED crs

\* waitForLVMVolume deletes the volume it found Failed, by name.
DeleteFailed(v, c) ==
    /\ calls[v][c].pc = "delete"
    /\ \/ /\ Exists(crs[v])
          /\ crs' = [crs EXCEPT ![v] = Deleted(@)]
          /\ Goto(v, c, "waitDestroyed")
       \/ ~ Exists(crs[v]) /\ Return(v, c) /\ UNCHANGED crs

\* The poll of WaitForLVMVolumeDestroy that ends it.  The volume is created
\* anew, unless this handler has created one already.
WaitForLVMVolumeDestroy(v, c) ==
    /\ calls[v][c].pc = "waitDestroyed"
    /\ ~ Exists(crs[v])
    /\ \/ calls[v][c].created /\ Return(v, c)
       \/ ~ calls[v][c].created /\ Goto(v, c, "provision")
    /\ UNCHANGED crs

\* The scheduler picks a node and ProvisionVolume creates the resource, then
\* waitForLVMVolume begins; the name may have been taken in the meantime.
ProvisionVolume(v, c) ==
    /\ calls[v][c].pc = "provision"
    /\ \/ /\ ~ Exists(crs[v])
          /\ NextUid(crs[v]) <= MaxLives
          /\ \E owner \in Nodes :
                crs' = [crs EXCEPT ![v] = Created(@, owner, calls[v][c].cap)]
          /\ calls' = [calls EXCEPT ![v][c] =
                           [@ EXCEPT !.pc = "waitProcessed", !.created = TRUE]]
       \/ Exists(crs[v]) /\ Return(v, c) /\ UNCHANGED crs

-----------------------------------------------------------------------------
\* DeleteVolume, and the callback of the leak protection controller.

DeleteVolume(v, c) ==
    /\ calls[v][c].pc = "none"
    /\ Goto(v, c, "deleteGet")
    /\ UNCHANGED crs

DeleteGet(v, c) ==
    /\ calls[v][c].pc = "deleteGet"
    /\ \/ ~ Exists(crs[v]) /\ Return(v, c)
       \/ /\ Exists(crs[v])
          /\ Goto(v, c, IF Latest(crs[v]).del THEN "deleteWait"
                                              ELSE "deleteCall")
    /\ UNCHANGED crs

DeleteCall(v, c) ==
    /\ calls[v][c].pc = "deleteCall"
    /\ \/ /\ Exists(crs[v])
          /\ crs' = [crs EXCEPT ![v] = Deleted(@)]
          /\ Goto(v, c, "deleteWait")
       \/ ~ Exists(crs[v]) /\ Return(v, c) /\ UNCHANGED crs

DeleteWait(v, c) ==
    /\ calls[v][c].pc = "deleteWait"
    /\ ~ Exists(crs[v])
    /\ Return(v, c)
    /\ UNCHANGED crs

Abort(v, c) ==
    /\ calls[v][c].pc # "none"
    /\ Return(v, c)
    /\ UNCHANGED crs

ControllerNext(v, c) ==
    \/ CreateVolume(v, c)
    \/ GetLVMVolume(v, c)
    \/ WaitForLVMVolumeProcessed(v, c)
    \/ DeleteFailed(v, c)
    \/ WaitForLVMVolumeDestroy(v, c)
    \/ ProvisionVolume(v, c)
    \/ DeleteVolume(v, c)
    \/ DeleteGet(v, c)
    \/ DeleteCall(v, c)
    \/ DeleteWait(v, c)
    \/ Abort(v, c)
=============================================================================
