--------------------------- MODULE LVMSnapshotCR ---------------------------
(***************************************************************************)
(* The LVMSnapshot custom resource and what the API server does with it.   *)
(* As for volumes, the versions a name has had form one history: the       *)
(* position of a version is its resourceVersion.                           *)
(***************************************************************************)
EXTENDS Naturals, Sequences

CONSTANTS
    Snapshots,   \* snapshot names
    Volumes,     \* volume names
    NoLabel      \* the openebs.io/persistent-volume label is not set

ASSUME SnapAssumption == NoLabel \notin Volumes

VARIABLE snaps   \* snaps[s]: the history of the LVMSnapshot named s

SnapVersion ==
    [uid   : Nat \ {0},                  \* which life of the name
     vol   : Volumes,                    \* label openebs.io/persistent-volume
     here  : BOOLEAN,                    \* spec.ownerNodeID is the agent's node
     thick : BOOLEAN,                    \* spec.snapSize is set
     state : {"Pending", "Ready"},       \* status.state
     fin   : BOOLEAN,                    \* has the driver's finalizer
     del   : BOOLEAN,                    \* has a deletion timestamp
     gone  : BOOLEAN]                    \* last state of a removed object

-----------------------------------------------------------------------------
\* The builder chains of the source.

\* CreateSnapshot's object.
NewSnapshot(uid, v, here, thick) ==
    [uid |-> uid, vol |-> v, here |-> here, thick |-> thick,
     state |-> "Pending", fin |-> FALSE, del |-> FALSE, gone |-> FALSE]

\* Wrong WithSnapInfo: no finalizer.
WithSnapInfoOnly(snap) == [snap EXCEPT !.state = "Ready"]

\* Wrong WithSnapInfo: the labels are replaced, not merged.
WithSnapInfoRelabelled(snap) ==
    [snap EXCEPT !.state = "Ready", !.fin = TRUE, !.vol = NoLabel]

\* UpdateSnapInfo's object.  The node label it adds is never read.
WithSnapInfo(snap) == [snap EXCEPT !.state = "Ready", !.fin = TRUE]

\* RemoveSnapFinalizer's object.
WithoutSnapFinalizer(snap) == [snap EXCEPT !.fin = FALSE]

-----------------------------------------------------------------------------
\* The API server, on the history h of one name.

Latest(h) == h[Len(h)]

\* A Get finds the snapshot.
SnapExists(h) == Len(h) > 0 /\ ~ Latest(h).gone

NextSnapUid(h) == IF Len(h) = 0 THEN 1 ELSE Latest(h).uid + 1

\* Create, of a name that does not exist.
SnapCreated(h, v, here, thick) ==
    Append(h, NewSnapshot(NextSnapUid(h), v, here, thick))

\* Update, once its resourceVersion has been found current: an object with a
\* deletion timestamp and no finalizer left is removed.
SnapUpdated(h, snap) ==
    Append(h, [snap EXCEPT !.gone = snap.del /\ ~ snap.fin])

\* Delete, with propagation policy Foreground: the object is marked and stays
\* until its finalizers are gone, of which the API server adds one of its own.
SnapDeleted(h) ==
    IF Latest(h).del THEN h ELSE Append(h, [Latest(h) EXCEPT !.del = TRUE])

\* The garbage collector takes that finalizer off, which removes an object
\* that has no other.
GarbageCollect(s) ==
    /\ SnapExists(snaps[s])
    /\ Latest(snaps[s]).del
    /\ ~ Latest(snaps[s]).fin
    /\ snaps' = [snaps EXCEPT ![s] = Append(@, [Latest(@) EXCEPT !.gone = TRUE])]

\* A List with the volume's label as selector.
GetSnapshotForVolume(v) ==
    {s \in Snapshots : SnapExists(snaps[s]) /\ Latest(snaps[s]).vol = v}
=============================================================================
