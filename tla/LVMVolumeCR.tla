---------------------------- MODULE LVMVolumeCR ----------------------------
(***************************************************************************)
(* The LVMVolume custom resource and what the API server does with it.     *)
(*                                                                         *)
(* All the versions a volume name has had are kept in one history, oldest  *)
(* first: the position of a version in it is its resourceVersion, the last *)
(* version is what a Get returns, and an informer cache is a position.  A  *)
(* name may be deleted and created again; each life has its own uid.       *)
(***************************************************************************)
EXTENDS Naturals, Sequences

CONSTANTS
    Volumes,     \* volume names
    Nodes,       \* cluster nodes, one node agent on each
    NoNode,      \* the kubernetes.io/nodename label is not set
    VGs,         \* names of volume groups
    NoVG,        \* the empty string in spec.volGroup
    Capacities   \* rounded capacities a volume may be requested with

ASSUME CRAssumption == NoNode \notin Nodes /\ NoVG \notin VGs

VARIABLE crs     \* crs[v]: the history of the LVMVolume named v

Version ==
    [uid   : Nat \ {0},                      \* which life of the name
     owner : Nodes,                          \* spec.ownerNodeID
     cap   : Capacities,                     \* spec.capacity
     vg    : VGs \cup {NoVG},                \* spec.volGroup
     state : {"Pending", "Ready", "Failed"}, \* status.state
     node  : Nodes \cup {NoNode},            \* label set by UpdateVolInfo
     fin   : BOOLEAN,                        \* has the driver's finalizer
     del   : BOOLEAN,                        \* has a deletion timestamp
     gone  : BOOLEAN]                        \* last state of a removed object

-----------------------------------------------------------------------------
\* The builder chains of the source.

\* A volume as CreateLVMVolume builds it.
NewVolume(uid, owner, cap) ==
    [uid |-> uid, owner |-> owner, cap |-> cap, vg |-> NoVG,
     state |-> "Pending", node |-> NoNode,
     fin |-> FALSE, del |-> FALSE, gone |-> FALSE]

\* UpdateVolGroup's object.
WithVolGroup(vol, vg) == [vol EXCEPT !.vg = vg]

\* Wrong WithVolInfo: a Ready volume gets no finalizer.
WithVolInfoOnly(vol, state, n) == [vol EXCEPT !.state = state, !.node = n]

\* UpdateVolInfo's object: only a Ready volume gets the finalizer.
WithVolInfo(vol, state, n) ==
    [vol EXCEPT !.state = state, !.node = n, !.fin = (state = "Ready")]

\* Wrong WithoutFinalizer: the finalizers are not cleared.
WithoutNothing(vol) == vol

\* RemoveVolFinalizer's object.
WithoutFinalizer(vol) == [vol EXCEPT !.fin = FALSE]

-----------------------------------------------------------------------------
\* The API server, on the history h of one name.

Latest(h) == h[Len(h)]

\* A Get finds the volume.
Exists(h) == Len(h) > 0 /\ ~ Latest(h).gone

\* The uid the next life of the name has.
NextUid(h) == IF Len(h) = 0 THEN 1 ELSE Latest(h).uid + 1

\* Create, of a name that does not exist.
Created(h, owner, cap) == Append(h, NewVolume(NextUid(h), owner, cap))

\* What becomes of an object written as vol, which has the finalizers that the
\* driver gives it and no others: it is removed when it has a deletion
\* timestamp and no finalizer.
Stored(vol) == [vol EXCEPT !.gone = vol.del /\ ~ vol.fin]

\* Update, once its resourceVersion has been found current.  Writing what is
\* already there makes no new version.
Updated(h, vol) ==
    IF Stored(vol) = Latest(h) THEN h ELSE Append(h, Stored(vol))

\* Delete, with propagation policy Foreground: the object is marked and stays
\* until its finalizers are gone, of which the API server adds one of its own.
Deleted(h) ==
    IF Latest(h).del THEN h ELSE Append(h, [Latest(h) EXCEPT !.del = TRUE])

\* The garbage collector takes that finalizer off, which removes an object
\* that has no other.
GarbageCollect(v) ==
    /\ Exists(crs[v])
    /\ Latest(crs[v]).del
    /\ ~ Latest(crs[v]).fin
    /\ crs' = [crs EXCEPT ![v] = Append(@, [Latest(@) EXCEPT !.gone = TRUE])]
=============================================================================
