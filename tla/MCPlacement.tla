----------------------------- MODULE MCPlacement -----------------------------
(***************************************************************************)
(* Small instances of Placement.                                           *)
(***************************************************************************)
EXTENDS Placement, TLC

CONSTANTS n1, n2, g1, g2, v1

\* Two zones of one node each.
MCZone == [n \in Nodes |-> IF n = n1 THEN "z1" ELSE "z2"]

Caps(access) == {[access |-> access, type |-> "mount"]}

\* A volume of one Gi for any zone, and a larger one for This's, which is
\* rounded up beyond what a group holds.  A shared one is refused.
MCRequests == [v \in Volumes |->
    IF v = v1 THEN {[size |-> 2, segment |-> NoSegment,
                     caps |-> Caps("SINGLE_NODE_WRITER")],
                    [size |-> 1, segment |-> NoSegment,
                     caps |-> Caps("MULTI_NODE_MULTI_WRITER")]}
    ELSE {[size |-> 3, segment |-> "z1", caps |-> Caps("unset")]}]

\* One node has more volumes, the other the larger one.
MCPlaced ==
    {[name |-> "a", node |-> n1, group |-> g1, cap |-> 3],
     [name |-> "b", node |-> n2, group |-> g1, cap |-> 1],
     [name |-> "c", node |-> n2, group |-> g2, cap |-> 1]}

\* Every algorithm, both kinds of volumes, patterns that match some of the
\* groups, all, and the empty name.
MCClasses ==
    {<<("vgpattern" :> {g1, g2}), FALSE>>,
     <<("volgroup" :> g1 @@ "thinprovision" :> "yes"
        @@ "scheduler" :> "SpaceWeighted"), FALSE>>,
     <<("scheduler" :> "VolumeWeighted"), TRUE>>,
     <<("scheduler" :> "CapacityWeighted" @@ "vgpattern" :> {g1, g2}), FALSE>>,
     <<("scheduler" :> "CapacityWeighted" @@ "volgroup" :> g1), FALSE>>}
=============================================================================
