----------------------------- MODULE Scheduling -----------------------------
(***************************************************************************)
(* What the controller computes from LVMNode and LVMVolume resources: the  *)
(* weights of the three scheduling algorithms and the answer of            *)
(* GetCapacity.  A vgPattern is the set of group names it matches; it may  *)
(* match the empty name, NoGroup, of a volume that has no group yet.       *)
(*                                                                         *)
(* A report is what one LVMNode resource says: [exists, groups, owner],    *)
(* groups being the free space of every volume group.                      *)
(***************************************************************************)
EXTENDS Sizing, FiniteSetsExt

CONSTANTS
    Nodes, Groups, NoGroup,
    Zone,       \* the topology label of every node
    NoSegment   \* a request without topology segments

Matching(vols, pattern) == {v \in vols : v.group \in pattern}

getVolumeWeightedMap(vols, pattern) ==
    LET counted == Matching(vols, pattern) IN
    [n \in {v.node : v \in counted} |->
        Cardinality({v \in counted : v.node = n})]

getCapacityWeightedMap(vols, pattern) ==
    LET counted == Matching(vols, pattern) IN
    [n \in {v.node : v \in counted} |->
        Wrap(MapThenSumSet(LAMBDA v : v.cap, {v \in counted : v.node = n}))]

\* The largest free space among the matching groups of one report.
MaxFree(report, pattern) ==
    Max({0} \cup {report.groups[g] : g \in DOMAIN report.groups \cap pattern})

\* Wrong getSpaceWeightedMap: the node with the least space is the lightest.
getSpaceWeightedMapUp(reports, pattern) ==
    [n \in {m \in Nodes : /\ reports[m].exists
                          /\ MaxFree(reports[m], pattern) > 0} |->
        MaxFree(reports[n], pattern)]

\* A node without free space gets no entry.
getSpaceWeightedMap(reports, pattern) ==
    [n \in {m \in Nodes : /\ reports[m].exists
                          /\ MaxFree(reports[m], pattern) > 0} |->
        MaxInt - MaxFree(reports[n], pattern)]

\* Wrong getNodeMap: the capacity algorithm counts volumes.
getNodeMapByCount(schd, vols, reports, pattern) ==
    IF schd \in {"VolumeWeighted", "CapacityWeighted"}
    THEN getVolumeWeightedMap(vols, pattern)
    ELSE getSpaceWeightedMap(reports, pattern)

getNodeMap(schd, vols, reports, pattern) ==
    CASE schd = "VolumeWeighted"   -> getVolumeWeightedMap(vols, pattern)
      [] schd = "CapacityWeighted" -> getCapacityWeightedMap(vols, pattern)
      [] OTHER                     -> getSpaceWeightedMap(reports, pattern)

filterNodesByTopology(segment) ==
    IF segment = NoSegment THEN Nodes ELSE {n \in Nodes : Zone[n] = segment}

\* The nodes the scheduling library may return first: a lightest one among
\* those with a weight, or, when absentFirst, a node without a weight.
Scheduler(nmap, topology, absentFirst) ==
    LET listed == topology \cap DOMAIN nmap
        absent == topology \ DOMAIN nmap
    IN  IF absent # {} /\ (absentFirst \/ listed = {})
        THEN absent
        ELSE {n \in listed : \A m \in listed : nmap[n] <= nmap[m]}

\* Wrong GetCapacity: the free space of the groups is added up.
GetCapacitySum(reports, topology, pattern) ==
    MapThenSumSet(LAMBDA n : MapThenSumSet(LAMBDA g : reports[n].groups[g],
                                           DOMAIN reports[n].groups \cap pattern),
                  {n \in topology : reports[n].exists})

\* The largest volume that fits some group, not the sum of the groups.
GetCapacity(reports, topology, pattern) ==
    Max({0} \cup {MaxFree(reports[n], pattern) :
                      n \in {m \in topology : reports[m].exists}})
=============================================================================
