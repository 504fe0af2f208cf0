--------------------------- MODULE VolumeContract ---------------------------
(***************************************************************************)
(* What the driver promises about the life of a volume, as an orchestrator *)
(* that only sees the LVMVolume resource may rely on it: where a volume is *)
(* to live and how big it is are settled when it is created; the volume    *)
(* group may change until the volume is Ready and never afterwards; Ready  *)
(* and Failed are final; a volume goes away only after it has been marked  *)
(* for deletion, and a marked one neither changes nor comes back.          *)
(***************************************************************************)
EXTENDS Naturals

CONSTANTS Volumes, Nodes, NoNode, VGs, NoVG, Capacities

VARIABLE life   \* life[v]: the current or the last life of v

Absent(v) == life[v].phase = "absent"

Init ==
    life = [v \in Volumes |->
               [uid |-> 0, phase |-> "absent", owner |-> NoNode, cap |-> 0,
                vg |-> NoVG, node |-> NoNode]]

Step(v, from, new) ==
    /\ life[v].phase \in from
    /\ life' = [life EXCEPT ![v] = new]

Create(v) ==
    \E owner \in Nodes, cap \in Capacities :
        Step(v, {"absent"},
             [uid |-> life[v].uid + 1, phase |-> "pending", owner |-> owner,
              cap |-> cap, vg |-> NoVG, node |-> NoNode])

ChooseVG(v) ==
    \E vg \in VGs : Step(v, {"pending"}, [life[v] EXCEPT !.vg = vg])

Provision(v) ==
    \E n \in Nodes :
        /\ life[v].vg # NoVG
        /\ Step(v, {"pending"},
                [life[v] EXCEPT !.phase = "ready", !.node = n])

Fail(v) ==
    \E n \in Nodes :
        Step(v, {"pending"}, [life[v] EXCEPT !.phase = "failed", !.node = n])

MarkDeleted(v) ==
    Step(v, {"pending", "ready", "failed"}, [life[v] EXCEPT !.phase = "deleting"])

Remove(v) == Step(v, {"deleting"}, [life[v] EXCEPT !.phase = "absent"])

Next == \E v \in Volumes :
    Create(v) \/ ChooseVG(v) \/ Provision(v) \/ Fail(v)
              \/ MarkDeleted(v) \/ Remove(v)

Spec == Init /\ [][Next]_life
=============================================================================
