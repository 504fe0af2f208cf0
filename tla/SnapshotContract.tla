-------------------------- MODULE SnapshotContract --------------------------
(***************************************************************************)
(* What the driver promises about the life of a snapshot, as seen from the *)
(* LVMSnapshot resource: the source volume is settled when the snapshot is *)
(* created; a snapshot goes away only after it has been marked for         *)
(* deletion, from which it does not come back.                             *)
(***************************************************************************)
EXTENDS Naturals

CONSTANTS Snapshots, Volumes, NoSource

VARIABLE life    \* life[s]: the current or the last life of s

Init ==
    life = [s \in Snapshots |->
               [uid |-> 0, phase |-> "absent", vol |-> NoSource]]

Step(s, from, new) ==
    /\ life[s].phase \in from
    /\ life' = [life EXCEPT ![s] = new]

Create(s) ==
    \E v \in Volumes :
        Step(s, {"absent"},
             [uid |-> life[s].uid + 1, phase |-> "pending", vol |-> v])

MakeReady(s) == Step(s, {"pending"}, [life[s] EXCEPT !.phase = "ready"])

MarkDeleted(s) ==
    Step(s, {"pending", "ready"}, [life[s] EXCEPT !.phase = "deleting"])

Remove(s) == Step(s, {"deleting"}, [life[s] EXCEPT !.phase = "absent"])

Next == \E s \in Snapshots :
    Create(s) \/ MakeReady(s) \/ MarkDeleted(s) \/ Remove(s)

Spec == Init /\ [][Next]_life
=============================================================================
