------------------------- MODULE MCVolumeLifecycle -------------------------
(***************************************************************************)
(* VolumeLifecycle for TLC.  Nodes, volume groups and request handlers are *)
(* model values that nothing tells apart, so safety is checked modulo      *)
(* their permutations.                                                     *)
(***************************************************************************)
EXTENDS VolumeInvariant, TLC

Symmetry ==
    Permutations(Nodes) \cup Permutations(VGs) \cup Permutations(Calls)

\* The last life of a name is on another node than the first, and nobody
\* deletes it.  A second life on the first node, and its deletion, are what a
\* single node has; the deletion of a life that moved is left to the proofs.
MovesAndStays ==
    \A v \in Volumes : \A i \in 1 .. Len(crs[v]) :
        crs[v][i].uid = MaxLives =>
            /\ ~ crs[v][i].del
            /\ crs[v][i].owner # crs[v][1].owner
=============================================================================
