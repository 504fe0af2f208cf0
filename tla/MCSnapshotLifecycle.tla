------------------------ MODULE MCSnapshotLifecycle ------------------------
(***************************************************************************)
(* SnapshotLifecycle for TLC.                                              *)
(***************************************************************************)
EXTENDS SnapshotInvariant
=============================================================================
