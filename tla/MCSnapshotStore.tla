--------------------------- MODULE MCSnapshotStore ---------------------------
(***************************************************************************)
(* SnapshotStore for TLC: interchangeable snapshots, one or two artifacts. *)
(***************************************************************************)
EXTENDS SnapshotStore, TLC

Symmetry == Permutations(Snaps)
==============================================================================
