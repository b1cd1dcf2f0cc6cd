------------------------ MODULE MCFirecrackerRuntime ------------------------
(***************************************************************************)
(* FirecrackerRuntime for TLC: ids and tasks are model values,            *)
(* interchangeable where only safety is checked.                           *)
(***************************************************************************)
EXTENDS FirecrackerRuntime, TLC

Symmetry == Permutations(Tasks) \cup Permutations(Ids)
=============================================================================
