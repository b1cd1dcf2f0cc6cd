--------------------------- MODULE MCApiLifecycle ---------------------------
(***************************************************************************)
(* ApiLifecycle for TLC: the tasks are the clients and one reaper per id.  *)
(***************************************************************************)
EXTENDS ApiLifecycle

CONSTANTS c1, i1, i2

MCTasks == {c1, i1, i2}
=============================================================================
