------------------------ MODULE MCTaskReconciliation ------------------------
(* Two jobs: the first and its retry. *)
EXTENDS TaskReconciliation

TwoJobs == {1, 2}
==============================================================================
