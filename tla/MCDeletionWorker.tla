------------------------- MODULE MCDeletionWorker -------------------------
(* DeletionWorker for TLC: its constants are sets of model values.  No      *)
(* symmetry, since the run checks liveness.                                 *)
EXTENDS DeletionWorker
===========================================================================
