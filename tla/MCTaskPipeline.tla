--------------------------- MODULE MCTaskPipeline ---------------------------
(***************************************************************************)
(* A small instance of TaskPipeline.  The run checks liveness, so packets   *)
(* and workers are not declared symmetric.                                  *)
(***************************************************************************)
EXTENDS TaskPipeline

CONSTANTS p1, p2, p3, w1, w2
=============================================================================
