--------------------------- MODULE MCStageProcess ---------------------------
(* Executions of a stage whose child may start one helper process, of any kind. *)
EXTENDS StageProcess

CONSTANT h

OneHelper == {h}
=============================================================================
