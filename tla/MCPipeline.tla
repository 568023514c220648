----------------------------- MODULE MCPipeline -----------------------------
(***************************************************************************)
(* Small instances of Pipeline: one registered receiver, one HTTP handler  *)
(* that the pipeline does not know, two exporters.                         *)
(***************************************************************************)
EXTENDS Pipeline

CONSTANT r1
OneReceiver == <<r1>>
=============================================================================
