--------------------------- MODULE MCPipelineProofs ---------------------------
(* The instance of MCPipeline with the inductive invariant of             *)
(* PipelineProofs in scope, so that TLC checks it on every state before  *)
(* it is proved for every instance.                                        *)
EXTENDS PipelineProofs, MCPipeline
=============================================================================
