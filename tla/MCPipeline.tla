----------------------------- MODULE MCPipeline -----------------------------
EXTENDS Pipeline

(* Two files and two contract names: enough for zero, one and two        *)
(* artifacts naming the target.                                           *)
MCFiles == {"F1", "F2"}
MCContracts == {"T", "U"}
=============================================================================
