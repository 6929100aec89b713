------------------------ MODULE MCMaterializeProofs ------------------------
(* The instance of MCMaterialize, with the inductive invariant of the    *)
(* proof of NoOverwrite in scope, so that TLC checks it on every state.   *)
EXTENDS MaterializeRefinement, MCMaterialize
=============================================================================
