----------------------------- MODULE DumpSources -----------------------------
(***************************************************************************)
(* What dump_sources (crates/forge/src/cmd/clone.rs, lines 422-564)       *)
(* promises about the fetched files, whatever the layout: files are put   *)
(* at their destinations, a placed file is never displaced again, and the *)
(* call returns Ok only with every file placed; an error leaves the files *)
(* placed so far where they are (nothing is rolled back).                 *)
(***************************************************************************)
CONSTANTS
    Files,      \* the paths a fetched file may have
    Errors      \* the errors dump_sources may return

VARIABLES
    tree,       \* the fetched files
    placed,     \* the fetched files that sit at their destination
    status      \* "running", "done", or the error returned

avars == <<tree, placed, status>>

AInit == /\ tree \in SUBSET Files
         /\ placed = {}
         /\ status = "running"

(* Some more files reach their destinations; none leaves it.             *)
Place == /\ status = "running"
         /\ \E S \in SUBSET (tree \ placed) : S # {} /\ placed' = placed \cup S
         /\ UNCHANGED <<tree, status>>

(* The call returns Ok once every fetched file is placed.                *)
Complete == /\ status = "running" /\ placed = tree
            /\ status' = "done"
            /\ UNCHANGED <<tree, placed>>

(* The call returns an error; what was placed stays placed.              *)
Abort(e) == /\ status = "running"
            /\ status' = e
            /\ UNCHANGED <<tree, placed>>

ANext == Place \/ Complete \/ \E e \in Errors : Abort(e)

(* What the call may do: the safety part of the promise.                 *)
ASafe == AInit /\ [][ANext]_avars

=============================================================================
