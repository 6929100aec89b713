----------------------------- MODULE MCConfigSynth -----------------------------
(* ConfigSynth with two of the nine optimizer details, one a plain flag   *)
(* and "yul", the detail whose name is closest to the yulDetails table:   *)
(* every failure point, every combination of reported fields.             *)
EXTENDS ConfigSynth

MCDetailKeys == {"peephole", "yul"}

(* A plain flag and the detail the doc comment says is ignored.           *)
MCDetailKeysIgnored == {"peephole", IgnoredDetail}

=============================================================================
