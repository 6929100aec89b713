----------------------------- MODULE ConfigSynth -----------------------------
(***************************************************************************)
(* The second Config::update_at of dump_sources_and_update_config           *)
(* (crates/forge/src/cmd/clone.rs, lines 257-260) and the closure it runs,  *)
(* update_config_by_metadata (lines 313-416): the profile section of       *)
(* foundry.toml gets the chain id, auto_detect_solc = false and the solc   *)
(* version, then every compiler setting the explorer reported; the         *)
(* document is written back only when the closure returns Ok.              *)
(*                                                                         *)
(* Data abstraction: the document is a function from key paths under the  *)
(* profile section to "unset", "table" or the value written there; every   *)
(* value taken from the report is "reported". The explorer's settings are *)
(* the set of the optional fields it filled in, and the first of the      *)
(* closure's fallible steps that fails, if any.                            *)
(***************************************************************************)
EXTENDS SequencesExt

CONSTANTS
    DetailKeys  \* the optimizer_details keys the report may carry

(* The nine keys update_config_by_metadata copies into optimizer_details. *)
OptimizerDetailKeys ==
    {"peephole", "inliner", "jumpdestRemover", "orderLiterals", "deduplicate",
     "cse", "constantOptimizer", "simpleCounterForLoopUncheckedIncrement", "yul"}

ASSUME ConfigSynthAssumption == DetailKeys \subseteq OptimizerDetailKeys

ScalarFields == {"evm_version", "via_ir", "optimizer", "optimizer_runs"}
MetaFields == {"cbor_metadata", "use_literal_content", "bytecode_hash"}
YulKeys == {"stackAllocation", "optimizerSteps"}

(* The key paths of the profile section the clone touches.                *)
Paths == {<<k>> : k \in {"remappings", "auto_detect_remappings", "chain_id",
                        "auto_detect_solc", "solc_version", "libraries",
                        "optimizer_details"} \cup ScalarFields \cup MetaFields}
         \cup {<<"optimizer_details", d>> : d \in DetailKeys \cup {"yulDetails"}}
         \cup {<<"optimizer_details", "yulDetails", y>> : y \in YulKeys}

(* The document after the first update_at (lines 240-255): remappings     *)
(* and auto_detect_remappings set, nothing else of the profile.          *)
InitialDoc == [p \in Paths |-> CASE p = <<"remappings">>             -> "remappings"
                                 [] p = <<"auto_detect_remappings">> -> "false"
                                 [] OTHER                            -> "unset"]

(* What the explorer returned: which fallible step fails ("none" if none: *)
(* compiler_version, settings, or the stop_after ensure), the optional    *)
(* fields present, which of the optional sections metadata, details and  *)
(* yul_details (inside the details) are present, and their fields.       *)
Reports == {r \in [fails    : {"none", "compiler_version", "settings", "stop_after"},
                   fields   : SUBSET ScalarFields,
                   sections : SUBSET {"metadata", "details", "yul_details"},
                   metadata : SUBSET MetaFields,
                   details  : SUBSET DetailKeys,
                   yul      : SUBSET YulKeys] :
                /\ "yul_details" \in r.sections => "details" \in r.sections
                /\ "metadata" \notin r.sections => r.metadata = {}
                /\ "details" \notin r.sections => r.details = {}
                /\ "yul_details" \notin r.sections => r.yul = {}}

(* `doc[...][p] = toml_edit::table()`: the path becomes an empty table,   *)
(* dropping whatever was below it.                                         *)
Table(d, p) == [k \in DOMAIN d |-> CASE k = p          -> "table"
                                     [] IsStrictPrefix(p, k) -> "unset"
                                     [] OTHER          -> d[k]]

(* update_if_needed! (lines 322-338) for each path of P whose value is   *)
(* present. get_mut of toml_edit inserts a missing key into a table, and *)
(* every parent on these paths is a table, so the "cannot find the key"  *)
(* return (line 331) is not taken.                                         *)
UpdateIfNeeded(d, P) == [k \in DOMAIN d |-> IF k \in P THEN "reported" ELSE d[k]]

(* Mutant: the yulDetails table is created whenever optimizer details are *)
(* reported, with or without yul_details.                                   *)
UpdateConfigByMetadataYulTable(d, r) ==
    LET d1 == [d EXCEPT ![<<"chain_id">>] = "chain", ![<<"auto_detect_solc">>] = "false"]
        d2 == [d1 EXCEPT ![<<"solc_version">>] = "x.y.z"]
        d3 == UpdateIfNeeded(d2, {<<f>> : f \in r.fields})
        d4 == IF "metadata" \notin r.sections THEN d3
              ELSE UpdateIfNeeded(d3, {<<f>> : f \in r.metadata})
        d5 == IF "details" \notin r.sections THEN d4
              ELSE LET t == UpdateIfNeeded(Table(d4, <<"optimizer_details">>),
                                           {<<"optimizer_details", k>> : k \in r.details})
                       y == Table(t, <<"optimizer_details", "yulDetails">>)
                   IN  IF "yul_details" \notin r.sections THEN y
                       ELSE UpdateIfNeeded(y, {<<"optimizer_details", "yulDetails", k>> : k \in r.yul})
    IN  CASE r.fails = "compiler_version"           -> <<"err", d1>>
          [] r.fails \in {"settings", "stop_after"} -> <<"err", d2>>
          [] r.fails = "none" -> <<"ok", [d5 EXCEPT ![<<"libraries">>] = "libs"]>>

(* update_config_by_metadata: the result it returns and the document as   *)
(* it leaves it. chain_id and auto_detect_solc are written before         *)
(* compiler_version()? (lines 341-345), solc_version before settings()?   *)
(* and the stop_after ensure (346-354); then the reported fields (356-     *)
(* 368), optimizer_details replaced by a table holding the reported       *)
(* details and, when reported, a yulDetails table (370-398), and the      *)
(* libraries, always (400-413).                                             *)
UpdateConfigByMetadata(d, r) ==
    LET d1 == [d EXCEPT ![<<"chain_id">>] = "chain", ![<<"auto_detect_solc">>] = "false"]
        d2 == [d1 EXCEPT ![<<"solc_version">>] = "x.y.z"]
        d3 == UpdateIfNeeded(d2, {<<f>> : f \in r.fields})
        d4 == IF "metadata" \notin r.sections THEN d3
              ELSE UpdateIfNeeded(d3, {<<f>> : f \in r.metadata})
        d5 == IF "details" \notin r.sections THEN d4
              ELSE LET t == UpdateIfNeeded(Table(d4, <<"optimizer_details">>),
                                           {<<"optimizer_details", k>> : k \in r.details})
                   IN  IF "yul_details" \notin r.sections THEN t
                       ELSE UpdateIfNeeded(Table(t, <<"optimizer_details", "yulDetails">>),
                                           {<<"optimizer_details", "yulDetails", k>> : k \in r.yul})
    IN  CASE r.fails = "compiler_version"           -> <<"err", d1>>
          [] r.fails \in {"settings", "stop_after"} -> <<"err", d2>>
          [] r.fails = "none" -> <<"ok", [d5 EXCEPT ![<<"libraries">>] = "libs"]>>

VARIABLES
    report,     \* the explorer's metadata for the contract
    file,       \* foundry.toml's profile section on disk
    result      \* "pending", then what the closure returned: "ok" or "err"

vars == <<report, file, result>>

Init == /\ report \in Reports
        /\ file = InitialDoc
        /\ result = "pending"

(* Config::update_at (crates/config, not in this tree): parse             *)
(* foundry.toml, run the closure on the document, and write the document *)
(* back only if the closure returned true, that is here `.is_ok()`.      *)
UpdateAt ==
    /\ result = "pending"
    /\ LET out == UpdateConfigByMetadata(file, report)
       IN  /\ result' = out[1]
           /\ file' = IF out[1] = "ok" THEN out[2] ELSE file
    /\ UNCHANGED report

(* update_at has returned; the clone goes on either way.                  *)
Returned == /\ result # "pending"
            /\ UNCHANGED vars

Next == UpdateAt \/ Returned

Spec == Init /\ [][Next]_vars

-----------------------------------------------------------------------------
(* Type invariant.                                                         *)
TypeOK == /\ report \in Reports
          /\ file \in [Paths -> {"unset", "table", "reported", "remappings",
                                 "false", "chain", "x.y.z", "libs"}]
          /\ result \in {"pending", "ok", "err"}

(* What the synthesis should leave in the profile, as the doc comment of  *)
(* update_config_by_metadata lists it (lines 290-308): the chain id,      *)
(* auto_detect_solc off, the solc version and the libraries; every        *)
(* reported setting except simpleCounterForLoopUncheckedIncrement, which  *)
(* the comment says is ignored (line 306); an optimizer_details table     *)
(* when details are reported, and a yulDetails table in it only when      *)
(* yul_details are; all else as it was.                                    *)
IgnoredDetail == "simpleCounterForLoopUncheckedIncrement"

Fixed == [chain_id |-> "chain", auto_detect_solc |-> "false",
          solc_version |-> "x.y.z", libraries |-> "libs"]

ReportedPaths(r) ==
    {<<f>> : f \in r.fields \cup r.metadata}
    \cup {<<"optimizer_details", k>> : k \in r.details \ {IgnoredDetail}}
    \cup {<<"optimizer_details", "yulDetails", k>> : k \in r.yul}

TablePaths(r) ==
    {p \in {<<"optimizer_details">>, <<"optimizer_details", "yulDetails">>} :
        IF Len(p) = 1 THEN "details" \in r.sections ELSE "yul_details" \in r.sections}

Expected(r) ==
    [p \in Paths |-> CASE p \in {<<f>> : f \in DOMAIN Fixed} -> Fixed[p[1]]
                       [] p \in ReportedPaths(r)              -> "reported"
                       [] p \in TablePaths(r)                 -> "table"
                       [] OTHER                               -> InitialDoc[p]]

(* A synthesis that succeeds leaves foundry.toml exactly as the doc       *)
(* comment of update_config_by_metadata describes: nothing reported is    *)
(* lost, nothing unreported (an empty yulDetails table, a detail left     *)
(* over from before the table() of line 371) is added, and the detail    *)
(* the comment calls ignored is not written.                               *)
SynthesisFaithful == result = "ok" => file = Expected(report)

=============================================================================
