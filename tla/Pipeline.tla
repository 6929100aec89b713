------------------------------ MODULE Pipeline ------------------------------
(***************************************************************************)
(* CloneArgs::run of crates/forge/src/cmd/clone.rs: fetch the verified     *)
(* source, init a project, dump the sources, write the remappings and the *)
(* explorer's compiler settings into foundry.toml, export remappings.txt, *)
(* compile, find the target's artifact, fetch the creation data, write    *)
(* the read-only .clone.meta, and optionally commit. Each `?` ends the    *)
(* run with an error; nothing is rolled back.                             *)
(*                                                                         *)
(* dump_sources is abstracted to its outcome (Materialize models it).     *)
(* Config::update_at(root, f) loads foundry.toml into a document, runs f  *)
(* on it, and writes the document back only when f returns true.          *)
(***************************************************************************)
EXTENDS Naturals, FiniteSets

CONSTANTS
    Files,      \* source files the compiler may produce artifacts for
    Contracts,  \* contract names
    Target      \* the contract name the explorer reports

ASSUME PipelineAssumption ==
    /\ Target \in Contracts
    /\ Files # {}
    /\ IsFiniteSet(Files)
    /\ "none" \notin Files

(* The explorer's answer: number of items, Vyper or not, whether the     *)
(* settings and the compiler version parse, and the stop_after field.     *)
Answers == [items : 0..2, vyper : BOOLEAN, settingsOk : BOOLEAN,
            versionOk : BOOLEAN, stopAfter : BOOLEAN, details : BOOLEAN]

(* The profile section of foundry.toml, reduced to the keys the run       *)
(* writes: remappings, the solc pin, and the optimizer_details table.    *)
Docs == [remappings : {"none", "list"}, autoDetectRemappings : BOOLEAN,
         solc : {"auto", "x.y.z"}, optimizerDetails : BOOLEAN]

(* No .clone.meta file.                                                    *)
NoMeta == [path |-> "none", readonly |-> FALSE]

InitDoc == [remappings |-> "none", autoDetectRemappings |-> TRUE,
            solc |-> "auto", optimizerDetails |-> FALSE]

VARIABLES
    stage,      \* the step of run() about to execute, "done" or "failed"
    answer,     \* the explorer's answer for the address
    noRemappingsTxt, commit,   \* the CLI flags
    project,    \* whether the project root has been written to
    doc,        \* foundry.toml's profile section
    remappingsTxt,  \* whether remappings.txt exists
    artifacts,  \* the compiler's output: pairs <<file, contract>>
    mainFile,   \* the file find_main_contract returned, or "none"
    cloneMeta   \* the .clone.meta file: NoMeta or [path, readonly]

vars == <<stage, answer, noRemappingsTxt, commit, project, doc, remappingsTxt,
          artifacts, mainFile, cloneMeta>>

Stages == {"fetch", "init", "dump", "remappings", "settings", "txt", "compile",
           "find", "creation", "write_meta", "protect", "commit", "done", "failed"}

Goto(s) == stage' = s
Abort == stage' = "failed"

(* update_config_by_metadata (lines 313-416) applied to a document: it   *)
(* errors when the version or settings do not parse or stop_after is set *)
(* (lines 345, 353, 354); otherwise it pins solc and, when the explorer  *)
(* reported optimizer details, replaces optimizer_details (line 371).    *)
(* The solc pin is the version reformatted as major.minor.patch.          *)
(* Mutant: the version is written as reported, build metadata included, *)
(* not reformatted to major.minor.patch (lines 346-347).                   *)
SynthesizedRawVersion(d, a) == [d EXCEPT !.solc = "x.y.z+commit",
                                         !.optimizerDetails = (a.details \/ @)]
SynthOk(a) == a.versionOk /\ a.settingsOk /\ ~a.stopAfter
Synthesized(d, a) == [d EXCEPT !.solc = "x.y.z",
                               !.optimizerDetails = (a.details \/ @)]

-----------------------------------------------------------------------------
Init ==
    /\ stage = "fetch"
    /\ answer \in Answers
    /\ noRemappingsTxt \in BOOLEAN
    /\ commit \in BOOLEAN
    /\ project = FALSE
    /\ doc = InitDoc
    /\ remappingsTxt = FALSE
    /\ artifacts = {}
    /\ mainFile = "none"
    /\ cloneMeta = NoMeta

(* Mutant: the Vyper check of line 156 is left out.                      *)
FetchAnyLanguage ==
    /\ stage = "fetch"
    /\ IF answer.items = 1 THEN Goto("init") ELSE Abort
    /\ UNCHANGED <<answer, noRemappingsTxt, commit, project, doc, remappingsTxt,
                   artifacts, mainFile, cloneMeta>>

(* collect_metadata_from_client (lines 149-158): exactly one item, not   *)
(* Vyper; a failed request is an error too.                               *)
Fetch ==
    /\ stage = "fetch"
    /\ IF answer.items = 1 /\ ~answer.vyper THEN Goto("init") ELSE Abort
    /\ UNCHANGED <<answer, noRemappingsTxt, commit, project, doc, remappingsTxt,
                   artifacts, mainFile, cloneMeta>>

(* init_an_empty_project (lines 165-178) and the canonicalize of line    *)
(* 118: `forge init` writes the skeleton, the Counter examples are removed.*)
(* init_args.run() (168) may fail having written part of the skeleton or *)
(* none; a remove_file (173-175) or canonicalize may fail after it.       *)
InitProject ==
    /\ stage = "init"
    /\ \/ project' = TRUE /\ Goto("dump")
       \/ project' \in BOOLEAN /\ Abort
    /\ UNCHANGED <<answer, noRemappingsTxt, commit, doc, remappingsTxt, artifacts,
                   mainFile, cloneMeta>>

(* dump_sources (line 239): returns the remappings or a layout error; it *)
(* parses the settings itself (line 544), so unparsable settings end the *)
(* run here.                                                               *)
Dump ==
    /\ stage = "dump"
    /\ IF answer.settingsOk THEN Goto("remappings") \/ Abort ELSE Abort
    /\ UNCHANGED <<answer, noRemappingsTxt, commit, project, doc, remappingsTxt,
                   artifacts, mainFile, cloneMeta>>

(* Lines 240-255: the first update_at writes the remapping list and      *)
(* auto_detect_remappings = false; its closure always returns true. The  *)
(* load, parse or write of update_at itself may fail (the ? of 255).      *)
WriteRemappings ==
    /\ stage = "remappings"
    /\ \/ doc' = [doc EXCEPT !.remappings = "list", !.autoDetectRemappings = FALSE]
          /\ Goto("settings")
       \/ UNCHANGED doc /\ Abort
    /\ UNCHANGED <<answer, noRemappingsTxt, commit, project, remappingsTxt,
                   artifacts, mainFile, cloneMeta>>

(* Lines 258-260: the second update_at runs update_config_by_metadata;   *)
(* its closure returns `.is_ok()`, so on an error the document is simply *)
(* not written back and run() goes on. update_at's own load, parse or   *)
(* write may fail (the ? of 260).                                          *)
SynthesizeConfig ==
    /\ stage = "settings"
    /\ \/ /\ doc' = IF SynthOk(answer) THEN Synthesized(doc, answer) ELSE doc
          /\ Goto("txt")
       \/ UNCHANGED doc /\ Abort
    /\ UNCHANGED <<answer, noRemappingsTxt, commit, project, remappingsTxt,
                   artifacts, mainFile, cloneMeta>>

(* Lines 263-285: unless --no-remappings-txt, the remappings are moved  *)
(* from foundry.toml to remappings.txt. The check of line 265 is a       *)
(* conjunct: `forge init` writes no remappings.txt and nothing before    *)
(* creates one. When fs::write fails the closure returns false (273-274): *)
(* the remappings stay in foundry.toml and the run goes on; update_at     *)
(* itself may fail (the ? of 284).                                         *)
ExportRemappings ==
    /\ stage = "txt"
    /\ \/ /\ noRemappingsTxt
          /\ UNCHANGED <<doc, remappingsTxt>>
          /\ Goto("compile")
       \/ /\ ~noRemappingsTxt /\ ~remappingsTxt
          /\ \/ remappingsTxt' = TRUE /\ doc' = [doc EXCEPT !.remappings = "none"]
             \/ UNCHANGED <<doc, remappingsTxt>>
          /\ Goto("compile")
       \/ /\ ~noRemappingsTxt /\ ~remappingsTxt
          /\ UNCHANGED <<doc, remappingsTxt>>
          /\ Abort
    /\ UNCHANGED <<answer, noRemappingsTxt, commit, project, artifacts, mainFile,
                   cloneMeta>>

(* compile_project (lines 567-573, 196): the compiler may fail, or      *)
(* produce any set of artifacts.                                          *)
Compile ==
    /\ stage = "compile"
    /\ \/ /\ Abort /\ UNCHANGED artifacts
       \/ /\ \E out \in SUBSET (Files \X Contracts) : artifacts' = out
          /\ Goto("find")
    /\ UNCHANGED <<answer, noRemappingsTxt, commit, project, doc, remappingsTxt,
                   mainFile, cloneMeta>>

(* find_main_contract (lines 577-594, 197-200): the artifacts are scanned *)
(* for the target; a second match is an error, no match is an error. The  *)
(* storage layout was requested (line 569), so the expect of line 200    *)
(* holds.                                                                  *)
Matches(out) == {f \in Files : <<f, Target>> \in out}

(* Mutant: the first match is kept, the second is not reported.         *)
FindFirstContract ==
    /\ stage = "find"
    /\ \/ /\ Matches(artifacts) # {}
          /\ mainFile' = CHOOSE f \in Matches(artifacts) : TRUE
          /\ Goto("creation")
       \/ /\ Matches(artifacts) = {}
          /\ Abort /\ UNCHANGED mainFile
    /\ UNCHANGED <<answer, noRemappingsTxt, commit, project, doc, remappingsTxt,
                   artifacts, cloneMeta>>

FindMainContract ==
    /\ stage = "find"
    /\ \/ /\ Cardinality(Matches(artifacts)) = 1
          /\ mainFile' = CHOOSE f \in Matches(artifacts) : TRUE
          /\ Goto("creation")
       \/ /\ Cardinality(Matches(artifacts)) # 1
          /\ Abort /\ UNCHANGED mainFile
    /\ UNCHANGED <<answer, noRemappingsTxt, commit, project, doc, remappingsTxt,
                   artifacts, cloneMeta>>

(* Lines 128-131 and 203: after the rate-limit pause, the creation data  *)
(* is fetched; the request may fail.                                      *)
FetchCreationData ==
    /\ stage = "creation"
    /\ Goto("write_meta") \/ Abort
    /\ UNCHANGED <<answer, noRemappingsTxt, commit, project, doc, remappingsTxt,
                   artifacts, mainFile, cloneMeta>>

(* Lines 204-216: the record is serialised and written; serde or the    *)
(* write may fail, leaving no file.                                        *)
WriteCloneMeta ==
    /\ stage = "write_meta"
    /\ \/ /\ cloneMeta' = [path |-> mainFile, readonly |-> FALSE]
          /\ Goto("protect")
       \/ /\ Abort /\ UNCHANGED cloneMeta
    /\ UNCHANGED <<answer, noRemappingsTxt, commit, project, doc, remappingsTxt,
                   artifacts, mainFile>>

(* Mutant: the result of set_permissions is ignored, so a failure leaves  *)
(* the record writable and the run goes on.                                *)
ProtectCloneMetaIgnoringError ==
    /\ stage = "protect"
    /\ cloneMeta' \in {[cloneMeta EXCEPT !.readonly = TRUE],
                        [cloneMeta EXCEPT !.readonly = FALSE]}
    /\ Goto("commit")
    /\ UNCHANGED <<answer, noRemappingsTxt, commit, project, doc, remappingsTxt,
                   artifacts, mainFile>>

(* Lines 217-219: the file's permissions are read, set read-only and     *)
(* stored; reading or storing them may fail, leaving a writable record.  *)
ProtectCloneMeta ==
    /\ stage = "protect"
    /\ \/ /\ cloneMeta' = [cloneMeta EXCEPT !.readonly = TRUE]
          /\ Goto("commit")
       \/ /\ Abort /\ UNCHANGED cloneMeta
    /\ UNCHANGED <<answer, noRemappingsTxt, commit, project, doc, remappingsTxt,
                   artifacts, mainFile>>

(* Lines 135-142: with --commit, `git add --all` and `git commit`, which *)
(* may fail.                                                               *)
Commit ==
    /\ stage = "commit"
    /\ \/ ~commit /\ Goto("done")
       \/ commit /\ (Goto("done") \/ Abort)
    /\ UNCHANGED <<answer, noRemappingsTxt, commit, project, doc, remappingsTxt,
                   artifacts, mainFile, cloneMeta>>

(* run() has returned.                                                    *)
Returned ==
    /\ stage \in {"done", "failed"}
    /\ UNCHANGED vars

Next ==
    \/ Fetch \/ InitProject \/ Dump \/ WriteRemappings \/ SynthesizeConfig
    \/ ExportRemappings \/ Compile \/ FindMainContract \/ FetchCreationData
    \/ WriteCloneMeta \/ ProtectCloneMeta \/ Commit \/ Returned

(* No fairness: the explorer requests (lines 153, 203) are awaited with  *)
(* no timeout, so nothing in the code makes run() return; every property *)
(* checked is a safety property.                                          *)
Spec == Init /\ [][Next]_vars

-----------------------------------------------------------------------------
TypeOK ==
    /\ stage \in Stages
    /\ answer \in Answers
    /\ noRemappingsTxt \in BOOLEAN
    /\ commit \in BOOLEAN
    /\ project \in BOOLEAN
    /\ doc \in Docs
    /\ remappingsTxt \in BOOLEAN
    /\ artifacts \in SUBSET (Files \X Contracts)
    /\ mainFile \in Files \cup {"none"}
    /\ cloneMeta \in {NoMeta} \cup [path : Files, readonly : BOOLEAN]

(* Rejected inputs (spec 8): an answer with zero or several items, or a *)
(* Vyper contract, ends the run before anything is written to the root.  *)
RejectedBeforeWrite ==
    ~(answer.items = 1 /\ ~answer.vyper) => ~project

(* Ambiguous target (spec 4.5, 8): once .clone.meta exists it names the *)
(* one file whose artifact defines the target contract in the compiler's *)
(* output, never one picked among several.                               *)
CloneMetaNamesUniqueTarget ==
    cloneMeta # NoMeta => Matches(artifacts) = {cloneMeta.path}

(* Spec 4.4, 7: explorer settings the synthesiser rejects (a stop_after *)
(* phase) abort the run before compilation, so every compile runs with   *)
(* the explorer's solc version pinned.                                   *)
CompileOnlyWithSynthesizedConfig ==
    stage \in {"find", "creation", "write_meta", "protect", "commit", "done"}
        => doc.solc = "x.y.z"

(* A run that returns Ok leaves .clone.meta on disk and read-only (lines *)
(* 214-219): a failure of set_permissions after the write must not let   *)
(* run() go on to commit and succeed with a writable record.              *)
OkRunLeavesReadOnlyRecord ==
    stage \in {"commit", "done"} => cloneMeta # NoMeta /\ cloneMeta.readonly

=============================================================================
