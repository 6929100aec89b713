---------------------------- MODULE PipelineProofs ----------------------------
(***************************************************************************)
(* Proofs, for every set of files and contract names, of the safety       *)
(* properties the pipeline run checks: a rejected answer never reaches    *)
(* the project root, .clone.meta names the one file defining the target,  *)
(* and a run that gets past the record's protection leaves it read-only. *)
(***************************************************************************)
EXTENDS Pipeline, FiniteSetTheorems, TLAPS

(* The explorer's answer passed collect_metadata_from_client.            *)
Accepted == answer.items = 1 /\ ~answer.vyper

(* The stages before and after find_main_contract.                        *)
PreFind == {"fetch", "init", "dump", "remappings", "settings", "txt", "compile", "find"}
PostFind == {"creation", "write_meta", "protect", "commit", "done"}

(* The three properties are not inductive on their own: init may run     *)
(* only after an accepted answer, the file find_main_contract returned   *)
(* stays the unique match, .clone.meta records that file, and the record *)
(* exists by the time its permissions are set.                            *)
Strengthening ==
    /\ (stage \notin {"fetch", "failed"} \/ project) => Accepted
    /\ stage \in PreFind => mainFile = "none" /\ cloneMeta = NoMeta
    /\ stage \in PostFind => mainFile # "none"
    /\ mainFile # "none" => Matches(artifacts) = {mainFile}
    /\ cloneMeta # NoMeta => cloneMeta.path = mainFile
    /\ stage = "protect" => cloneMeta # NoMeta
    /\ stage \in {"commit", "done"} => cloneMeta # NoMeta /\ cloneMeta.readonly

IInv == TypeOK /\ Strengthening

LEMMA InitIInv == Init => IInv
<1> SUFFICES ASSUME Init PROVE IInv
    OBVIOUS
<1>1. TypeOK
    <2>1. doc \in Docs
        BY DEF Init, Docs, InitDoc
    <2>2. cloneMeta \in {NoMeta} \cup [path : Files, readonly : BOOLEAN]
        BY DEF Init
    <2>3. artifacts \in SUBSET (Files \X Contracts) /\ mainFile \in Files \cup {"none"}
        BY DEF Init
    <2>4. stage \in Stages
        BY DEF Init, Stages
    <2>5a. answer \in Answers
        BY DEF Init
    <2>5b. noRemappingsTxt \in BOOLEAN /\ commit \in BOOLEAN
        BY DEF Init
    <2>5c. project \in BOOLEAN /\ remappingsTxt \in BOOLEAN
        BY Zenon DEF Init
    <2>5. answer \in Answers /\ noRemappingsTxt \in BOOLEAN /\ commit \in BOOLEAN
          /\ project \in BOOLEAN /\ remappingsTxt \in BOOLEAN
        BY <2>5a, <2>5b, <2>5c
    <2>6. QED
        BY <2>1, <2>2, <2>3, <2>4, <2>5 DEF TypeOK
<1>2. Strengthening
    BY DEF Init, Strengthening, PreFind, PostFind
<1>3. QED
    BY <1>1, <1>2 DEF IInv

(* A set of target matches of cardinality one is the singleton of the    *)
(* element CHOOSE picks (find_main_contract's one-match case).            *)
LEMMA UniqueMatch ==
    ASSUME NEW out, Cardinality(Matches(out)) = 1
    PROVE  /\ (CHOOSE f \in Matches(out) : TRUE) \in Files
           /\ Matches(out) = {CHOOSE f \in Matches(out) : TRUE}
<1>0. Matches(out) \subseteq Files
    BY DEF Matches
<1>1. IsFiniteSet(Matches(out))
    BY <1>0, FS_Subset, PipelineAssumption
<1>2. PICK x : Matches(out) = {x}
    BY <1>1, FS_Singleton
<1>3. QED
    BY <1>2 DEF Matches

(* A step that keeps every variable but the stage, moving it to s.       *)
LEMMA StageStep ==
    ASSUME IInv, NEW s \in Stages, stage' = s,
           UNCHANGED <<answer, noRemappingsTxt, commit, project, doc, remappingsTxt,
                       artifacts, mainFile, cloneMeta>>,
           s = "failed" \/ (s \notin {"fetch", "failed"} /\ (stage \notin {"fetch", "failed"} \/ Accepted)),
           s \in PreFind => stage \in PreFind,
           s \in PostFind => stage \in PostFind,
           s = "protect" => cloneMeta # NoMeta,
           s \in {"commit", "done"} => stage \in {"commit", "done"} \/ stage = "protect",
           stage = "protect" /\ s \in {"commit", "done"} => cloneMeta.readonly
    PROVE  IInv'
<1>1. TypeOK'
    BY Zenon DEF IInv, TypeOK
<1>2. Strengthening'
    BY DEF IInv, TypeOK, Strengthening, PreFind, PostFind, Stages, Accepted, Matches, NoMeta
<1>3. QED
    BY <1>1, <1>2 DEF IInv

LEMMA NextIInv == IInv /\ [Next]_vars => IInv'
<1> SUFFICES ASSUME IInv, [Next]_vars PROVE IInv'
    OBVIOUS
<1> USE DEF Goto, Abort, Accepted, Matches, NoMeta, PreFind, PostFind, Stages
<1>1. CASE Fetch
    <2>1. CASE Accepted
        <3>1. stage' = "init" /\ stage = "fetch"
            BY <1>1, <2>1 DEF Fetch
        <3>2. QED
            BY <1>1, <2>1, <3>1, "init" \in Stages, StageStep DEF Fetch
    <2>2. CASE ~Accepted
        <3>1. stage' = "failed"
            BY <1>1, <2>2 DEF Fetch
        <3>2. QED
            BY <1>1, <3>1, "failed" \in Stages, StageStep DEF Fetch
    <2>3. QED
        BY <2>1, <2>2
<1>2. CASE InitProject
    BY <1>2 DEF InitProject, IInv, TypeOK, Strengthening
<1>3. CASE Dump
    BY <1>3, StageStep DEF Dump
<1>4. CASE WriteRemappings
    BY <1>4 DEF WriteRemappings, IInv, TypeOK, Strengthening, Docs
<1>5. CASE SynthesizeConfig
    BY <1>5 DEF SynthesizeConfig, IInv, TypeOK, Strengthening, Docs, Synthesized
<1>6. CASE ExportRemappings
    BY <1>6 DEF ExportRemappings, IInv, TypeOK, Strengthening, Docs
<1>7. CASE Compile
    BY <1>7 DEF Compile, IInv, TypeOK, Strengthening
<1>8. CASE FindMainContract
    <2>1. CASE Cardinality(Matches(artifacts)) = 1
        <3>1. /\ mainFile' = CHOOSE f \in Matches(artifacts) : TRUE
              /\ stage' = "creation" /\ stage = "find"
              /\ UNCHANGED <<answer, noRemappingsTxt, commit, project, doc,
                             remappingsTxt, artifacts, cloneMeta>>
            BY <1>8, <2>1 DEF FindMainContract
        <3>2. mainFile' \in Files /\ Matches(artifacts) = {mainFile'}
            BY <2>1, <3>1, UniqueMatch
        <3>3. TypeOK'
            BY <3>1, <3>2, Zenon DEF IInv, TypeOK
        <3>4. Strengthening'
            BY <3>1, <3>2, PipelineAssumption DEF IInv, TypeOK, Strengthening
        <3>5. QED
            BY <3>3, <3>4 DEF IInv
    <2>2. CASE Cardinality(Matches(artifacts)) # 1
        BY <1>8, <2>2, StageStep DEF FindMainContract
    <2>3. QED
        BY <2>1, <2>2
<1>9. CASE FetchCreationData
    BY <1>9, StageStep DEF FetchCreationData
<1>10. CASE WriteCloneMeta
    <2>1. CASE /\ cloneMeta' = [path |-> mainFile, readonly |-> FALSE]
               /\ stage' = "protect"
        <3>1. UNCHANGED <<answer, noRemappingsTxt, commit, project, doc, remappingsTxt,
                          artifacts, mainFile>> /\ stage = "write_meta"
            BY <1>10 DEF WriteCloneMeta
        <3>2. mainFile \in Files
            BY <3>1, PipelineAssumption DEF IInv, TypeOK, Strengthening
        <3>3. TypeOK'
            BY <2>1, <3>1, <3>2, Zenon DEF IInv, TypeOK
        <3>4. Strengthening'
            BY <2>1, <3>1, <3>2 DEF IInv, TypeOK, Strengthening
        <3>5. QED
            BY <3>3, <3>4 DEF IInv
    <2>2. CASE stage' = "failed" /\ UNCHANGED cloneMeta
        BY <1>10, <2>2, "failed" \in Stages, StageStep DEF WriteCloneMeta
    <2>3. QED
        BY <1>10, <2>1, <2>2 DEF WriteCloneMeta
<1>11. CASE ProtectCloneMeta
    <2>1. CASE /\ cloneMeta' = [cloneMeta EXCEPT !.readonly = TRUE]
               /\ stage' = "commit"
        <3>1. UNCHANGED <<answer, noRemappingsTxt, commit, project, doc, remappingsTxt,
                          artifacts, mainFile>> /\ stage = "protect"
            BY <1>11 DEF ProtectCloneMeta
        <3>2. cloneMeta \in [path : Files, readonly : BOOLEAN]
            BY <3>1 DEF IInv, TypeOK, Strengthening
        <3>3. cloneMeta' = [path |-> cloneMeta.path, readonly |-> TRUE]
            BY <2>1, <3>2
        <3>4. TypeOK'
            BY <2>1, <3>1, <3>2, <3>3, Zenon DEF IInv, TypeOK
        <3>5. Strengthening'
            BY <2>1, <3>1, <3>2, <3>3 DEF IInv, TypeOK, Strengthening
        <3>6. QED
            BY <3>4, <3>5 DEF IInv
    <2>2. CASE stage' = "failed" /\ UNCHANGED cloneMeta
        BY <1>11, <2>2, "failed" \in Stages, StageStep DEF ProtectCloneMeta
    <2>3. QED
        BY <1>11, <2>1, <2>2 DEF ProtectCloneMeta
<1>12. CASE Commit
    BY <1>12, StageStep DEF Commit
<1>13. CASE Returned \/ UNCHANGED vars
    <2>1. UNCHANGED vars
        BY <1>13 DEF Returned
    <2>2. QED
        BY <2>1 DEF vars, IInv, TypeOK, Strengthening
<1>14. QED
    BY <1>1, <1>2, <1>3, <1>4, <1>5, <1>6, <1>7, <1>8, <1>9, <1>10, <1>11, <1>12,
       <1>13 DEF Next

(* The strengthening implies the three properties the pipeline run      *)
(* checks.                                                                 *)
LEMMA IInvSafe ==
    IInv => RejectedBeforeWrite /\ CloneMetaNamesUniqueTarget /\ OkRunLeavesReadOnlyRecord
BY PipelineAssumption DEF IInv, TypeOK, Strengthening, Accepted, RejectedBeforeWrite,
       CloneMetaNamesUniqueTarget, OkRunLeavesReadOnlyRecord, NoMeta

(* The project root is written to only after the explorer's answer was  *)
(* accepted (collect_metadata_from_client, lines 149-158, before init).   *)
THEOREM RejectedNeverWritten == Spec => []RejectedBeforeWrite
BY InitIInv, NextIInv, IInvSafe, PTL DEF Spec

(* .clone.meta names the single file whose artifact defines the target   *)
(* (find_main_contract, lines 577-594, and the write of lines 204-216).   *)
THEOREM CloneMetaUnique == Spec => []CloneMetaNamesUniqueTarget
BY InitIInv, NextIInv, IInvSafe, PTL DEF Spec

(* A run that reaches the commit step or returns Ok has a read-only       *)
(* .clone.meta (lines 214-219 before the commit of lines 135-142).        *)
THEOREM ReadOnlyOnSuccess == Spec => []OkRunLeavesReadOnlyRecord
BY InitIInv, NextIInv, IInvSafe, PTL DEF Spec

(* The strengthened invariant holds in every state of run(): the answer  *)
(* is accepted before init, the unique match is kept from                 *)
(* find_main_contract to .clone.meta, and the record exists when it is   *)
(* made read-only.                                                         *)
THEOREM PipelineInductive == Spec => []IInv
BY InitIInv, NextIInv, PTL DEF Spec

(* Type correctness of run(): every variable of the pipeline keeps its   *)
(* type through every awaited step and every error return.               *)
THEOREM PipelineTypeCorrect == Spec => []TypeOK
<1>1. IInv => TypeOK
    BY DEF IInv
<1>2. QED
    BY InitIInv, NextIInv, <1>1, PTL DEF Spec

=============================================================================
