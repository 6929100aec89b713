--------------------------- MODULE ConfigSynthProofs ---------------------------
(***************************************************************************)
(* Proofs, for every set of optimizer details the explorer may report    *)
(* other than the one the doc comment calls ignored, that an Ok synthesis *)
(* leaves foundry.toml exactly as update_config_by_metadata's doc comment *)
(* says.                                                                   *)
(***************************************************************************)
EXTENDS ConfigSynth, TLAPS

(* Which paths the two tables of update_config_by_metadata hold.          *)
LEMMA UnderOptimizerDetails ==
    ASSUME NEW k \in Paths
    PROVE  IsStrictPrefix(<<"optimizer_details">>, k) <=> Len(k) > 1
<1>1. \/ \E x : k = <<x>>
      \/ \E x : k = <<"optimizer_details", x>>
      \/ \E x : k = <<"optimizer_details", "yulDetails", x>>
    BY DEF Paths
<1>2. CASE \E x : k = <<x>>
    BY <1>2 DEF IsStrictPrefix, IsPrefix
<1>3. CASE \E x : k = <<"optimizer_details", x>>
    BY <1>3 DEF IsStrictPrefix, IsPrefix
<1>4. CASE \E x : k = <<"optimizer_details", "yulDetails", x>>
    BY <1>4 DEF IsStrictPrefix, IsPrefix
<1>5. QED
    BY <1>1, <1>2, <1>3, <1>4

LEMMA UnderYulDetails ==
    ASSUME NEW k \in Paths
    PROVE  IsStrictPrefix(<<"optimizer_details", "yulDetails">>, k) <=> Len(k) = 3
<1>1. \/ \E x : k = <<x>>
      \/ \E x : k = <<"optimizer_details", x>>
      \/ \E x : k = <<"optimizer_details", "yulDetails", x>>
    BY DEF Paths
<1>2. CASE \E x : k = <<x>>
    BY <1>2 DEF IsStrictPrefix, IsPrefix
<1>3. CASE \E x : k = <<"optimizer_details", x>>
    BY <1>3 DEF IsStrictPrefix, IsPrefix
<1>4. CASE \E x : k = <<"optimizer_details", "yulDetails", x>>
    BY <1>4 DEF IsStrictPrefix, IsPrefix
<1>5. QED
    BY <1>1, <1>2, <1>3, <1>4

(* The values a key of the profile may hold.                              *)
Vals == {"unset", "table", "reported", "remappings", "false", "chain", "x.y.z", "libs"}

(* What the two document operations leave at a path.                      *)
LEMMA TableTyped ==
    ASSUME NEW d \in [Paths -> Vals], NEW p \in Paths
    PROVE  Table(d, p) \in [Paths -> Vals]
BY DEF Table, Vals

LEMMA UpdateIfNeededTyped ==
    ASSUME NEW d \in [Paths -> Vals], NEW P
    PROVE  UpdateIfNeeded(d, P) \in [Paths -> Vals]
BY DEF UpdateIfNeeded, Vals

LEMMA InitialDocTyped == InitialDoc \in [Paths -> Vals]
BY DEF InitialDoc, Vals

(* A synthesis that returns Ok from the document of the first update_at   *)
(* produces exactly the expected profile, whatever the report, when the   *)
(* ignored detail cannot be reported.                                     *)
LEMMA Synthesis ==
    ASSUME IgnoredDetail \notin DetailKeys,
           NEW r \in Reports, r.fails = "none"
    PROVE  UpdateConfigByMetadata(InitialDoc, r) = <<"ok", Expected(r)>>
<1> DEFINE od == <<"optimizer_details">>
           yd == <<"optimizer_details", "yulDetails">>
           d1 == [InitialDoc EXCEPT ![<<"chain_id">>] = "chain", ![<<"auto_detect_solc">>] = "false"]
           d2 == [d1 EXCEPT ![<<"solc_version">>] = "x.y.z"]
           F3 == {<<f>> : f \in r.fields}
           F4 == {<<f>> : f \in r.metadata}
           Fd == {<<"optimizer_details", k>> : k \in r.details}
           Fy == {<<"optimizer_details", "yulDetails", k>> : k \in r.yul}
           d3 == UpdateIfNeeded(d2, F3)
           d4 == IF "metadata" \notin r.sections THEN d3 ELSE UpdateIfNeeded(d3, F4)
           T4 == Table(d4, od)
           t == UpdateIfNeeded(T4, Fd)
           Tt == Table(t, yd)
           d6 == UpdateIfNeeded(Tt, Fy)
           d5 == IF "details" \notin r.sections THEN d4
                 ELSE IF "yul_details" \notin r.sections THEN t ELSE d6
           D == [d5 EXCEPT ![<<"libraries">>] = "libs"]
<1>1. UpdateConfigByMetadata(InitialDoc, r) = <<"ok", D>>
    BY DEF UpdateConfigByMetadata
<1> HIDE DEF d1, d2, d3, d4, T4, t, Tt, d6, d5, D
<1>2. /\ od \in Paths /\ yd \in Paths /\ <<"libraries">> \in Paths
      /\ <<"chain_id">> \in Paths /\ <<"auto_detect_solc">> \in Paths
      /\ <<"solc_version">> \in Paths
    BY DEF Paths
<1>3. d1 \in [Paths -> Vals] /\ d2 \in [Paths -> Vals]
    BY InitialDocTyped, <1>2 DEF Vals, d1, d2
<1>4. d3 \in [Paths -> Vals]
    BY <1>3, UpdateIfNeededTyped DEF d3
<1>5. d4 \in [Paths -> Vals]
    BY <1>4, UpdateIfNeededTyped DEF d4
<1>6. T4 \in [Paths -> Vals] /\ t \in [Paths -> Vals]
    BY <1>2, <1>5, TableTyped, UpdateIfNeededTyped DEF T4, t
<1>7. Tt \in [Paths -> Vals] /\ d6 \in [Paths -> Vals]
    BY <1>2, <1>6, TableTyped, UpdateIfNeededTyped DEF Tt, d6
<1>8. d5 \in [Paths -> Vals]
    BY <1>5, <1>6, <1>7 DEF d5
<1>9. D \in [Paths -> Vals]
    BY <1>2, <1>8 DEF Vals, D
<1>10. Expected(r) \in [Paths -> Vals]
    BY InitialDocTyped DEF Expected, Vals, Fixed
<1>11. ASSUME NEW p \in Paths PROVE D[p] = Expected(r)[p]
    <2>1. d1[p] = IF p = <<"chain_id">> THEN "chain"
                  ELSE IF p = <<"auto_detect_solc">> THEN "false" ELSE InitialDoc[p]
        BY <1>2, InitialDocTyped DEF d1
    <2>2. d2[p] = IF p = <<"solc_version">> THEN "x.y.z" ELSE d1[p]
        BY <1>2, <1>3 DEF d2
    <2>3. d3[p] = IF p \in F3 THEN "reported" ELSE d2[p]
        BY <1>3 DEF d3, UpdateIfNeeded
    <2>4. d4[p] = IF "metadata" \notin r.sections THEN d3[p]
                  ELSE IF p \in F4 THEN "reported" ELSE d3[p]
        BY <1>4 DEF d4, UpdateIfNeeded
    <2>5. T4[p] = IF p = od THEN "table" ELSE IF Len(p) > 1 THEN "unset" ELSE d4[p]
        <3>1. IsStrictPrefix(od, p) <=> Len(p) > 1
            BY UnderOptimizerDetails
        <3>2. T4[p] = CASE p = od                -> "table"
                        [] IsStrictPrefix(od, p) -> "unset"
                        [] OTHER                 -> d4[p]
            BY <1>5 DEF T4, Table
        <3>3. CASE p = od
            BY <3>1, <3>2, <3>3
        <3>4. CASE p # od
            BY <3>1, <3>2, <3>4
        <3>5. QED
            BY <3>3, <3>4
    <2>6. t[p] = IF p \in Fd THEN "reported" ELSE T4[p]
        BY <1>6 DEF t, UpdateIfNeeded
    <2>7. Tt[p] = IF p = yd THEN "table" ELSE IF Len(p) = 3 THEN "unset" ELSE t[p]
        <3>1. IsStrictPrefix(yd, p) <=> Len(p) = 3
            BY UnderYulDetails
        <3>2. Tt[p] = CASE p = yd                -> "table"
                        [] IsStrictPrefix(yd, p) -> "unset"
                        [] OTHER                 -> t[p]
            BY <1>6 DEF Tt, Table
        <3>3. CASE p = yd
            BY <3>1, <3>2, <3>3
        <3>4. CASE p # yd
            BY <3>1, <3>2, <3>4
        <3>5. QED
            BY <3>3, <3>4
    <2>8. d6[p] = IF p \in Fy THEN "reported" ELSE Tt[p]
        BY <1>7 DEF d6, UpdateIfNeeded
    <2>9. d5[p] = IF "details" \notin r.sections THEN d4[p]
                  ELSE IF "yul_details" \notin r.sections THEN t[p] ELSE d6[p]
        BY DEF d5
    <2>10. D[p] = IF p = <<"libraries">> THEN "libs" ELSE d5[p]
        BY <1>2, <1>8 DEF D
    <2>11. Expected(r)[p] = CASE p \in {<<f>> : f \in DOMAIN Fixed} -> Fixed[p[1]]
                              [] p \in ReportedPaths(r)              -> "reported"
                              [] p \in TablePaths(r)                 -> "table"
                              [] OTHER                               -> InitialDoc[p]
        BY DEF Expected
    <2>12. /\ r.fields \subseteq ScalarFields /\ r.metadata \subseteq MetaFields
           /\ r.details \subseteq DetailKeys /\ r.yul \subseteq YulKeys
           /\ "metadata" \notin r.sections => r.metadata = {}
           /\ "details" \notin r.sections => r.details = {}
           /\ "yul_details" \notin r.sections => r.yul = {}
           /\ "yul_details" \in r.sections => "details" \in r.sections
           /\ r.details \ {IgnoredDetail} = r.details
        BY DEF Reports
    <2>13. CASE \E f \in ScalarFields \cup MetaFields : p = <<f>>
        BY <2>13, <2>1, <2>2, <2>3, <2>4, <2>5, <2>6, <2>7, <2>8, <2>9, <2>10, <2>11, <2>12
        DEF Fixed, ReportedPaths, TablePaths, InitialDoc, ScalarFields, MetaFields, YulKeys
    <2>14. CASE p \in {<<"chain_id">>, <<"auto_detect_solc">>, <<"solc_version">>, <<"libraries">>}
        <3>1. CASE p = <<"chain_id">>
            BY <3>1, <2>1, <2>2, <2>3, <2>4, <2>5, <2>6, <2>7, <2>8, <2>9, <2>10, <2>11, <2>12, ConfigSynthAssumption
            DEF Fixed, ReportedPaths, TablePaths, InitialDoc, ScalarFields, MetaFields, YulKeys, OptimizerDetailKeys
        <3>2. CASE p = <<"auto_detect_solc">>
            BY <3>2, <2>1, <2>2, <2>3, <2>4, <2>5, <2>6, <2>7, <2>8, <2>9, <2>10, <2>11, <2>12, ConfigSynthAssumption
            DEF Fixed, ReportedPaths, TablePaths, InitialDoc, ScalarFields, MetaFields, YulKeys, OptimizerDetailKeys
        <3>3. CASE p = <<"solc_version">>
            BY <3>3, <2>1, <2>2, <2>3, <2>4, <2>5, <2>6, <2>7, <2>8, <2>9, <2>10, <2>11, <2>12, ConfigSynthAssumption
            DEF Fixed, ReportedPaths, TablePaths, InitialDoc, ScalarFields, MetaFields, YulKeys, OptimizerDetailKeys
        <3>4. CASE p = <<"libraries">>
            BY <3>4, <2>1, <2>2, <2>3, <2>4, <2>5, <2>6, <2>7, <2>8, <2>9, <2>10, <2>11, <2>12, ConfigSynthAssumption
            DEF Fixed, ReportedPaths, TablePaths, InitialDoc, ScalarFields, MetaFields, YulKeys, OptimizerDetailKeys
        <3>5. QED
            BY <2>14, <3>1, <3>2, <3>3, <3>4
    <2>15. CASE p \in {<<"remappings">>, <<"auto_detect_remappings">>}
        <3>1. CASE p = <<"remappings">>
            BY <3>1, <2>1, <2>2, <2>3, <2>4, <2>5, <2>6, <2>7, <2>8, <2>9, <2>10, <2>11, <2>12, ConfigSynthAssumption
            DEF Fixed, ReportedPaths, TablePaths, InitialDoc, ScalarFields, MetaFields, YulKeys, OptimizerDetailKeys
        <3>2. CASE p = <<"auto_detect_remappings">>
            BY <3>2, <2>1, <2>2, <2>3, <2>4, <2>5, <2>6, <2>7, <2>8, <2>9, <2>10, <2>11, <2>12, ConfigSynthAssumption
            DEF Fixed, ReportedPaths, TablePaths, InitialDoc, ScalarFields, MetaFields, YulKeys, OptimizerDetailKeys
        <3>3. QED
            BY <2>15, <3>1, <3>2
    <2>16. CASE p = od
        BY <2>16, <2>1, <2>2, <2>3, <2>4, <2>5, <2>6, <2>7, <2>8, <2>9, <2>10, <2>11, <2>12, ConfigSynthAssumption
        DEF Fixed, ReportedPaths, TablePaths, InitialDoc, ScalarFields, MetaFields, YulKeys, OptimizerDetailKeys
    <2>17. CASE \E k \in DetailKeys : p = <<"optimizer_details", k>>
        BY <2>17, <2>1, <2>2, <2>3, <2>4, <2>5, <2>6, <2>7, <2>8, <2>9, <2>10, <2>11, <2>12, ConfigSynthAssumption
        DEF Fixed, ReportedPaths, TablePaths, InitialDoc, ScalarFields, MetaFields, YulKeys, OptimizerDetailKeys
    <2>18. CASE p = yd
        BY <2>18, <2>1, <2>2, <2>3, <2>4, <2>5, <2>6, <2>7, <2>8, <2>9, <2>10, <2>11, <2>12, ConfigSynthAssumption
        DEF Fixed, ReportedPaths, TablePaths, InitialDoc, ScalarFields, MetaFields, YulKeys, OptimizerDetailKeys
    <2>19. CASE \E y \in YulKeys : p = <<"optimizer_details", "yulDetails", y>>
        BY <2>19, <2>1, <2>2, <2>3, <2>4, <2>5, <2>6, <2>7, <2>8, <2>9, <2>10, <2>11, <2>12, ConfigSynthAssumption
        DEF Fixed, ReportedPaths, TablePaths, InitialDoc, ScalarFields, MetaFields, YulKeys, OptimizerDetailKeys
    <2>20. QED
        BY <2>13, <2>14, <2>15, <2>16, <2>17, <2>18, <2>19 DEF Paths
<1>12. D = Expected(r)
    BY <1>9, <1>10, <1>11
<1>13. QED
    BY <1>1, <1>12

(* A synthesis that stops at one of its fallible steps returns an error. *)
LEMMA FailureIsErr ==
    ASSUME NEW d, NEW r \in Reports, r.fails # "none"
    PROVE  UpdateConfigByMetadata(d, r)[1] = "err"
<1>1. r.fails \in {"compiler_version", "settings", "stop_after"}
    BY DEF Reports
<1>2. QED
    BY <1>1 DEF UpdateConfigByMetadata

(* The file stays the document of the first update_at until the closure *)
(* returns, and what the closure returned decides what the file holds.  *)
IInv == /\ report \in Reports
        /\ result \in {"pending", "ok", "err"}
        /\ result \in {"pending", "err"} => file = InitialDoc
        /\ result = "ok" => file = Expected(report)

LEMMA InitIInv == Init => IInv
BY DEF Init, IInv

LEMMA NextIInv ==
    ASSUME IgnoredDetail \notin DetailKeys, IInv, [Next]_vars
    PROVE  IInv'
<1>1. CASE UpdateAt
    <2> DEFINE out == UpdateConfigByMetadata(InitialDoc, report)
    <2>1. /\ result = "pending" /\ file = InitialDoc /\ report' = report
          /\ result' = out[1]
          /\ file' = IF out[1] = "ok" THEN out[2] ELSE file
        BY <1>1 DEF UpdateAt, IInv
    <2>2. report \in Reports
        BY DEF IInv
    <2> HIDE DEF out
    <2>3. CASE report.fails = "none"
        <3>1. out = <<"ok", Expected(report)>>
            BY <2>2, <2>3, Synthesis DEF out
        <3>2. QED
            BY <2>1, <2>2, <3>1 DEF IInv
    <2>4. CASE report.fails # "none"
        <3>1. out[1] = "err"
            BY <2>2, <2>4, FailureIsErr DEF out
        <3>2. QED
            BY <2>1, <2>2, <3>1 DEF IInv
    <2>5. QED
        BY <2>3, <2>4
<1>2. CASE Returned \/ UNCHANGED vars
    <2>1. UNCHANGED vars
        BY <1>2 DEF Returned
    <2>2. QED
        BY <2>1 DEF vars, IInv
<1>3. QED
    BY <1>1, <1>2 DEF Next

(* Whenever the second update_at of the clone (clone.rs lines 257-260)   *)
(* has seen update_config_by_metadata (lines 313-416) return Ok,          *)
(* foundry.toml holds exactly the profile its doc comment lists (lines    *)
(* 290-308), for every set of optimizer details the explorer may report   *)
(* that leaves out simpleCounterForLoopUncheckedIncrement: the order of   *)
(* writes, the table() replacements of lines 371 and 387 and the         *)
(* libraries written last lose nothing reported and add nothing else.     *)
(* With that detail reportable the comment is wrong (line 306 against     *)
(* lines 380-383), which the run config_synth_ignored_detail shows.       *)
THEOREM SynthesisMatchesDocComment ==
    ASSUME IgnoredDetail \notin DetailKeys
    PROVE  Spec => []SynthesisFaithful
<1>1. Init => IInv
    BY InitIInv
<1>2. IInv /\ [Next]_vars => IInv'
    BY NextIInv
<1>3. IInv => SynthesisFaithful
    BY DEF IInv, SynthesisFaithful
<1>4. QED
    BY <1>1, <1>2, <1>3, PTL DEF Spec

=============================================================================
