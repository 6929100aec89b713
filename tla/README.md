# Formal model of `forge clone`

This directory holds TLA+ models of `crates/forge/src/cmd/clone.rs`, the
command that turns a verified on-chain contract into a local Foundry project,
and of the `unsafe-typecast` lint (`crates/lint/src/sol/high/unsafe_typecast.rs`).
It also holds the TLC
configurations that check the models on small instances and the TLAPS proofs
of their main safety properties.

## The system

`CloneArgs::run` (lines 97-143) runs these steps in order. Any `?` ends the
run with an error, and nothing is rolled back.

1. **Fetch.** `collect_metadata_from_client` (149-158) asks the block explorer
   for the verified source. It requires exactly one item, not Vyper.
2. **Init.** `init_an_empty_project` (165-178) runs `forge init`, which
   installs lib/forge-std, and removes the Counter examples.
3. **Source Tree Materializer.** `dump_sources` (422-564):
   - writes the fetched tree to `raw_sources/`;
   - decides whether to reorganise: not `--keep-directory-structure`, and
     every top-level entry is on the allow-list of 452-463;
   - moves every entry into `src/`, `lib/` or `node_modules/`. `contracts`,
     `src`, `lib` and `node_modules` are flattened child by child; `hardhat`,
     `forge-std` and `@…` entries move whole into lib/, and an existing
     lib/forge-std is deleted first. Without reorganisation, everything goes
     under src/. Every move refuses an existing destination;
   - records a remapping per move, then appends the explorer's remappings,
     rewritten when the tree was reorganised (544-561).
4. **Remapping Reconciler / Build Config Synthesizer.** `parse_metadata`
   (231-288) calls `Config::update_at` twice:
   - the first call writes the remappings and `auto_detect_remappings = false`;
   - the second runs `update_config_by_metadata` (313-416), which pins solc,
     copies the optimizer, EVM and metadata settings, and adds the libraries.
   - Unless `--no-remappings-txt` is given, the remappings then move to
     remappings.txt.
5. **Compilation & Fingerprint Extractor.** `compile_project` and
   `find_main_contract` (567-594) compile the project and look for the single
   artifact of the target contract. The creation data is then fetched and
   `.clone.meta` is written read-only (188-222).
6. With `--commit`, the run finishes with `git add` and `git commit`.

The rest of the repository snapshot does not interact with `clone`:
- **Unsafe typecast lint.** `check_expr` (17-33) looks at a call whose callee
  is an `ExprKind::TypeCall`. In solar's HIR that is the expression `type(T)`.
  An ordinary cast `uint8(x)` has an `ExprKind::Type` callee, which line 25
  does not match. It asks `check_unsafe_typecast` (38-56) about the first argument,
  and emits when the answer is true. `check_unsafe_typecast` infers the
  operand's elementary type with `infer_expr_type` (60-98), a recursion over
  literals, `type(T)`, and unary and binary operators. Three `todo!()`s
  remain (lines 55, 68, 88), and no path returns true, so the lint cannot
  emit yet.
- **Wallet signing.** `sign_transaction_from` (wallet.rs 21-93) matches on the
  seven `FoundryTypedTx` variants. It signs with the sender's signer, seals a
  Deposit unsigned, and converts a Tempo signature. It is not modelled (see
  the end of this file).
- **Declarations.** The network type, the lint registry and the re-exports.

## Modules

| Module | Models | State | Actions |
|---|---|---|---|
| `Materialize` | `dump_sources` | fetched tree, explorer remappings, flag, reorganise decision, staging set `raw`, project files `fs` as ⟨location, origin⟩ pairs, read_dir cursor (`todo`, `cur`, `kidsLeft`), remapping list, phase | `DumpToStaging`, `StartFlatten`, `MoveChild`, `EndFlatten`, `MoveToLib`, `MoveToSrc`, `Finish`, `Returned` |
| `Pipeline` | `run`, `parse_metadata`, `collect_*`, `find_main_contract` | stage, explorer answer, CLI flags, whether the root was written, the foundry.toml profile (remappings, solc pin, optimizer_details), remappings.txt, compiler artifacts, main file, `.clone.meta` | one action per step. Each fallible step has an `Abort` disjunct: the fetch, `init_an_empty_project` and `canonicalize`, `dump_sources`, each `update_at`, the compiler, `find_main_contract`, the creation-data fetch, the record write, `set_permissions` and git. The export closure's failed `fs::write` returns false: the remappings stay in foundry.toml and the run goes on |
| `ConfigSynth` | the second `Config::update_at` (257-260) and `update_config_by_metadata` (313-416) | the explorer's settings (failure point, reported fields and sections), foundry.toml's profile as a function from key paths to values, the closure's result | `UpdateAt`, `Returned` |
| `DumpSources` | what `dump_sources` promises | fetched files, files placed at their destination, status | `Place`, `Complete`, `Abort`; `Materialize` refines it |
| `UnsafeTypecast` | `check_expr`, `check_unsafe_typecast`, `infer_expr_type` | the expression handed to the pass, its outcome (pending, report, silent, panic) | `Check`, `Returned`; `Infer` applies the recursive function `InferOf`, defined over the operands of nesting at most `Depth` |
| `MaterializeProofs`, `MaterializeRefinement`, `PipelineProofs`, `ConfigSynthProofs` | — | — | the proofs (see below) |
| `MCMaterialize`, `MCMaterializeProofs`, `MCPipeline`, `MCPipelineProofs`, `MCConfigSynth`, `MCUnsafeTypecast` | — | — | constants for TLC |

Data is abstracted as follows:
- A path is a sequence of component names, and every fetched file sits at
  depth two.
- A project file remembers its origin, either the fetched path or `Installed`,
  so a property can tell which file a location holds.
- The explorer answer is a record of the facts the code branches on: item
  count, Vyper, whether version and settings parse, `stop_after`, optimizer
  details.
- `Resolve` is the compiler's remapping lookup: the longest matching name
  wins, and a later entry wins a tie. It is used only by properties.
- In `Pipeline`, `dump_sources` is abstracted to "returns or fails". The
  synthesised document keeps only the keys the properties tell apart: the solc
  pin and `optimizer_details`. The `.clone.meta` write (204-216) and the
  `set_permissions` that follows (217-219) are separate steps. Either can
  fail.
- In `ConfigSynth`, foundry.toml's profile section is a function from key
  paths (`<<"optimizer_details", "yulDetails", "stackAllocation">>`) to
  "unset", "table" or the value written. Every value copied from the report
  is "reported". The explorer's settings are the fields and sections it
  filled in, plus the first fallible step that fails (`compiler_version()?`,
  `settings()?`, the `stop_after` ensure). `toml_edit::table()` empties
  everything below its path.
- In `UnsafeTypecast`, an expression is a tuple tagged with the `ExprKind` arm
  the code matches on:
  - a literal keeps only its `LitKind`;
  - `type(T)` keeps only its `T`, elementary or user-defined;
  - an operator keeps only its operands.

  Every `todo!()` the code reaches is the outcome "panic".

## Runs

| Run | Config | Result | What it shows |
|---|---|---|---|
| `materialize` | `MCMaterialize.cfg` | pass, about 350k states | For every tree of ≤3 top-level entries and ≤3 files over names that collide (`contracts`/`src`, `lib/forge-std`, a kid `@oz` under `lib` against a top-level `@oz`), with or without the flag, with any one explorer remapping, and in every read_dir order: `NoSilentOverwrite` (a moved file is never replaced by a later move) and `RoundTrip` (every import of the original project resolves, through the returned list, to the project file holding the same fetched file). |
| `materialize_inductive` | `MCMaterializeProofs.cfg` | pass, same states | `IInv`, the inductive invariant of the `NoOverwrite` proof, and `RInv`, that of the refinement proof, hold in every reachable state of the same instance. |
| `materialize_strip_prefix` | `MCMaterializeStrip.cfg` | violation of `LayoutErrorsOnly` | With a remapping to `contracts-v2/` and a reorganised tree, `dump_sources` aborts at line 549. |
| `materialize_refines` | `MCMaterializeRefine.cfg` | pass, about 350k states | `DumpSourcesSafe`: `Materialize` implements the safety part of `DumpSources` under the refinement mapping `placed <- {f ∈ tree : ⟨Dest(f), f⟩ ∈ fs}`. Every move only adds fetched files at their destinations, Ok is returned only with every file placed, and an error leaves the placed files alone. `MaterializeRefinement` proves it. |
| `pipeline` | `MCPipeline.cfg` | pass, about 4.5k states | `RejectedBeforeWrite`: a rejected answer writes nothing. `CloneMetaNamesUniqueTarget`: `.clone.meta` names the one file defining the target, over every compiler output on 2 files × 2 contracts. `OkRunLeavesReadOnlyRecord`: a run that reaches the commit step or returns Ok has a read-only record, even though `set_permissions` can fail after the write. |
| `pipeline_inductive` | `MCPipelineProofs.cfg` | pass, same states | `IInv`: the inductive invariant of `PipelineProofs`. |
| `pipeline_swallowed_settings_error` | `MCPipelineSynth.cfg` | violation of `CompileOnlyWithSynthesizedConfig` | Settings that `update_config_by_metadata` rejects do not stop the run. It compiles without the pinned solc. |
| `config_synth` | `MCConfigSynth.cfg` | pass, about 24k states | Covers every failure point and every combination of reported fields, sections and two optimizer details. `SynthesisFaithful`: an Ok synthesis leaves exactly the profile the doc comment of lines 290-308 lists. No reported setting is lost through the order of writes or the `table()` replacements of lines 371 and 387, and no empty or stale `yulDetails` is left. |
| `config_synth_ignored_detail` | `MCConfigSynthIgnored.cfg` | violation of `SynthesisFaithful` | With `simpleCounterForLoopUncheckedIncrement` reportable, an Ok synthesis writes it (lines 380-383), which the doc comment (line 306) says is ignored (finding 4). |
| `lint_typecast_panic` | `MCUnsafeTypecastPanic.cfg` | violation of `LintReturns` | Covers every call with a `type(T)` callee, for `T` among `Bool`, `uint8`, `uint256` and a user-defined type, with every operand nested up to depth 2. `type(udt)(1)` makes `infer_expr_type` reach `todo!()` on the number literal. |

Every property of a passing run has a mutant: a plausible bug in the mapped
code that TLC catches (see `mutants` in PROJECT.json).

**Bounds.** The `materialize` bounds are enough because of how the code is
structured:
- Every collision in the code is between two entries, or between one entry
  and the installed forge-std.
- Three files over the seven top-level names and three child names cover each
  pair of colliding entries, together with a third entry that changes the
  reorganise decision.
- One explorer remapping suffices, because the rewrite acts on each remapping
  independently and the appended list only matters through shadowing.
- The five candidate remappings cover each rewrite case: `@…`, `contracts`,
  `contracts-v2`, `forge-std`, and an alias name.

`pipeline` enumerates every answer record and every artifact set over 2 files
and 2 contracts, which includes "none", "one" and "two files define the
target".

`config_synth` uses two of the eight optimizer details the doc comment
copies. The code writes each with the same `update_if_needed!` line, so two
are enough to have one reported and one not. `config_synth_ignored_detail`
swaps one for the detail the comment calls ignored. Every other input is
enumerated in full. `ConfigSynthProofs` covers every set of the other eight.

**Fairness.** None. Every property checked is a safety property. `run()`
awaits explorer requests (lines 153, 203) with no timeout, so nothing in the
code makes a run return, and no liveness is claimed. `dump_sources` is a
sequential loop over a finite directory. That no state of it gets stuck
before it returns is TLC's deadlock check, which every passing run keeps on.

## Findings

1. **Synthesis errors are swallowed** (clone.rs:259). `update_config_by_metadata`
   returns `Err` when `stop_after` is set (line 354) or the compiler version
   does not parse (line 345). The doc comment of line 307 calls `stop_after`
   "pre-validated", but nothing checks it. Unparsable settings are not a case
   here: `dump_sources` parses them first (line 544) and fails. The closure
   passes the error on as `.is_ok()`. `Config::update_at` therefore just skips the write, and the
   run compiles with auto-detected solc and the default optimizer. The
   specification says synthesis fails fatally before compilation.
2. **String prefix against path prefix** (clone.rs:548-549). In a reorganised
   tree, a remapping path like `contracts-v2/` passes `starts_with("contracts")`.
   `Path::strip_prefix("contracts")` then fails on it, which aborts the clone
   after all sources were moved and `raw_sources` was deleted. The
   specification says other paths pass through unchanged.
3. **The lint panics** (unsafe_typecast.rs:55). Once the operand's type is
   inferred and the target is elementary, `check_unsafe_typecast` reaches
   `todo!()`. `infer_expr_type` also panics on number literals (line 68) and
   on binary operations of typed operands (line 88). Its doc comment (36-37)
   promises true or false. The panic needs a call whose callee is
   `ExprKind::TypeCall`, which in solar is `type(T)`: `type(bool)(true)` or
   `type(uint8)(1)`. An ordinary cast such as `uint8(true)` has an
   `ExprKind::Type` callee, which line 25 does not match (the comment of
   line 75 calls `TypeCall` an explicit cast). So the lint never looks at
   ordinary casts, and it has no path that returns true.
4. **An "ignored" detail is written** (clone.rs:380-383). The doc comment of
   `update_config_by_metadata` says `simpleCounterForLoopUncheckedIncrement`
   "is ignored for now" (line 306). The code copies it into
   `optimizer_details` whenever the explorer reports it.
   `config_synth_ignored_detail` shows it.

## Proofs

`MaterializeProofs.tla` proves two theorems for every value of the constants.
They rest only on `TopsAssumption` and `MetaRemapsAssumption`:
- `TopsAssumption` lists the directory names the code tests for. It also
  requires that names starting with "contracts" are not `@`, `hardhat` or
  `forge-std` names, as the string tests of lines 548-552 imply.
- `MetaRemapsAssumption` says that remapping names and paths are non-empty
  paths.

**`TypeCorrect: Spec => []TypeOK`.** `TypeOK` is inductive as it stands. Its
proof (`TypeInit`, `TypeStep`) takes one step per action and uses four
lemmas:
- a fetched path is a sequence of names;
- a move re-roots a path into `Seq(PathNames)`;
- `Rewrite` keeps a metadata path a path;
- `Push` appends a `Remapping`.

**`NoOverwrite: Spec => []NoSilentOverwrite`.** `NoSilentOverwrite` is not
inductive. A step that moves an entry could, as far as the invariant alone
says, find a moved file below its destination, or delete lib/forge-std after a
fetched file was put there. The proof uses `IInv == TypeOK /\ Strengthening`,
where `Strengthening` adds:
- `InitShape`: before staging nothing is pending and the installed forge-std
  is in place;
- `StagedPending`: every staged file belongs to an entry `read_dir` has not
  yielded yet, or is a child still to move of the entry being flattened. So
  `Finish` deletes an empty staging directory, and a move takes exactly the
  files of its entry (`PrefixOfFetched`);
- `FlattenOnlyReorg`: only a reorganised tree flattens, so a child lands on
  its `Dest`;
- `ForgeStdInstalled` and `ForgeStdFree`: while the top-level forge-std is
  pending, the installed lib/forge-std is there and no moved file is meant to
  be below it. The one flattened child that could go there
  (`DestBelowForgeStd`) fails the check of line 493 against the installed
  copy. The deletion of lines 513-516 therefore removes only what `forge
  init` put there.

TLC checked `IInv` first, as the `materialize_inductive` run. The proof has
these parts:
- `StrengthenInit`;
- one preservation lemma per action: `DumpKeeps`, `StartFlattenKeeps`,
  `MoveChildKeeps`, `EndFlattenKeeps`, `MoveToLibKeeps`, `MoveToSrcKeeps`,
  `FinishKeeps` and `FailKeeps`, each with a step per conjunct the action can
  disturb;
- `StrengthenStep`;
- the temporal step, `BY PTL DEF Spec`.

`Inductive: Spec => []IInv` states the strengthening itself as a theorem.

`MaterializeRefinement.tla` proves that `dump_sources` implements the safety
part of `DumpSources`. The statement is `DumpSourcesImplemented: Spec =>
DumpSourcesSafe`, where `DumpSourcesSafe == Abstract!ASafe` is
`AInit /\ [][ANext]_avars` under the mapping:
- `tree <- tree`;
- `placed <- PlacedFiles`, the fetched files f with `<<Dest(f), f>> \in fs`;
- `status <- Status`, which is "running" until the call returns and then the
  phase.

The proof follows the usual three steps:
- `RefineInit`: the initial state maps to `AInit`, because nothing is placed
  yet;
- `RefineStep`: `RInv /\ [Next]_vars => [ANext]_avars`;
- `RefinementInvariant: Spec => []RInv`.

`RInv` adds two conjuncts to `IInv`:
- `InstalledOnlyBeforeStaging`: before staging, the project holds only what
  forge init installed;
- `OriginsMoved`: every project file is the installed one or a fetched file
  already out of raw_sources.

Without `OriginsMoved`, a move could not be shown to place files that were
not placed already. TLC checked `RInv` first, in `materialize_inductive`.

The step proof is built from four pieces:
- `PlacedGrow`: a move that puts exactly the files `moved` at their
  destinations, and keeps every placed file, is a `Place` step, or a stutter
  when `moved` is empty;
- `FailIsAbort`: an error return maps to `Abort`;
- `MappingStutter`: a step that touches neither the tree, the project nor the
  status maps to a stutter;
- one lemma per action.
  - `MoveChildRefines` and `MoveToSrcRefines` use the existence checks.
  - `MoveToLibRefines` uses `ForgeStdFree` to show that the forge-std deletion
    removes no placed file.
  - `FinishRefines` uses `StagedPending` and `NoSilentOverwrite` to show that
    Ok comes with `PlacedFiles = tree`.
  - `DumpRefines` covers staging, which places nothing.

Some results stay with TLC, because tlapm 1.4.5 cannot prove them:
- liveness and anything with ENABLED;
- any fact about what a recursive definition computes, which needs induction
  over data;
- anything in a module that declares RECURSIVE.

`RoundTrip` is model-checked only. It needs `Resolve`'s longest-match
reasoning over the whole list.

`PipelineProofs.tla` proves `RejectedNeverWritten`, `CloneMetaUnique` and
`ReadOnlyOnSuccess`: `Spec => []P` for `RejectedBeforeWrite`,
`CloneMetaNamesUniqueTarget` and `OkRunLeavesReadOnlyRecord`. They rest on
`PipelineAssumption`: `Files` is finite and does not contain the marker
"none". The properties are not inductive. The strengthening says:
- a stage past fetch (or a written root) implies an accepted answer;
- before `find`, no main file and no record;
- after it, the main file is set, and it is the unique match of the
  artifacts;
- the record names the main file;
- at `protect` the record exists, and at commit/done it is read-only.

`UniqueMatch` turns `Cardinality(Matches) = 1` into a singleton, with
`FS_Subset` and `FS_Singleton`. `StageStep` covers every step that only moves
the stage. TLC checked the invariant first, as `pipeline_inductive`.

`PipelineInductive` states the strengthened invariant itself. `PipelineTypeCorrect`
(`Spec => []TypeOK`) follows from it.

`ConfigSynthProofs.tla` proves `SynthesisMatchesDocComment`: under the
hypothesis that `simpleCounterForLoopUncheckedIncrement` is not among the
reportable details, `Spec => []SynthesisFaithful`. It holds for every set of
the other eight details. `ConfigSynthAssumption` says the details are among
the nine the code copies. The hypothesis is the exact extent of the doc
comment's truth: with that detail reportable the property fails, and
`config_synth_ignored_detail` shows it (finding 4).

The inductive invariant says:
- the file stays the document of the first update_at while the closure has
  not returned, and when it fails;
- it is `Expected(report)` when the closure succeeds.

The core lemma is `Synthesis`: from that document, a report that does not
fail yields `<<"ok", Expected(r)>>`. Its proof names each intermediate
document of `update_config_by_metadata`. It hides their definitions and
reveals one layer per step, to keep the obligations small. It then compares
the result with `Expected` path by path, over seven kinds of path.
`UnderOptimizerDetails` and `UnderYulDetails` say which paths each
`table()` empties. `FailureIsErr` covers the three early returns.

These stay model-checked only:
- `RoundTrip`;
- `CompileOnlyWithSynthesizedConfig`, `LintReturns`, `LayoutErrorsOnly` and
  `SynthesisFaithful` with the ignored detail, which are violated (findings).

No liveness property is claimed (see Fairness).

## Not modelled

- The network type, the lint registry (`register_lints!`) and the
  transaction re-exports are type aliases, trait associations and a macro
  invocation. No operation of theirs changes state.
- **Wallet signing** (`wallet.rs`). `sign_transaction_from` is a match over
  the seven transaction variants. Each arm looks up the sender's signer,
  which is an `Err` when missing, signs, and wraps the result in the envelope
  of the same variant. Rust's types already tie each signed transaction to
  its own envelope variant, and nothing persists between calls. A model
  could only restate the match, so none is kept.
- The explorer client, `forge init`, solc and git are external. Their results
  are nondeterministic inputs.
- The 5-second rate-limit sleep is timing only. The request after it is
  modelled as able to fail.
- A settings answer that does not parse: `Materialize` starts from parsed
  remappings. The failure of line 544 is in `Pipeline`'s `Dump`.
- The values written by `update_config_by_metadata` are one abstract value
  each. This covers the EVM version's string form, the library strings
  (`apply_lib_remappings` and the prefix stripping are in
  foundry_compilers), and the chain id's `as i64`. The properties are about
  which keys hold what, not about their rendering.
- The "cannot find the key" return of `update_if_needed!` (line 331) is not
  taken in the model. toml_edit's `get_mut` on a table inserts a missing
  key, and every parent on the paths written is a table. That is also why
  the details can be written into the table that line 371 has just emptied.
