----------------------------- MODULE Materialize -----------------------------
(***************************************************************************)
(* dump_sources of crates/forge/src/cmd/clone.rs: the fetched source tree  *)
(* is written to <root>/raw_sources/<contract>, its top-level entries are  *)
(* moved into the project's src/lib/node_modules directories one by one   *)
(* (flattened or whole, or all under src when not reorganised), a         *)
(* remapping is recorded for each move, and the metadata's remappings are *)
(* appended, path-rewritten when the tree was reorganised.                *)
(*                                                                         *)
(* Data abstraction: a path is a sequence of path components (strings);   *)
(* every fetched file sits at depth two, <<top, kid>>; a file of the      *)
(* project is a pair <<location, origin>> where origin is the fetched     *)
(* path it came from, or Installed for what `forge init` put in lib/.     *)
(* Paths are root-relative throughout, so RelativeRemapping::into_relative *)
(* (line 563) has nothing left to strip.                                  *)
(***************************************************************************)
EXTENDS Naturals, Sequences, FiniteSets, SequencesExt

CONSTANTS
    Tops,           \* names a top-level entry of the fetched tree may have
    Kids,           \* names an entry one level below may have
    AtNames,        \* the names of Tops and of remapping paths starting with '@'
    ContractsLike,  \* path components whose string starts with "contracts"
    MetaRemaps,     \* remappings the explorer's settings may declare
    MaxTops,        \* bound on the number of top-level entries of one tree
    MaxFiles        \* bound on the number of files of one tree

ASSUME TopsAssumption ==
    /\ {"contracts", "src", "lib", "node_modules", "forge-std"} \subseteq Tops
    /\ AtNames \subseteq Tops
    /\ "contracts" \in ContractsLike
    /\ ContractsLike \cap (AtNames \cup {"hardhat", "forge-std"}) = {}
    /\ MaxTops \in Nat \ {0}
    /\ MaxFiles \in Nat \ {0}

ASSUME MetaRemapsAssumption ==
    \A r \in MetaRemaps : r.name \in Seq(STRING) /\ r.path \in Seq(STRING)
                          /\ Len(r.name) > 0 /\ Len(r.path) > 0

(* What `forge init` leaves in lib/: forge-std, reached by the remapping  *)
(* Remapping::find_many(root) detects for it (line 436).                   *)
Installed == <<"installed">>
InstalledFile == <<"lib", "forge-std", "src">>
Existing == << [name |-> <<"forge-std">>, path |-> <<"lib", "forge-std", "src">>] >>

(* The allow-list of lines 456-462 and the two classes of lines 475-510.  *)
FlattenDirs == {"contracts", "src", "lib", "node_modules"}
Recognized == FlattenDirs \cup {"hardhat", "forge-std"} \cup AtNames

(* Where the children of a flattened directory go (lines 481-489).        *)
NewDir(t) == CASE t = "lib"          -> "lib"
               [] t = "node_modules" -> "node_modules"
               [] OTHER              -> "src"

TopsOf(T) == {f[1] : f \in T}
Trees == {T \in SUBSET (Tops \X Kids) : /\ Cardinality(TopsOf(T)) \in 1..MaxTops
                                        /\ Cardinality(T) <= MaxFiles}

VARIABLES
    tree,       \* the fetched source tree: a set of paths <<top, kid>>
    meta,       \* the remappings of the fetched settings, in order
    noReorg,    \* the --keep-directory-structure flag
    toReorg,    \* the reorganisation decision of lines 452-463
    raw,        \* fetched files still under raw_sources/
    fs,         \* files of the project: pairs <<location, origin>>
    todo,       \* top-level entries read_dir has not yet yielded
    cur,        \* the flattened entry whose children are being moved, or ""
    kidsLeft,   \* its children not yet moved
    remaps,     \* the remapping list being built
    phase       \* "init", "moving", "done", or the error that ended the run

vars == <<tree, meta, noReorg, toReorg, raw, fs, todo, cur, kidsLeft, remaps, phase>>

Errors == {"exists", "strip_prefix"}

(* std::path::Path::exists on a project path: some file lies below it.   *)
Exists(p) == \E e \in fs : IsPrefix(p, e[1])

(* std::fs::rename of the staged entry at `from` to `dest`: every staged  *)
(* file below `from` is re-rooted at `dest`; a file moved onto an existing *)
(* file, like rename(2), replaces whatever was at `dest`.                 *)
MoveDir(from, dest) ==
    LET moved == {f \in raw : IsPrefix(from, f)}
    IN  /\ raw' = raw \ moved
        /\ fs' = {e \in fs : ~IsPrefix(dest, e[1])}
                \cup {<<dest \o SubSeq(f, Len(from) + 1, Len(f)), f>> : f \in moved}

(* Mutant: a remapping is inserted at the front of the list.              *)
Push(name, path) == remaps' = Append(remaps, [name |-> name, path |-> path])

Fail(err) == /\ phase' = err
             /\ UNCHANGED <<raw, fs, todo, cur, kidsLeft, remaps>>

(* The metadata's remapping paths after reorganisation (lines 548-558).   *)
StripFails(p) == p[1] \in ContractsLike \ {"contracts"}
(* Mutant: the "contracts" prefix is not replaced by "src".               *)
RewriteKeepContracts(p) ==
    CASE p[1] \in AtNames \cup {"hardhat", "forge-std"} -> <<"lib">> \o p
      [] OTHER                                          -> p
Rewrite(p) == CASE p[1] = "contracts"                            -> <<"src">> \o Tail(p)
                [] p[1] \in AtNames \cup {"hardhat", "forge-std"} -> <<"lib">> \o p
                [] OTHER                                          -> p

(* How the compiler driver maps an import path through a remapping list: *)
(* the remapping with the longest matching name wins, the later one among *)
(* equally long names; an unmatched path is read from the project root.   *)
Resolve(tab, imp) ==
    LET M == {i \in DOMAIN tab : IsPrefix(tab[i].name, imp)}
        best == CHOOSE i \in M : \A j \in M :
                    \/ Len(tab[j].name) < Len(tab[i].name)
                    \/ Len(tab[j].name) = Len(tab[i].name) /\ j <= i
    IN  IF M = {} THEN imp
        ELSE tab[best].path \o SubSeq(imp, Len(tab[best].name) + 1, Len(imp))

-----------------------------------------------------------------------------
(* A fresh project after init: src/ empty, lib/forge-std installed. The  *)
(* explorer's answer is any tree of at most MaxTops entries with at most *)
(* one remapping; the fetched files are named by their source unit names, *)
(* which the original remappings leave as they are.                        *)
Init ==
    /\ tree \in Trees
    /\ meta \in {<<>>} \cup {<<r>> : r \in MetaRemaps}
    /\ \A f \in tree : Resolve(meta, f) = f
    /\ noReorg \in BOOLEAN
    /\ toReorg = FALSE
    /\ raw = {}
    /\ fs = {<<InstalledFile, Installed>>}
    /\ todo = {}
    /\ cur = ""
    /\ kidsLeft = {}
    /\ remaps = <<>>
    /\ phase = "init"

(* Lines 436-467: load the existing remappings, write the tree to the    *)
(* staging directory, and decide whether to reorganise.                  *)
DumpToStaging ==
    /\ phase = "init"
    /\ remaps' = Existing
    /\ raw' = tree
    /\ todo' = TopsOf(tree)
    /\ toReorg' = (~noReorg /\ TopsOf(tree) \subseteq Recognized)
    /\ phase' = "moving"
    /\ UNCHANGED <<tree, meta, noReorg, fs, cur, kidsLeft>>

(* Lines 475-489: read_dir yields a src/lib/node_modules/contracts entry *)
(* of a reorganised tree; its children will be moved one by one.         *)
StartFlatten(t) ==
    /\ phase = "moving" /\ cur = "" /\ t \in todo
    /\ toReorg /\ t \in FlattenDirs
    /\ todo' = todo \ {t}
    /\ cur' = t
    /\ kidsLeft' = {f[2] : f \in {g \in tree : g[1] = t}}
    /\ UNCHANGED <<tree, meta, noReorg, toReorg, raw, fs, remaps, phase>>

(* Mutant: the destination check of line 493 is left out.               *)
MoveChildUnchecked(k) ==
    /\ phase = "moving" /\ cur # "" /\ k \in kidsLeft
    /\ MoveDir(<<cur, k>>, <<NewDir(cur), k>>)
    /\ Push(<<cur, k>>, <<NewDir(cur), k>>)
    /\ kidsLeft' = kidsLeft \ {k}
    /\ UNCHANGED <<tree, meta, noReorg, toReorg, todo, cur, phase>>

(* Lines 490-503: one child of the entry being flattened is moved.       *)
MoveChild(k) ==
    /\ phase = "moving" /\ cur # "" /\ k \in kidsLeft
    /\ LET dest == <<NewDir(cur), k>>
       IN  \/ /\ Exists(dest)
              /\ Fail("exists")
           \/ /\ ~Exists(dest)
              /\ MoveDir(<<cur, k>>, dest)
              /\ Push(<<cur, k>>, dest)
              /\ kidsLeft' = kidsLeft \ {k}
              /\ UNCHANGED <<todo, cur, phase>>
    /\ UNCHANGED <<tree, meta, noReorg, toReorg>>

(* The inner loop of line 490 is exhausted.                              *)
EndFlatten ==
    /\ phase = "moving" /\ cur # "" /\ kidsLeft = {}
    /\ cur' = ""
    /\ UNCHANGED <<tree, meta, noReorg, toReorg, raw, fs, todo, kidsLeft, remaps, phase>>

(* Mutant: the existing destination is deleted for every entry, not only *)
(* for forge-std (the `if` of line 513 dropped).                           *)
MoveToLibAlwaysReplace(t) ==
    /\ phase = "moving" /\ cur = "" /\ t \in todo
    /\ toReorg /\ t \notin FlattenDirs
    /\ LET dest == <<"lib", t>>
           kept == {e \in fs : ~IsPrefix(dest, e[1])}
           moved == {f \in raw : IsPrefix(<<t>>, f)}
       IN  /\ raw' = raw \ moved
           /\ fs' = kept \cup {<<dest \o Tail(f), f>> : f \in moved}
           /\ Push(<<t>>, dest)
           /\ todo' = todo \ {t}
    /\ UNCHANGED <<tree, meta, noReorg, toReorg, cur, kidsLeft, phase>>

(* Lines 505-524: a hardhat, forge-std or @-scoped entry of a            *)
(* reorganised tree is moved whole into lib/; an existing lib/forge-std  *)
(* is deleted first.                                                       *)
MoveToLib(t) ==
    /\ phase = "moving" /\ cur = "" /\ t \in todo
    /\ toReorg /\ t \notin FlattenDirs
    /\ LET dest == <<"lib", t>>
           kept == IF t = "forge-std" THEN {e \in fs : ~IsPrefix(dest, e[1])} ELSE fs
       IN  \/ /\ \E e \in kept : IsPrefix(dest, e[1])
              /\ Fail("exists")
           \/ /\ ~\E e \in kept : IsPrefix(dest, e[1])
              /\ LET moved == {f \in raw : IsPrefix(<<t>>, f)}
                 IN  /\ raw' = raw \ moved
                     /\ fs' = {e \in kept : ~IsPrefix(dest, e[1])}
                              \cup {<<dest \o Tail(f), f>> : f \in moved}
              /\ Push(<<t>>, dest)
              /\ todo' = todo \ {t}
              /\ UNCHANGED <<cur, kidsLeft, phase>>
    /\ UNCHANGED <<tree, meta, noReorg, toReorg>>

(* Mutant: the remapping records the bare folder name, not a path.       *)
MoveToSrcBareName(t) ==
    /\ phase = "moving" /\ cur = "" /\ t \in todo
    /\ ~toReorg
    /\ ~Exists(<<"src", t>>)
    /\ MoveDir(<<t>>, <<"src", t>>)
    /\ IF t # "src" THEN Push(t, <<"src", t>>) ELSE UNCHANGED remaps
    /\ todo' = todo \ {t}
    /\ UNCHANGED <<tree, meta, noReorg, toReorg, cur, kidsLeft, phase>>

(* Lines 525-537: without reorganisation every entry goes under src/,    *)
(* with a remapping for every entry but src. The check of line 528 is a  *)
(* conjunct: src/ is empty after init and the entries have distinct      *)
(* names, so it cannot fail (were it reachable, TLC would report the     *)
(* state as a deadlock).                                                  *)
MoveToSrc(t) ==
    /\ phase = "moving" /\ cur = "" /\ t \in todo
    /\ ~toReorg
    /\ ~Exists(<<"src", t>>)
    /\ MoveDir(<<t>>, <<"src", t>>)
    /\ IF t # "src" THEN Push(<<t>>, <<"src", t>>) ELSE UNCHANGED remaps
    /\ todo' = todo \ {t}
    /\ UNCHANGED <<tree, meta, noReorg, toReorg, cur, kidsLeft, phase>>

(* Lines 540-563: the staging directory is removed, then the metadata's  *)
(* remappings are appended; Path::strip_prefix fails on a path whose     *)
(* first component merely starts with "contracts".                        *)
Finish ==
    /\ phase = "moving" /\ cur = "" /\ todo = {}
    /\ raw' = {}
    /\ \/ /\ toReorg /\ \E j \in DOMAIN meta : StripFails(meta[j].path)
          /\ phase' = "strip_prefix"
          /\ UNCHANGED remaps
       \/ /\ ~(toReorg /\ \E j \in DOMAIN meta : StripFails(meta[j].path))
          /\ remaps' = remaps \o
               [j \in DOMAIN meta |->
                  [name |-> meta[j].name,
                   path |-> IF toReorg THEN Rewrite(meta[j].path) ELSE meta[j].path]]
          /\ phase' = "done"
    /\ UNCHANGED <<tree, meta, noReorg, toReorg, fs, todo, cur, kidsLeft>>

(* dump_sources has returned, with its list or with an error.            *)
Returned ==
    /\ phase \in {"done"} \cup Errors
    /\ UNCHANGED vars

Next ==
    \/ DumpToStaging
    \/ \E t \in Tops : StartFlatten(t) \/ MoveToLib(t) \/ MoveToSrc(t)
    \/ \E k \in Kids : MoveChild(k)
    \/ EndFlatten
    \/ Finish
    \/ Returned

(* No fairness: every property checked is a safety property. That the    *)
(* sequential call cannot get stuck before it returns is TLC's deadlock   *)
(* check (Returned is the only step of a returned call).                  *)
Spec == Init /\ [][Next]_vars

-----------------------------------------------------------------------------
PathNames == Tops \cup Kids \cup {"src", "lib", "node_modules", "forge-std"}
             \cup UNION {Range(r.name) \cup Range(r.path) : r \in MetaRemaps}
Remapping == [name : Seq(PathNames), path : Seq(PathNames)]

TypeOK ==
    /\ tree \in SUBSET (Tops \X Kids)
    /\ meta \in Seq(MetaRemaps)
    /\ noReorg \in BOOLEAN
    /\ toReorg \in BOOLEAN
    /\ raw \in SUBSET tree
    /\ fs \in SUBSET (Seq(PathNames) \X ((Tops \X Kids) \cup {Installed}))
    /\ todo \in SUBSET Tops
    /\ cur \in Tops \cup {""}
    /\ kidsLeft \in SUBSET Kids
    /\ remaps \in Seq(Remapping)
    /\ phase \in {"init", "moving", "done"} \cup Errors

(* Where a fetched file must end up (the moves of lines 470-538).        *)
Dest(f) ==
    CASE ~toReorg                        -> <<"src">> \o f
      [] toReorg /\ f[1] \in FlattenDirs -> <<NewDir(f[1]), f[2]>>
      [] OTHER                           -> <<"lib">> \o f

(* No silent overwrite (spec 4.2, 8): every fetched file dump_sources    *)
(* has moved out of raw_sources is still at its destination, i.e. no     *)
(* later move of another entry (contracts/X and src/X, lib/forge-std and *)
(* the installed forge-std) replaced it.                                  *)
NoSilentOverwrite ==
    phase # "init" => \A f \in tree \ raw : <<Dest(f), f>> \in fs

(* The imports a fetched source can make: the source unit names          *)
(* themselves, and paths through a metadata remapping.                    *)
Imports == tree \cup {meta[j].name \o <<x>> : j \in DOMAIN meta, x \in Kids}

(* Remapping round-trip (spec 8): once a reorganised tree is dumped,     *)
(* every import that named a fetched file in the original project, read  *)
(* through the returned list (existing, generated, then the rewritten    *)
(* metadata remappings), names the project file that holds that same     *)
(* fetched file.                                                          *)
RoundTrip ==
    phase = "done" /\ toReorg =>
        \A i \in Imports :
            Resolve(meta, i) \in tree => <<Resolve(remaps, i), Resolve(meta, i)>> \in fs

(* Error taxonomy (spec 4.2, 4.3, 7): dump_sources fails only on a       *)
(* colliding destination; a metadata remapping path that is not rooted   *)
(* at "contracts" passes through unchanged (line 548 tests a string      *)
(* prefix, line 549 strips a path-component prefix).                      *)
LayoutErrorsOnly ==
    phase \in Errors => phase = "exists"

(* The abstract promise of DumpSources, seen through the fetched files   *)
(* that sit at their destination and the phase of the call.              *)
Abstract == INSTANCE DumpSources WITH
                Files  <- Tops \X Kids,
                placed <- {f \in tree : <<Dest(f), f>> \in fs},
                status <- IF phase \in {"init", "moving"} THEN "running" ELSE phase

(* The safety part of the refinement: every step of dump_sources is a    *)
(* step of DumpSources or leaves the placed files and the status alone;  *)
(* no move displaces a placed file and Ok comes with every file placed.  *)
DumpSourcesSafe == Abstract!ASafe
=============================================================================
