-------------------------- MODULE MaterializeProofs --------------------------
(***************************************************************************)
(* Proofs about Materialize (dump_sources) for every value of the         *)
(* constants allowed by TopsAssumption and MetaRemapsAssumption.          *)
(***************************************************************************)
EXTENDS Materialize, SequenceTheorems, TLAPS

Origins == (Tops \X Kids) \cup {Installed}

(* A fetched path is a two-component sequence of path names.             *)
LEMMA FetchedPath ==
    ASSUME NEW f \in Tops \X Kids
    PROVE  f \in Seq(PathNames) /\ Len(f) = 2
<1>1. PICK a \in Tops, b \in Kids : f = <<a, b>>
  OBVIOUS
<1>2. a \in PathNames /\ b \in PathNames
  BY DEF PathNames
<1>3. QED
  BY <1>1, <1>2

(* The names and paths of the metadata's remappings are sequences of     *)
(* path names, and a path is never empty.                                 *)
LEMMA MetaRemapTyped ==
    ASSUME NEW r \in MetaRemaps
    PROVE  /\ r.name \in Seq(PathNames)
           /\ r.path \in Seq(PathNames)
           /\ Len(r.path) > 0
<1>1. r.name \in Seq(STRING) /\ r.path \in Seq(STRING) /\ Len(r.path) > 0
  BY MetaRemapsAssumption
<1>2. Range(r.name) \subseteq PathNames /\ Range(r.path) \subseteq PathNames
  BY DEF PathNames
<1>3. r.name \in Seq(PathNames)
  BY <1>1, <1>2, LenProperties DEF Range
<1>4. r.path \in Seq(PathNames)
  BY <1>1, <1>2, LenProperties DEF Range
<1>5. QED
  BY <1>1, <1>3, <1>4

(* The locations MoveDir creates are paths of path names.                *)
LEMMA MovedLocation ==
    ASSUME NEW dest \in Seq(PathNames), NEW from \in Seq(PathNames),
           NEW f \in Tops \X Kids, Len(from) <= Len(f)
    PROVE  dest \o SubSeq(f, Len(from) + 1, Len(f)) \in Seq(PathNames)
<1>1. f \in Seq(PathNames) /\ Len(f) = 2
  BY FetchedPath
<1>2. \A i \in (Len(from) + 1) .. Len(f) : f[i] \in PathNames
  <2>1. Len(from) \in Nat
    BY LenProperties
  <2>2. f[1] \in PathNames /\ f[2] \in PathNames
    BY DEF PathNames
  <2>3. QED
    BY <1>1, <2>1, <2>2
<1>3. SubSeq(f, Len(from) + 1, Len(f)) \in Seq(PathNames)
  BY <1>1, <1>2, SubSeqProperties
<1>4. QED
  BY <1>3, ConcatProperties

(* Rewrite keeps a metadata path a path of path names.                   *)
LEMMA RewriteTyped ==
    ASSUME NEW p \in Seq(PathNames), Len(p) > 0
    PROVE  Rewrite(p) \in Seq(PathNames)
<1>1. <<"src">> \in Seq(PathNames) /\ <<"lib">> \in Seq(PathNames)
  BY DEF PathNames
<1>2. Tail(p) \in Seq(PathNames)
  BY HeadTailProperties
<1>3. QED
  BY <1>1, <1>2, ConcatProperties DEF Rewrite

(* A rename keeps raw_sources a part of the tree and every project file  *)
(* a pair of a path and an origin.                                        *)
LEMMA MoveDirTyped ==
    ASSUME TypeOK, NEW from \in Seq(PathNames), NEW dest \in Seq(PathNames),
           MoveDir(from, dest)
    PROVE  /\ raw' \in SUBSET raw
           /\ fs' \in SUBSET (Seq(PathNames) \X Origins)
<1>1. raw' \in SUBSET raw
  BY DEF MoveDir
<1>2. ASSUME NEW f \in raw, IsPrefix(from, f)
      PROVE  <<dest \o SubSeq(f, Len(from) + 1, Len(f)), f>> \in Seq(PathNames) \X Origins
  <2>1. f \in Tops \X Kids
    BY DEF TypeOK
  <2>2. Len(from) <= Len(f)
    BY <1>2 DEF IsPrefix
  <2>3. QED
    BY <2>1, <2>2, MovedLocation DEF Origins
<1>3. fs \in SUBSET (Seq(PathNames) \X Origins)
  BY DEF TypeOK, Origins
<1>4. QED
  BY <1>1, <1>2, <1>3 DEF MoveDir

(* Appending a remapping of paths keeps the list a list of remappings.   *)
LEMMA PushTyped ==
    ASSUME NEW name \in Seq(PathNames), NEW path \in Seq(PathNames),
           remaps \in Seq(Remapping), Push(name, path)
    PROVE  remaps' \in Seq(Remapping)
BY AppendProperties DEF Push, Remapping

(* A staged entry <<t>> holds exactly the fetched files whose first      *)
(* component is t, and a child entry <<t, k>> exactly the file <<t, k>>. *)
LEMMA PrefixOfFetched ==
    ASSUME NEW f \in Tops \X Kids, NEW t, NEW k
    PROVE  /\ IsPrefix(<<t>>, f) <=> f[1] = t
           /\ IsPrefix(<<t, k>>, f) <=> f = <<t, k>>
BY DEF IsPrefix

(* Where the renames of lines 494, 519 and 533 put a fetched file.       *)
LEMMA MovedTo ==
    ASSUME NEW f \in Tops \X Kids, NEW d \in Seq(PathNames)
    PROVE  /\ <<"lib", f[1]>> \o Tail(f) = <<"lib">> \o f
           /\ <<"src", f[1]>> \o SubSeq(f, Len(<<f[1]>>) + 1, Len(f)) = <<"src">> \o f
           /\ d \o SubSeq(f, Len(<<f[1], f[2]>>) + 1, Len(f)) = d
<1>1. PICK a \in Tops, b \in Kids : f = <<a, b>>
  OBVIOUS
<1>2. <<"lib", f[1]>> \o Tail(f) = <<"lib">> \o f
  BY <1>1
<1>3. <<"src", f[1]>> \o SubSeq(f, Len(<<f[1]>>) + 1, Len(f)) = <<"src">> \o f
  BY <1>1
<1>4. SubSeq(f, Len(<<f[1], f[2]>>) + 1, Len(f)) = << >>
  BY <1>1
<1>5. d \o << >> = d
  BY ConcatEmptySeq
<1>6. QED
  BY <1>2, <1>3, <1>4, <1>5

(* The installed forge-std lies below lib/forge-std.                     *)
LEMMA InstalledBelowForgeStd == IsPrefix(<<"lib", "forge-std">>, InstalledFile)
BY DEF IsPrefix, InstalledFile

(* Prepending a directory to a fetched path.                             *)
LEMMA PrependDir ==
    ASSUME NEW x, NEW a, NEW b
    PROVE  <<x>> \o <<a, b>> = <<x, a, b>>
<1> DEFINE S == {x, a, b}
<1>1. <<x>> \in Seq(S) /\ <<a, b>> \in Seq(S) /\ <<x, a, b>> \in Seq(S)
  OBVIOUS
<1>2. Len(<<x>> \o <<a, b>>) = 3
  BY <1>1, ConcatProperties
<1>3. \A i \in 1 .. 3 : (<<x>> \o <<a, b>>)[i] = <<x, a, b>>[i]
  BY <1>1, ConcatProperties
<1>4. QED
  BY <1>1, <1>2, <1>3, ConcatProperties, SeqEqual

(* A path of two or three components below <<x, y>> starts with x, y.   *)
LEMMA BelowPair ==
    ASSUME NEW x, NEW y, NEW u, NEW v, NEW w
    PROVE  /\ IsPrefix(<<x, y>>, <<u, v>>) => x = u /\ y = v
           /\ IsPrefix(<<x, y>>, <<u, v, w>>) => x = u /\ y = v
BY DEF IsPrefix

(* Only two fetched files can be meant to end up below lib/forge-std:    *)
(* the child forge-std of a flattened lib/, and a file of the top-level  *)
(* forge-std, both in a reorganised tree.                                 *)
LEMMA DestBelowForgeStd ==
    ASSUME NEW g \in Tops \X Kids, toReorg \in BOOLEAN,
           IsPrefix(<<"lib", "forge-std">>, Dest(g))
    PROVE  toReorg /\ (g = <<"lib", "forge-std">> \/ g[1] = "forge-std")
<1>1. PICK a \in Tops, b \in Kids : g = <<a, b>>
  OBVIOUS
<1>2. CASE ~toReorg
  <2>1. Dest(g) = <<"src", a, b>>
    BY <1>1, <1>2, PrependDir DEF Dest
  <2>2. IsPrefix(<<"lib", "forge-std">>, <<"src", a, b>>)
    BY <2>1
  <2>3. "lib" = "src"
    BY <2>2, BelowPair
  <2>4. QED
    BY <2>3
<1>3. CASE toReorg /\ a \in FlattenDirs
  <2>1. Dest(g) = <<NewDir(a), b>>
    BY <1>1, <1>3 DEF Dest
  <2>2. IsPrefix(<<"lib", "forge-std">>, <<NewDir(a), b>>)
    BY <2>1
  <2>3. NewDir(a) = "lib" /\ b = "forge-std"
    BY <2>2 DEF IsPrefix
  <2>4. a = "lib"
    BY <1>3, <2>3 DEF NewDir, FlattenDirs
  <2>5. QED
    BY <1>1, <1>3, <2>3, <2>4
<1>4. CASE toReorg /\ a \notin FlattenDirs
  <2>1. Dest(g) = <<"lib", a, b>>
    BY <1>1, <1>4, PrependDir DEF Dest
  <2>2. IsPrefix(<<"lib", "forge-std">>, <<"lib", a, b>>)
    BY <2>1
  <2>3. a = "forge-std"
    BY <2>2 DEF IsPrefix
  <2>4. QED
    BY <1>1, <1>4, <2>3
<1>5. QED
  BY <1>2, <1>3, <1>4

-----------------------------------------------------------------------------
(* The initial states of dump_sources are well typed.                    *)
LEMMA TypeInit == Init => TypeOK
<1> SUFFICES ASSUME Init PROVE TypeOK
  OBVIOUS
<1>1. meta \in Seq(MetaRemaps)
  <2>1. CASE meta = <<>>
    BY <2>1, EmptySeq
  <2>2. CASE \E r \in MetaRemaps : meta = <<r>>
    BY <2>2
  <2>3. QED
    BY <2>1, <2>2 DEF Init
<1>2. fs \in SUBSET (Seq(PathNames) \X Origins)
  <2>1. InstalledFile \in Seq(PathNames)
    BY DEF InstalledFile, PathNames
  <2>2. Installed \in Origins
    BY DEF Origins
  <2>3. fs = {<<InstalledFile, Installed>>}
    BY DEF Init
  <2>4. QED
    BY <2>1, <2>2, <2>3
<1>3. tree \in SUBSET (Tops \X Kids) /\ raw \in SUBSET tree
  BY DEF Init, Trees
<1>4. remaps \in Seq(Remapping)
  BY EmptySeq DEF Init
<1>5. QED
  BY <1>1, <1>2, <1>3, <1>4 DEF Init, TypeOK, Origins

(* Every step of dump_sources keeps the state well typed.               *)
LEMMA TypeStep == TypeOK /\ [Next]_vars => TypeOK'
<1> SUFFICES ASSUME TypeOK, [Next]_vars PROVE TypeOK'
  OBVIOUS
<1>1. CASE DumpToStaging
  <2>1. Existing \in Seq(Remapping)
    BY DEF Existing, Remapping, PathNames
  <2>2. {f[1] : f \in tree} \subseteq Tops
    BY DEF TypeOK
  <2>3. QED
    BY <1>1, <2>1, <2>2 DEF DumpToStaging, TypeOK, TopsOf
<1>2. ASSUME NEW t \in Tops, StartFlatten(t) PROVE TypeOK'
  BY <1>2 DEF StartFlatten, TypeOK
<1>3. ASSUME NEW k \in Kids, MoveChild(k) PROVE TypeOK'
  <2> DEFINE dest == <<NewDir(cur), k>>
  <2>1. cur \in Tops
    BY <1>3 DEF MoveChild, TypeOK
  <2>2. dest \in Seq(PathNames) /\ <<cur, k>> \in Seq(PathNames)
    BY <2>1 DEF NewDir, PathNames
  <2>3. CASE Exists(dest) /\ Fail("exists")
    BY <1>3, <2>3 DEF MoveChild, Fail, TypeOK, Errors
  <2>4. CASE ~Exists(dest) /\ MoveDir(<<cur, k>>, dest) /\ Push(<<cur, k>>, dest)
             /\ kidsLeft' = kidsLeft \ {k} /\ UNCHANGED <<todo, cur, phase>>
    <3>1. raw' \in SUBSET raw /\ fs' \in SUBSET (Seq(PathNames) \X Origins)
      BY <2>2, <2>4, MoveDirTyped
    <3>2. remaps' \in Seq(Remapping)
      BY <2>2, <2>4, PushTyped DEF TypeOK
    <3>3. QED
      BY <1>3, <2>4, <3>1, <3>2 DEF MoveChild, TypeOK, Origins
  <2>5. QED
    BY <1>3, <2>3, <2>4 DEF MoveChild
<1>4. CASE EndFlatten
  BY <1>4 DEF EndFlatten, TypeOK
<1>5. ASSUME NEW t \in Tops, MoveToLib(t) PROVE TypeOK'
  <2> DEFINE dest == <<"lib", t>>
             kept == IF t = "forge-std" THEN {e \in fs : ~IsPrefix(dest, e[1])} ELSE fs
             moved == {f \in raw : IsPrefix(<<t>>, f)}
  <2>1. dest \in Seq(PathNames) /\ kept \subseteq fs
    BY DEF PathNames
  <2>2. CASE (\E e \in kept : IsPrefix(dest, e[1])) /\ Fail("exists")
    BY <1>5, <2>2 DEF MoveToLib, Fail, TypeOK, Errors
  <2>3. CASE /\ ~\E e \in kept : IsPrefix(dest, e[1])
             /\ raw' = raw \ moved
             /\ fs' = {e \in kept : ~IsPrefix(dest, e[1])}
                      \cup {<<dest \o Tail(f), f>> : f \in moved}
             /\ Push(<<t>>, dest)
             /\ todo' = todo \ {t}
             /\ UNCHANGED <<cur, kidsLeft, phase>>
    <3>1. ASSUME NEW f \in moved PROVE <<dest \o Tail(f), f>> \in Seq(PathNames) \X Origins
      <4>1. f \in Tops \X Kids
        BY DEF TypeOK
      <4>2. f \in Seq(PathNames) /\ f # << >>
        BY <4>1, FetchedPath
      <4>3. Tail(f) \in Seq(PathNames)
        BY <4>2, HeadTailProperties
      <4>4. dest \o Tail(f) \in Seq(PathNames)
        BY <2>1, <4>3, ConcatProperties
      <4>5. QED
        BY <4>1, <4>4 DEF Origins
    <3>2. fs' \in SUBSET (Seq(PathNames) \X Origins)
      <4>1. ASSUME NEW e \in fs' PROVE e \in Seq(PathNames) \X Origins
        <5>1. CASE e \in kept
          BY <2>1, <5>1 DEF TypeOK, Origins
        <5>2. CASE \E f \in moved : e = <<dest \o Tail(f), f>>
          BY <5>2, <3>1
        <5>3. QED
          BY <2>3, <4>1, <5>1, <5>2
      <4>2. QED
        BY <4>1
    <3>3. remaps' \in Seq(Remapping)
      <4>1. <<t>> \in Seq(PathNames)
        BY DEF PathNames
      <4>2. QED
        BY <2>1, <2>3, <4>1, PushTyped DEF TypeOK
    <3>4. UNCHANGED <<tree, meta, noReorg, toReorg>>
      BY <1>5 DEF MoveToLib
    <3>5. QED
      BY <2>3, <3>2, <3>3, <3>4 DEF TypeOK, Origins
  <2>4. QED
    BY <1>5, <2>2, <2>3 DEF MoveToLib
<1>6. ASSUME NEW t \in Tops, MoveToSrc(t) PROVE TypeOK'
  <2>1. <<"src", t>> \in Seq(PathNames) /\ <<t>> \in Seq(PathNames)
    BY DEF PathNames
  <2>2. raw' \in SUBSET raw /\ fs' \in SUBSET (Seq(PathNames) \X Origins)
    BY <1>6, <2>1, MoveDirTyped DEF MoveToSrc
  <2>3. remaps' \in Seq(Remapping)
    BY <1>6, <2>1, PushTyped DEF MoveToSrc, TypeOK
  <2>4. QED
    BY <1>6, <2>2, <2>3 DEF MoveToSrc, TypeOK, Origins
<1>7. CASE Finish
  <2>1. CASE phase' = "strip_prefix" /\ UNCHANGED remaps
    BY <1>7, <2>1 DEF Finish, TypeOK, Errors
  <2>2. CASE remaps' = remaps \o
               [j \in DOMAIN meta |->
                  [name |-> meta[j].name,
                   path |-> IF toReorg THEN Rewrite(meta[j].path) ELSE meta[j].path]]
             /\ phase' = "done"
    <3> DEFINE add == [j \in DOMAIN meta |->
                  [name |-> meta[j].name,
                   path |-> IF toReorg THEN Rewrite(meta[j].path) ELSE meta[j].path]]
    <3>1. ASSUME NEW j \in 1..Len(meta) PROVE add[j] \in Remapping
      <4>1. meta[j] \in MetaRemaps
        BY ElementOfSeq DEF TypeOK
      <4>2. meta[j].name \in Seq(PathNames) /\ meta[j].path \in Seq(PathNames)
            /\ Len(meta[j].path) > 0
        BY <4>1, MetaRemapTyped
      <4>3. Rewrite(meta[j].path) \in Seq(PathNames)
        BY <4>2, RewriteTyped
      <4>4. DOMAIN meta = 1..Len(meta)
        BY LenProperties DEF TypeOK
      <4>5. QED
        BY <4>2, <4>3, <4>4 DEF Remapping
    <3>2. add \in Seq(Remapping)
      <4>1. Len(meta) \in Nat /\ DOMAIN meta = 1..Len(meta)
        BY LenProperties DEF TypeOK
      <4>2. QED
        BY <3>1, <4>1, IsASeq
    <3>3. remaps' \in Seq(Remapping)
      BY <2>2, <3>2, ConcatProperties DEF TypeOK
    <3>4. QED
      BY <1>7, <2>2, <3>3 DEF Finish, TypeOK
  <2>3. QED
    BY <1>7, <2>1, <2>2 DEF Finish
<1>8. CASE Returned \/ UNCHANGED vars
  BY <1>8 DEF Returned, vars, TypeOK
<1>9. QED
  BY <1>1, <1>2, <1>3, <1>4, <1>5, <1>6, <1>7, <1>8 DEF Next

(* Type correctness of dump_sources: the staging set stays part of the    *)
(* fetched tree, the project holds only well-formed files, and the        *)
(* remapping list only remappings of paths.                               *)
THEOREM TypeCorrect == Spec => []TypeOK
BY TypeInit, TypeStep, PTL DEF Spec

-----------------------------------------------------------------------------
(* The strengthening of NoSilentOverwrite. Before staging nothing is     *)
(* pending; every staged file belongs to an entry read_dir has still to  *)
(* yield or to a child of the entry being flattened; only a reorganised  *)
(* tree flattens; and while the top-level forge-std is pending, the      *)
(* installed lib/forge-std is in place and no moved file lies below it,  *)
(* so the deletion of lines 513-516 removes no fetched file.             *)
InitShape == phase = "init" => /\ raw = {} /\ todo = {} /\ cur = ""
                               /\ <<InstalledFile, Installed>> \in fs
StagedPending ==
    \A f \in raw : \/ f[1] \in todo
                   \/ cur # "" /\ f[1] = cur /\ f[2] \in kidsLeft
FlattenOnlyReorg == cur # "" => toReorg /\ cur \in FlattenDirs
ForgeStdInstalled == "forge-std" \in todo => <<InstalledFile, Installed>> \in fs
ForgeStdFree ==
    "forge-std" \in todo =>
        \A g \in tree \ raw : ~IsPrefix(<<"lib", "forge-std">>, Dest(g))

Strengthening == /\ NoSilentOverwrite
                 /\ InitShape
                 /\ StagedPending
                 /\ FlattenOnlyReorg
                 /\ ForgeStdInstalled
                 /\ ForgeStdFree
IInv == TypeOK /\ Strengthening


(* The strengthening holds before dump_sources starts.                    *)
LEMMA StrengthenInit == Init => Strengthening
BY DEF Init, Strengthening, NoSilentOverwrite, InitShape, StagedPending,
       FlattenOnlyReorg, ForgeStdInstalled, ForgeStdFree

(* Lines 436-467: staging the tree leaves every file pending and no file *)
(* moved.                                                                  *)
LEMMA DumpKeeps ==
    ASSUME TypeOK, Strengthening, DumpToStaging
    PROVE  Strengthening'
<1>1. raw = {} /\ todo = {} /\ cur = "" /\ <<InstalledFile, Installed>> \in fs
  BY DEF DumpToStaging, Strengthening, InitShape
<1>2. tree \ raw' = {}
  BY DEF DumpToStaging
<1>3. StagedPending'
  BY DEF DumpToStaging, StagedPending, TopsOf
<1>4. QED
  BY <1>1, <1>2, <1>3 DEF DumpToStaging, Strengthening, NoSilentOverwrite,
     InitShape, FlattenOnlyReorg, ForgeStdInstalled, ForgeStdFree

(* Lines 475-489: starting to flatten an entry moves nothing, and its    *)
(* staged files become the children still to move.                       *)
LEMMA StartFlattenKeeps ==
    ASSUME TypeOK, Strengthening, NEW t \in Tops, StartFlatten(t)
    PROVE  Strengthening'
<1>1. t # "" /\ toReorg /\ t \in FlattenDirs /\ cur = "" /\ phase = "moving"
  BY DEF StartFlatten, FlattenDirs
<1>2. StagedPending'
  <2> SUFFICES ASSUME NEW f \in raw'
               PROVE  \/ f[1] \in todo'
                      \/ cur' # "" /\ f[1] = cur' /\ f[2] \in kidsLeft'
    BY DEF StagedPending
  <2>1. f \in raw /\ f \in tree /\ f[1] \in todo
    BY <1>1 DEF StartFlatten, TypeOK, Strengthening, StagedPending
  <2>2. CASE f[1] = t
    BY <1>1, <2>1, <2>2 DEF StartFlatten
  <2>3. CASE f[1] # t
    BY <2>1, <2>3 DEF StartFlatten
  <2>4. QED
    BY <2>2, <2>3
<1>3. QED
  BY <1>1, <1>2 DEF StartFlatten, Strengthening, NoSilentOverwrite, Dest,
     InitShape, FlattenOnlyReorg, ForgeStdInstalled, ForgeStdFree

(* The inner loop of line 490 ends only when no child is left.            *)
LEMMA EndFlattenKeeps ==
    ASSUME TypeOK, Strengthening, EndFlatten
    PROVE  Strengthening'
<1>1. StagedPending'
  BY DEF EndFlatten, Strengthening, StagedPending
<1>2. QED
  BY <1>1 DEF EndFlatten, Strengthening, NoSilentOverwrite, Dest,
     InitShape, FlattenOnlyReorg, ForgeStdInstalled, ForgeStdFree

(* Lines 540-563: once every entry is moved nothing is left in staging,  *)
(* so deleting it loses no file.                                          *)
LEMMA FinishKeeps ==
    ASSUME TypeOK, Strengthening, Finish
    PROVE  Strengthening'
<1>1. raw = {}
  BY DEF Finish, Strengthening, StagedPending
<1>2. phase' # "init" /\ phase = "moving"
  BY DEF Finish
<1>3. QED
  BY <1>1, <1>2 DEF Finish, Strengthening, NoSilentOverwrite, Dest,
     InitShape, StagedPending, FlattenOnlyReorg, ForgeStdInstalled, ForgeStdFree

(* A failed destination check only records the error.                     *)
LEMMA FailKeeps ==
    ASSUME Strengthening, phase = "moving", Fail("exists"),
           UNCHANGED <<tree, meta, noReorg, toReorg>>
    PROVE  Strengthening'
BY DEF Fail, Strengthening, NoSilentOverwrite, Dest, InitShape, StagedPending,
       FlattenOnlyReorg, ForgeStdInstalled, ForgeStdFree


(* Lines 490-503: a checked move of one child puts it at its destination *)
(* and removes nothing, since nothing lies below the destination.        *)
LEMMA MoveChildKeeps ==
    ASSUME TypeOK, Strengthening, NEW k \in Kids, MoveChild(k)
    PROVE  Strengthening'
<1> DEFINE dest == <<NewDir(cur), k>>
           c == <<cur, k>>
<1>1. cur # "" /\ toReorg /\ cur \in FlattenDirs /\ phase = "moving"
      /\ UNCHANGED <<tree, meta, noReorg, toReorg>>
  BY DEF MoveChild, Strengthening, FlattenOnlyReorg
<1>2. CASE Exists(dest) /\ Fail("exists")
  BY <1>1, <1>2, FailKeeps
<1>3. CASE /\ ~Exists(dest) /\ MoveDir(c, dest) /\ Push(c, dest)
           /\ kidsLeft' = kidsLeft \ {k} /\ UNCHANGED <<todo, cur, phase>>
  <2>1. raw' = raw \ {c}
    <3>1. \A f \in raw : IsPrefix(c, f) <=> f = c
      BY PrefixOfFetched DEF TypeOK
    <3>2. QED
      BY <1>3, <3>1 DEF MoveDir
  <2>2. fs \subseteq fs'
    BY <1>3 DEF MoveDir, Exists
  <2>3. c \in raw => <<dest, c>> \in fs'
    <3>1. HAVE c \in raw
    <3>2. c \in Tops \X Kids /\ IsPrefix(c, c)
      BY <3>1, PrefixOfFetched DEF TypeOK
    <3>3. dest \in Seq(PathNames)
      BY DEF NewDir, PathNames
    <3>4. dest \o SubSeq(c, Len(c) + 1, Len(c)) = dest
      BY <3>2, <3>3, MovedTo
    <3>5. QED
      BY <1>3, <3>1, <3>2, <3>4 DEF MoveDir
  <2>4. Dest(c) = dest
    BY <1>1 DEF Dest
  <2>5. NoSilentOverwrite'
    <3> SUFFICES ASSUME NEW g \in tree \ raw' PROVE <<Dest(g), g>> \in fs'
      BY <1>1, <1>3 DEF NoSilentOverwrite, Dest
    <3>1. CASE g \in raw
      BY <2>1, <2>3, <2>4, <3>1
    <3>2. CASE g \notin raw
      BY <1>1, <1>3, <2>2, <3>2 DEF Strengthening, NoSilentOverwrite
    <3>3. QED
      BY <3>1, <3>2
  <2>6. StagedPending'
    <3> SUFFICES ASSUME NEW f \in raw'
                 PROVE  \/ f[1] \in todo'
                        \/ cur' # "" /\ f[1] = cur' /\ f[2] \in kidsLeft'
      BY DEF StagedPending
    <3>1. f \in raw /\ f # c /\ f \in Tops \X Kids
      BY <2>1 DEF TypeOK
    <3>2. f[1] = cur => f[2] # k
      BY <3>1
    <3>3. QED
      BY <1>3, <3>1, <3>2 DEF Strengthening, StagedPending
  <2>7. ForgeStdFree'
    <3> SUFFICES ASSUME "forge-std" \in todo', NEW g \in tree \ raw'
                 PROVE  ~IsPrefix(<<"lib", "forge-std">>, Dest(g))
      BY <1>1, <1>3 DEF ForgeStdFree, Dest
    <3>1. CASE g \notin raw
      BY <1>3, <3>1 DEF Strengthening, ForgeStdFree
    <3>2. CASE g \in raw
      <4>1. g = c
        BY <2>1, <3>2
      <4>2. <<InstalledFile, Installed>> \in fs
        BY <1>3 DEF Strengthening, ForgeStdInstalled
      <4>3. ~IsPrefix(dest, InstalledFile)
        BY <1>3, <4>2 DEF Exists
      <4>4. SUFFICES ASSUME IsPrefix(<<"lib", "forge-std">>, dest) PROVE FALSE
        BY <2>4, <4>1
      <4>5. dest = <<"lib", "forge-std">>
        BY <4>4 DEF IsPrefix
      <4>6. QED
        BY <4>3, <4>5, InstalledBelowForgeStd
    <3>3. QED
      BY <3>1, <3>2
  <2>8. QED
    BY <1>1, <1>3, <2>2, <2>5, <2>6, <2>7 DEF Strengthening, InitShape,
       FlattenOnlyReorg, ForgeStdInstalled
<1>4. QED
  BY <1>2, <1>3 DEF MoveChild


(* Lines 505-524: moving a whole entry into lib/ keeps every moved file;  *)
(* the deletion of an existing lib/forge-std only removes what `forge    *)
(* init` installed, since nothing fetched has been put below it yet.     *)
LEMMA MoveToLibKeeps ==
    ASSUME TypeOK, Strengthening, NEW t \in Tops, MoveToLib(t)
    PROVE  Strengthening'
<1> DEFINE dest == <<"lib", t>>
           kept == IF t = "forge-std" THEN {e \in fs : ~IsPrefix(dest, e[1])} ELSE fs
           moved == {f \in raw : IsPrefix(<<t>>, f)}
<1>1. cur = "" /\ toReorg /\ t \notin FlattenDirs /\ t \in todo /\ phase = "moving"
      /\ UNCHANGED <<tree, meta, noReorg, toReorg>>
  BY DEF MoveToLib
<1>2. CASE (\E e \in kept : IsPrefix(dest, e[1])) /\ Fail("exists")
  BY <1>1, <1>2, FailKeeps
<1>3. CASE /\ ~\E e \in kept : IsPrefix(dest, e[1])
           /\ raw' = raw \ moved
           /\ fs' = {e \in kept : ~IsPrefix(dest, e[1])}
                    \cup {<<dest \o Tail(f), f>> : f \in moved}
           /\ Push(<<t>>, dest)
           /\ todo' = todo \ {t}
           /\ UNCHANGED <<cur, kidsLeft, phase>>
  <2>1. kept \subseteq fs'
    BY <1>3
  <2>2. \A f \in raw : f \in moved <=> f[1] = t
    BY PrefixOfFetched DEF TypeOK
  <2>3. ASSUME NEW f \in moved PROVE <<Dest(f), f>> \in fs'
    <3>1. f \in Tops \X Kids /\ f[1] = t
      BY <2>2 DEF TypeOK
    <3>2. Dest(f) = <<"lib">> \o f
      BY <1>1, <3>1 DEF Dest
    <3>3. dest \o Tail(f) = <<"lib">> \o f
      <4>1. <<"src">> \in Seq(PathNames)
        BY DEF PathNames
      <4>2. QED
        BY <3>1, <4>1, MovedTo
    <3>4. QED
      BY <1>3, <3>2, <3>3
  <2>4. ASSUME NEW g \in tree \ raw PROVE <<Dest(g), g>> \in kept
    <3>1. <<Dest(g), g>> \in fs
      BY <1>1 DEF Strengthening, NoSilentOverwrite
    <3>2. CASE t # "forge-std"
      BY <3>1, <3>2
    <3>3. CASE t = "forge-std"
      <4>1. ~IsPrefix(<<"lib", "forge-std">>, Dest(g))
        BY <1>1, <3>3 DEF Strengthening, ForgeStdFree
      <4>2. QED
        BY <3>1, <3>3, <4>1
    <3>4. QED
      BY <3>2, <3>3
  <2>5. NoSilentOverwrite'
    <3> SUFFICES ASSUME NEW g \in tree \ raw' PROVE <<Dest(g), g>> \in fs'
      BY <1>1, <1>3 DEF NoSilentOverwrite, Dest
    <3>1. CASE g \in raw
      BY <1>3, <2>3, <3>1
    <3>2. CASE g \notin raw
      BY <1>1, <2>1, <2>4, <3>2
    <3>3. QED
      BY <3>1, <3>2
  <2>6. StagedPending'
    <3> SUFFICES ASSUME NEW f \in raw'
                 PROVE  \/ f[1] \in todo'
                        \/ cur' # "" /\ f[1] = cur' /\ f[2] \in kidsLeft'
      BY DEF StagedPending
    <3>1. f \in raw /\ f[1] # t
      BY <1>3, <2>2
    <3>2. QED
      BY <1>1, <1>3, <3>1 DEF Strengthening, StagedPending
  <2>7. ForgeStdInstalled'
    <3> SUFFICES ASSUME "forge-std" \in todo' PROVE <<InstalledFile, Installed>> \in fs'
      BY DEF ForgeStdInstalled
    <3>1. t # "forge-std" /\ "forge-std" \in todo
      BY <1>3
    <3>2. <<InstalledFile, Installed>> \in kept
      BY <3>1 DEF Strengthening, ForgeStdInstalled
    <3>3. QED
      BY <2>1, <3>2
  <2>8. ForgeStdFree'
    <3> SUFFICES ASSUME "forge-std" \in todo', NEW g \in tree \ raw'
                 PROVE  ~IsPrefix(<<"lib", "forge-std">>, Dest(g))
      BY <1>1, <1>3 DEF ForgeStdFree, Dest
    <3>1. t # "forge-std" /\ "forge-std" \in todo
      BY <1>3
    <3>2. CASE g \notin raw
      BY <3>1, <3>2 DEF Strengthening, ForgeStdFree
    <3>3. CASE g \in raw
      <4>1. g \in Tops \X Kids /\ g[1] = t
        BY <1>3, <2>2, <3>3 DEF TypeOK
      <4>2. SUFFICES ASSUME IsPrefix(<<"lib", "forge-std">>, Dest(g)) PROVE FALSE
        OBVIOUS
      <4>3. g = <<"lib", "forge-std">> \/ g[1] = "forge-std"
        BY <1>1, <4>1, <4>2, DestBelowForgeStd
      <4>4. t \notin FlattenDirs /\ "lib" \in FlattenDirs
        BY <1>1 DEF FlattenDirs
      <4>5. g[1] # "lib"
        BY <4>1, <4>4
      <4>6. QED
        BY <3>1, <4>1, <4>3, <4>5
    <3>4. QED
      BY <3>2, <3>3
  <2>9. QED
    BY <1>1, <1>3, <2>5, <2>6, <2>7, <2>8 DEF Strengthening, InitShape,
       FlattenOnlyReorg
<1>4. QED
  BY <1>2, <1>3 DEF MoveToLib

(* Lines 525-537: without reorganisation every entry goes to src/<name>, *)
(* where nothing lies yet.                                                 *)
LEMMA MoveToSrcKeeps ==
    ASSUME TypeOK, Strengthening, NEW t \in Tops, MoveToSrc(t)
    PROVE  Strengthening'
<1> DEFINE dest == <<"src", t>>
<1>1. cur = "" /\ ~toReorg /\ t \in todo /\ phase = "moving" /\ ~Exists(dest)
      /\ MoveDir(<<t>>, dest) /\ todo' = todo \ {t}
      /\ UNCHANGED <<tree, meta, noReorg, toReorg, cur, kidsLeft, phase>>
  BY DEF MoveToSrc
<1>2. \A f \in raw : IsPrefix(<<t>>, f) <=> f[1] = t
  BY PrefixOfFetched DEF TypeOK
<1>3. raw' = {f \in raw : f[1] # t}
  BY <1>1, <1>2 DEF MoveDir
<1>4. fs \subseteq fs'
  BY <1>1 DEF MoveDir, Exists
<1>5. ASSUME NEW f \in raw, f[1] = t PROVE <<Dest(f), f>> \in fs'
  <2>1. f \in Tops \X Kids
    BY DEF TypeOK
  <2>2. dest \o SubSeq(f, Len(<<t>>) + 1, Len(f)) = <<"src">> \o f
    <3>1. <<"src">> \in Seq(PathNames)
      BY DEF PathNames
    <3>2. QED
      BY <1>5, <2>1, <3>1, MovedTo
  <2>3. Dest(f) = <<"src">> \o f
    BY <1>1 DEF Dest
  <2>4. QED
    BY <1>1, <1>2, <1>5, <2>2, <2>3 DEF MoveDir
<1>6. NoSilentOverwrite'
  <2> SUFFICES ASSUME NEW g \in tree \ raw' PROVE <<Dest(g), g>> \in fs'
    BY <1>1 DEF NoSilentOverwrite, Dest
  <2>1. CASE g \in raw
    BY <1>3, <1>5, <2>1
  <2>2. CASE g \notin raw
    BY <1>1, <1>4, <2>2 DEF Strengthening, NoSilentOverwrite
  <2>3. QED
    BY <2>1, <2>2
<1>7. StagedPending'
  BY <1>1, <1>3 DEF Strengthening, StagedPending
<1>8. ForgeStdFree'
  <2> SUFFICES ASSUME NEW g \in tree, IsPrefix(<<"lib", "forge-std">>, Dest(g))
               PROVE  FALSE
    BY <1>1 DEF ForgeStdFree, Dest
  <2>1. g \in Tops \X Kids /\ toReorg \in BOOLEAN
    BY DEF TypeOK
  <2>2. QED
    BY <1>1, <2>1, DestBelowForgeStd
<1>9. QED
  BY <1>1, <1>4, <1>6, <1>7, <1>8 DEF Strengthening, InitShape,
     FlattenOnlyReorg, ForgeStdInstalled


(* Every step of dump_sources keeps the inductive invariant.              *)
LEMMA StrengthenStep == IInv /\ [Next]_vars => IInv'
<1> SUFFICES ASSUME TypeOK, Strengthening, [Next]_vars PROVE IInv'
  BY DEF IInv
<1>1. TypeOK'
  BY TypeStep
<1>2. Strengthening'
  <2>1. CASE DumpToStaging
    BY <2>1, DumpKeeps
  <2>2. CASE \E t \in Tops : StartFlatten(t) \/ MoveToLib(t) \/ MoveToSrc(t)
    BY <2>2, StartFlattenKeeps, MoveToLibKeeps, MoveToSrcKeeps
  <2>3. CASE \E k \in Kids : MoveChild(k)
    BY <2>3, MoveChildKeeps
  <2>4. CASE EndFlatten
    BY <2>4, EndFlattenKeeps
  <2>5. CASE Finish
    BY <2>5, FinishKeeps
  <2>6. CASE Returned \/ UNCHANGED vars
    <3>1. UNCHANGED vars
      BY <2>6 DEF Returned
    <3>2. QED
      BY <3>1 DEF vars, Strengthening, NoSilentOverwrite, Dest, InitShape,
         StagedPending, FlattenOnlyReorg, ForgeStdInstalled, ForgeStdFree
  <2>7. QED
    BY <2>1, <2>2, <2>3, <2>4, <2>5, <2>6 DEF Next
<1>3. QED
  BY <1>1, <1>2 DEF IInv

(* No silent overwrite, for every tree, every remapping and every order  *)
(* read_dir yields the entries in: every fetched file dump_sources has   *)
(* moved out of raw_sources stays at its destination; the existence      *)
(* checks of lines 493, 517 and 528 and the timing of the forge-std      *)
(* deletion of lines 513-516 make every move land on free ground.         *)
THEOREM NoOverwrite == Spec => []NoSilentOverwrite
<1>1. Init => IInv
  BY TypeInit, StrengthenInit DEF IInv
<1>2. IInv => NoSilentOverwrite
  BY DEF IInv, Strengthening
<1>3. QED
  BY <1>1, <1>2, StrengthenStep, PTL DEF Spec

(* The strengthening holds in every state of dump_sources: nothing is    *)
(* pending before staging, every staged file waits for its read_dir      *)
(* entry, only a reorganised tree flattens, and lib/forge-std is left    *)
(* alone while the top-level forge-std is pending.                        *)
THEOREM Inductive == Spec => []IInv
<1>1. Init => IInv
  BY TypeInit, StrengthenInit DEF IInv
<1>2. QED
  BY <1>1, StrengthenStep, PTL DEF Spec


=============================================================================
