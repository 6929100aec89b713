------------------------ MODULE MaterializeRefinement ------------------------
(***************************************************************************)
(* dump_sources implements the safety part of DumpSources: the fetched    *)
(* files at their destinations only ever grow, the call returns Ok only  *)
(* with every file placed, and an error leaves the placed files alone.    *)
(***************************************************************************)
EXTENDS MaterializeProofs, TLAPS

(* The fetched files that sit at their destination: the abstract         *)
(* variable `placed` of the refinement mapping.                           *)
PlacedFiles == {f \in tree : <<Dest(f), f>> \in fs}

(* The abstract status of the refinement mapping.                         *)
Status == IF phase \in {"init", "moving"} THEN "running" ELSE phase

(* Before staging, the project holds only what forge init installed.      *)
InstalledOnlyBeforeStaging == phase = "init" => fs = {<<InstalledFile, Installed>>}

(* Every project file came from forge init or is a fetched file already  *)
(* moved out of raw_sources: a staged file is never in the project.       *)
OriginsMoved == \A e \in fs : e[2] = Installed \/ e[2] \in tree \ raw

RInv == IInv /\ InstalledOnlyBeforeStaging /\ OriginsMoved

-----------------------------------------------------------------------------
(* What forge init installed is no fetched file.                          *)
LEMMA InstalledNotFetched == Installed \notin Tops \X Kids
BY DEF Installed

(* A step that takes `moved` out of raw_sources and adds project files   *)
(* only with origins in `moved` keeps every origin moved.                  *)
LEMMA OriginsKept ==
    ASSUME OriginsMoved, raw \subseteq tree, NEW moved \in SUBSET raw,
           raw' = raw \ moved, tree' = tree,
           \A e \in fs' : e \in fs \/ e[2] \in moved
    PROVE  OriginsMoved'
BY DEF OriginsMoved

(* The two conjuncts added to IInv are kept by every step.                *)
LEMMA OriginsStep ==
    ASSUME IInv, InstalledOnlyBeforeStaging, OriginsMoved, [Next]_vars
    PROVE  InstalledOnlyBeforeStaging' /\ OriginsMoved'
<1>0. raw \subseteq tree
  BY DEF IInv, TypeOK
<1>1. CASE DumpToStaging
  <2>1. fs = {<<InstalledFile, Installed>>} /\ fs' = fs
    BY <1>1 DEF DumpToStaging, InstalledOnlyBeforeStaging
  <2>2. QED
    BY <1>1, <2>1 DEF DumpToStaging, InstalledOnlyBeforeStaging, OriginsMoved
<1>2. ASSUME NEW t \in Tops, StartFlatten(t) PROVE InstalledOnlyBeforeStaging' /\ OriginsMoved'
  BY <1>2 DEF StartFlatten, InstalledOnlyBeforeStaging, OriginsMoved
<1>3. ASSUME NEW k \in Kids, MoveChild(k) PROVE InstalledOnlyBeforeStaging' /\ OriginsMoved'
  <2> DEFINE dest == <<NewDir(cur), k>>
             moved == {f \in raw : IsPrefix(<<cur, k>>, f)}
  <2>1. phase' # "init"
    BY <1>3 DEF MoveChild, Fail
  <2>2. CASE Exists(dest) /\ Fail("exists")
    BY <1>3, <2>1, <2>2 DEF MoveChild, Fail, InstalledOnlyBeforeStaging, OriginsMoved
  <2>3. CASE ~Exists(dest) /\ MoveDir(<<cur, k>>, dest)
    <3>1. raw' = raw \ moved /\ \A e \in fs' : e \in fs \/ e[2] \in moved
      BY <2>3 DEF MoveDir
    <3>2. OriginsMoved'
      BY <1>0, <1>3, <3>1, OriginsKept DEF MoveChild
    <3>3. QED
      BY <2>1, <3>2 DEF InstalledOnlyBeforeStaging
  <2>4. QED
    BY <1>3, <2>2, <2>3 DEF MoveChild
<1>4. CASE EndFlatten
  BY <1>4 DEF EndFlatten, InstalledOnlyBeforeStaging, OriginsMoved
<1>5. ASSUME NEW t \in Tops, MoveToLib(t) PROVE InstalledOnlyBeforeStaging' /\ OriginsMoved'
  <2> DEFINE dest == <<"lib", t>>
             kept == IF t = "forge-std" THEN {e \in fs : ~IsPrefix(dest, e[1])} ELSE fs
             moved == {f \in raw : IsPrefix(<<t>>, f)}
  <2>1. phase' # "init"
    BY <1>5 DEF MoveToLib, Fail
  <2>2. CASE (\E e \in kept : IsPrefix(dest, e[1])) /\ Fail("exists")
    BY <1>5, <2>1, <2>2 DEF MoveToLib, Fail, InstalledOnlyBeforeStaging, OriginsMoved
  <2>3. CASE /\ ~\E e \in kept : IsPrefix(dest, e[1])
             /\ raw' = raw \ moved
             /\ fs' = {e \in kept : ~IsPrefix(dest, e[1])}
                      \cup {<<dest \o Tail(f), f>> : f \in moved}
    <3>1. \A e \in fs' : e \in fs \/ e[2] \in moved
      BY <2>3
    <3>2. OriginsMoved'
      BY <1>0, <1>5, <2>3, <3>1, OriginsKept DEF MoveToLib
    <3>3. QED
      BY <2>1, <3>2 DEF InstalledOnlyBeforeStaging
  <2>4. QED
    BY <1>5, <2>2, <2>3 DEF MoveToLib
<1>6. ASSUME NEW t \in Tops, MoveToSrc(t) PROVE InstalledOnlyBeforeStaging' /\ OriginsMoved'
  <2> DEFINE moved == {f \in raw : IsPrefix(<<t>>, f)}
  <2>1. raw' = raw \ moved /\ \A e \in fs' : e \in fs \/ e[2] \in moved
    <3>1. MoveDir(<<t>>, <<"src", t>>)
      BY <1>6 DEF MoveToSrc
    <3>2. QED
      BY <3>1 DEF MoveDir
  <2>2. OriginsMoved'
    BY <1>0, <1>6, <2>1, OriginsKept DEF MoveToSrc
  <2>3. QED
    BY <1>6, <2>2 DEF MoveToSrc, InstalledOnlyBeforeStaging
<1>7. CASE Finish
  BY <1>7 DEF Finish, InstalledOnlyBeforeStaging, OriginsMoved
<1>8. CASE Returned \/ UNCHANGED vars
  <2>1. UNCHANGED vars
    BY <1>8 DEF Returned
  <2>2. QED
    BY <2>1 DEF vars, InstalledOnlyBeforeStaging, OriginsMoved
<1>9. QED
  BY <1>1, <1>2, <1>3, <1>4, <1>5, <1>6, <1>7, <1>8 DEF Next

(* The strengthened invariant of the refinement holds initially and is   *)
(* kept by every step.                                                     *)
LEMMA RInvInit == Init => RInv
<1> SUFFICES ASSUME Init PROVE RInv
  OBVIOUS
<1>1. IInv
  BY TypeInit, StrengthenInit DEF IInv
<1>2. phase = "init" /\ fs = {<<InstalledFile, Installed>>}
  BY DEF Init
<1>3. QED
  BY <1>1, <1>2 DEF RInv, InstalledOnlyBeforeStaging, OriginsMoved

LEMMA RInvStep == RInv /\ [Next]_vars => RInv'
BY StrengthenStep, OriginsStep DEF RInv

-----------------------------------------------------------------------------
(* The refinement mapping names PlacedFiles and Status.                   *)
LEMMA MappingIsPlaced ==
    /\ Abstract!avars = <<tree, PlacedFiles, Status>>
    /\ Abstract!avars' = <<tree', PlacedFiles', Status'>>
BY DEF Abstract!avars, PlacedFiles, Status

(* A move that puts the files `moved` of raw_sources at their             *)
(* destinations and leaves every placed file in place is a Place step of *)
(* DumpSources, or a stutter when it moved nothing.                       *)
LEMMA PlacedGrow ==
    ASSUME TypeOK, OriginsMoved, NEW moved \in SUBSET raw,
           tree' = tree, toReorg' = toReorg, phase = "moving", phase' = "moving",
           \A f \in PlacedFiles : <<Dest(f), f>> \in fs',
           \A f \in moved : <<Dest(f), f>> \in fs',
           \A e \in fs' : e \in fs \/ e[2] \in moved
    PROVE  [Abstract!ANext]_Abstract!avars
<1>1. \A f : Dest(f)' = Dest(f)
  BY DEF Dest
<1>2. moved \subseteq tree \ PlacedFiles
  <2>1. SUFFICES ASSUME NEW f \in moved, <<Dest(f), f>> \in fs PROVE FALSE
    BY DEF TypeOK, PlacedFiles
  <2>2. f \in Tops \X Kids
    BY DEF TypeOK
  <2>3. f = Installed \/ f \in tree \ raw
    BY <2>1 DEF OriginsMoved
  <2>4. QED
    BY <2>1, <2>2, <2>3, InstalledNotFetched
<1>3. PlacedFiles' = PlacedFiles \cup moved
  <2>1. PlacedFiles' = {f \in tree : <<Dest(f), f>> \in fs'}
    BY <1>1 DEF PlacedFiles
  <2>2. QED
    BY <1>2, <2>1 DEF PlacedFiles
<1>4. Status = "running" /\ Status' = "running"
  BY DEF Status
<1>5. CASE moved = {}
  BY <1>3, <1>4, <1>5, MappingIsPlaced
<1>6. CASE moved # {}
  <2>1. Abstract!Place
    BY <1>2, <1>3, <1>4, <1>6 DEF Abstract!Place, PlacedFiles, Status
  <2>2. QED
    BY <2>1 DEF Abstract!ANext
<1>7. QED
  BY <1>5, <1>6

(* A step that leaves the fetched tree, the project and the phase's       *)
(* abstraction alone is a stutter of DumpSources.                          *)
LEMMA MappingStutter ==
    ASSUME tree' = tree, fs' = fs, toReorg' = toReorg, Status' = Status
    PROVE  [Abstract!ANext]_Abstract!avars
<1>1. \A f : Dest(f)' = Dest(f)
  BY DEF Dest
<1>2. PlacedFiles' = PlacedFiles
  BY <1>1 DEF PlacedFiles
<1>3. QED
  BY <1>2, MappingIsPlaced

(* An error return of a running call, the project left as it was, is an *)
(* Abort of DumpSources.                                                   *)
LEMMA FailIsAbort ==
    ASSUME NEW err \in Errors, phase = "moving", phase' = err,
           tree' = tree, fs' = fs, toReorg' = toReorg
    PROVE  [Abstract!ANext]_Abstract!avars
<1>1. \A f : Dest(f)' = Dest(f)
  BY DEF Dest
<1>2. PlacedFiles' = PlacedFiles
  BY <1>1 DEF PlacedFiles
<1>3. Status = "running" /\ Status' = err
  BY DEF Status, Errors
<1>4. Abstract!Abort(err)
  BY <1>2, <1>3 DEF Abstract!Abort, PlacedFiles, Status
<1>5. QED
  BY <1>4 DEF Abstract!ANext

(* Lines 490-503: a child moved to its flattened destination.             *)
LEMMA MoveChildRefines ==
    ASSUME RInv, NEW k \in Kids, MoveChild(k)
    PROVE  [Abstract!ANext]_Abstract!avars
<1> DEFINE dest == <<NewDir(cur), k>>
           moved == {f \in raw : IsPrefix(<<cur, k>>, f)}
<1>1. TypeOK /\ OriginsMoved /\ FlattenOnlyReorg
  BY DEF RInv, IInv, Strengthening
<1>2. cur \in FlattenDirs /\ toReorg /\ phase = "moving"
  BY <1>1 DEF MoveChild, FlattenOnlyReorg
<1>3. CASE Exists(dest) /\ Fail("exists")
  BY <1>2, <1>3, FailIsAbort DEF MoveChild, Fail, Errors
<1>4. CASE ~Exists(dest) /\ MoveDir(<<cur, k>>, dest) /\ UNCHANGED phase
  <2>1. fs' = fs \cup {<<dest \o SubSeq(f, Len(<<cur, k>>) + 1, Len(f)), f>> : f \in moved}
    <3>1. {e \in fs : ~IsPrefix(dest, e[1])} = fs
      BY <1>4 DEF Exists
    <3>2. QED
      BY <1>4, <3>1 DEF MoveDir
  <2>2. dest \in Seq(PathNames)
    BY DEF NewDir, PathNames
  <2>3. ASSUME NEW f \in moved PROVE <<Dest(f), f>> \in fs'
    <3>1. f \in Tops \X Kids /\ f = <<cur, k>>
      <4>1. f \in Tops \X Kids /\ IsPrefix(<<cur, k>>, f)
        BY <1>1 DEF TypeOK
      <4>2. QED
        BY <4>1, PrefixOfFetched
    <3>2. dest \o SubSeq(f, Len(<<cur, k>>) + 1, Len(f)) = dest
      BY <2>2, <3>1, MovedTo
    <3>3. Dest(f) = dest
      BY <1>2, <3>1 DEF Dest
    <3>4. QED
      BY <2>1, <3>2, <3>3
  <2>4. moved \in SUBSET raw /\ tree' = tree /\ toReorg' = toReorg /\ phase' = "moving"
    BY <1>2, <1>4 DEF MoveChild
  <2>5. \A f \in PlacedFiles : <<Dest(f), f>> \in fs'
    BY <2>1 DEF PlacedFiles
  <2>6. \A e \in fs' : e \in fs \/ e[2] \in moved
    <3>1. TAKE e \in fs'
    <3>2. CASE e \notin fs
      <4>1. PICK f \in moved : e = <<dest \o SubSeq(f, Len(<<cur, k>>) + 1, Len(f)), f>>
        BY <2>1, <3>2
      <4>2. QED
        BY <4>1
    <3>3. QED
      BY <3>2
  <2>7. QED
    BY <1>1, <1>2, <2>3, <2>4, <2>5, <2>6, PlacedGrow
<1>5. QED
  BY <1>3, <1>4 DEF MoveChild

(* Lines 505-524: an entry moved whole into lib/. The deletion of an      *)
(* existing lib/forge-std removes no placed file: while the top-level     *)
(* forge-std is pending, no moved file is meant to lie below it.          *)
LEMMA MoveToLibRefines ==
    ASSUME RInv, NEW t \in Tops, MoveToLib(t)
    PROVE  [Abstract!ANext]_Abstract!avars
<1> DEFINE dest == <<"lib", t>>
           kept == IF t = "forge-std" THEN {e \in fs : ~IsPrefix(dest, e[1])} ELSE fs
           moved == {f \in raw : IsPrefix(<<t>>, f)}
           new == {<<dest \o Tail(f), f>> : f \in moved}
<1>1. TypeOK /\ OriginsMoved /\ ForgeStdFree
  BY DEF RInv, IInv, Strengthening
<1>2. toReorg /\ t \notin FlattenDirs /\ t \in todo /\ phase = "moving"
  BY DEF MoveToLib
<1>3. CASE (\E e \in kept : IsPrefix(dest, e[1])) /\ Fail("exists")
  BY <1>2, <1>3, FailIsAbort DEF MoveToLib, Fail, Errors
<1>4. CASE /\ ~\E e \in kept : IsPrefix(dest, e[1])
           /\ raw' = raw \ moved
           /\ fs' = {e \in kept : ~IsPrefix(dest, e[1])} \cup new
           /\ UNCHANGED phase
  <2>1. fs' = kept \cup new
    BY <1>4
  <2>2. ASSUME NEW f \in PlacedFiles PROVE <<Dest(f), f>> \in kept
    <3>1. f \in tree /\ <<Dest(f), f>> \in fs
      BY DEF PlacedFiles
    <3>2. f \in tree \ raw
      BY <1>1, <3>1, InstalledNotFetched DEF OriginsMoved, TypeOK
    <3>3. t = "forge-std" => ~IsPrefix(dest, Dest(f))
      BY <1>1, <1>2, <3>2 DEF ForgeStdFree
    <3>4. QED
      BY <3>1, <3>3
  <2>3. ASSUME NEW f \in moved PROVE <<Dest(f), f>> \in new
    <3>1. f \in Tops \X Kids /\ f[1] = t
      <4>1. f \in Tops \X Kids /\ IsPrefix(<<t>>, f)
        BY <1>1 DEF TypeOK
      <4>2. QED
        BY <4>1, PrefixOfFetched
    <3>2. dest \o Tail(f) = <<"lib">> \o f
      <4>1. dest = <<"lib", f[1]>>
        BY <3>1
      <4>2. <<"lib">> \in Seq(PathNames)
        BY DEF PathNames
      <4>3. <<"lib", f[1]>> \o Tail(f) = <<"lib">> \o f
        BY <3>1, <4>2, MovedTo
      <4>4. QED
        BY <4>1, <4>3
    <3>3. Dest(f) = <<"lib">> \o f
      BY <1>2, <3>1 DEF Dest
    <3>4. QED
      BY <3>2, <3>3
  <2>4. \A e \in fs' : e \in fs \/ e[2] \in moved
    <3>1. TAKE e \in fs'
    <3>2. CASE e \notin kept
      <4>1. PICK f \in moved : e = <<dest \o Tail(f), f>>
        BY <2>1, <3>2
      <4>2. QED
        BY <4>1
    <3>3. QED
      BY <2>1, <3>2
  <2>5. moved \in SUBSET raw /\ tree' = tree /\ toReorg' = toReorg /\ phase' = "moving"
    BY <1>2, <1>4 DEF MoveToLib
  <2>6. \A f \in PlacedFiles : <<Dest(f), f>> \in fs'
    BY <2>1, <2>2
  <2>7. \A f \in moved : <<Dest(f), f>> \in fs'
    BY <2>1, <2>3
  <2>8. QED
    BY <1>1, <1>2, <2>4, <2>5, <2>6, <2>7, PlacedGrow
<1>5. QED
  BY <1>3, <1>4 DEF MoveToLib

(* Lines 525-537: without reorganisation an entry is moved under src/.   *)
LEMMA MoveToSrcRefines ==
    ASSUME RInv, NEW t \in Tops, MoveToSrc(t)
    PROVE  [Abstract!ANext]_Abstract!avars
<1> DEFINE dest == <<"src", t>>
           moved == {f \in raw : IsPrefix(<<t>>, f)}
           new == {<<dest \o SubSeq(f, Len(<<t>>) + 1, Len(f)), f>> : f \in moved}
<1>1. TypeOK /\ OriginsMoved
  BY DEF RInv, IInv, Strengthening
<1>2. ~toReorg /\ phase = "moving" /\ ~Exists(dest) /\ MoveDir(<<t>>, dest)
  BY DEF MoveToSrc
<1>3. fs' = fs \cup new
  <2>1. {e \in fs : ~IsPrefix(dest, e[1])} = fs
    BY <1>2 DEF Exists
  <2>2. QED
    BY <1>2, <2>1 DEF MoveDir
<1>4. ASSUME NEW f \in moved PROVE <<Dest(f), f>> \in new
  <2>1. f \in Tops \X Kids /\ f[1] = t
    <3>1. f \in Tops \X Kids /\ IsPrefix(<<t>>, f)
      BY <1>1 DEF TypeOK
    <3>2. QED
      BY <3>1, PrefixOfFetched
  <2>2. dest \o SubSeq(f, Len(<<t>>) + 1, Len(f)) = <<"src">> \o f
    <3>1. dest = <<"src", f[1]>> /\ <<t>> = <<f[1]>>
      BY <2>1
    <3>2. <<"src">> \in Seq(PathNames)
      BY DEF PathNames
    <3>3. <<"src", f[1]>> \o SubSeq(f, Len(<<f[1]>>) + 1, Len(f)) = <<"src">> \o f
      BY <2>1, <3>2, MovedTo
    <3>4. QED
      BY <3>1, <3>3
  <2>3. Dest(f) = <<"src">> \o f
    BY <1>2 DEF Dest
  <2>4. QED
    BY <2>2, <2>3
<1>5. \A e \in fs' : e \in fs \/ e[2] \in moved
  <2>1. TAKE e \in fs'
  <2>2. CASE e \notin fs
    <3>1. PICK f \in moved : e = <<dest \o SubSeq(f, Len(<<t>>) + 1, Len(f)), f>>
      BY <1>3, <2>2
    <3>2. QED
      BY <3>1
  <2>3. QED
    BY <2>2
<1>6. moved \in SUBSET raw /\ tree' = tree /\ toReorg' = toReorg /\ phase' = "moving"
  BY <1>2 DEF MoveToSrc
<1>7. \A f \in PlacedFiles : <<Dest(f), f>> \in fs'
  BY <1>3 DEF PlacedFiles
<1>8. \A f \in moved : <<Dest(f), f>> \in fs'
  BY <1>3, <1>4
<1>9. QED
  BY <1>1, <1>2, <1>5, <1>6, <1>7, <1>8, PlacedGrow

(* Lines 540-563: the call returns. With every read_dir entry handled,    *)
(* nothing is left in raw_sources, so Ok comes with every file placed;    *)
(* a failing strip_prefix is an error return.                              *)
LEMMA FinishRefines ==
    ASSUME RInv, Finish
    PROVE  [Abstract!ANext]_Abstract!avars
<1>1. TypeOK /\ StagedPending /\ NoSilentOverwrite
  BY DEF RInv, IInv, Strengthening
<1>2. phase = "moving" /\ tree' = tree /\ fs' = fs /\ toReorg' = toReorg
  BY DEF Finish
<1>3. CASE phase' = "strip_prefix"
  BY <1>2, <1>3, FailIsAbort DEF Errors
<1>4. CASE phase' = "done"
  <2>1. raw = {}
    BY <1>1 DEF Finish, StagedPending
  <2>2. PlacedFiles = tree
    BY <1>1, <1>2, <2>1 DEF NoSilentOverwrite, PlacedFiles
  <2>3. \A f : Dest(f)' = Dest(f)
    BY <1>2 DEF Dest
  <2>4. PlacedFiles' = PlacedFiles
    BY <1>2, <2>3 DEF PlacedFiles
  <2>5. Status = "running" /\ Status' = "done"
    BY <1>2, <1>4 DEF Status
  <2>6. Abstract!Complete
    BY <1>2, <2>2, <2>4, <2>5 DEF Abstract!Complete, PlacedFiles, Status
  <2>7. QED
    BY <2>6 DEF Abstract!ANext
<1>5. QED
  BY <1>3, <1>4 DEF Finish

(* Lines 436-467: staging the tree places nothing: the project holds only *)
(* what forge init installed, before and after.                           *)
LEMMA DumpRefines ==
    ASSUME RInv, DumpToStaging
    PROVE  [Abstract!ANext]_Abstract!avars
<1>1. TypeOK /\ fs = {<<InstalledFile, Installed>>}
  BY DEF RInv, IInv, InstalledOnlyBeforeStaging, DumpToStaging
<1>2. \A g \in tree : g # Installed
  BY <1>1, InstalledNotFetched DEF TypeOK
<1>3. PlacedFiles = {} /\ PlacedFiles' = {}
  BY <1>1, <1>2 DEF DumpToStaging, PlacedFiles
<1>4. Status = "running" /\ Status' = "running"
  BY DEF DumpToStaging, Status
<1>5. QED
  BY <1>3, <1>4, MappingIsPlaced DEF DumpToStaging

(* Every step of dump_sources is a step of DumpSources under the mapping, *)
(* or leaves the tree, the placed files and the status alone.             *)
LEMMA RefineStep == RInv /\ [Next]_vars => [Abstract!ANext]_Abstract!avars
<1> SUFFICES ASSUME RInv, [Next]_vars PROVE [Abstract!ANext]_Abstract!avars
  OBVIOUS
<1>1. CASE DumpToStaging
  BY <1>1, DumpRefines
<1>2. ASSUME NEW t \in Tops, StartFlatten(t) PROVE [Abstract!ANext]_Abstract!avars
  <2>1. Status' = Status
    BY <1>2 DEF StartFlatten, Status
  <2>2. QED
    BY <1>2, <2>1, MappingStutter DEF StartFlatten
<1>3. CASE \E k \in Kids : MoveChild(k)
  BY <1>3, MoveChildRefines
<1>4. CASE EndFlatten
  <2>1. Status' = Status
    BY <1>4 DEF EndFlatten, Status
  <2>2. QED
    BY <1>4, <2>1, MappingStutter DEF EndFlatten
<1>5. CASE \E t \in Tops : MoveToLib(t) \/ MoveToSrc(t)
  BY <1>5, MoveToLibRefines, MoveToSrcRefines
<1>6. CASE Finish
  BY <1>6, FinishRefines
<1>7. CASE Returned \/ UNCHANGED vars
  <2>1. UNCHANGED vars
    BY <1>7 DEF Returned
  <2>2. Status' = Status
    BY <2>1 DEF vars, Status
  <2>3. QED
    BY <2>1, <2>2, MappingStutter DEF vars
<1>8. QED
  BY <1>1, <1>2, <1>3, <1>4, <1>5, <1>6, <1>7 DEF Next

(* The initial state of dump_sources is an initial state of DumpSources: *)
(* a fetched tree, nothing placed, the call running.                      *)
LEMMA RefineInit == Init => Abstract!AInit
<1> SUFFICES ASSUME Init PROVE Abstract!AInit
  OBVIOUS
<1>1. TypeOK /\ fs = {<<InstalledFile, Installed>>} /\ phase = "init"
  BY TypeInit DEF Init
<1>2. \A g \in tree : g # Installed
  BY <1>1, InstalledNotFetched DEF TypeOK
<1>3. PlacedFiles = {} /\ Status = "running"
  BY <1>1, <1>2 DEF PlacedFiles, Status
<1>4. QED
  BY <1>1, <1>3 DEF Abstract!AInit, PlacedFiles, Status, TypeOK

(* The invariant the refinement rests on holds in every state of         *)
(* dump_sources: the strengthening of NoSilentOverwrite, only the        *)
(* installed forge-std in the project before staging (line 436), and no  *)
(* staged file in the project before its own rename.                      *)
THEOREM RefinementInvariant == Spec => []RInv
BY RInvInit, RInvStep, PTL DEF Spec

(* dump_sources implements the safety part of its promise, for every     *)
(* tree, flag, metadata remapping and read_dir order: the fetched files  *)
(* at their destinations only ever grow (the checks of lines 493, 517    *)
(* and 528, and the forge-std deletion of line 515 only ever removing the *)
(* installed copy), Ok (line 563) is returned only with every fetched    *)
(* file placed, and an error return (lines 494, 518, 549) moves nothing   *)
(* back.                                                                   *)
THEOREM DumpSourcesImplemented == Spec => DumpSourcesSafe
<1>1. Spec => []RInv
  BY RefinementInvariant
<1>2. QED
  BY <1>1, RefineInit, RefineStep, PTL DEF Spec, DumpSourcesSafe, Abstract!ASafe

=============================================================================
