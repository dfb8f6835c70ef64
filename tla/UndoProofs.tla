----------------------------- MODULE UndoProofs -----------------------------
(***************************************************************************)
(* Proofs about Undo, for every tree, every set of contents and every      *)
(* bound: type correctness, that restore_to writes only verified content,  *)
(* that an undisturbed snapshot is complete, that an undisturbed restore   *)
(* reaches its manifest, that it is atomic file by file, and that nothing  *)
(* nono does shows in a tree nobody else writes.                           *)
(***************************************************************************)
EXTENDS Undo, FiniteSetTheorems, TLAPS

\* While a file is being stored the walk knows its path and its hash; a walk
\* on behalf of a restore runs while that restore waits for it.
WalkInv ==
  /\ walk.step # "next" => walk.at \in Paths /\ walk.hash \in Contents
  /\ walk.op = "restore" => restore.step = "walk"

\* A session past its baseline, or with session.json, has a manifest.
PhaseInv ==
  phase \notin {"launch", "lost"} \/ saved => manifests # <<>>

\* A restore in progress has a manifest, and writes only files it tracks.
RestoreInv ==
  /\ restore.step # "none" => restore.n + 1 \in DOMAIN manifests
  /\ restore.step \in {"write", "chmod"} => restore.todo \subseteq Tracked(Target.files)
  /\ restore.step = "chmod" => restore.at \in Tracked(Target.files)

\* The inductive invariant: TypeOK alone is not preserved, since the hash a
\* step stores and the mode it restores are None outside these states.
IndInv == TypeOK /\ WalkInv /\ PhaseInv /\ RestoreInv

\* Replacing an entry keeps the tree well typed, and changes only the entry
\* itself and what lies below it.
LEMMA PutType ==
  ASSUME NEW f \in [Paths -> Entry], NEW p \in Paths, NEW e \in Entry
  PROVE  /\ Put(f, p, e) \in [Paths -> Entry]
         /\ \A q \in Paths : Put(f, p, e)[q] \in {f[q], e, Gone}
         /\ Put(f, p, e)[p] = e
         /\ \A q \in Paths \ {p} : Put(f, p, e)[q] \in {f[q], Gone}
<1>1. Gone \in Entry
  BY DEF Gone, Entry
<1>2. \A q \in Paths : f[q] \in Entry
  OBVIOUS
<1> QED
  BY <1>1, <1>2 DEF Put

\* create_dir_all only turns a missing parent into a directory.
LEMMA WithParentType ==
  ASSUME NEW f \in [Paths -> Entry], NEW p \in Paths
  PROVE  /\ WithParent(f, p) \in [Paths -> Entry]
         /\ \A q \in Paths : WithParent(f, p)[q] \in {f[q], Directory}
<1>1. Directory \in Entry
  BY DEF Directory, Entry
<1>2. Parent[p] # Root => Parent[p] \in Paths
  BY TreeAssumption
<1> QED
  BY <1>1, <1>2 DEF WithParent

\* A file entry is a tree entry.
LEMMA FileType ==
  ASSUME NEW c \in Contents, NEW m \in Modes
  PROVE  File(c, m) \in Entry /\ File(c, m).content = c /\ File(c, m).kind = "file"
BY DEF File, Entry

\* The empty manifest is a manifest.
LEMMA NoFilesType == NoFiles \in FileMap
BY DEF NoFiles, FileMap

\* A walk that starts has its type.
LEMMA NewWalkType ==
  ASSUME NEW op \in WalkOps \cup {"none"}, NEW X
  PROVE  NewWalk(op, X) \in Walk
BY NoFilesType DEF NewWalk, Walk

\* The idle walk has its type.
LEMMA NoWalkType == NoWalk \in Walk
BY NoFilesType DEF NoWalk, NewWalk, Walk

\* The idle restore has its type.
LEMMA NoRestoreType == NoRestore \in Restore
BY NoFilesType DEF NoRestore, Restore

\* The walk record after a visit.
LEMMA WalkFieldTypes ==
  ASSUME NEW w \in Walk, NEW T \in SUBSET Paths
  PROVE  [w EXCEPT !.todo = T, !.entries = @ + 1] \in Walk
<1> DEFINE n == w.entries + 1
<1>1. n \in Nat
  BY DEF Walk
<1>2. [w EXCEPT !.todo = T, !.entries = n] \in Walk
  <2> HIDE DEF n
  <2> QED
    BY <1>1 DEF Walk
<1> QED
  BY <1>2

\* A visit takes the entry off the list and counts it, and nothing else.
LEMMA VisitedType ==
  ASSUME walk \in Walk, NEW p \in Paths
  PROVE  /\ Visited(p) \in Walk
         /\ Visited(p).step = walk.step /\ Visited(p).op = walk.op
         /\ Visited(p).links = walk.links /\ Visited(p).files = walk.files
<1>1. walk.todo \ {p} \in SUBSET Paths
  BY DEF Walk
<1>2. [walk EXCEPT !.todo = walk.todo \ {p}, !.entries = @ + 1] \in Walk
  BY <1>1, WalkFieldTypes
<1> QED
  BY <1>2 DEF Visited, Walk

\* An I/O error, or none, keeps the counters in range.
LEMMA FaultType ==
  ASSUME TypeOK, Fault \/ NoFault
  PROVE  faults' \in 0 .. MaxFaults /\ quiet' \in BOOLEAN
<1>1. faults' \in 0 .. MaxFaults
  BY DataAssumption DEF TypeOK, Fault, NoFault
<1>2. quiet' \in BOOLEAN
  BY Zenon DEF TypeOK, Fault, NoFault
<1> QED
  BY <1>1, <1>2

\* IndInv only reads these parts of the restore state.
LEMMA RestoreInvStable ==
  ASSUME RestoreInv, UNCHANGED <<restore, manifests>>
  PROVE  RestoreInv'
BY DEF RestoreInv, Tracked, Target

\* IndInv is preserved by the steps of the supervised run.
LEMMA RunStepInv ==
  ASSUME IndInv, RunStep
  PROVE  IndInv'
<1> USE NewWalkType, DataAssumption DEF TypeOK, IndInv
<1>1. CASE CreateBaseline
  <2>1. TypeOK'
    BY <1>1 DEF CreateBaseline, WalkOps
  <2>2. WalkInv'
    BY <1>1 DEF CreateBaseline, WalkInv, NewWalk
  <2>3. PhaseInv'
    BY <1>1, Zenon DEF CreateBaseline, PhaseInv
  <2> QED
    BY <1>1, <2>1, <2>2, <2>3, RestoreInvStable DEF CreateBaseline
<1>2. CASE StartChild
  <2>1. TypeOK'
    BY <1>2, TreeAssumption DEF StartChild, CollectAtomicTempFiles, Scans
  <2>2. WalkInv'
    BY <1>2 DEF StartChild, WalkInv
  <2>3. manifests # <<>> /\ manifests' = manifests
    BY <1>2 DEF StartChild, PhaseInv
  <2> QED
    BY <1>2, <2>1, <2>2, <2>3, RestoreInvStable DEF StartChild, PhaseInv
<1>3. CASE CreateIncremental
  <2>1. TypeOK'
    BY <1>3 DEF CreateIncremental, WalkOps
  <2>2. WalkInv'
    BY <1>3 DEF CreateIncremental, WalkInv, NewWalk
  <2>3. manifests # <<>> /\ manifests' = manifests
    BY <1>3 DEF CreateIncremental, PhaseInv
  <2> QED
    BY <1>3, <2>1, <2>2, <2>3, RestoreInvStable DEF CreateIncremental, PhaseInv
<1>4. CASE SaveSessionMetadata
  <2>1. faults' \in 0 .. MaxFaults /\ quiet' \in BOOLEAN
    <3>1. Fault \/ NoFault
      BY <1>4, Zenon DEF SaveSessionMetadata
    <3> QED
      BY <3>1, FaultType
  <2>2. saved' \in BOOLEAN
    BY <1>4, Zenon DEF SaveSessionMetadata
  <2>3. phase' \in {"review", "lost"}
    BY <1>4, Zenon DEF SaveSessionMetadata
  <2>4. TypeOK'
    BY <1>4, <2>1, <2>2, <2>3 DEF SaveSessionMetadata
  <2>5. WalkInv'
    BY <1>4 DEF SaveSessionMetadata, WalkInv
  <2>6. manifests # <<>> /\ manifests' = manifests
    BY <1>4 DEF SaveSessionMetadata, PhaseInv
  <2> QED
    BY <1>4, <2>4, <2>5, <2>6, RestoreInvStable DEF SaveSessionMetadata, PhaseInv
<1>5. CASE SkipReview
  <2>1. TypeOK' /\ WalkInv'
    BY <1>5 DEF SkipReview, WalkInv
  <2>2. manifests # <<>> /\ manifests' = manifests
    BY <1>5 DEF SkipReview, PhaseInv
  <2> QED
    BY <1>5, <2>1, <2>2, RestoreInvStable DEF SkipReview, PhaseInv
<1>6. CASE CleanupNewAtomicTempFiles
  <2>1. Gone \in Entry
    BY DEF Gone, Entry
  <2>2. fs' \in [Paths -> Entry]
    BY <1>6, <2>1 DEF CleanupNewAtomicTempFiles
  <2>3. faults' \in 0 .. MaxFaults /\ quiet' \in BOOLEAN
    <3>1. Fault \/ NoFault
      BY <1>6, Zenon DEF CleanupNewAtomicTempFiles
    <3> QED
      BY <3>1, FaultType
  <2>4. TypeOK' /\ WalkInv'
    BY <1>6, <2>2, <2>3 DEF CleanupNewAtomicTempFiles, WalkInv
  <2>5. manifests # <<>> /\ manifests' = manifests
    BY <1>6 DEF CleanupNewAtomicTempFiles, PhaseInv
  <2> QED
    BY <1>6, <2>4, <2>5, RestoreInvStable DEF CleanupNewAtomicTempFiles, PhaseInv
<1> QED
  BY <1>1, <1>2, <1>3, <1>4, <1>5, <1>6 DEF RunStep

\* A walk step that goes on preserves IndInv if the new walk record is sound.
LEMMA WalkContinuesInv ==
  ASSUME IndInv, NEW w \in Walk, WalkContinues(w), Fault \/ NoFault,
         objects' \in [Contents -> Object \cup {None}], w.op = walk.op,
         w.step # "next" => w.at \in Paths /\ w.hash \in Contents
  PROVE  IndInv'
<1> USE DEF IndInv, WalkContinues
<1>1. faults' \in 0 .. MaxFaults /\ quiet' \in BOOLEAN
  BY FaultType
<1>2. TypeOK'
  BY <1>1 DEF TypeOK
<1>3. WalkInv'
  BY DEF WalkInv
<1>4. PhaseInv'
  BY Zenon DEF PhaseInv
<1> QED
  BY <1>2, <1>3, <1>4, RestoreInvStable

\* So does one that gives the walk up.
LEMMA WalkFailsInv ==
  ASSUME IndInv, WalkFails, Fault \/ NoFault
  PROVE  IndInv'
<1> USE DEF IndInv, WalkFails, EndRestore
<1>1. faults' \in 0 .. MaxFaults /\ quiet' \in BOOLEAN
  BY FaultType
<1>2. restore' \in Restore /\ (restore' # restore => restore'.step = "none")
  BY DEF TypeOK, Restore
<1>3. outcome' \in {"none", "ok", "rejected", "failed"} /\ phase' \in {phase, "cleanup", "lost"}
  BY DEF TypeOK
<1>4. TypeOK'
  BY <1>1, <1>2, <1>3, NoWalkType DEF TypeOK
<1>5. WalkInv'
  BY DEF WalkInv, NoWalk, NewWalk
<1>6. PhaseInv'
  <2>1. phase' \notin {"launch", "lost"} => phase \notin {"launch", "lost"}
    BY DEF TypeOK
  <2> QED
    BY <2>1 DEF PhaseInv
<1>7. RestoreInv'
  <2>1. CASE restore' = restore
    BY <2>1, RestoreInvStable
  <2>2. CASE restore'.step = "none"
    BY <2>2 DEF RestoreInv
  <2> QED
    BY <1>2, <2>1, <2>2
<1> QED
  BY <1>4, <1>5, <1>6, <1>7

\* IndInv is preserved by the steps of a walk.
LEMMA WalkStepInv ==
  ASSUME IndInv, WalkStep
  PROVE  IndInv'
<1> USE DEF IndInv
<1>0. walk \in Walk /\ objects \in [Contents -> Object \cup {None}] /\ fs \in [Paths -> Entry]
  BY DEF TypeOK
<1>1. ASSUME NEW p \in Paths, WalkAbsent(p) PROVE IndInv'
  <2>1. [walk EXCEPT !.todo = @ \ {p}] \in Walk
    BY <1>0 DEF Walk
  <2>2. /\ walk.step = "next" /\ [walk EXCEPT !.todo = @ \ {p}].step = walk.step
        /\ [walk EXCEPT !.todo = @ \ {p}].op = walk.op
    BY <1>0, <1>1 DEF WalkAbsent, Visits, Walk
  <2> QED
    BY <1>0, <1>1, <2>1, <2>2, WalkContinuesInv DEF WalkAbsent
<1>2. ASSUME NEW p \in Paths, WalkSkipsContent(p) PROVE IndInv'
  <2> DEFINE T == IF fs[p].kind = "link" THEN Visited(p).links \cup {p} ELSE Visited(p).links
             w == [Visited(p) EXCEPT !.links = T]
  <2>1. Visited(p) \in Walk /\ Visited(p).step = walk.step /\ Visited(p).op = walk.op
    BY <1>0, VisitedType
  <2>2. T \in SUBSET Paths
    BY <2>1 DEF Walk
  <2>3. w \in Walk /\ w.step = "next" /\ w.op = walk.op
    <3> HIDE DEF T
    <3> QED BY <1>2, <2>1, <2>2 DEF Walk, WalkSkipsContent, Visits
  <2>4. WalkContinues(w)
    BY <1>2 DEF WalkSkipsContent
  <2> QED
    BY <1>0, <1>2, <2>3, <2>4, WalkContinuesInv DEF WalkSkipsContent
<1>3. ASSUME NEW p \in Paths, WalkFile(p) PROVE IndInv'
  <2>1. Visited(p) \in Walk /\ Visited(p).step = walk.step /\ Visited(p).op = walk.op
    BY <1>0, VisitedType
  <2>2. fs[p].kind = "file" /\ fs[p].content \in Contents /\ fs[p].mode \in Modes
    BY <1>0, <1>3 DEF WalkFile, ReadableFile, Entry
  <2>3. BytesAt(p) \in Nat
    BY <1>0, <2>2, DataAssumption DEF BytesAt, Walk
  <2>4. [hash |-> fs[p].content, mode |-> fs[p].mode] \in FileState
    BY <2>2 DEF FileState
  <2>5. CASE walk.op = "restore"
    <3> DEFINE w == [Visited(p) EXCEPT !.bytes = BytesAt(p),
                       !.files[p] = [hash |-> fs[p].content, mode |-> fs[p].mode]]
    <3>1. [Visited(p).files EXCEPT ![p] = [hash |-> fs[p].content, mode |-> fs[p].mode]] \in FileMap
      BY <2>1, <2>4 DEF Walk, FileMap
    <3>2. w \in Walk
      BY <2>1, <2>3, <3>1 DEF Walk
    <3>3. Visited(p).step = "next"
      BY <1>3, <2>1 DEF WalkFile, Visits
    <3>4. w.step = "next" /\ w.op = walk.op
      BY <2>1, <3>3 DEF Walk
    <3>5. WalkContinues(w)
      BY <1>3, <2>5 DEF WalkFile
    <3> QED
      BY <1>0, <1>3, <3>2, <3>4, <3>5, WalkContinuesInv DEF WalkFile
  <2>6. CASE walk.op # "restore"
    <3> DEFINE w == [Visited(p) EXCEPT !.step = "store", !.at = p, !.hash = fs[p].content]
    <3>1. w \in Walk /\ w.at = p /\ w.hash = fs[p].content /\ w.op = walk.op
      BY <2>1, <2>2 DEF Walk
    <3>2. WalkContinues(w)
      BY <1>3, <2>6 DEF WalkFile
    <3> QED
      BY <1>0, <1>3, <2>2, <3>1, <3>2, WalkContinuesInv DEF WalkFile
  <2> QED
    BY <2>5, <2>6
<1>4. ASSUME NEW p \in Paths, WalkOverBudget(p) PROVE IndInv'
  BY <1>4, WalkFailsInv DEF WalkOverBudget
<1>5. ASSUME NEW t \in {"next", "store", "reread", "meta"}, walk.step # "next"
      PROVE  LET w == [walk EXCEPT !.step = t]
             IN /\ w \in Walk /\ w.at \in Paths /\ w.hash \in Contents
                /\ w.at = walk.at /\ w.hash = walk.hash /\ w.op = walk.op
  BY <1>0, <1>5 DEF Walk, WalkInv
<1>6. CASE HasObject
  BY <1>0, <1>5, <1>6, WalkContinuesInv DEF HasObject
<1>7. CASE CloneObject
  <2>1. walk.at \in Paths /\ walk.hash \in Contents
    BY <1>7 DEF CloneObject, WalkInv
  <2>2. fs[walk.at].mode \in Modes
    BY <1>0, <1>7, <2>1 DEF CloneObject, ReadableFile, Entry
  <2>3. [content |-> walk.hash, mode |-> fs[walk.at].mode] \in Object
    BY <2>1, <2>2 DEF Object
  <2>4. objects' \in [Contents -> Object \cup {None}]
    BY <1>0, <1>7, <2>3 DEF CloneObject
  <2> QED
    BY <1>5, <1>7, <2>4, WalkContinuesInv DEF CloneObject
<1>8. CASE CloneFails
  <2>1. Fault \/ NoFault
    BY <1>8, Zenon DEF CloneFails
  <2> QED
    BY <1>0, <1>5, <1>8, <2>1, WalkContinuesInv DEF CloneFails
<1>9. ASSUME walk.step # "next"
      PROVE  NextFile(walk) \in Walk /\ NextFile(walk).step = "next" /\ NextFile(walk).op = walk.op
  BY <1>0 DEF NextFile, Walk
<1>10. CASE RereadObject
  <2>1. CASE /\ ReadableFile(fs, walk.at) /\ NoFault
             /\ objects' = [objects EXCEPT ![walk.hash] =
                              [content |-> fs[walk.at].content, mode |-> DefaultMode]]
             /\ WalkContinues([walk EXCEPT !.step = "meta"])
    <3>1. walk.at \in Paths
      BY <1>10 DEF RereadObject, WalkInv
    <3>2. fs[walk.at].content \in Contents
      BY <1>0, <2>1, <3>1 DEF ReadableFile, Entry
    <3>3. [content |-> fs[walk.at].content, mode |-> DefaultMode] \in Object
      BY <3>2, DataAssumption DEF Object
    <3>4. objects' \in [Contents -> Object \cup {None}]
      BY <1>0, <2>1, <3>3
    <3> QED
      BY <1>5, <1>10, <2>1, <3>4, WalkContinuesInv DEF RereadObject
  <2>2. CASE /\ IF ReadableFile(fs, walk.at) THEN Fault ELSE NoFault
             /\ WalkContinues(NextFile(walk))
             /\ UNCHANGED objects
    <3>1. Fault \/ NoFault
      BY <2>2, Zenon
    <3> QED
      BY <1>0, <1>9, <1>10, <2>2, <3>1, WalkContinuesInv DEF RereadObject
  <2> QED
    BY <1>10, <2>1, <2>2 DEF RereadObject
<1>11. CASE StoreMetadata
  <2>1. walk.at \in Paths /\ walk.hash \in Contents /\ walk.step # "next"
    BY <1>11 DEF StoreMetadata, WalkInv
  <2>2. CASE WalkContinues(NextFile(walk)) /\ UNCHANGED objects
    BY <1>0, <1>9, <1>11, <2>1, <2>2, WalkContinuesInv DEF StoreMetadata
  <2>3. ASSUME NEW c \in Contents, NEW m \in Modes,
               WalkContinues([NextFile(walk) EXCEPT !.bytes = walk.bytes + Size[c],
                               !.files[walk.at] = [hash |-> walk.hash, mode |-> m]]),
               UNCHANGED objects
        PROVE  IndInv'
    <3> DEFINE st == [hash |-> walk.hash, mode |-> m]
               b == walk.bytes + Size[c]
               w == [NextFile(walk) EXCEPT !.bytes = b, !.files[walk.at] = st]
    <3>1. st \in FileState /\ b \in Nat
      BY <1>0, <2>1, DataAssumption DEF FileState, Walk
    <3>2. NextFile(walk) \in Walk /\ NextFile(walk).step = "next" /\ NextFile(walk).op = walk.op
      BY <1>9, <2>1
    <3> HIDE DEF st, b
    <3>3. [NextFile(walk).files EXCEPT ![walk.at] = st] \in FileMap
      BY <2>1, <3>1, <3>2 DEF Walk, FileMap
    <3>4. w \in Walk /\ w.step = "next" /\ w.op = walk.op
      BY <3>1, <3>2, <3>3 DEF Walk
    <3>5. WalkContinues(w)
      BY <2>3 DEF st, b
    <3> QED
      BY <1>0, <1>11, <2>3, <3>4, <3>5, WalkContinuesInv DEF StoreMetadata
  <2>4. CASE WalkFails
    BY <1>11, <2>4, WalkFailsInv DEF StoreMetadata
  <2> QED
    BY <1>11, <2>2, <2>3, <2>4 DEF StoreMetadata
<1>12. CASE SaveManifest
  <2> DEFINE m == [files |-> walk.files, links |-> walk.links]
  <2>1. m \in Manifest
    BY <1>0 DEF Walk, Manifest
  <2>2. manifests' = Append(manifests, m) /\ manifests \in Seq(Manifest)
    BY <1>12 DEF SaveManifest, TypeOK
  <2> HIDE DEF m
  <2>3. /\ manifests' \in Seq(Manifest) /\ manifests' # <<>>
        /\ DOMAIN manifests \subseteq DOMAIN manifests'
        /\ \A i \in DOMAIN manifests : manifests'[i] = manifests[i]
    BY <2>1, <2>2
  <2>4. faults' \in 0 .. MaxFaults /\ quiet' \in BOOLEAN
    BY <1>12, FaultType DEF SaveManifest
  <2>5. TypeOK'
    BY <1>12, <2>3, <2>4, NoWalkType DEF SaveManifest, TypeOK
  <2>6. WalkInv'
    BY <1>12 DEF SaveManifest, WalkInv, NoWalk, NewWalk
  <2>7. RestoreInv'
    <3>1. restore' = restore
      BY <1>12 DEF SaveManifest
    <3>2. CASE restore.step = "none"
      BY <3>1, <3>2 DEF RestoreInv
    <3>3. CASE restore.step # "none"
      <4>1. restore.n + 1 \in DOMAIN manifests
        BY <3>3 DEF RestoreInv
      <4>2. Target' = Target
        BY <2>3, <3>1, <4>1 DEF Target
      <4> QED
        BY <2>3, <3>1, <4>1, <4>2 DEF RestoreInv, Tracked
    <3> QED
      BY <3>2, <3>3
  <2> QED
    BY <2>3, <2>5, <2>6, <2>7 DEF PhaseInv
<1>13. CASE SaveManifestFails
  BY <1>13, WalkFailsInv DEF SaveManifestFails
<1>14. CASE RestoreWalked
  <2>1. restore' \in Restore /\ restore'.step = "validate" /\ restore'.n = restore.n
    BY <1>0, <1>14 DEF RestoreWalked, TypeOK, Restore, Walk
  <2>2. TypeOK'
    BY <1>14, <2>1, NoWalkType DEF RestoreWalked, TypeOK
  <2>3. WalkInv'
    BY <1>14 DEF RestoreWalked, WalkInv, NoWalk, NewWalk
  <2>4. PhaseInv'
    BY <1>14, Zenon DEF RestoreWalked, PhaseInv
  <2>5. restore.step # "none" /\ manifests' = manifests
    BY <1>14 DEF RestoreWalked, WalkInv
  <2>6. RestoreInv'
    BY <2>1, <2>5 DEF RestoreInv
  <2> QED
    BY <2>2, <2>3, <2>4, <2>6
<1> QED
  BY <1>1, <1>2, <1>3, <1>4, <1>6, <1>7, <1>8, <1>10, <1>11, <1>12, <1>13, <1>14 DEF WalkStep

\* The manifest a running restore works from is well typed.
LEMMA TargetType ==
  ASSUME IndInv, restore.step # "none"
  PROVE  /\ Target \in Manifest
         /\ \A p \in Tracked(Target.files) :
              /\ Target.files[p].hash \in Contents
              /\ Target.files[p].mode \in Modes
<1>1. Target \in Manifest
  BY DEF IndInv, TypeOK, RestoreInv, Target
<1> QED
  BY <1>1 DEF Manifest, FileMap, FileState, Tracked

\* A restore step that goes on preserves IndInv.
LEMMA RestoreContinuesInv ==
  ASSUME IndInv, restore.step \notin {"none", "walk"}, Fault \/ NoFault,
         fs' \in [Paths -> Entry], NEW r \in Restore, RestoreContinues(r),
         r.n = restore.n, r.step # "walk",
         r.step \in {"write", "chmod"} => r.todo \subseteq Tracked(Target.files),
         r.step = "chmod" => r.at \in Tracked(Target.files)
  PROVE  IndInv'
<1> USE DEF IndInv, RestoreContinues, RestoreKeeps
<1>1. faults' \in 0 .. MaxFaults /\ quiet' \in BOOLEAN
  BY FaultType
<1>2. TypeOK'
  BY <1>1 DEF TypeOK
<1>3. WalkInv'
  BY DEF WalkInv
<1>4. PhaseInv'
  BY Zenon DEF PhaseInv
<1>5. Target' = Target
  BY DEF Target
<1>6. RestoreInv'
  BY <1>5 DEF RestoreInv, Tracked
<1> QED
  BY <1>2, <1>3, <1>4, <1>6

\* So does one that ends the restore.
LEMMA EndRestoreInv ==
  ASSUME IndInv, restore.step \notin {"none", "walk"}, Fault \/ NoFault,
         fs' \in [Paths -> Entry], NEW r \in {"ok", "rejected", "failed"},
         EndRestore(r), RestoreKeeps
  PROVE  IndInv'
<1> USE DEF IndInv, EndRestore, RestoreKeeps
<1>1. faults' \in 0 .. MaxFaults /\ quiet' \in BOOLEAN
  BY FaultType
<1>2. restore' \in Restore /\ restore'.step = "none"
  BY DEF TypeOK, Restore
<1>3. TypeOK'
  BY <1>1, <1>2 DEF TypeOK
<1>4. WalkInv'
  BY DEF WalkInv
<1>5. PhaseInv'
  BY DEF PhaseInv
<1>6. RestoreInv'
  BY <1>2 DEF RestoreInv
<1> QED
  BY <1>3, <1>4, <1>5, <1>6

\* IndInv is preserved by the steps of a restore.
LEMMA RestoreStepInv ==
  ASSUME IndInv, RestoreStep
  PROVE  IndInv'
<1> USE DEF IndInv
<1>0. restore \in Restore /\ fs \in [Paths -> Entry] /\ objects \in [Contents -> Object \cup {None}]
  BY DEF TypeOK
<1>1. CASE ValidateTargets
  <2> DEFINE needed == NeedsRestore(Target, restore.current)
             r == [restore EXCEPT !.step = "write", !.todo = needed]
  <2>1. needed \subseteq Tracked(Target.files) /\ needed \subseteq Paths
    BY DEF NeedsRestore, Tracked
  <2>2. fs' \in [Paths -> Entry] /\ NoFault /\ restore.step = "validate"
    BY <1>0, <1>1 DEF ValidateTargets
  <2>3. r \in Restore /\ r.n = restore.n /\ r.step = "write" /\ r.todo = needed
    <3> HIDE DEF needed
    <3> QED BY <1>0, <2>1 DEF Restore
  <2>4. RestoreContinues(r) \/ (EndRestore("rejected") /\ RestoreKeeps)
    BY <1>1 DEF ValidateTargets
  <2>5. CASE RestoreContinues(r)
    BY <2>1, <2>2, <2>3, <2>5, RestoreContinuesInv
  <2>6. CASE EndRestore("rejected") /\ RestoreKeeps
    BY <2>2, <2>6, EndRestoreInv
  <2> QED
    BY <2>4, <2>5, <2>6
<1>2. CASE RestorePermissions
  <2> DEFINE p == restore.at
             r == [restore EXCEPT !.step = "write", !.at = None,
                     !.applied = @ \cup {<<p, ChangeType(restore.current, p)>>}]
  <2>1. restore.step = "chmod" /\ p \in Tracked(Target.files) /\ p \in Paths
    BY <1>2 DEF RestorePermissions, RestoreInv, Tracked
  <2>2. Target.files[p].mode \in Modes
    BY <2>1, TargetType
  <2>3. fs' \in [Paths -> Entry]
    <3>1. CASE /\ fs' = [fs EXCEPT ![p].mode = Target.files[p].mode]
               /\ fs[p].kind = "file"
      <4>1. fs[p] \in [kind : {"file"}, content : Contents, mode : Modes]
        BY <1>0, <2>1, <3>1 DEF Entry
      <4>2. [fs[p] EXCEPT !.mode = Target.files[p].mode] \in Entry
        BY <2>2, <4>1 DEF Entry
      <4> QED
        BY <1>0, <2>1, <3>1, <4>2
    <3>2. CASE fs' = fs
      BY <1>0, <3>2
    <3> QED
      BY <1>2, <3>1, <3>2 DEF RestorePermissions
  <2>4. <<p, ChangeType(restore.current, p)>> \in Paths \X {"Created", "Modified", "Deleted"}
    BY <2>1 DEF ChangeType
  <2>5. r \in Restore /\ r.n = restore.n /\ r.step = "write" /\ r.todo = restore.todo
    <3> DEFINE A == restore.applied \cup {<<p, ChangeType(restore.current, p)>>}
    <3>1. A \in SUBSET (Paths \X {"Created", "Modified", "Deleted"})
      BY <1>0, <2>4 DEF Restore
    <3> HIDE DEF A
    <3>2. [restore EXCEPT !.step = "write", !.at = None, !.applied = A] \in Restore
      BY <1>0, <3>1 DEF Restore
    <3> QED
      BY <1>0, <3>2 DEF A, Restore
  <2>6. r.todo \subseteq Tracked(Target.files)
    BY <2>1, <2>5 DEF RestoreInv
  <2>7. RestoreContinues(r) /\ (Fault \/ NoFault)
    BY <1>2 DEF RestorePermissions
  <2> HIDE DEF r
  <2> QED
    BY <2>1, <2>3, <2>5, <2>6, <2>7, RestoreContinuesInv
<1>3. CASE NextLoop
  <2>1. fs' \in [Paths -> Entry] /\ NoFault /\ restore.step \in {"write", "delete", "unlink"}
    BY <1>0, <1>3 DEF NextLoop
  <2>2. ASSUME NEW T \in SUBSET Paths, NEW t \in {"delete", "unlink"},
               RestoreContinues([restore EXCEPT !.step = t, !.todo = T])
        PROVE  IndInv'
    <3> DEFINE r == [restore EXCEPT !.step = t, !.todo = T]
    <3>1. r \in Restore /\ r.n = restore.n /\ r.step = t
      BY <1>0 DEF Restore
    <3> QED
      BY <2>1, <2>2, <3>1, RestoreContinuesInv
  <2>3. Surplus(Target, restore.current) \in SUBSET Paths
    BY DEF Surplus, Tracked
  <2>4. {p \in restore.links : SymlinkNeedsCleanup(Target, p)} \in SUBSET Paths
    BY <1>0 DEF Restore
  <2>5. CASE EndRestore("ok") /\ RestoreKeeps
    BY <2>1, <2>5, EndRestoreInv
  <2> QED
    BY <1>3, <2>1, <2>2, <2>3, <2>4, <2>5 DEF NextLoop
<1>4. ASSUME NEW p \in Paths, restore.step # "none", NEW t \in {"chmod", restore.step}
      PROVE  LET r == [restore EXCEPT !.step = t, !.todo = @ \ {p}, !.at = p]
             IN r \in Restore /\ r.n = restore.n /\ r.step = t /\ r.at = p
                  /\ r.todo = restore.todo \ {p}
  BY <1>0, <1>4 DEF Restore
<1>5. ASSUME NEW p \in Paths, RestoreFile(p) PROVE IndInv'
  <2> DEFINE h == Target.files[p].hash
             made == WithParent(fs, p)
             r == [restore EXCEPT !.step = "chmod", !.todo = @ \ {p}, !.at = p]
  <2>1. restore.step = "write" /\ p \in Tracked(Target.files)
    BY <1>5 DEF RestoreFile, RestoreInv
  <2>2. h \in Contents
    BY <2>1, TargetType
  <2>3. made \in [Paths -> Entry]
    BY <1>0, WithParentType
  <2>4. CASE /\ ObjectIntact(h) /\ NoFault
             /\ fs' = IF Reachable(made, p)
                      THEN Put(made, p, File(objects[h].content, objects[h].mode))
                      ELSE fs
             /\ RestoreContinues(r)
    <3>1. objects[h].content \in Contents /\ objects[h].mode \in Modes
      BY <1>0, <2>2, <2>4 DEF ObjectIntact, Object
    <3>2. File(objects[h].content, objects[h].mode) \in Entry
      BY <3>1, FileType
    <3>3. fs' \in [Paths -> Entry]
      <4> HIDE DEF made, h
      <4>1. Put(made, p, File(objects[h].content, objects[h].mode)) \in [Paths -> Entry]
        BY <2>3, <3>2, PutType
      <4> QED
        BY <1>0, <2>4, <4>1
    <3>4. r \in Restore /\ r.n = restore.n /\ r.step = "chmod" /\ r.at = p
            /\ r.todo = restore.todo \ {p}
      BY <1>4, <2>1
    <3>5. restore.todo \subseteq Tracked(Target.files)
      BY <2>1 DEF RestoreInv
    <3> HIDE DEF r
    <3> QED
      BY <2>1, <2>4, <3>3, <3>4, <3>5, RestoreContinuesInv
  <2>5. CASE /\ Fault \/ NoFault
             /\ fs' = made
             /\ EndRestore("failed") /\ RestoreKeeps
    BY <2>1, <2>3, <2>5, EndRestoreInv
  <2> QED
    <3> HIDE DEF h, made, r
    <3>1. \/ /\ ObjectIntact(h) /\ NoFault
             /\ fs' = IF Reachable(made, p)
                      THEN Put(made, p, File(objects[h].content, objects[h].mode))
                      ELSE fs
             /\ RestoreContinues(r)
          \/ /\ Fault \/ NoFault
             /\ fs' = made
             /\ EndRestore("failed") /\ RestoreKeeps
      BY <1>5, Zenon DEF RestoreFile, h, made, r
    <3> QED
      BY <2>4, <2>5, <3>1
<1>6. ASSUME NEW p \in Paths, RemoveFile(p), restore.step \in {"delete", "unlink"}
      PROVE  IndInv'
  <2>1. ASSUME NEW r \in Restore, r.n = restore.n, r.step = restore.step,
               RestoreContinues(r), fs' \in [Paths -> Entry], Fault \/ NoFault
        PROVE  IndInv'
    BY <1>6, <2>1, RestoreContinuesInv
  <2>2. CASE /\ NoFault /\ fs' = Put(fs, p, Gone)
             /\ RestoreContinues([restore EXCEPT !.todo = @ \ {p},
                                    !.applied = @ \cup {<<p, "Deleted">>}])
    <3>1. fs' \in [Paths -> Entry]
      <4>1. Gone \in Entry
        BY DEF Gone, Entry
      <4> QED
        BY <1>0, <2>2, <4>1, PutType
    <3> DEFINE A == restore.applied \cup {<<p, "Deleted">>}
               r == [restore EXCEPT !.todo = @ \ {p}, !.applied = A]
    <3>2. A \in SUBSET (Paths \X {"Created", "Modified", "Deleted"})
      BY <1>0 DEF Restore
    <3>3. r \in Restore /\ r.n = restore.n /\ r.step = restore.step
      <4> HIDE DEF A
      <4> QED BY <1>0, <3>2 DEF Restore
    <3>4. RestoreContinues(r)
      BY <2>2
    <3> HIDE DEF r
    <3> QED
      BY <2>1, <2>2, <3>1, <3>3, <3>4
  <2>3. CASE /\ Fault \/ NoFault
             /\ UNCHANGED fs
             /\ RestoreContinues([restore EXCEPT !.todo = @ \ {p}])
    <3> DEFINE r == [restore EXCEPT !.todo = @ \ {p}]
    <3>1. r \in Restore /\ r.n = restore.n /\ r.step = restore.step
      BY <1>0 DEF Restore
    <3> QED
      BY <1>0, <2>1, <2>3, <3>1
  <2> QED
    BY <1>6, <2>2, <2>3 DEF RemoveFile
<1>7. ASSUME NEW p \in Paths, DeleteSurplus(p) PROVE IndInv'
  BY <1>6, <1>7 DEF DeleteSurplus
<1>8. ASSUME NEW p \in Paths, UnlinkSymlink(p) PROVE IndInv'
  <2>1. CASE /\ NoFault /\ UNCHANGED fs
             /\ RestoreContinues([restore EXCEPT !.todo = @ \ {p}])
    <3> DEFINE r == [restore EXCEPT !.todo = @ \ {p}]
    <3>1. r \in Restore /\ r.n = restore.n /\ r.step = "unlink"
      BY <1>0, <1>8 DEF Restore, UnlinkSymlink
    <3> QED
      BY <1>0, <1>8, <2>1, <3>1, RestoreContinuesInv DEF UnlinkSymlink
  <2> QED
    BY <1>6, <1>8, <2>1 DEF UnlinkSymlink
<1> QED
  BY <1>1, <1>2, <1>3, <1>5, <1>7, <1>8 DEF RestoreStep

\* IndInv is preserved when a restore begins.
LEMMA BeginRestoreInv ==
  ASSUME IndInv, NEW n \in Nat, n + 1 \in DOMAIN manifests,
         NEW X \in SUBSET Paths, BeginRestore(n, X)
  PROVE  IndInv'
<1> USE DEF IndInv, BeginRestore
<1>1. restore' \in Restore /\ restore'.step = "walk" /\ restore'.n = n
  BY NoRestoreType DEF Restore
<1>2. walk' \in Walk
  BY NewWalkType DEF WalkOps
<1>3. TypeOK'
  BY <1>1, <1>2 DEF TypeOK
<1>4. WalkInv'
  BY <1>1 DEF WalkInv, NewWalk
<1>5. PhaseInv'
  BY Zenon DEF PhaseInv
<1>6. RestoreInv'
  BY <1>1 DEF RestoreInv
<1> QED
  BY <1>3, <1>4, <1>5, <1>6

\* UserStep keeps the inductive invariant.
LEMMA UserStepInv ==
  ASSUME IndInv, UserStep
  PROVE  IndInv'
<1> USE DEF IndInv
<1>0. manifests \in Seq(Manifest) /\ Len(manifests) \in Nat
  BY DEF TypeOK
<1>1. CASE ReviewAndRestore
  <2>1. manifests # <<>>
    BY <1>1 DEF ReviewAndRestore, PhaseInv
  <2>2. 0 + 1 \in DOMAIN manifests
    BY <1>0, <2>1
  <2>3. SnapExcluded \in SUBSET Paths
    BY TreeAssumption
  <2> QED
    BY <1>1, <2>2, <2>3, BeginRestoreInv DEF ReviewAndRestore
<1>2. ASSUME NEW arg \in SnapshotArgs, CmdRestore(arg) PROVE IndInv'
  <2> DEFINE n == IF arg = None THEN Len(manifests) - 1 ELSE arg
  <2>1. manifests # <<>>
    BY <1>2 DEF CmdRestore, PhaseInv
  <2>2. n \in Nat /\ n + 1 \in DOMAIN manifests
    BY <1>0, <1>2, <2>1 DEF CmdRestore, SnapshotArgs
  <2>3. RestoreExcluded \in SUBSET Paths
    BY TreeAssumption
  <2>4. BeginRestore(n, RestoreExcluded)
    BY <1>2 DEF CmdRestore
  <2> HIDE DEF n
  <2> QED
    BY <2>2, <2>3, <2>4, BeginRestoreInv
<1> QED
  BY <1>1, <1>2 DEF UserStep

\* Crash keeps the inductive invariant.
LEMMA CrashInv ==
  ASSUME IndInv, Crash
  PROVE  IndInv'
<1> USE DEF IndInv
<1>1. TypeOK'
  BY NoWalkType, NoRestoreType DEF Crash, TypeOK
<1>2. WalkInv' /\ RestoreInv'
  BY DEF Crash, WalkInv, RestoreInv, NoWalk, NewWalk, NoRestore
<1>3. manifests # <<>> /\ manifests' = manifests
  BY DEF Crash, PhaseInv
<1> QED
  BY <1>1, <1>2, <1>3 DEF PhaseInv

\* ExternalChange keeps the inductive invariant.
LEMMA ExternalChangeInv ==
  ASSUME IndInv, NEW p \in Paths, NEW e \in Entry, ExternalChange(p, e)
  PROVE  IndInv'
<1> USE DEF IndInv
<1>1. fs' \in [Paths -> Entry]
  BY PutType DEF ExternalChange, TypeOK
<1>2. writes' \in 0 .. MaxWrites
  BY DataAssumption DEF ExternalChange, TypeOK
<1>3. quiet' \in BOOLEAN
  BY Zenon DEF ExternalChange
<1>4. TypeOK'
  BY <1>1, <1>2, <1>3 DEF ExternalChange, TypeOK
<1>5. WalkInv'
  BY DEF ExternalChange, WalkInv
<1>6. PhaseInv'
  BY Zenon DEF ExternalChange, PhaseInv
<1> QED
  BY <1>4, <1>5, <1>6, RestoreInvStable DEF ExternalChange

\* Every reachable state of Undo is well typed and its walk, its manifests and
\* its restore fit together, for every tree and every bound.
THEOREM UndoInvariant == Spec => []IndInv
<1>1. Init => IndInv
  <2> SUFFICES ASSUME Init PROVE IndInv
    OBVIOUS
  <2>1. TypeOK
    <3>1. saved \in BOOLEAN /\ quiet \in BOOLEAN
      BY Zenon DEF Init
    <3>2. fs \in [Paths -> Entry] /\ before \in [Paths -> Entry]
      BY DEF Init
    <3>3. writes \in 0 .. MaxWrites /\ faults \in 0 .. MaxFaults
      BY DataAssumption DEF Init
    <3>4. manifests \in Seq(Manifest) /\ objects \in [Contents -> Object \cup {None}]
      BY DEF Init
    <3> QED
      BY <3>1, <3>2, <3>3, <3>4, NoWalkType, NoRestoreType DEF Init, TypeOK
  <2>2. WalkInv /\ RestoreInv
    BY DEF Init, WalkInv, RestoreInv, NoWalk, NewWalk, NoRestore
  <2>3. PhaseInv
    BY Zenon DEF Init, PhaseInv
  <2> QED
    BY <2>1, <2>2, <2>3 DEF IndInv
<1>2. IndInv /\ [Next]_vars => IndInv'
  <2> SUFFICES ASSUME IndInv, [Next]_vars PROVE IndInv'
    OBVIOUS
  <2>1. CASE Next
    BY <2>1, RunStepInv, WalkStepInv, RestoreStepInv, UserStepInv, CrashInv,
       ExternalChangeInv DEF Next
  <2>2. CASE UNCHANGED vars
    <3>1. TypeOK' /\ WalkInv'
      BY <2>2 DEF vars, IndInv, TypeOK, WalkInv
    <3>2. PhaseInv'
      BY <2>2, Zenon DEF vars, IndInv, PhaseInv
    <3> QED
      BY <2>2, <3>1, <3>2, RestoreInvStable DEF vars, IndInv
  <2> QED
    BY <2>1, <2>2
<1> QED
  BY <1>1, <1>2, PTL DEF Spec

\* Undo is type correct.
THEOREM UndoTypeOK == Spec => []TypeOK
<1>1. IndInv => TypeOK
  BY DEF IndInv
<1> QED
  BY <1>1, UndoInvariant, PTL

\* Only RestoreFile goes from the write loop to the chmod of a file.
LEMMA OnlyRestoreFileWrites ==
  ASSUME IndInv, Next, restore.step = "write", restore'.step = "chmod"
  PROVE  \E q \in Paths : RestoreFile(q)
<1> USE DEF IndInv
<1>1. restore \in Restore
  BY DEF TypeOK
<1>2. ~RunStep
  BY DEF RunStep, CreateBaseline, StartChild, CreateIncremental, SaveSessionMetadata,
         SkipReview, CleanupNewAtomicTempFiles
<1>3. ~WalkStep
  BY <1>1 DEF WalkStep, WalkAbsent, WalkSkipsContent, WalkFile, WalkOverBudget, HasObject,
         CloneObject, CloneFails, RereadObject, StoreMetadata, SaveManifest,
         SaveManifestFails, RestoreWalked, WalkContinues, WalkFails, EndRestore, Restore
<1>4. ~UserStep
  BY NoRestoreType DEF UserStep, ReviewAndRestore, CmdRestore, BeginRestore, Restore
<1>5. ~Crash
  BY DEF Crash, NoRestore
<1>6. ~(\E p \in Paths, e \in Entry : ExternalChange(p, e))
  BY DEF ExternalChange
<1>7. ~ValidateTargets /\ ~RestorePermissions
  BY DEF ValidateTargets, RestorePermissions
<1>8. ~NextLoop
  BY <1>1 DEF NextLoop, RestoreContinues, EndRestore, Restore
<1>9. ~(\E p \in Paths : DeleteSurplus(p) \/ UnlinkSymlink(p))
  BY DEF DeleteSurplus, UnlinkSymlink
<1> QED
  BY <1>2, <1>3, <1>4, <1>5, <1>6, <1>7, <1>8, <1>9 DEF Next, RestoreStep

\* Whatever the object store holds and whoever else writes to the tree, a
\* file restore_to writes has the content its manifest names.
THEOREM RestoreWritesVerified == Spec => RestoreWritesVerifiedContent
<1> DEFINE Verified ==
      \A p \in Paths :
        restore.step = "write" /\ restore'.step = "chmod" /\ fs'[p] # fs[p] =>
          \/ fs'[p].kind = "dir"
          \/ fs'[p].kind = "none"
          \/ p = restore'.at /\ fs'[p].content = Target.files[p].hash
<1>1. IndInv /\ [Next]_vars => [Verified]_vars
  <2> SUFFICES ASSUME IndInv, Next, NEW p \in Paths,
                      restore.step = "write", restore'.step = "chmod", fs'[p] # fs[p]
               PROVE  \/ fs'[p].kind = "dir"
                      \/ fs'[p].kind = "none"
                      \/ p = restore'.at /\ fs'[p].content = Target.files[p].hash
    OBVIOUS
  <2>1. PICK q \in Paths : RestoreFile(q)
    BY OnlyRestoreFileWrites
  <2> DEFINE h == Target.files[q].hash
             made == WithParent(fs, q)
             e == File(objects[h].content, objects[h].mode)
  <2>2. restore \in Restore /\ fs \in [Paths -> Entry] /\ objects \in [Contents -> Object \cup {None}]
    BY DEF IndInv, TypeOK
  <2>3. /\ ObjectIntact(h)
        /\ fs' = IF Reachable(made, q) THEN Put(made, q, e) ELSE fs
        /\ restore' = [restore EXCEPT !.step = "chmod", !.todo = @ \ {q}, !.at = q]
    <3> HIDE DEF h, made, e
    <3>1. \/ /\ ObjectIntact(h)
             /\ fs' = IF Reachable(made, q) THEN Put(made, q, e) ELSE fs
             /\ restore' = [restore EXCEPT !.step = "chmod", !.todo = @ \ {q}, !.at = q]
          \/ EndRestore("failed")
      BY <2>1, Zenon DEF RestoreFile, RestoreContinues, h, made, e
    <3>2. EndRestore("failed") => restore'.step = "none"
      BY <2>2 DEF EndRestore, Restore
    <3> QED
      BY <3>1, <3>2
  <2>4. restore'.at = q
    BY <2>2, <2>3 DEF Restore
  <2>5. h \in Contents
    <3>1. q \in Tracked(Target.files)
      BY <2>1 DEF RestoreFile, IndInv, RestoreInv
    <3> QED
      BY <3>1, TargetType
  <2>6. e \in Entry /\ e.content = h
    <3>1. objects[h].content = h /\ objects[h].mode \in Modes
      BY <2>2, <2>3, <2>5 DEF ObjectIntact, Object
    <3> QED
      BY <2>5, <3>1, FileType
  <2>7. made \in [Paths -> Entry] /\ made[p] \in {fs[p], Directory}
    BY <2>2, WithParentType
  <2>8. fs' = Put(made, q, e)
    BY <2>3
  <2> HIDE DEF made, e
  <2>9. CASE p = q
    BY <2>4, <2>6, <2>7, <2>8, <2>9, PutType
  <2>10. CASE p # q
    <3>1. fs'[p] \in {made[p], Gone}
      BY <2>6, <2>7, <2>8, <2>10, PutType
    <3> QED
      BY <2>7, <3>1 DEF Gone, Directory
  <2> QED
    BY <2>9, <2>10
<1> QED
  BY <1>1, UndoInvariant, PTL DEF Spec, RestoreWritesVerifiedContent

-----------------------------------------------------------------------------
(* What an operation nobody disturbed has seen and done.                     *)

\* A walk serves a snapshot only in the phase that takes it; a restore runs in
\* the review or later, and how it ended is known only after it.
PhaseOrder ==
  /\ walk.op = "baseline" => phase = "launch"
  /\ walk.op = "final" => phase = "exited"
  /\ walk.step # "next" => walk.op \in {"baseline", "final"}
  /\ restore.step \notin {"none", "walk"} => walk.op = "none"
  /\ restore.step # "none" => phase \in {"review", "closed"} /\ outcome = "none"
  /\ outcome # "none" => /\ phase \in {"cleanup", "closed"} /\ restore.step = "none"
                         /\ restore.n + 1 \in DOMAIN manifests

\* Every entry lies in a directory.
Closed(f) == \A p \in Paths : f[p].kind # "none" => Reachable(f, p)
TreesClosed == Closed(fs) /\ Closed(before)

\* What a snapshot of f through the filter X records of p.
FileOf(f, X, p) ==
  IF ReadableFile(f, p) /\ ~Excluded(X, p)
  THEN [hash |-> f[p].content, mode |-> f[p].mode] ELSE None
LinkIn(f, X, p) == Exists(f, p) /\ f[p].kind = "link" /\ ~Excluded(X, p)

WalkFilter == IF walk.op = "restore" THEN restore.excluded ELSE SnapExcluded
Pending(p) == p \in walk.todo \/ (walk.step # "next" /\ p = walk.at)

\* An undisturbed walk has recorded exactly what it has passed.
FilesExact ==
  /\ \A p \in walk.todo : ~Excluded(WalkFilter, p)
  /\ \A p \in Paths :
       /\ walk.files[p] = IF Pending(p) THEN None ELSE FileOf(fs, WalkFilter, p)
       /\ p \in walk.links <=> p \notin walk.todo /\ LinkIn(fs, WalkFilter, p)

\* The file being stored is still the one that was hashed, and what is recorded
\* has an object.
StoreExact ==
  /\ walk.step # "next" =>
       /\ walk.at \notin walk.todo /\ ~Excluded(WalkFilter, walk.at)
       /\ ReadableFile(fs, walk.at) /\ walk.hash = fs[walk.at].content
       /\ walk.step # "reread" /\ walk.op # "restore"
  /\ walk.step = "meta" => objects[walk.hash] # None
  /\ walk.op # "restore" =>
       \A p \in Paths : walk.files[p] # None => objects[walk.files[p].hash] # None

WalkExact == quiet /\ walk.op # "none" => FilesExact /\ StoreExact

\* restore_to changes nothing before it has validated every target, and what it
\* compares the manifest with is a snapshot of the tree it found.
BeforeHeld == quiet /\ restore.step \in {"walk", "validate"} => fs = before
CurrentExact ==
  quiet /\ restore.step \notin {"none", "walk"} =>
    \A p \in Paths :
      /\ restore.current[p] = FileOf(before, restore.excluded, p)
      /\ p \in restore.links <=> LinkIn(before, restore.excluded, p)

\* p is as it was, or a directory made for a restored file.
Untouched(p) == fs[p] = before[p] \/ (before[p] = Gone /\ fs[p] = Directory)
Settled(p) == Exists(fs, p) /\ fs[p].kind = "file" /\ fs[p].content = Target.files[p].hash

\* The write loop: what is off the list is settled, no target has come to lie
\* behind a link, and nothing else is touched.
WriteLoop ==
  quiet /\ restore.step \in {"write", "chmod"} =>
    /\ restore.step = "chmod" => restore.at \notin restore.todo
    /\ \A p \in Paths :
      /\ p \in Tracked(Target.files) /\ p \notin restore.todo => Settled(p)
      /\ p \in restore.todo /\ Parent[p] # Root => fs[Parent[p]].kind # "link"
      /\ Untouched(p) \/ (p \in Tracked(Target.files) /\ Settled(p))

\* The two removal loops: the manifest's files are in place, only others are
\* removed, and a surplus file or link that is left is still on the list.
RemoveLoops ==
  quiet /\ restore.step \in {"delete", "unlink"} =>
    \A p \in Paths :
      /\ p \in Tracked(Target.files) => Settled(p) /\ p \notin restore.todo
      /\ p \notin Tracked(Target.files) => Untouched(p) \/ fs[p] = Gone
      /\ p \notin Tracked(Target.files) /\ FileOf(fs, restore.excluded, p) # None =>
           restore.step = "delete" /\ p \in restore.todo
      /\ LinkIn(fs, restore.excluded, p) /\ SymlinkNeedsCleanup(Target, p) =>
           restore.step = "delete" \/ p \in restore.todo

\* p is as it was, or as the manifest wants it; an ended restore left every
\* path so.
OldOrNew(p) ==
  \/ fs[p] = before[p]
  \/ /\ outcome # "rejected"
     /\ \/ p \in Tracked(Target.files) /\ fs[p].kind = "file"
             /\ fs[p].content = Target.files[p].hash
        \/ p \notin Tracked(Target.files) /\ fs[p] = Gone
        \/ before[p] = Gone /\ fs[p] = Directory
EndedAtomically == quiet /\ outcome # "none" => \A p \in Paths : OldOrNew(p)

QuietInv == /\ PhaseOrder /\ TreesClosed /\ WalkExact /\ BeforeHeld /\ CurrentExact
            /\ WriteLoop /\ RemoveLoops /\ EndedAtomically
            /\ UndisturbedSnapshotComplete /\ RestoreReachesManifest

-----------------------------------------------------------------------------
\* The steps of a walk that go on keep the operation it serves.
WalkGoesOn == \/ \E p \in Paths : WalkAbsent(p) \/ WalkSkipsContent(p) \/ WalkFile(p)
              \/ HasObject \/ CloneObject \/ CloneFails \/ RereadObject
              \/ StoreMetadata /\ ~WalkFails

LEMMA WalkGoesOnKeeps ==
  ASSUME IndInv, WalkGoesOn
  PROVE  /\ walk'.op = walk.op
         /\ UNCHANGED <<fs, manifests, phase, restore, outcome, tempBefore, saved, writes,
                        before>>
<1>0. walk \in Walk
  BY DEF IndInv, TypeOK
<1>1. ASSUME NEW p \in Paths, WalkAbsent(p) \/ WalkSkipsContent(p) \/ WalkFile(p)
      PROVE  /\ walk'.op = walk.op
             /\ UNCHANGED <<fs, manifests, phase, restore, outcome, tempBefore, saved, writes,
                            before>>
  <2>1. Visited(p) \in Walk /\ Visited(p).op = walk.op
    BY <1>0, VisitedType
  <2> QED
    BY <1>0, <1>1, <2>1 DEF WalkAbsent, WalkSkipsContent, WalkFile, WalkContinues, Walk
<1>2. CASE HasObject \/ CloneObject \/ CloneFails \/ RereadObject
  BY <1>0, <1>2 DEF HasObject, CloneObject, CloneFails, RereadObject, WalkContinues, NextFile,
                    Walk
<1>3. CASE StoreMetadata /\ ~WalkFails
  <2>1. NextFile(walk) \in Walk /\ NextFile(walk).op = walk.op
    BY <1>0 DEF NextFile, Walk
  <2> QED
    BY <1>3, <2>1 DEF StoreMetadata, WalkContinues, Walk
<1> QED
  BY <1>1, <1>2, <1>3 DEF WalkGoesOn

\* A walk step goes on, gives up, saves a manifest or hands over to restore_to.
LEMMA WalkStepKinds ==
  ASSUME PhaseOrder, WalkStep
  PROVE  \/ WalkGoesOn
         \/ WalkFails /\ walk.op # "none"
         \/ SaveManifest
         \/ RestoreWalked
<1>1. ASSUME NEW p \in Paths, WalkOverBudget(p) PROVE WalkFails /\ walk.op # "none"
  BY <1>1 DEF WalkOverBudget, Visits
<1>2. SaveManifestFails => WalkFails /\ walk.op # "none"
  BY DEF SaveManifestFails, Walked
<1>3. StoreMetadata => walk.op # "none"
  BY DEF StoreMetadata, PhaseOrder
<1> QED
  BY <1>1, <1>2, <1>3 DEF WalkStep, WalkGoesOn

\* The idle walk serves nothing.
LEMMA NoWalkServesNothing == NoWalk.op = "none" /\ NoWalk.step = "next"
  BY DEF NoWalk, NewWalk

\* What EndRestore does to the restore in progress.
LEMMA EndRestoreFields ==
  ASSUME restore \in Restore, NEW result, EndRestore(result)
  PROVE  /\ restore'.step = "none" /\ restore'.n = restore.n
         /\ restore'.excluded = restore.excluded /\ outcome' = result
  BY DEF EndRestore, Restore

\* A step of a walk that stores files leaves the walk between two files, or at
\* one of a snapshot.
LEMMA WalkGoesOnStores ==
  ASSUME IndInv, PhaseOrder, WalkGoesOn
  PROVE  walk'.step # "next" => walk.op \in {"baseline", "final"}
<1>0. walk \in Walk
  BY DEF IndInv, TypeOK
<1>1. ASSUME NEW p \in Paths, WalkAbsent(p) \/ WalkSkipsContent(p)
      PROVE  walk'.step = walk.step
  <2>1. Visited(p) \in Walk /\ Visited(p).step = walk.step
    BY <1>0, VisitedType
  <2> QED
    BY <1>0, <1>1, <2>1 DEF WalkAbsent, WalkSkipsContent, WalkContinues, Walk
<1>2. ASSUME NEW p \in Paths, WalkFile(p)
      PROVE  walk'.step # "next" => walk.op \in {"baseline", "final"}
  <2>1. Visited(p) \in Walk /\ Visited(p).step = "next"
    BY <1>0, <1>2, VisitedType DEF WalkFile, Visits
  <2>2. CASE walk.op = "restore"
    BY <1>2, <2>1, <2>2 DEF WalkFile, WalkContinues, Walk
  <2>3. CASE walk.op # "restore"
    BY <1>0, <1>2, <2>3 DEF WalkFile, Visits, Walk, WalkOps
  <2> QED
    BY <2>2, <2>3
<1>3. HasObject \/ CloneObject \/ CloneFails \/ RereadObject \/ StoreMetadata => walk.step # "next"
  BY DEF HasObject, CloneObject, CloneFails, RereadObject, StoreMetadata
<1> QED
  BY <1>1, <1>2, <1>3 DEF WalkGoesOn, PhaseOrder

\* PhaseOrder is preserved by every step.
LEMMA PhaseOrderStep ==
  ASSUME IndInv, PhaseOrder, [Next]_vars
  PROVE  PhaseOrder'
<1>0. /\ walk \in Walk /\ restore \in Restore /\ manifests \in Seq(Manifest)
      /\ phase \in {"launch", "tracked", "running", "exited", "finalised", "review",
                    "cleanup", "closed", "lost"}
  BY DEF IndInv, TypeOK
<1>1. CASE RunStep
  <2>1. CASE CreateBaseline \/ CreateIncremental
    BY <2>1 DEF CreateBaseline, CreateIncremental, PhaseOrder, NewWalk, IndInv, WalkInv
  <2>2. CASE StartChild \/ SaveSessionMetadata \/ SkipReview
    BY <2>2 DEF StartChild, SaveSessionMetadata, SkipReview, PhaseOrder
  <2>3. CASE CleanupNewAtomicTempFiles
    <3>1. /\ phase = "cleanup" /\ phase' = "closed" /\ outcome' = "none"
          /\ UNCHANGED <<walk, restore, manifests>>
      BY <2>3 DEF CleanupNewAtomicTempFiles
    <3> QED
      BY <3>1 DEF PhaseOrder
  <2> QED
    BY <1>1, <2>1, <2>2, <2>3 DEF RunStep
<1>2. CASE WalkStep
  <2>1. CASE WalkGoesOn
    BY <2>1, WalkGoesOnKeeps, WalkGoesOnStores DEF PhaseOrder
  <2>2. CASE WalkFails /\ walk.op # "none"
    <3>1. walk'.op = "none" /\ walk'.step = "next" /\ UNCHANGED manifests
      BY <2>2, NoWalkServesNothing DEF WalkFails
    <3>2. CASE walk.op = "restore"
      <4>1. EndRestore("failed")
        BY <2>2, <3>2 DEF WalkFails
      <4>2. restore.step = "walk" /\ restore.n + 1 \in DOMAIN manifests
        BY <3>2 DEF IndInv, WalkInv, RestoreInv
      <4>3. phase' \in {"cleanup", "closed"}
        BY <4>1, <4>2 DEF EndRestore, PhaseOrder
      <4> QED
        BY <1>0, <3>1, <4>1, <4>2, <4>3, EndRestoreFields DEF PhaseOrder
    <3>3. CASE walk.op # "restore"
      <4>1. phase \in {"launch", "exited"}
        BY <1>0, <2>2, <3>3 DEF PhaseOrder, Walk, WalkOps
      <4> QED
        BY <2>2, <3>1, <3>3, <4>1 DEF PhaseOrder, WalkFails
    <3> QED
      BY <3>2, <3>3
  <2>3. CASE SaveManifest
    <3>1. walk'.op = "none" /\ walk'.step = "next" /\ UNCHANGED <<restore, outcome>>
      BY <2>3, NoWalkServesNothing DEF SaveManifest
    <3>2. phase \in {"launch", "exited"}
      BY <1>0, <2>3 DEF PhaseOrder, Walk, WalkOps, SaveManifest, Walked
    <3> QED
      BY <3>1, <3>2 DEF PhaseOrder
  <2>4. CASE RestoreWalked
    <3>1. walk'.op = "none" /\ walk'.step = "next" /\ UNCHANGED <<outcome, manifests, phase>>
      BY <2>4, NoWalkServesNothing DEF RestoreWalked
    <3>2. restore.step = "walk" /\ restore'.step = "validate"
      BY <1>0, <2>4 DEF RestoreWalked, IndInv, WalkInv, Restore
    <3> QED
      BY <3>1, <3>2 DEF PhaseOrder
  <2> QED
    BY <1>2, <2>1, <2>2, <2>3, <2>4, WalkStepKinds
<1>3. CASE RestoreStep
  <2>1. restore.step \notin {"none", "walk"} /\ UNCHANGED <<walk, manifests>>
    BY <1>3 DEF RestoreStep, ValidateTargets, RestorePermissions, NextLoop, RestoreFile,
                DeleteSurplus, UnlinkSymlink, RemoveFile, RestoreContinues, RestoreKeeps
  <2>2. walk.op = "none" /\ phase \in {"review", "closed"} /\ outcome = "none"
        /\ restore.n + 1 \in DOMAIN manifests
    BY <2>1 DEF PhaseOrder, IndInv, RestoreInv
  <2>3. \/ UNCHANGED <<phase, outcome>>
        \/ \E result : EndRestore(result)
    BY <1>3 DEF RestoreStep, ValidateTargets, RestorePermissions, NextLoop, RestoreFile,
                DeleteSurplus, UnlinkSymlink, RemoveFile, RestoreContinues
  <2>4. CASE UNCHANGED <<phase, outcome>>
    BY <2>1, <2>2, <2>4 DEF PhaseOrder
  <2>5. ASSUME NEW result, EndRestore(result) PROVE PhaseOrder'
    <3>1. phase' \in {"cleanup", "closed"}
      BY <2>2, <2>5 DEF EndRestore
    <3> QED
      BY <1>0, <2>1, <2>2, <2>5, <3>1, EndRestoreFields DEF PhaseOrder
  <2> QED
    BY <2>3, <2>4, <2>5
<1>4. CASE UserStep
  <2>1. PICK n, X : BeginRestore(n, X)
    BY <1>4 DEF UserStep, ReviewAndRestore, CmdRestore
  <2>2. phase \in {"review", "closed"}
    BY <1>4 DEF UserStep, ReviewAndRestore, CmdRestore
  <2>3. walk'.op = "restore" /\ walk'.step = "next" /\ restore'.step = "walk"
    BY <2>1, NoRestoreType DEF BeginRestore, NewWalk, Restore
  <2> QED
    BY <2>1, <2>2, <2>3 DEF BeginRestore, PhaseOrder
<1>5. CASE Crash
  BY <1>5, NoWalkServesNothing DEF Crash, PhaseOrder, NoRestore
<1>6. CASE \E p \in Paths, e \in Entry : ExternalChange(p, e)
  BY <1>6 DEF ExternalChange, PhaseOrder
<1>7. CASE UNCHANGED vars
  BY <1>7 DEF vars, PhaseOrder
<1> QED
  BY <1>1, <1>2, <1>3, <1>4, <1>5, <1>6, <1>7 DEF Next

-----------------------------------------------------------------------------
\* The tree is two levels deep.
LEMMA Depth ==
  ASSUME NEW p \in Paths, Parent[p] # Root
  PROVE  /\ Parent[p] \in Paths /\ Parent[p] # p /\ Parent[Parent[p]] = Root
         /\ Parent[Parent[p]] # p
  BY TreeAssumption

\* Replacing an entry that lies in a directory leaves the tree closed.
LEMMA PutClosed ==
  ASSUME NEW f \in [Paths -> Entry], NEW p \in Paths, NEW e \in Entry, Closed(f),
         Reachable(f, p)
  PROVE  Closed(Put(f, p, e))
<1> DEFINE g == Put(f, p, e)
<1>1. ASSUME NEW q \in Paths
      PROVE  g[q] = IF q = p THEN e
                    ELSE IF Parent[q] = p /\ e.kind # "dir" THEN Gone ELSE f[q]
  BY DEF Put
<1> HIDE DEF g
<1>2. SUFFICES ASSUME NEW q \in Paths, g[q].kind # "none", Parent[q] # Root
               PROVE  g[Parent[q]].kind = "dir"
  BY DEF Closed, Reachable, g
<1>3. /\ Parent[q] \in Paths /\ Parent[q] # q /\ Parent[Parent[q]] = Root
      /\ Parent[Parent[q]] # q /\ p # Root
  BY <1>2, Depth, TreeAssumption
<1>4. g[Parent[q]] = IF Parent[q] = p THEN e ELSE f[Parent[q]]
  BY <1>1, <1>3
<1>5. CASE q = p
  BY <1>2, <1>3, <1>4, <1>5 DEF Reachable
<1>6. CASE q # p /\ Parent[q] = p
  BY <1>1, <1>2, <1>4, <1>6 DEF Gone
<1>7. CASE q # p /\ Parent[q] # p
  BY <1>1, <1>2, <1>4, <1>7 DEF Closed, Reachable
<1> QED
  BY <1>5, <1>6, <1>7

\* So does making the directory a file is restored into.
LEMMA WithParentClosed ==
  ASSUME NEW f \in [Paths -> Entry], NEW p \in Paths, Closed(f)
  PROVE  Closed(WithParent(f, p))
<1>1. CASE Parent[p] # Root /\ f[Parent[p]].kind = "none"
  <2> DEFINE g == WithParent(f, p)
  <2>0. Parent[p] \in Paths /\ Parent[Parent[p]] = Root
    BY <1>1, Depth
  <2>1. \A q \in Paths : g[q] = IF q = Parent[p] THEN Directory ELSE f[q]
    BY <1>1, <2>0 DEF WithParent
  <2> HIDE DEF g
  <2>2. SUFFICES ASSUME NEW q \in Paths, g[q].kind # "none", Parent[q] # Root
                 PROVE  g[Parent[q]].kind = "dir"
    BY DEF Closed, Reachable, g
  <2>3. Parent[q] \in Paths /\ q # Parent[p]
    BY <2>0, <2>2, Depth
  <2> QED
    BY <2>1, <2>2, <2>3 DEF Closed, Reachable, Directory
<1>2. CASE ~(Parent[p] # Root /\ f[Parent[p]].kind = "none")
  BY <1>2 DEF WithParent
<1> QED
  BY <1>1, <1>2

\* And removing entries that are no directories.
LEMMA RemovalClosed ==
  ASSUME NEW f \in [Paths -> Entry], NEW g \in [Paths -> Entry], Closed(f),
         \A q \in Paths : g[q].kind = f[q].kind \/ (g[q] = Gone /\ f[q].kind # "dir")
  PROVE  Closed(g)
<1>1. SUFFICES ASSUME NEW q \in Paths, g[q].kind # "none", Parent[q] # Root
               PROVE  g[Parent[q]].kind = "dir"
  BY DEF Closed, Reachable
<1>2. f[q].kind # "none" /\ Parent[q] \in Paths
  BY <1>1, Depth DEF Gone
<1>3. f[Parent[q]].kind = "dir"
  BY <1>1, <1>2 DEF Closed, Reachable
<1> QED
  BY <1>2, <1>3

\* What RestoreFile does, with its local names spelled out.
Made(p) == WithParent(fs, p)
Retrieved(p) == File(objects[Target.files[p].hash].content, objects[Target.files[p].hash].mode)
LEMMA RestoreFileKinds ==
  ASSUME IndInv, NEW p \in Paths, RestoreFile(p)
  PROVE  /\ restore.step = "write" /\ p \in restore.todo
         /\ \/ /\ ObjectIntact(Target.files[p].hash) /\ NoFault
               /\ Parent[p] # Root => fs[Parent[p]].kind # "file"
               /\ ~(Reachable(Made(p), p) /\ fs[p].kind = "dir")
               /\ fs' = IF Reachable(Made(p), p) THEN Put(Made(p), p, Retrieved(p)) ELSE fs
               /\ RestoreContinues([restore EXCEPT !.step = "chmod", !.todo = @ \ {p}, !.at = p])
            \/ /\ Fault \/ NoFault
               /\ fs' = Made(p)
               /\ EndRestore("failed") /\ RestoreKeeps
  BY Zenon DEF RestoreFile, Made, Retrieved

\* The content a file is restored from is the one the manifest names.
LEMMA RetrievedType ==
  ASSUME IndInv, NEW p \in Paths, restore.step = "write", p \in restore.todo,
         ObjectIntact(Target.files[p].hash)
  PROVE  /\ Retrieved(p) \in Entry /\ Retrieved(p).kind = "file"
         /\ Retrieved(p).content = Target.files[p].hash
<1>1. p \in Tracked(Target.files)
  BY DEF IndInv, RestoreInv
<1> DEFINE h == Target.files[p].hash
<1>2. h \in Contents
  BY <1>1, TargetType
<1> HIDE DEF h
<1>3. objects[h].content = h /\ objects[h].mode \in Modes
  BY <1>2, NoneAssumption DEF ObjectIntact, Object, IndInv, TypeOK, h
<1> QED
  BY <1>2, <1>3, FileType DEF Retrieved, h

\* The steps that change the tree.
LEMMA TreeSteps ==
  ASSUME Next
  PROVE  \/ UNCHANGED <<fs, before>>
         \/ UserStep /\ before' = fs /\ UNCHANGED fs
         \/ CleanupNewAtomicTempFiles
         \/ \E p \in Paths : RestoreFile(p) \/ DeleteSurplus(p) \/ UnlinkSymlink(p)
         \/ RestorePermissions
         \/ \E p \in Paths, e \in Entry : ExternalChange(p, e)
<1>1. RunStep => UNCHANGED <<fs, before>> \/ CleanupNewAtomicTempFiles
  BY DEF RunStep, CreateBaseline, StartChild, CreateIncremental, SaveSessionMetadata, SkipReview
<1>2. WalkStep => UNCHANGED <<fs, before>>
  BY DEF WalkStep, WalkAbsent, WalkSkipsContent, WalkFile, WalkOverBudget, HasObject,
         CloneObject, CloneFails, RereadObject, StoreMetadata, SaveManifest,
         SaveManifestFails, RestoreWalked, WalkContinues, WalkFails
<1>3. ValidateTargets \/ NextLoop => UNCHANGED <<fs, before>>
  BY DEF ValidateTargets, NextLoop, RestoreContinues, RestoreKeeps
<1>4. UserStep => UserStep /\ before' = fs /\ UNCHANGED fs
  BY DEF UserStep, ReviewAndRestore, CmdRestore, BeginRestore
<1>5. Crash => UNCHANGED <<fs, before>>
  BY DEF Crash
<1> QED
  BY <1>1, <1>2, <1>3, <1>4, <1>5 DEF Next, RestoreStep

\* Removing a file or a link keeps the tree closed.
LEMMA RemoveFileTree ==
  ASSUME NEW p \in Paths, RemoveFile(p)
  PROVE  /\ UNCHANGED before
         /\ \/ UNCHANGED fs
            \/ Exists(fs, p) /\ fs[p].kind # "dir" /\ fs' = Put(fs, p, Gone)
  BY DEF RemoveFile, RestoreContinues, RestoreKeeps

\* Every step keeps both trees closed.
LEMMA TreesClosedStep ==
  ASSUME IndInv, TreesClosed, [Next]_vars, fs' \in [Paths -> Entry]
  PROVE  TreesClosed'
<1> USE DEF TreesClosed
<1>0. fs \in [Paths -> Entry] /\ Gone \in Entry
  BY DEF IndInv, TypeOK, Gone, Entry
<1>1. CASE UNCHANGED <<fs, before>>
  BY <1>1 DEF Closed, Reachable
<1>2. CASE before' = fs /\ UNCHANGED fs
  BY <1>2 DEF Closed, Reachable
<1>3. CASE CleanupNewAtomicTempFiles
  <2>1. UNCHANGED before
    BY <1>3 DEF CleanupNewAtomicTempFiles
  <2>2. \A q \in Paths : fs'[q] = fs[q] \/ (fs'[q] = Gone /\ fs[q].kind # "dir")
    BY <1>3 DEF CleanupNewAtomicTempFiles, CollectAtomicTempFiles
  <2>3. Closed(fs')
    BY <1>0, <2>2, RemovalClosed
  <2> QED
    BY <2>1, <2>3 DEF Closed, Reachable
<1>4. ASSUME NEW p \in Paths, RestoreFile(p) PROVE TreesClosed'
  <2>1. UNCHANGED before
    BY <1>4, RestoreFileKinds DEF RestoreContinues, RestoreKeeps
  <2>2. Made(p) \in [Paths -> Entry] /\ Closed(Made(p))
    BY <1>0, WithParentType, WithParentClosed DEF Made
  <2>3. ASSUME ObjectIntact(Target.files[p].hash), Reachable(Made(p), p)
        PROVE  Closed(Put(Made(p), p, Retrieved(p)))
    <3>1. Retrieved(p) \in Entry
      BY <1>4, <2>3, RestoreFileKinds, RetrievedType
    <3> QED
      BY <2>2, <2>3, <3>1, PutClosed
  <2>4. Closed(fs')
    BY <1>4, <2>2, <2>3, RestoreFileKinds
  <2> QED
    BY <2>1, <2>4 DEF Closed, Reachable
<1>5. ASSUME NEW p \in Paths, RemoveFile(p) PROVE TreesClosed'
  <2>1. Exists(fs, p) => Closed(Put(fs, p, Gone))
    BY <1>0, PutClosed DEF Exists
  <2>2. Closed(fs') /\ UNCHANGED before
    BY <1>5, <2>1, RemoveFileTree
  <2> QED
    BY <2>2 DEF Closed, Reachable
<1>6. ASSUME NEW p \in Paths, DeleteSurplus(p) \/ UnlinkSymlink(p) PROVE TreesClosed'
  <2>1. RemoveFile(p) \/ UNCHANGED <<fs, before>>
    BY <1>6 DEF DeleteSurplus, UnlinkSymlink, RestoreContinues, RestoreKeeps
  <2> QED
    BY <1>1, <1>5, <2>1
<1>7. CASE RestorePermissions
  <2>1. UNCHANGED before
    BY <1>7 DEF RestorePermissions, RestoreContinues, RestoreKeeps
  <2>2. \A q \in Paths : fs'[q].kind = fs[q].kind
    <3>1. CASE fs' = [fs EXCEPT ![restore.at].mode = Target.files[restore.at].mode]
               /\ fs[restore.at].kind = "file"
      <4>1. restore.at \in Paths
        BY <1>7 DEF RestorePermissions, IndInv, RestoreInv, Tracked
      <4>2. fs[restore.at] \in [kind : {"file"}, content : Contents, mode : Modes]
        BY <1>0, <3>1, <4>1 DEF Entry
      <4> QED
        BY <1>0, <3>1, <4>1, <4>2
    <3>2. CASE UNCHANGED fs
      BY <3>2
    <3> QED
      BY <1>7, <3>1, <3>2 DEF RestorePermissions
  <2>3. Closed(fs')
    BY <1>0, <2>2, RemovalClosed
  <2> QED
    BY <2>1, <2>3 DEF Closed, Reachable
<1>8. ASSUME NEW p \in Paths, NEW e \in Entry, ExternalChange(p, e) PROVE TreesClosed'
  <2>1. Closed(Put(fs, p, e))
    BY <1>0, <1>8, PutClosed DEF ExternalChange
  <2> QED
    BY <1>8, <2>1 DEF ExternalChange, Closed, Reachable
<1> QED
  BY <1>1, <1>2, <1>3, <1>4, <1>6, <1>7, <1>8, TreeSteps DEF vars

-----------------------------------------------------------------------------
\* A walk that begins has passed what its filter prunes, and nothing else.
LEMMA NewWalkExact ==
  ASSUME NEW op \in WalkOps, NEW X, walk' = NewWalk(op, X), WalkFilter' = X
  PROVE  (FilesExact /\ StoreExact)'
<1>1. /\ walk'.todo = {p \in Paths : ~Excluded(X, p)} /\ walk'.step = "next"
      /\ walk'.files = NoFiles /\ walk'.links = {}
  BY DEF NewWalk
<1>2. \A p \in Paths : walk'.files[p] = None
  BY <1>1 DEF NoFiles
<1>3. \A p \in Paths : Pending(p)' <=> ~Excluded(X, p)
  BY <1>1 DEF Pending
<1>4. FilesExact'
  BY <1>1, <1>2, <1>3 DEF FilesExact, FileOf, LinkIn
<1>5. StoreExact'
  BY <1>1, <1>2 DEF StoreExact
<1> QED
  BY <1>4, <1>5

\* The visits.
LEMMA VisitExact ==
  ASSUME IndInv, PhaseOrder, FilesExact, StoreExact, NEW p \in Paths,
         WalkAbsent(p) \/ WalkSkipsContent(p) \/ WalkFile(p)
  PROVE  (FilesExact /\ StoreExact)'
<1> DEFINE X == WalkFilter
           F(q) == FileOf(fs, X, q)
           L(q) == LinkIn(fs, X, q)
<1>0. /\ walk \in Walk /\ fs \in [Paths -> Entry] /\ walk.files \in [Paths -> FileState \cup {None}]
      /\ walk.links \subseteq Paths
  BY DEF IndInv, TypeOK, Walk, FileMap
<1>1. /\ walk.step = "next" /\ walk.op # "none" /\ p \in walk.todo
      /\ UNCHANGED <<objects, fs, restore>>
  BY DEF WalkAbsent, WalkSkipsContent, WalkFile, Visits, WalkContinues
<1>2. /\ \A q \in walk.todo : ~Excluded(X, q)
      /\ \A q \in Paths : walk.files[q] = IF q \in walk.todo THEN None ELSE F(q)
      /\ \A q \in Paths : q \in walk.links <=> q \notin walk.todo /\ L(q)
  BY <1>1 DEF FilesExact, Pending
<1>3. walk'.op = walk.op
  BY WalkGoesOnKeeps DEF WalkGoesOn
<1>4. WalkFilter' = X /\ (\A q \in Paths : F(q)' = F(q) /\ (L(q)' <=> L(q)))
  BY <1>1, <1>3 DEF WalkFilter, FileOf, LinkIn, ReadableFile, Reachable, Exists
<1>5. /\ Visited(p) \in Walk /\ Visited(p).step = "next" /\ Visited(p).op = walk.op
      /\ Visited(p).links = walk.links /\ Visited(p).files = walk.files
      /\ Visited(p).todo = walk.todo \ {p}
  BY <1>0, <1>1, VisitedType DEF Visited, Walk
<1>6. walk.op # "restore" =>
        \A q \in Paths : walk.files[q] # None => objects[walk.files[q].hash] # None
  BY DEF StoreExact
<1> HIDE DEF X, F, L
<1>7. ASSUME walk'.step = "next", walk'.todo = walk.todo \ {p},
             \A q \in Paths : walk'.files[q] = IF q = p THEN F(p) ELSE walk.files[q],
             \A q \in Paths : q \in walk'.links <=> IF q = p THEN L(p) ELSE q \in walk.links,
             walk.op # "restore" => F(p) = None
      PROVE  (FilesExact /\ StoreExact)'
  <2>1. \A q \in Paths : walk'.files[q] = IF q \in walk'.todo THEN None ELSE F(q)
    BY <1>2, <1>7
  <2>2. \A q \in Paths : q \in walk'.links <=> q \notin walk'.todo /\ L(q)
    BY <1>2, <1>7
  <2>3. FilesExact'
    BY <1>2, <1>4, <1>7, <2>1, <2>2 DEF FilesExact, Pending, F, L, X
  <2>4. StoreExact'
    BY <1>1, <1>3, <1>6, <1>7 DEF StoreExact
  <2> QED
    BY <2>3, <2>4
<1>8. CASE WalkAbsent(p)
  <2>1. F(p) = None /\ ~L(p)
    BY <1>8 DEF WalkAbsent, F, L, FileOf, LinkIn, ReadableFile, Exists
  <2>2. /\ walk'.step = "next" /\ walk'.todo = walk.todo \ {p}
        /\ walk'.files = walk.files /\ walk'.links = walk.links
    BY <1>0, <1>1, <1>8 DEF WalkAbsent, WalkContinues, Walk
  <2> QED
    BY <1>1, <1>2, <1>7, <2>1, <2>2
<1>9. CASE WalkSkipsContent(p)
  <2>1. F(p) = None /\ (L(p) <=> fs[p].kind = "link")
    BY <1>1, <1>2, <1>9 DEF WalkSkipsContent, F, L, FileOf, LinkIn
  <2>2. /\ walk'.step = "next" /\ walk'.todo = walk.todo \ {p} /\ walk'.files = walk.files
        /\ walk'.links = IF fs[p].kind = "link" THEN walk.links \cup {p} ELSE walk.links
    BY <1>5, <1>9 DEF WalkSkipsContent, WalkContinues, Walk
  <2> QED
    BY <1>1, <1>2, <1>7, <2>1, <2>2
<1>10. CASE WalkFile(p) /\ walk.op = "restore"
  <2> DEFINE st == [hash |-> fs[p].content, mode |-> fs[p].mode]
  <2>1. F(p) = st /\ ~L(p)
    BY <1>1, <1>2, <1>10 DEF WalkFile, F, L, FileOf, LinkIn, ReadableFile
  <2>2. walk' = [Visited(p) EXCEPT !.bytes = BytesAt(p), !.files[p] = st]
    BY <1>10 DEF WalkFile, WalkContinues
  <2> HIDE DEF st
  <2>3. /\ walk'.step = "next" /\ walk'.todo = walk.todo \ {p} /\ walk'.links = walk.links
        /\ walk'.files = [walk.files EXCEPT ![p] = st]
    BY <1>5, <2>2 DEF Walk
  <2>4. \A q \in Paths : walk'.files[q] = IF q = p THEN F(p) ELSE walk.files[q]
    BY <1>0, <2>1, <2>3
  <2> QED
    BY <1>1, <1>2, <1>7, <1>10, <2>1, <2>3, <2>4
<1>11. CASE WalkFile(p) /\ walk.op # "restore"
  <2>1. ReadableFile(fs, p) /\ ~Excluded(X, p) /\ ~L(p)
    BY <1>1, <1>2, <1>11 DEF WalkFile, L, LinkIn, ReadableFile
  <2>2. walk' = [Visited(p) EXCEPT !.step = "store", !.at = p, !.hash = fs[p].content]
    BY <1>11 DEF WalkFile, WalkContinues
  <2>3. /\ walk'.step = "store" /\ walk'.todo = walk.todo \ {p} /\ walk'.links = walk.links
        /\ walk'.files = walk.files /\ walk'.at = p /\ walk'.hash = fs[p].content
    BY <1>5, <2>2 DEF Walk
  <2>4. FilesExact'
    BY <1>1, <1>2, <1>4, <2>1, <2>3 DEF FilesExact, Pending, F, L, X
  <2>5. StoreExact'
    BY <1>1, <1>3, <1>4, <1>6, <1>11, <2>1, <2>3 DEF StoreExact, ReadableFile, Reachable, X
  <2> QED
    BY <2>4, <2>5
<1> QED
  BY <1>8, <1>9, <1>10, <1>11

\* Storing a file nobody touches keeps its hash and leaves an object.
LEMMA StoreStepExact ==
  ASSUME IndInv, PhaseOrder, FilesExact, StoreExact, HasObject \/ CloneObject
  PROVE  (FilesExact /\ StoreExact)'
<1>0. walk \in Walk /\ objects \in [Contents -> Object \cup {None}]
  BY DEF IndInv, TypeOK
<1>1. /\ walk.step # "next" /\ walk.at \in Paths /\ walk.hash \in Contents
      /\ ReadableFile(fs, walk.at) /\ walk.hash = fs[walk.at].content /\ walk.step # "reread"
  BY DEF HasObject, CloneObject, IndInv, WalkInv, StoreExact
<1>4. walk' = [walk EXCEPT !.step = "meta"] /\ UNCHANGED <<fs, restore>>
  BY DEF HasObject, CloneObject, WalkContinues
<1>5. /\ walk'.step = "meta" /\ walk'.at = walk.at /\ walk'.hash = walk.hash
      /\ walk'.todo = walk.todo /\ walk'.files = walk.files /\ walk'.links = walk.links
      /\ walk'.op = walk.op
  BY <1>0, <1>4 DEF Walk
<1>6. objects'[walk.hash] # None /\ (\A c \in Contents : objects[c] # None => objects'[c] # None)
  <2>1. CASE HasObject
    BY <2>1 DEF HasObject
  <2>2. CASE CloneObject
    <3>1. fs[walk.at].mode \in Modes
      BY <1>1, <2>2 DEF IndInv, TypeOK, Entry, ReadableFile
    <3>2. [content |-> walk.hash, mode |-> fs[walk.at].mode] # None
      BY <1>1, <3>1, NoneAssumption DEF Object
    <3> QED
      BY <1>0, <1>1, <2>2, <3>2 DEF CloneObject
  <2> QED
    BY <2>1, <2>2
<1>7. WalkFilter' = WalkFilter
  BY <1>4, <1>5 DEF WalkFilter
<1>8. FilesExact'
  BY <1>1, <1>4, <1>5, <1>7 DEF FilesExact, Pending, FileOf, LinkIn, ReadableFile, Reachable, Exists
<1>9. \A p \in Paths : walk.files[p] # None => walk.files[p].hash \in Contents
  BY <1>0 DEF Walk, FileMap, FileState
<1>10. StoreExact'
  BY <1>1, <1>4, <1>5, <1>6, <1>7, <1>9 DEF StoreExact, ReadableFile, Reachable
<1> QED
  BY <1>8, <1>10

\* The state recorded for a stored file is that of the file.
LEMMA MetadataExact ==
  ASSUME IndInv, PhaseOrder, FilesExact, StoreExact, StoreMetadata, ~WalkFails
  PROVE  (FilesExact /\ StoreExact)'
<1>0. walk \in Walk /\ walk.files \in [Paths -> FileState \cup {None}] /\ fs \in [Paths -> Entry]
  BY DEF IndInv, TypeOK, Walk, FileMap
<1>1. /\ walk.step = "meta" /\ walk.at \in Paths /\ walk.hash \in Contents
      /\ walk.at \notin walk.todo /\ ~Excluded(WalkFilter, walk.at)
      /\ ReadableFile(fs, walk.at) /\ walk.hash = fs[walk.at].content
      /\ objects[walk.hash] # None /\ walk.op # "restore"
  BY DEF StoreMetadata, IndInv, WalkInv, StoreExact
<1>2. Exists(fs, walk.at) /\ fs[walk.at].kind = "file"
  BY <1>1 DEF ReadableFile, Exists
<1>3. PICK c \in Contents, m \in Modes :
        /\ fs[walk.at] = File(c, m)
        /\ WalkContinues([NextFile(walk) EXCEPT !.bytes = walk.bytes + Size[c],
                            !.files[walk.at] = [hash |-> walk.hash, mode |-> m]])
        /\ UNCHANGED objects
  BY <1>2, Zenon DEF StoreMetadata
<1> DEFINE st == [hash |-> walk.hash, mode |-> m]
<1>4. st = FileOf(fs, WalkFilter, walk.at) /\ st # None /\ st.hash = walk.hash
  <2>1. m = fs[walk.at].mode
    BY <1>3 DEF File
  <2>2. st # None
    BY <1>1, NoneAssumption DEF FileState
  <2> QED
    BY <1>1, <2>1, <2>2 DEF FileOf
<1>5. walk' = [NextFile(walk) EXCEPT !.bytes = walk.bytes + Size[c], !.files[walk.at] = st]
      /\ UNCHANGED <<fs, restore>>
  BY <1>3 DEF WalkContinues
<1> HIDE DEF st
<1>6. /\ walk'.step = "next" /\ walk'.todo = walk.todo /\ walk'.links = walk.links
      /\ walk'.files = [walk.files EXCEPT ![walk.at] = st] /\ walk'.op = walk.op
  BY <1>0, <1>5 DEF NextFile, Walk
<1>7. WalkFilter' = WalkFilter
  BY <1>5, <1>6 DEF WalkFilter
<1>8. \A p \in Paths : walk'.files[p] = IF p = walk.at THEN st ELSE walk.files[p]
  BY <1>0, <1>6
<1>9. \A p \in Paths : /\ FileOf(fs, WalkFilter, p)' = FileOf(fs, WalkFilter, p)
                       /\ LinkIn(fs, WalkFilter, p)' <=> LinkIn(fs, WalkFilter, p)
  BY <1>5, <1>7 DEF FileOf, LinkIn, ReadableFile, Reachable, Exists
<1>10. FilesExact'
  BY <1>1, <1>4, <1>6, <1>7, <1>8, <1>9 DEF FilesExact, Pending
<1>11. StoreExact'
  BY <1>1, <1>3, <1>4, <1>6, <1>8 DEF StoreExact
<1> QED
  BY <1>10, <1>11

\* Where nothing is being walked.
LEMMA NoWalkRuns ==
  ASSUME IndInv, PhaseOrder,
         \/ phase \notin {"launch", "exited", "review", "closed"}
         \/ phase = "review" /\ restore.step = "none"
         \/ restore.step \notin {"none", "walk"}
  PROVE  walk.op = "none"
<1>1. walk.op \in WalkOps \cup {"none"}
  BY DEF IndInv, TypeOK, Walk
<1> QED
  BY <1>1 DEF PhaseOrder, IndInv, WalkInv, WalkOps

\* Every step keeps an undisturbed walk exact.
LEMMA WalkExactStep ==
  ASSUME IndInv, PhaseOrder, WalkExact, [Next]_vars
  PROVE  WalkExact'
<1> SUFFICES ASSUME quiet', walk'.op # "none"
             PROVE  (FilesExact /\ StoreExact)'
  BY DEF WalkExact
<1>1. ASSUME quiet, walk.op # "none", UNCHANGED <<fs, objects, walk, restore>>
      PROVE  (FilesExact /\ StoreExact)'
  BY <1>1 DEF WalkExact, FilesExact, StoreExact, WalkFilter, Pending, FileOf, LinkIn, ReadableFile,
              Reachable, Exists
<1>2. CASE CreateBaseline \/ CreateIncremental
  <2>1. \E op \in {"baseline", "final"} : walk' = NewWalk(op, SnapExcluded)
    BY <1>2 DEF CreateBaseline, CreateIncremental
  <2>2. WalkFilter' = SnapExcluded
    BY <2>1 DEF WalkFilter, NewWalk
  <2> QED
    BY <2>1, <2>2, NewWalkExact DEF WalkOps
<1>3. CASE StartChild \/ SaveSessionMetadata \/ SkipReview \/ CleanupNewAtomicTempFiles
  <2>1. UNCHANGED walk
    BY <1>3 DEF StartChild, SaveSessionMetadata, SkipReview, CleanupNewAtomicTempFiles
  <2>2. walk.op = "none"
    BY <1>3, NoWalkRuns DEF StartChild, SaveSessionMetadata, SkipReview, CleanupNewAtomicTempFiles
  <2> QED
    BY <2>1, <2>2
<1>4. CASE WalkStep
  <2>1. CASE WalkGoesOn
    <3>1. quiet /\ walk.op # "none"
      <4>1. walk.op # "none"
        BY <2>1, WalkGoesOnKeeps
      <4>2. Fault \/ NoFault
        BY <2>1, Zenon DEF WalkGoesOn, WalkAbsent, WalkSkipsContent, WalkFile, HasObject,
                    CloneObject, CloneFails, RereadObject, StoreMetadata
      <4> QED
        BY <4>1, <4>2 DEF Fault, NoFault
    <3>2. FilesExact /\ StoreExact
      BY <3>1 DEF WalkExact
    <3>3. ~CloneFails /\ ~RereadObject
      BY <3>2 DEF CloneFails, RereadObject, StoreExact, Fault
    <3> QED
      BY <2>1, <3>2, <3>3, VisitExact, StoreStepExact, MetadataExact DEF WalkGoesOn
  <2>2. CASE WalkFails \/ SaveManifest \/ RestoreWalked
    BY <2>2, NoWalkServesNothing DEF WalkFails, SaveManifest, RestoreWalked
  <2> QED
    BY <1>4, <2>1, <2>2, WalkStepKinds
<1>5. CASE RestoreStep
  <2>1. restore.step \notin {"none", "walk"} /\ UNCHANGED walk
    BY <1>5 DEF RestoreStep, ValidateTargets, RestorePermissions, NextLoop, RestoreFile,
                DeleteSurplus, UnlinkSymlink, RemoveFile, RestoreContinues, RestoreKeeps
  <2> QED
    BY <2>1, NoWalkRuns
<1>6. CASE UserStep
  <2>1. PICK n, X : BeginRestore(n, X)
    BY <1>6 DEF UserStep, ReviewAndRestore, CmdRestore
  <2>2. walk' = NewWalk("restore", X) /\ restore'.excluded = X
    BY <2>1 DEF BeginRestore, NoRestore
  <2>3. WalkFilter' = X
    BY <2>2 DEF WalkFilter, NewWalk
  <2> QED
    BY <2>2, <2>3, NewWalkExact DEF WalkOps
<1>7. CASE Crash
  BY <1>7, NoWalkServesNothing DEF Crash
<1>8. CASE \E p \in Paths, e \in Entry : ExternalChange(p, e)
  BY <1>8 DEF ExternalChange
<1>9. CASE UNCHANGED vars
  BY <1>1, <1>9 DEF vars
<1> QED
  BY <1>2, <1>3, <1>4, <1>5, <1>6, <1>7, <1>8, <1>9 DEF Next, RunStep

\* A walk that is over has seen the whole tree.
LEMMA WalkedAll ==
  ASSUME IndInv, FilesExact, Walked
  PROVE  walk.files = Snapshot(fs, WalkFilter).files /\ walk.links = Snapshot(fs, WalkFilter).links
<1>0. walk.files \in [Paths -> FileState \cup {None}] /\ walk.links \subseteq Paths
  BY DEF IndInv, TypeOK, Walk, FileMap
<1>1. \A p \in Paths : ~Pending(p) /\ p \notin walk.todo
  BY DEF Walked, Pending
<1>2. \A p \in Paths : walk.files[p] = FileOf(fs, WalkFilter, p)
  BY <1>1 DEF FilesExact
<1>3. walk.files = [p \in Paths |-> FileOf(fs, WalkFilter, p)]
  BY <1>0, <1>2
<1>4. walk.links = {p \in Paths : LinkIn(fs, WalkFilter, p)}
  BY <1>0, <1>1 DEF FilesExact
<1> QED
  BY <1>3, <1>4 DEF Snapshot, FileOf, LinkIn

\* A snapshot nobody disturbed is exact when it is saved, and until the next
\* phase.
LEMMA SnapshotStep ==
  ASSUME IndInv, PhaseOrder, WalkExact, UndisturbedSnapshotComplete, [Next]_vars
  PROVE  UndisturbedSnapshotComplete'
<1> SUFFICES ASSUME quiet', phase' \in {"tracked", "finalised"}
             PROVE  LET m == manifests'[Len(manifests')]
                    IN /\ m = Snapshot(fs', SnapExcluded)
                       /\ \A p \in Tracked(m.files) : objects'[m.files[p].hash] # None
  BY DEF UndisturbedSnapshotComplete, Snapshot, Tracked, ReadableFile, Exists, Reachable
<1>1. CASE quiet /\ UNCHANGED <<phase, fs, objects, manifests>>
  BY <1>1 DEF UndisturbedSnapshotComplete
<1>2. CASE SaveManifest
  <2>1. /\ quiet /\ walk.op \in {"baseline", "final"} /\ Walked
        /\ UNCHANGED <<fs, objects>>
        /\ manifests' = Append(manifests, [files |-> walk.files, links |-> walk.links])
    BY <1>2 DEF SaveManifest, NoFault, Walked, IndInv, TypeOK, Walk, WalkOps
  <2>2. WalkFilter = SnapExcluded /\ FilesExact /\ StoreExact
    BY <2>1 DEF WalkFilter, WalkExact
  <2>3. [files |-> walk.files, links |-> walk.links] = Snapshot(fs, SnapExcluded)
    BY <2>1, <2>2, WalkedAll DEF Snapshot
  <2>4. manifests'[Len(manifests')] = [files |-> walk.files, links |-> walk.links]
    BY <2>1 DEF IndInv, TypeOK
  <2>5. \A p \in Tracked(walk.files) : objects[walk.files[p].hash] # None
    BY <2>1, <2>2 DEF StoreExact, Tracked
  <2> QED
    BY <2>1, <2>3, <2>4, <2>5
<1>3. CASE RunStep
  <2>1. phase' \notin {"tracked", "finalised"} \/ (quiet /\ UNCHANGED <<phase, fs, objects, manifests>>)
    BY <1>3 DEF RunStep, CreateBaseline, StartChild, CreateIncremental, SaveSessionMetadata,
                SkipReview, CleanupNewAtomicTempFiles
  <2> QED
    BY <1>1, <2>1
<1>4. CASE WalkStep /\ ~SaveManifest
  <2>1. phase \in {"tracked", "finalised"} => walk.op = "none" /\ walk.step = "next"
    BY NoWalkRuns DEF PhaseOrder
  <2>2. CASE WalkGoesOn
    <3>1. walk.op # "none" \/ walk.step # "next"
      BY <2>2 DEF WalkGoesOn, WalkAbsent, WalkSkipsContent, WalkFile, Visits, HasObject,
                  CloneObject, CloneFails, RereadObject, StoreMetadata
    <3> QED
      BY <2>1, <2>2, <3>1, WalkGoesOnKeeps
  <2>3. CASE WalkFails /\ walk.op # "none"
    BY <2>1, <2>3 DEF WalkFails, EndRestore
  <2>4. CASE RestoreWalked
    BY <2>1, <2>4 DEF RestoreWalked, Walked
  <2> QED
    BY <1>4, <2>2, <2>3, <2>4, WalkStepKinds
<1>5. CASE RestoreStep \/ UserStep
  <2>1. phase \in {"review", "closed"}
    BY <1>5 DEF RestoreStep, ValidateTargets, RestorePermissions, NextLoop, RestoreFile,
                DeleteSurplus, UnlinkSymlink, UserStep, ReviewAndRestore, CmdRestore, PhaseOrder
  <2>2. phase' \in {phase, "cleanup"}
    BY <1>5 DEF RestoreStep, ValidateTargets, RestorePermissions, NextLoop, RestoreFile,
                DeleteSurplus, UnlinkSymlink, RemoveFile, RestoreContinues, EndRestore,
                UserStep, ReviewAndRestore, CmdRestore, BeginRestore
  <2> QED
    BY <2>1, <2>2
<1>6. CASE Crash
  BY <1>6 DEF Crash
<1>7. CASE \E p \in Paths, e \in Entry : ExternalChange(p, e)
  BY <1>7 DEF ExternalChange
<1>8. CASE UNCHANGED vars
  BY <1>1, <1>8 DEF vars
<1> QED
  BY <1>2, <1>3, <1>4, <1>5, <1>6, <1>7, <1>8 DEF Next

-----------------------------------------------------------------------------
\* The restore record changes only in the steps of a restore and around it.
RestoreRecord == <<restore.current, restore.links, restore.excluded, restore.n>>

\* No loop of restore_to goes back to the walk or the validation, or changes
\* what the walk found.
LEMMA LoopsGoForward ==
  ASSUME IndInv, RestoreStep
  PROVE  /\ restore.step \notin {"none", "walk"} /\ restore'.step \notin {"walk", "validate"}
         /\ UNCHANGED <<RestoreRecord, before, objects, manifests>>
<1>0. restore \in Restore
  BY DEF IndInv, TypeOK
<1>1. restore.step \notin {"none", "walk"} /\ UNCHANGED <<before, objects, manifests>>
  BY DEF RestoreStep, ValidateTargets, RestorePermissions, NextLoop, RestoreFile,
         DeleteSurplus, UnlinkSymlink, RemoveFile, RestoreContinues, RestoreKeeps
<1>2. ASSUME NEW p \in Paths, RemoveFile(p), restore.step \in {"delete", "unlink"}
      PROVE  restore'.step \notin {"walk", "validate"} /\ UNCHANGED RestoreRecord
  BY <1>0, <1>2 DEF RemoveFile, RestoreContinues, RestoreRecord, Restore
<1>3. ASSUME NEW result, EndRestore(result)
      PROVE  restore'.step \notin {"walk", "validate"} /\ UNCHANGED RestoreRecord
  BY <1>0, <1>3 DEF EndRestore, RestoreRecord, Restore
<1>4. ASSUME ValidateTargets \/ NextLoop
      PROVE  restore'.step \notin {"walk", "validate"} /\ UNCHANGED RestoreRecord
  BY <1>0, <1>3, <1>4 DEF ValidateTargets, NextLoop, RestoreContinues, RestoreRecord, Restore
<1>5. ASSUME RestorePermissions
      PROVE  restore'.step \notin {"walk", "validate"} /\ UNCHANGED RestoreRecord
  BY <1>0, <1>5 DEF RestorePermissions, RestoreContinues, RestoreRecord, Restore
<1>6. ASSUME NEW p \in Paths, RestoreFile(p)
      PROVE  restore'.step \notin {"walk", "validate"} /\ UNCHANGED RestoreRecord
  BY <1>0, <1>3, <1>6, RestoreFileKinds DEF RestoreContinues, RestoreRecord, Restore
<1>7. ASSUME NEW p \in Paths, DeleteSurplus(p) \/ UnlinkSymlink(p)
      PROVE  restore'.step \notin {"walk", "validate"} /\ UNCHANGED RestoreRecord
  BY <1>0, <1>2, <1>7 DEF DeleteSurplus, UnlinkSymlink, RestoreContinues, RestoreRecord, Restore
<1> QED
  BY <1>1, <1>4, <1>5, <1>6, <1>7 DEF RestoreStep

\* Outside its own steps a restore in progress stays as it is, if nobody
\* disturbs it; the walk hands over to it.
LEMMA RestoreFramed ==
  ASSUME IndInv, PhaseOrder, [Next]_vars, ~RestoreStep, ~UserStep, ~RestoreWalked, quiet',
         restore'.step # "none"
  PROVE  quiet /\ UNCHANGED <<restore, fs, before, manifests>>
<1>0. restore \in Restore
  BY DEF IndInv, TypeOK
<1>1. CASE RunStep
  <2>1. UNCHANGED <<restore, before, manifests>>
    BY <1>1 DEF RunStep, CreateBaseline, StartChild, CreateIncremental, SaveSessionMetadata,
                SkipReview, CleanupNewAtomicTempFiles
  <2>2. phase \in {"review", "closed"}
    BY <2>1 DEF PhaseOrder
  <2>3. SkipReview
    BY <1>1, <2>2 DEF RunStep, CreateBaseline, StartChild, CreateIncremental, SaveSessionMetadata,
                CleanupNewAtomicTempFiles
  <2> QED
    BY <2>1, <2>3 DEF SkipReview
<1>2. CASE WalkStep
  <2>1. CASE WalkGoesOn
    <3>1. Fault \/ NoFault
      BY <2>1, Zenon DEF WalkGoesOn, WalkAbsent, WalkSkipsContent, WalkFile, HasObject,
                  CloneObject, CloneFails, RereadObject, StoreMetadata
    <3> QED
      BY <2>1, <3>1, WalkGoesOnKeeps DEF Fault, NoFault
  <2>2. CASE WalkFails /\ walk.op # "none"
    <3>1. CASE walk.op = "restore"
      BY <1>0, <2>2, <3>1, EndRestoreFields DEF WalkFails
    <3>2. CASE walk.op # "restore"
      <4>1. phase \in {"launch", "exited"} /\ UNCHANGED restore
        BY <2>2, <3>2 DEF WalkFails, PhaseOrder, IndInv, TypeOK, Walk, WalkOps
      <4> QED
        BY <4>1 DEF PhaseOrder
    <3> QED
      BY <3>1, <3>2
  <2>3. CASE SaveManifest
    <3>1. phase \in {"launch", "exited"} /\ UNCHANGED restore
      BY <2>3 DEF SaveManifest, Walked, PhaseOrder, IndInv, TypeOK, Walk, WalkOps
    <3> QED
      BY <3>1 DEF PhaseOrder
  <2> QED
    BY <1>2, <2>1, <2>2, <2>3, WalkStepKinds
<1>3. CASE Crash
  BY <1>3 DEF Crash, NoRestore
<1>4. CASE \E p \in Paths, e \in Entry : ExternalChange(p, e)
  BY <1>4 DEF ExternalChange
<1>5. CASE UNCHANGED vars
  BY <1>5 DEF vars
<1> QED
  BY <1>1, <1>2, <1>3, <1>4, <1>5 DEF Next

\* A step of restore_to nobody disturbs starts undisturbed.
LEMMA QuietBefore == ASSUME RestoreStep, quiet' PROVE quiet
<1>1. Fault \/ NoFault
  BY Zenon DEF RestoreStep, ValidateTargets, RestorePermissions, NextLoop, RestoreFile,
         DeleteSurplus, UnlinkSymlink, RemoveFile
<1> QED
  BY <1>1 DEF Fault, NoFault

\* A restore that begins waits for its walk and remembers the tree.
LEMMA BeginRestoreFields ==
  ASSUME UserStep
  PROVE  restore'.step = "walk" /\ before' = fs /\ UNCHANGED fs /\ outcome' = "none"
<1>1. PICK n, X : BeginRestore(n, X)
  BY DEF UserStep, ReviewAndRestore, CmdRestore
<1> QED
  BY <1>1, NoRestoreType DEF BeginRestore, Restore

\* The walk of a restore hands over what it saw.
LEMMA RestoreWalkedFields ==
  ASSUME IndInv, RestoreWalked
  PROVE  /\ walk.op = "restore" /\ restore.step = "walk" /\ restore'.step = "validate"
         /\ restore'.current = walk.files /\ restore'.links = walk.links
         /\ restore'.excluded = restore.excluded /\ restore'.n = restore.n
         /\ UNCHANGED <<fs, before, quiet, manifests, outcome>>
<1>1. restore \in Restore
  BY DEF IndInv, TypeOK
<1> QED
  BY <1>1 DEF RestoreWalked, IndInv, WalkInv, Restore

\* Nothing changes before every target is validated.
LEMMA BeforeHeldStep ==
  ASSUME IndInv, PhaseOrder, BeforeHeld, [Next]_vars
  PROVE  BeforeHeld'
<1> SUFFICES ASSUME quiet', restore'.step \in {"walk", "validate"}
             PROVE  fs' = before'
  BY DEF BeforeHeld
<1>1. ~RestoreStep
  BY LoopsGoForward
<1>2. CASE UserStep
  BY <1>2, BeginRestoreFields
<1>3. CASE RestoreWalked
  BY <1>3, RestoreWalkedFields DEF BeforeHeld
<1>4. CASE ~UserStep /\ ~RestoreWalked
  BY <1>1, <1>4, RestoreFramed DEF BeforeHeld
<1> QED
  BY <1>2, <1>3, <1>4

\* What the manifest is compared with is a snapshot of the tree found.
LEMMA CurrentExactStep ==
  ASSUME IndInv, PhaseOrder, WalkExact, BeforeHeld, CurrentExact, [Next]_vars
  PROVE  CurrentExact'
<1> SUFFICES ASSUME quiet', restore'.step \notin {"none", "walk"}, NEW p \in Paths
             PROVE  /\ restore'.current[p] = FileOf(before', restore'.excluded, p)
                    /\ p \in restore'.links <=> LinkIn(before', restore'.excluded, p)
  BY DEF CurrentExact, FileOf, LinkIn, ReadableFile, Exists, Reachable
<1>1. CASE RestoreStep
  BY <1>1, LoopsGoForward, QuietBefore DEF CurrentExact, RestoreRecord
<1>2. ~UserStep
  BY BeginRestoreFields
<1>3. CASE RestoreWalked
  <2>1. FilesExact /\ fs = before /\ Walked /\ WalkFilter = restore.excluded
    BY <1>3, RestoreWalkedFields DEF WalkExact, BeforeHeld, RestoreWalked, WalkFilter
  <2>2. p \notin walk.todo /\ ~Pending(p)
    BY <2>1 DEF Walked, Pending
  <2>3. /\ walk.files[p] = FileOf(fs, restore.excluded, p)
        /\ p \in walk.links <=> LinkIn(fs, restore.excluded, p)
    BY <2>1, <2>2 DEF FilesExact
  <2> QED
    BY <1>3, <2>1, <2>3, RestoreWalkedFields
<1>4. CASE ~RestoreStep /\ ~RestoreWalked
  BY <1>2, <1>4, RestoreFramed DEF CurrentExact
<1> QED
  BY <1>1, <1>3, <1>4

\* An entry that is not there is Gone.
LEMMA NoneIsGone ==
  ASSUME NEW e \in Entry
  PROVE  e.kind = "none" => e = Gone
  BY DEF Entry, Gone

\* Writing a file changes that file, and may make the directory it lies in.
LEMMA WriteEffect ==
  ASSUME NEW f \in [Paths -> Entry], Closed(f), NEW p \in Paths, NEW e \in Entry,
         e.kind = "file", f[p].kind # "dir",
         Parent[p] # Root => f[Parent[p]].kind \in {"none", "dir"}
  PROVE  LET g == Put(WithParent(f, p), p, e)
         IN /\ Reachable(WithParent(f, p), p) /\ Reachable(g, p) /\ g[p] = e
            /\ \A q \in Paths \ {p} : \/ g[q] = f[q]
                                      \/ f[q] = Gone /\ g[q] = Directory
<1> DEFINE made == WithParent(f, p)
           g == Put(made, p, e)
<1>1. ASSUME NEW q \in Paths
      PROVE  made[q] = IF Parent[p] # Root /\ q = Parent[p] /\ f[q].kind = "none"
                       THEN Directory ELSE f[q]
  BY Depth DEF WithParent
<1>2. Reachable(made, p)
  BY <1>1, Depth DEF Reachable, Directory
<1> HIDE DEF made
<1>3. ASSUME NEW q \in Paths
      PROVE  g[q] = IF q = p THEN e ELSE IF Parent[q] = p THEN Gone ELSE made[q]
  BY DEF Put
<1> HIDE DEF g
<1>4. ASSUME NEW q \in Paths, q # p, Parent[q] = p PROVE f[q] = Gone
  <2>1. f[q].kind = "none"
    BY <1>4, TreeAssumption DEF Closed, Reachable
  <2> QED
    BY <2>1, NoneIsGone
<1>5. \A q \in Paths \ {p} : g[q] = f[q] \/ (f[q] = Gone /\ g[q] = Directory)
  BY <1>1, <1>3, <1>4, NoneIsGone
<1>6. Parent[p] # Root => g[Parent[p]] = made[Parent[p]]
  BY <1>3, Depth
<1>7. Reachable(g, p)
  BY <1>2, <1>6 DEF Reachable
<1> QED
  BY <1>2, <1>3, <1>5, <1>7 DEF g, made

\* Removing a file or a link changes that entry only.
LEMMA RemoveEffect ==
  ASSUME NEW f \in [Paths -> Entry], Closed(f), NEW p \in Paths, f[p].kind # "dir"
  PROVE  /\ Put(f, p, Gone)[p] = Gone
         /\ \A q \in Paths \ {p} : Put(f, p, Gone)[q] = f[q]
<1>1. ASSUME NEW q \in Paths, q # p, Parent[q] = p PROVE f[q] = Gone
  <2>1. f[q].kind = "none"
    BY <1>1, TreeAssumption DEF Closed, Reachable
  <2> QED
    BY <2>1, NoneIsGone
<1> QED
  BY <1>1 DEF Put, Gone

-----------------------------------------------------------------------------
\* The body of WriteLoop, for the restore in hand.
WriteAt(p) ==
  /\ p \in Tracked(Target.files) /\ p \notin restore.todo => Settled(p)
  /\ p \in restore.todo /\ Parent[p] # Root => fs[Parent[p]].kind # "link"
  /\ Untouched(p) \/ (p \in Tracked(Target.files) /\ Settled(p))

\* Target is the same manifest as long as its number is.
LEMMA SameTarget ==
  ASSUME UNCHANGED <<manifests, restore.n>> PROVE UNCHANGED Target
  BY DEF Target

\* Validation starts the write loop with everything that differs on its list.
LEMMA ValidateStartsLoop ==
  ASSUME IndInv, BeforeHeld, CurrentExact, quiet, ValidateTargets,
         restore'.step \in {"write", "chmod"}, NEW p \in Paths
  PROVE  restore'.step = "write" /\ WriteAt(p)'
<1> DEFINE needed == NeedsRestore(Target, restore.current)
<1>0. restore \in Restore
  BY DEF IndInv, TypeOK
<1>1. restore.step = "validate" /\ UNCHANGED <<fs, before, manifests>>
  BY DEF ValidateTargets, RestoreContinues, RestoreKeeps
<1>2. ~EndRestore("rejected")
  BY <1>0, EndRestoreFields
<1>3. /\ \A q \in needed : ValidRestoreTarget(fs, q)
      /\ restore' = [restore EXCEPT !.step = "write", !.todo = needed]
  BY <1>2 DEF ValidateTargets, RestoreContinues
<1> HIDE DEF needed
<1>4. restore'.step = "write" /\ restore'.todo = needed /\ restore'.n = restore.n
  BY <1>0, <1>3 DEF Restore
<1>5. UNCHANGED Target
  BY <1>1, <1>4, SameTarget
<1>6. fs = before /\ restore.current[p] = FileOf(before, restore.excluded, p)
  BY <1>1 DEF BeforeHeld, CurrentExact
<1>7. ASSUME p \in Tracked(Target.files), p \notin needed PROVE Settled(p)
  <2>1. restore.current[p] # None /\ restore.current[p].hash = Target.files[p].hash
    BY <1>7 DEF needed, NeedsRestore
  <2>2. ReadableFile(fs, p) /\ restore.current[p].hash = fs[p].content
    BY <1>6, <2>1 DEF FileOf
  <2> QED
    BY <2>1, <2>2 DEF Settled, ReadableFile, Exists
<1>8. p \in needed /\ Parent[p] # Root => fs[Parent[p]].kind # "link"
  BY <1>3 DEF ValidRestoreTarget
<1> QED
  BY <1>1, <1>4, <1>5, <1>6, <1>7, <1>8
     DEF WriteAt, Settled, Untouched, Exists, Reachable, Tracked

\* A written file is settled, and no other file is touched.
LEMMA RestoreFileInLoop ==
  ASSUME IndInv, TreesClosed, \A q \in Paths : WriteAt(q), NEW r \in Paths, RestoreFile(r),
         restore'.step \in {"write", "chmod"}, NEW p \in Paths
  PROVE  restore'.at \notin restore'.todo /\ WriteAt(p)'
<1>0. restore \in Restore /\ fs \in [Paths -> Entry]
  BY DEF IndInv, TypeOK
<1>1. ~EndRestore("failed")
  BY <1>0, EndRestoreFields
<1>2. /\ restore.step = "write" /\ r \in restore.todo
      /\ ObjectIntact(Target.files[r].hash)
      /\ Parent[r] # Root => fs[Parent[r]].kind # "file"
      /\ ~(Reachable(Made(r), r) /\ fs[r].kind = "dir")
      /\ fs' = IF Reachable(Made(r), r) THEN Put(Made(r), r, Retrieved(r)) ELSE fs
      /\ restore' = [restore EXCEPT !.step = "chmod", !.todo = @ \ {r}, !.at = r]
      /\ UNCHANGED <<before, manifests>>
  BY <1>1, RestoreFileKinds DEF RestoreContinues, RestoreKeeps
<1>3. restore'.at = r /\ restore'.todo = restore.todo \ {r} /\ restore'.n = restore.n
  BY <1>0, <1>2 DEF Restore
<1>4. UNCHANGED Target
  BY <1>2, <1>3, SameTarget
<1>5. Parent[r] # Root => Parent[r] \in Paths /\ fs[Parent[r]].kind \in {"none", "dir"}
  <2>1. Parent[r] # Root => Parent[r] \in Paths
    BY Depth
  <2>2. Parent[r] # Root => fs[Parent[r]].kind # "link"
    BY <1>2 DEF WriteAt
  <2>3. Parent[r] # Root => fs[Parent[r]].kind \in {"none", "link", "dir", "file"}
    BY <1>0, <2>1 DEF Entry
  <2> QED
    BY <1>2, <2>1, <2>2, <2>3
<1>6. /\ Retrieved(r) \in Entry /\ Retrieved(r).kind = "file"
      /\ Retrieved(r).content = Target.files[r].hash
  BY <1>2, RetrievedType
<1>7. Reachable(Made(r), r)
  BY <1>5, Depth DEF Made, WithParent, Reachable, Directory, IndInv, TypeOK
<1>8. /\ Reachable(fs', r) /\ fs'[r] = Retrieved(r)
      /\ \A q \in Paths \ {r} : fs'[q] = fs[q] \/ (fs[q] = Gone /\ fs'[q] = Directory)
  BY <1>0, <1>2, <1>5, <1>6, <1>7, WriteEffect DEF Made, TreesClosed
<1>9. fs[r].kind # "dir"
  BY <1>2, <1>7
<1>10. ASSUME p # r, Settled(p) PROVE Settled(p)' /\ fs'[p] = fs[p]
  <2>1. fs'[p] = fs[p]
    BY <1>8, <1>10 DEF Settled, Gone
  <2>2. Reachable(fs', p)
    <3>1. Parent[p] # Root => Parent[p] \in Paths /\ fs[Parent[p]].kind = "dir"
      BY <1>10, Depth DEF Settled, Exists, Reachable
    <3> QED
      BY <1>8, <1>9, <3>1 DEF Reachable, Gone
  <2> QED
    BY <1>4, <1>10, <2>1, <2>2 DEF Settled, Exists, Reachable
<1>11. CASE p = r
  <2>1. Settled(p)'
    BY <1>4, <1>6, <1>8, <1>11 DEF Settled, Exists, Reachable
  <2>2. p \in Tracked(Target.files)
    BY <1>2, <1>11 DEF IndInv, RestoreInv
  <2> QED
    BY <1>3, <1>4, <1>11, <2>1, <2>2 DEF WriteAt, Tracked
<1>12. CASE p # r
  <2>1. Parent[p] # Root /\ p \in restore.todo => fs'[Parent[p]].kind # "link"
    <3>1. SUFFICES ASSUME Parent[p] # Root, p \in restore.todo PROVE fs'[Parent[p]].kind # "link"
      OBVIOUS
    <3>2. Parent[p] \in Paths /\ fs[Parent[p]].kind # "link"
      BY <3>1, Depth DEF WriteAt
    <3> QED
      BY <1>6, <1>8, <3>2 DEF Directory
  <2>2. Untouched(p) => Untouched(p)'
    BY <1>2, <1>8, <1>12 DEF Untouched, Gone, Directory
  <2> QED
    BY <1>3, <1>4, <1>10, <1>12, <2>1, <2>2 DEF WriteAt, Tracked
<1> QED
  BY <1>3, <1>11, <1>12

\* Setting the mode of the file just written changes neither its content nor
\* another file.
LEMMA PermissionsInLoop ==
  ASSUME IndInv, \A q \in Paths : WriteAt(q), RestorePermissions,
         restore.at \notin restore.todo, NEW p \in Paths
  PROVE  restore'.step = "write" /\ WriteAt(p)'
<1> DEFINE r == restore.at
<1>0. restore \in Restore /\ fs \in [Paths -> Entry]
  BY DEF IndInv, TypeOK
<1>1. r \in Tracked(Target.files) /\ r \in Paths /\ restore.step = "chmod"
  BY DEF RestorePermissions, IndInv, RestoreInv, Tracked
<1>2. UNCHANGED <<before, manifests>>
  BY DEF RestorePermissions, RestoreContinues, RestoreKeeps
<1>3. restore'.step = "write" /\ restore'.todo = restore.todo /\ restore'.n = restore.n
  BY <1>0 DEF RestorePermissions, RestoreContinues, Restore
<1>4. UNCHANGED Target
  BY <1>2, <1>3, SameTarget
<1>5. Settled(r)
  BY <1>1 DEF WriteAt
<1>6. /\ \A q \in Paths : fs'[q].kind = fs[q].kind
      /\ \A q \in Paths \ {r} : fs'[q] = fs[q]
      /\ fs'[r].content = fs[r].content
  <2>1. CASE fs' = [fs EXCEPT ![r].mode = Target.files[r].mode]
    <3>1. fs[r] \in [kind : {"file"}, content : Contents, mode : Modes]
      BY <1>0, <1>1, <1>5 DEF Entry, Settled
    <3> QED
      BY <1>0, <1>1, <2>1, <3>1
  <2>2. CASE UNCHANGED fs
    BY <2>2
  <2> QED
    BY <2>1, <2>2 DEF RestorePermissions
<1>7. Settled(p) => Settled(p)'
  <2>1. Reachable(fs, p) => Reachable(fs', p)
    BY <1>6, Depth DEF Reachable
  <2> QED
    BY <1>4, <1>6, <2>1 DEF Settled, Exists, Reachable
<1>8. Parent[p] # Root => fs'[Parent[p]].kind = fs[Parent[p]].kind
  BY <1>6, Depth
<1>9. p # r => (Untouched(p) => Untouched(p)')
  BY <1>2, <1>6 DEF Untouched
<1>10. WriteAt(p)
  OBVIOUS
<1> HIDE DEF r
<1>11. CASE p = r
  BY <1>1, <1>3, <1>4, <1>5, <1>7, <1>8, <1>10, <1>11 DEF WriteAt, Tracked
<1>12. CASE p # r
  BY <1>3, <1>4, <1>7, <1>8, <1>9, <1>10, <1>12 DEF WriteAt, Tracked
<1> QED
  BY <1>11, <1>12, <1>3

\* The write loop keeps its invariant.
LEMMA WriteLoopStep ==
  ASSUME IndInv, PhaseOrder, TreesClosed, BeforeHeld, CurrentExact, WriteLoop, [Next]_vars
  PROVE  WriteLoop'
<1> SUFFICES ASSUME quiet', restore'.step \in {"write", "chmod"}
             PROVE  /\ restore'.step = "chmod" => restore'.at \notin restore'.todo
                    /\ \A p \in Paths : WriteAt(p)'
  BY DEF WriteLoop, WriteAt
<1>0. restore \in Restore
  BY DEF IndInv, TypeOK
<1>1. ~UserStep /\ ~RestoreWalked
  BY BeginRestoreFields, RestoreWalkedFields
<1>2. CASE RestoreStep
  <2>0. quiet
    BY <1>2, QuietBefore
  <2>1. restore.step \in {"write", "chmod"} =>
          /\ restore.step = "chmod" => restore.at \notin restore.todo
          /\ \A q \in Paths : WriteAt(q)
    BY <2>0 DEF WriteLoop, WriteAt
  <2>2. CASE ValidateTargets
    <3>1. restore'.step # "chmod"
      BY <1>0, <2>2 DEF ValidateTargets, RestoreContinues, EndRestore, Restore
    <3>2. \A p \in Paths : WriteAt(p)'
      BY <2>0, <2>2, ValidateStartsLoop
    <3> QED
      BY <3>1, <3>2
  <2>3. ASSUME NEW r \in Paths, RestoreFile(r)
        PROVE  restore'.at \notin restore'.todo /\ \A p \in Paths : WriteAt(p)'
    <3>1. restore.step = "write"
      BY <2>3 DEF RestoreFile
    <3> QED
      BY <2>1, <2>3, <3>1, RestoreFileInLoop
  <2>4. CASE RestorePermissions
    <3>1. restore.step = "chmod"
      BY <2>4 DEF RestorePermissions
    <3>2. \A p \in Paths : restore'.step = "write" /\ WriteAt(p)'
      BY <2>1, <2>4, <3>1, PermissionsInLoop
    <3>3. restore'.step = "write"
      BY <1>0, <2>4 DEF RestorePermissions, RestoreContinues, Restore
    <3> QED
      BY <3>2, <3>3
  <2>5. ~NextLoop
    BY <1>0 DEF NextLoop, RestoreContinues, EndRestore, Restore
  <2>6. ASSUME NEW r \in Paths PROVE ~DeleteSurplus(r) /\ ~UnlinkSymlink(r)
    BY <1>0 DEF DeleteSurplus, UnlinkSymlink, RemoveFile, RestoreContinues, Restore
  <2> QED
    BY <1>2, <2>2, <2>3, <2>4, <2>5, <2>6 DEF RestoreStep
<1>3. CASE ~RestoreStep
  <2>1. quiet /\ UNCHANGED <<restore, fs, before, manifests>>
    BY <1>1, <1>3, RestoreFramed
  <2> QED
    BY <2>1 DEF WriteLoop, WriteAt, Settled, Untouched, Exists, Reachable, Tracked, Target
<1> QED
  BY <1>2, <1>3

-----------------------------------------------------------------------------
\* The body of RemoveLoops, for the restore in hand.
RemoveAt(p) ==
  /\ p \in Tracked(Target.files) => Settled(p) /\ p \notin restore.todo
  /\ p \notin Tracked(Target.files) => Untouched(p) \/ fs[p] = Gone
  /\ p \notin Tracked(Target.files) /\ FileOf(fs, restore.excluded, p) # None =>
       restore.step = "delete" /\ p \in restore.todo
  /\ LinkIn(fs, restore.excluded, p) /\ SymlinkNeedsCleanup(Target, p) =>
       restore.step = "delete" \/ p \in restore.todo

\* A file or a link that is still what it was has been seen by the walk.
LEMMA SeenBefore ==
  ASSUME TreesClosed, CurrentExact, quiet, restore.step \notin {"none", "walk"},
         NEW p \in Paths, Untouched(p)
  PROVE  /\ FileOf(fs, restore.excluded, p) # None => restore.current[p] # None
         /\ LinkIn(fs, restore.excluded, p) => p \in restore.links
<1>1. ASSUME fs[p].kind \in {"file", "link"} PROVE fs[p] = before[p] /\ Reachable(before, p)
  BY <1>1 DEF Untouched, Directory, TreesClosed, Closed
<1>2. ASSUME FileOf(fs, restore.excluded, p) # None PROVE restore.current[p] # None
  <2>1. ReadableFile(fs, p) /\ ~Excluded(restore.excluded, p)
    BY <1>2 DEF FileOf
  <2>2. ReadableFile(before, p)
    BY <1>1, <2>1 DEF ReadableFile
  <2>3. restore.current[p] = FileOf(fs, restore.excluded, p)
    BY <1>1, <2>1, <2>2 DEF CurrentExact, FileOf, ReadableFile
  <2> QED
    BY <1>2, <2>3
<1>3. ASSUME LinkIn(fs, restore.excluded, p) PROVE p \in restore.links
  BY <1>1, <1>3 DEF CurrentExact, LinkIn, Exists
<1> QED
  BY <1>2, <1>3

\* NextLoop hands the surplus files, then the surplus links, to the next loop.
LEMMA NextLoopStarts ==
  ASSUME IndInv, TreesClosed, CurrentExact, quiet, NextLoop, NEW p \in Paths,
         restore.step = "write" => WriteAt(p), restore.step = "delete" => RemoveAt(p),
         restore.step # "unlink"
  PROVE  RemoveAt(p)'
<1>0. restore \in Restore
  BY DEF IndInv, TypeOK
<1>1. restore.todo = {} /\ UNCHANGED <<fs, before, manifests>>
  BY DEF NextLoop, RestoreContinues, RestoreKeeps
<1>2. CASE restore.step = "write"
  <2> DEFINE T == Surplus(Target, restore.current)
  <2>1. restore' = [restore EXCEPT !.step = "delete", !.todo = T]
    BY <1>2 DEF NextLoop, RestoreContinues
  <2> HIDE DEF T
  <2>2. /\ restore'.step = "delete" /\ restore'.todo = T
        /\ restore'.n = restore.n /\ restore'.excluded = restore.excluded
    BY <1>0, <2>1 DEF Restore
  <2>3. UNCHANGED Target
    BY <1>1, <2>2, SameTarget
  <2>4. p \in Tracked(Target.files) => Settled(p) /\ p \notin T
    BY <1>1, <1>2 DEF WriteAt, Surplus, T
  <2>5. p \notin Tracked(Target.files) => Untouched(p)
    BY <1>2 DEF WriteAt
  <2>6. p \notin Tracked(Target.files) /\ FileOf(fs, restore.excluded, p) # None => p \in T
    BY <1>2, <2>5, SeenBefore DEF Surplus, Tracked, T
  <2> QED
    BY <1>1, <2>2, <2>3, <2>4, <2>5, <2>6
       DEF RemoveAt, Settled, Untouched, Tracked, FileOf, LinkIn, ReadableFile, Exists, Reachable
<1>3. CASE restore.step = "delete"
  <2> DEFINE T == {q \in restore.links : SymlinkNeedsCleanup(Target, q)}
  <2>1. restore' = [restore EXCEPT !.step = "unlink", !.todo = T]
    BY <1>3 DEF NextLoop, RestoreContinues
  <2>2. p \in Tracked(Target.files) => p \notin T
    BY DEF SymlinkNeedsCleanup
  <2>3. LinkIn(fs, restore.excluded, p) /\ SymlinkNeedsCleanup(Target, p) => p \in T
    <3>1. SUFFICES ASSUME LinkIn(fs, restore.excluded, p), SymlinkNeedsCleanup(Target, p)
                   PROVE  p \in restore.links
      OBVIOUS
    <3>2. Untouched(p)
      BY <1>3, <3>1 DEF RemoveAt, SymlinkNeedsCleanup, LinkIn, Gone
    <3> QED
      BY <1>3, <3>1, <3>2, SeenBefore
  <2> HIDE DEF T
  <2>4. /\ restore'.step = "unlink" /\ restore'.todo = T
        /\ restore'.n = restore.n /\ restore'.excluded = restore.excluded
    BY <1>0, <2>1 DEF Restore
  <2>5. UNCHANGED Target
    BY <1>1, <2>4, SameTarget
  <2>6. /\ p \in Tracked(Target.files) => Settled(p)
        /\ p \notin Tracked(Target.files) => Untouched(p) \/ fs[p] = Gone
        /\ p \notin Tracked(Target.files) => FileOf(fs, restore.excluded, p) = None
    BY <1>1, <1>3 DEF RemoveAt
  <2> QED
    BY <1>1, <2>2, <2>3, <2>4, <2>5, <2>6
       DEF RemoveAt, Settled, Untouched, Tracked, FileOf, LinkIn, ReadableFile, Exists, Reachable,
           SymlinkNeedsCleanup
<1> QED
  BY <1>2, <1>3 DEF NextLoop

\* What a step of a removal loop does to its list and to the tree.
LEMMA RemovalKinds ==
  ASSUME IndInv, NEW r \in Paths, DeleteSurplus(r) \/ UnlinkSymlink(r), quiet, quiet'
  PROVE  /\ restore.step \in {"delete", "unlink"} /\ r \in restore.todo
         /\ restore'.step = restore.step /\ restore'.todo = restore.todo \ {r}
         /\ restore'.n = restore.n /\ restore'.excluded = restore.excluded
         /\ UNCHANGED <<before, manifests>>
         /\ \/ Exists(fs, r) /\ fs[r].kind # "dir" /\ fs' = Put(fs, r, Gone)
            \/ UNCHANGED fs /\ (~Exists(fs, r) \/ fs[r].kind = "dir")
<1>0. restore \in Restore
  BY DEF IndInv, TypeOK
<1>1. restore.step \in {"delete", "unlink"} /\ r \in restore.todo
  BY DEF DeleteSurplus, UnlinkSymlink
<1>2. ~Fault
  BY DEF Fault
<1>3. ~ValidRestoreTarget(fs, r) => ~Exists(fs, r)
  BY DEF ValidRestoreTarget, Exists, Reachable
<1>4. \/ /\ Exists(fs, r) /\ fs[r].kind # "dir" /\ fs' = Put(fs, r, Gone)
         /\ RestoreContinues([restore EXCEPT !.todo = @ \ {r},
                                             !.applied = @ \cup {<<r, "Deleted">>}])
      \/ /\ UNCHANGED fs /\ (~Exists(fs, r) \/ fs[r].kind = "dir")
         /\ RestoreContinues([restore EXCEPT !.todo = @ \ {r}])
  BY <1>2, <1>3, Zenon DEF DeleteSurplus, UnlinkSymlink, RemoveFile
<1>5. /\ restore'.step = restore.step /\ restore'.todo = restore.todo \ {r}
      /\ restore'.n = restore.n /\ restore'.excluded = restore.excluded
      /\ UNCHANGED <<before, manifests>>
  BY <1>0, <1>4 DEF RestoreContinues, RestoreKeeps, Restore
<1> QED
  BY <1>1, <1>4, <1>5

\* Removing a surplus file or link settles it and disturbs no other.
LEMMA RemovalInLoop ==
  ASSUME IndInv, TreesClosed, quiet, quiet', NEW r \in Paths,
         DeleteSurplus(r) \/ UnlinkSymlink(r), NEW p \in Paths, RemoveAt(p), RemoveAt(r)
  PROVE  RemoveAt(p)'
<1>0. fs \in [Paths -> Entry]
  BY DEF IndInv, TypeOK
<1>1. /\ restore.step \in {"delete", "unlink"} /\ r \in restore.todo
      /\ restore'.step = restore.step /\ restore'.todo = restore.todo \ {r}
      /\ restore'.n = restore.n /\ restore'.excluded = restore.excluded
      /\ UNCHANGED <<before, manifests>>
  BY RemovalKinds
<1>2. UNCHANGED Target
  BY <1>1, SameTarget
<1>3. r \notin Tracked(Target.files)
  BY <1>1 DEF RemoveAt
<1>4. CASE Exists(fs, r) /\ fs[r].kind # "dir" /\ fs' = Put(fs, r, Gone)
  <2>1. fs'[r] = Gone /\ \A q \in Paths \ {r} : fs'[q] = fs[q]
    BY <1>0, <1>4, RemoveEffect DEF TreesClosed
  <2>2. ASSUME p # r PROVE fs'[p] = fs[p] /\ (Reachable(fs', p) <=> Reachable(fs, p))
    BY <1>4, <2>1, <2>2, Depth DEF Reachable, Gone
  <2>3. CASE p = r
    BY <1>1, <1>2, <1>3, <2>1, <2>3
       DEF RemoveAt, Tracked, FileOf, LinkIn, ReadableFile, Exists, Reachable, Gone
  <2>4. CASE p # r
    BY <1>1, <1>2, <2>2, <2>4
       DEF RemoveAt, Settled, Untouched, Tracked, FileOf, LinkIn, ReadableFile, Exists, Reachable,
           SymlinkNeedsCleanup
  <2> QED
    BY <2>3, <2>4
<1>5. CASE UNCHANGED fs /\ (~Exists(fs, r) \/ fs[r].kind = "dir")
  <2>1. ~LinkIn(fs, restore.excluded, r) /\ FileOf(fs, restore.excluded, r) = None
    BY <1>5 DEF LinkIn, FileOf, ReadableFile, Exists
  <2> QED
    BY <1>1, <1>2, <1>5, <2>1
       DEF RemoveAt, Settled, Untouched, Tracked, FileOf, LinkIn, ReadableFile, Exists, Reachable,
           SymlinkNeedsCleanup
<1> QED
  BY <1>4, <1>5, RemovalKinds

\* The removal loops keep their invariant.
LEMMA RemoveLoopsStep ==
  ASSUME IndInv, PhaseOrder, TreesClosed, CurrentExact, WriteLoop, RemoveLoops, [Next]_vars
  PROVE  RemoveLoops'
<1> SUFFICES ASSUME quiet', restore'.step \in {"delete", "unlink"}, NEW p \in Paths
             PROVE  RemoveAt(p)'
  BY DEF RemoveLoops, RemoveAt
<1>0. restore \in Restore
  BY DEF IndInv, TypeOK
<1>1. ~UserStep /\ ~RestoreWalked
  BY BeginRestoreFields, RestoreWalkedFields
<1>2. CASE RestoreStep
  <2>0. quiet
    BY <1>2, QuietBefore
  <2>1. /\ restore.step \in {"delete", "unlink"} => \A q \in Paths : RemoveAt(q)
        /\ restore.step = "write" => WriteAt(p)
    BY <2>0 DEF RemoveLoops, RemoveAt, WriteLoop, WriteAt
  <2>2. ~ValidateTargets /\ ~RestorePermissions
    BY <1>0 DEF ValidateTargets, RestorePermissions, RestoreContinues, EndRestore, Restore
  <2>3. ASSUME NEW r \in Paths PROVE ~RestoreFile(r)
    BY <1>0, RestoreFileKinds, EndRestoreFields DEF RestoreContinues, Restore
  <2>4. CASE NextLoop
    <3>1. restore.step # "unlink"
      BY <1>0, <2>4, EndRestoreFields DEF NextLoop
    <3> QED
      BY <2>0, <2>1, <2>4, <3>1, NextLoopStarts
  <2>5. ASSUME NEW r \in Paths, DeleteSurplus(r) \/ UnlinkSymlink(r) PROVE RemoveAt(p)'
    <3>1. restore.step \in {"delete", "unlink"}
      BY <2>5 DEF DeleteSurplus, UnlinkSymlink
    <3> QED
      BY <2>0, <2>1, <2>5, <3>1, RemovalInLoop
  <2> QED
    BY <1>2, <2>2, <2>3, <2>4, <2>5 DEF RestoreStep
<1>3. CASE ~RestoreStep
  <2>1. quiet /\ UNCHANGED <<restore, fs, before, manifests>>
    BY <1>1, <1>3, RestoreFramed
  <2> QED
    BY <2>1 DEF RemoveLoops, RemoveAt, Settled, Untouched, Tracked, Target, FileOf, LinkIn,
                ReadableFile, Exists, Reachable, SymlinkNeedsCleanup
<1> QED
  BY <1>2, <1>3

-----------------------------------------------------------------------------
\* A restore in progress, too, has left every path old or new.
LEMMA AtomicFromLoops ==
  ASSUME IndInv, PhaseOrder, BeforeHeld, WriteLoop, RemoveLoops, quiet, restore.step # "none",
         NEW p \in Paths
  PROVE  OldOrNew(p)
<1>0. restore \in Restore /\ outcome = "none"
  BY DEF IndInv, TypeOK, PhaseOrder
<1>1. CASE restore.step \in {"walk", "validate"}
  BY <1>1 DEF BeforeHeld, OldOrNew
<1>2. CASE restore.step \in {"write", "chmod"}
  BY <1>0, <1>2 DEF WriteLoop, OldOrNew, Untouched, Settled
<1>3. CASE restore.step \in {"delete", "unlink"}
  BY <1>0, <1>3 DEF RemoveLoops, OldOrNew, Untouched, Settled
<1> QED
  BY <1>0, <1>1, <1>2, <1>3 DEF Restore

\* Outside the steps of a restore and of its walk, how it ended and the tree it
\* left stay as they are until the process or the next restore forgets it.
LEMMA OutcomeFramed ==
  ASSUME IndInv, PhaseOrder, [Next]_vars, ~RestoreStep, quiet', outcome' # "none",
         ~(WalkFails /\ walk.op = "restore")
  PROVE  /\ quiet /\ outcome # "none"
         /\ UNCHANGED <<restore, fs, before, manifests, outcome>>
<1>1. CASE RunStep
  <2>1. ~CleanupNewAtomicTempFiles
    BY DEF CleanupNewAtomicTempFiles
  <2>2. UNCHANGED <<restore, fs, before, manifests, outcome>>
    BY <1>1, <2>1 DEF RunStep, CreateBaseline, StartChild, CreateIncremental,
                      SaveSessionMetadata, SkipReview
  <2>3. phase \in {"cleanup", "closed"}
    BY <2>2 DEF PhaseOrder
  <2> QED
    BY <1>1, <2>1, <2>3 DEF RunStep, CreateBaseline, StartChild, CreateIncremental,
                       SaveSessionMetadata, SkipReview
<1>2. CASE WalkStep
  <2>1. UNCHANGED outcome
    <3>1. CASE WalkFails
      BY <3>1 DEF WalkFails
    <3> QED
      BY <1>2, <3>1, WalkStepKinds, WalkGoesOnKeeps DEF SaveManifest, RestoreWalked
  <2>2. phase \in {"cleanup", "closed"} /\ restore.step = "none"
    BY <2>1 DEF PhaseOrder
  <2>3. walk.op = "none" /\ walk.step = "next"
    BY <2>2 DEF PhaseOrder, IndInv, WalkInv, TypeOK, Walk, WalkOps
  <2> QED
    BY <1>2, <2>3 DEF WalkStep, WalkAbsent, WalkSkipsContent, WalkFile, WalkOverBudget, Visits,
                HasObject, CloneObject, CloneFails, RereadObject, StoreMetadata, SaveManifest,
                SaveManifestFails, RestoreWalked, Walked
<1>3. ~UserStep
  BY BeginRestoreFields
<1>4. ~Crash
  BY DEF Crash
<1>5. CASE \E p \in Paths, e \in Entry : ExternalChange(p, e)
  BY <1>5 DEF ExternalChange
<1>6. CASE UNCHANGED vars
  BY <1>6 DEF vars
<1> QED
  BY <1>1, <1>2, <1>3, <1>4, <1>5, <1>6 DEF Next

\* The steps that end a restore: a target is refused, a file cannot be written,
\* or the last loop is through.
LEMMA RestoreEnds ==
  ASSUME IndInv, PhaseOrder, RestoreStep, outcome' # "none"
  PROVE  \/ restore.step = "validate" /\ UNCHANGED fs /\ EndRestore("rejected")
         \/ /\ restore.step = "write" /\ EndRestore("failed")
            /\ \E r \in Paths : fs' = Made(r)
         \/ /\ restore.step = "unlink" /\ restore.todo = {} /\ UNCHANGED fs
            /\ EndRestore("ok")
<1>1. outcome = "none"
  BY LoopsGoForward DEF PhaseOrder
<1>2. CASE ValidateTargets
  BY <1>1, <1>2 DEF ValidateTargets, RestoreContinues
<1>3. ~RestorePermissions
  BY <1>1 DEF RestorePermissions, RestoreContinues
<1>4. CASE NextLoop
  BY <1>1, <1>4 DEF NextLoop, RestoreContinues
<1>5. ASSUME NEW r \in Paths, RestoreFile(r)
      PROVE  restore.step = "write" /\ EndRestore("failed") /\ fs' = Made(r)
  BY <1>1, <1>5, RestoreFileKinds DEF RestoreContinues
<1>6. ASSUME NEW r \in Paths PROVE ~DeleteSurplus(r) /\ ~UnlinkSymlink(r)
  BY <1>1 DEF DeleteSurplus, UnlinkSymlink, RemoveFile, RestoreContinues
<1> QED
  BY <1>2, <1>3, <1>4, <1>5, <1>6 DEF RestoreStep

\* An ended restore left every path old or new.
LEMMA EndedAtomicallyStep ==
  ASSUME IndInv, PhaseOrder, BeforeHeld, WriteLoop, RemoveLoops, EndedAtomically, [Next]_vars
  PROVE  EndedAtomically'
<1> SUFFICES ASSUME quiet', outcome' # "none", NEW p \in Paths
             PROVE  OldOrNew(p)'
  BY DEF EndedAtomically
<1>0. restore \in Restore /\ fs \in [Paths -> Entry]
  BY DEF IndInv, TypeOK
<1>1. CASE RestoreStep
  <2>1. quiet /\ restore.step # "none" /\ UNCHANGED <<before, manifests, restore.n>>
    BY <1>1, QuietBefore, LoopsGoForward DEF RestoreRecord
  <2>2. UNCHANGED Target /\ OldOrNew(p)
    BY <2>1, SameTarget, AtomicFromLoops
  <2>3. CASE restore.step = "validate" /\ UNCHANGED fs
    BY <2>1, <2>3 DEF BeforeHeld, OldOrNew
  <2>4. ASSUME restore.step = "write", EndRestore("failed"), NEW r \in Paths, fs' = Made(r)
        PROVE  OldOrNew(p)'
    <3>1. outcome' = "failed"
      BY <2>4 DEF EndRestore
    <3>2. fs'[p] = fs[p] \/ (fs[p] = Gone /\ fs'[p] = Directory)
      BY <1>0, <2>4, NoneIsGone DEF Made, WithParent
    <3>3. CASE fs'[p] = fs[p]
      BY <2>1, <2>2, <3>1, <3>3 DEF OldOrNew, Tracked
    <3>4. CASE fs[p] = Gone /\ fs'[p] = Directory
      <4>1. before[p] = Gone
        BY <2>1, <2>4, <3>4 DEF WriteLoop, Untouched, Settled, Gone, Directory
      <4> QED
        BY <2>1, <3>1, <3>4, <4>1 DEF OldOrNew
    <3> QED
      BY <3>2, <3>3, <3>4
  <2>5. CASE UNCHANGED fs /\ EndRestore("ok")
    <3>1. outcome' = "ok"
      BY <2>5 DEF EndRestore
    <3> QED
      BY <2>1, <2>2, <2>5, <3>1 DEF OldOrNew, Tracked
  <2> QED
    BY <1>1, <2>3, <2>4, <2>5, RestoreEnds
<1>2. CASE WalkFails /\ walk.op = "restore"
  <2>1. restore.step = "walk" /\ UNCHANGED <<fs, before>> /\ outcome = "none"
    BY <1>2 DEF WalkFails, IndInv, WalkInv, PhaseOrder
  <2>2. ~RunStep /\ ~UserStep /\ ~Crash
    BY <2>1, BeginRestoreFields
       DEF RunStep, CreateBaseline, StartChild, CreateIncremental, SaveSessionMetadata,
           SkipReview, CleanupNewAtomicTempFiles, Crash
  <2>3. ~\E q \in Paths, e \in Entry : ExternalChange(q, e)
    BY DEF ExternalChange
  <2>4. WalkStep
    BY <2>1, <2>2, <2>3, LoopsGoForward DEF Next, vars
  <2>5. Fault \/ NoFault \/ UNCHANGED quiet
    BY <2>4, Zenon DEF WalkStep, WalkAbsent, WalkSkipsContent, WalkFile, WalkOverBudget,
         HasObject, CloneObject, CloneFails, RereadObject, StoreMetadata, SaveManifest,
         SaveManifestFails, RestoreWalked
  <2>6. quiet
    BY <2>5 DEF Fault, NoFault
  <2> QED
    BY <2>1, <2>6 DEF BeforeHeld, OldOrNew
<1>3. CASE ~RestoreStep /\ ~(WalkFails /\ walk.op = "restore")
  BY <1>3, OutcomeFramed DEF EndedAtomically, OldOrNew, Tracked, Target
<1> QED
  BY <1>1, <1>2, <1>3

\* A restore that nobody disturbed and that succeeds has reached its manifest.
LEMMA ReachesStep ==
  ASSUME IndInv, PhaseOrder, RemoveLoops, RestoreReachesManifest, [Next]_vars
  PROVE  RestoreReachesManifest'
<1> DEFINE ReachedAt(p) ==
      /\ p \in Tracked(Target.files) => Settled(p)
      /\ p \notin Tracked(Target.files) /\ ~Excluded(restore.excluded, p) => ~ReadableFile(fs, p)
      /\ LinkIn(fs, restore.excluded, p) => p \in Target.links
<1> SUFFICES ASSUME quiet', outcome' = "ok", NEW p \in Paths
             PROVE  ReachedAt(p)'
  BY DEF RestoreReachesManifest, Settled, LinkIn
<1>0. restore \in Restore /\ fs \in [Paths -> Entry]
  BY DEF IndInv, TypeOK
<1>1. CASE RestoreStep
  <2>1. quiet /\ UNCHANGED <<before, manifests, restore.n, restore.excluded>>
    BY <1>1, QuietBefore, LoopsGoForward DEF RestoreRecord
  <2>2. UNCHANGED Target
    BY <2>1, SameTarget
  <2>3. restore.step = "unlink" /\ restore.todo = {} /\ UNCHANGED fs
    BY <1>1, RestoreEnds DEF EndRestore
  <2>4. RemoveAt(p)
    BY <2>1, <2>3 DEF RemoveLoops, RemoveAt
  <2>5. p \in Tracked(Target.files) => Settled(p)
    BY <2>4 DEF RemoveAt
  <2>6. ASSUME p \notin Tracked(Target.files), ~Excluded(restore.excluded, p), ReadableFile(fs, p)
        PROVE  FALSE
    <3>1. FileOf(fs, restore.excluded, p) = [hash |-> fs[p].content, mode |-> fs[p].mode]
      BY <2>6 DEF FileOf
    <3>2. fs[p].content \in Contents /\ fs[p].mode \in Modes
      BY <1>0, <2>6 DEF ReadableFile, Entry
    <3>3. FileOf(fs, restore.excluded, p) \in FileState
      BY <3>1, <3>2 DEF FileState
    <3> QED
      BY <2>3, <2>4, <2>6, <3>3, NoneAssumption DEF RemoveAt
  <2>7. ASSUME LinkIn(fs, restore.excluded, p), p \notin Target.links PROVE FALSE
    <3>1. p \notin Tracked(Target.files)
      BY <2>5, <2>7 DEF LinkIn, Settled
    <3> QED
      BY <2>3, <2>4, <2>7, <3>1 DEF RemoveAt, SymlinkNeedsCleanup
  <2> QED
    BY <2>1, <2>2, <2>3, <2>5, <2>6, <2>7
       DEF Settled, LinkIn, ReadableFile, Exists, Reachable, Tracked
<1>2. CASE ~RestoreStep
  <2>1. ~(WalkFails /\ walk.op = "restore")
    BY DEF WalkFails, EndRestore
  <2>2. /\ quiet /\ outcome = "ok"
        /\ UNCHANGED <<restore, fs, before, manifests>>
    BY <1>2, <2>1, OutcomeFramed
  <2>3. ReachedAt(p)
    BY <2>2 DEF RestoreReachesManifest, PhaseOrder, Settled, LinkIn
  <2> QED
    BY <2>2, <2>3 DEF Settled, LinkIn, ReadableFile, Exists, Reachable, Tracked, Target
<1> QED
  BY <1>1, <1>2

-----------------------------------------------------------------------------
\* What undisturbed operations have seen and done holds at every step: walks
\* have recorded what they passed, the write loop has settled what is off its
\* list, the removal loops have left no surplus that is off theirs.
THEOREM QuietInvariant == Spec => [](IndInv /\ QuietInv)
<1>1. Init => QuietInv
  <2> SUFFICES ASSUME Init PROVE QuietInv
    OBVIOUS
  <2>1. /\ walk.op = "none" /\ walk.step = "next" /\ restore.step = "none" /\ outcome = "none"
        /\ phase = "launch"
    BY NoWalkServesNothing DEF Init, NoRestore
  <2>2. TreesClosed
    BY DEF Init, TreesClosed, Closed
  <2> QED
    BY <2>1, <2>2 DEF QuietInv, PhaseOrder, WalkExact, BeforeHeld, CurrentExact, WriteLoop,
                      RemoveLoops, EndedAtomically, UndisturbedSnapshotComplete,
                      RestoreReachesManifest
<1>2. IndInv /\ IndInv' /\ QuietInv /\ [Next]_vars => QuietInv'
  <2> SUFFICES ASSUME IndInv, IndInv', QuietInv, [Next]_vars PROVE QuietInv'
    OBVIOUS
  <2>1. fs' \in [Paths -> Entry]
    BY DEF IndInv, TypeOK
  <2>2. PhaseOrder' /\ TreesClosed'
    BY <2>1, PhaseOrderStep, TreesClosedStep DEF QuietInv
  <2>3. WalkExact' /\ UndisturbedSnapshotComplete'
    BY WalkExactStep, SnapshotStep DEF QuietInv
  <2>4. BeforeHeld' /\ CurrentExact' /\ WriteLoop' /\ RemoveLoops'
    BY BeforeHeldStep, CurrentExactStep, WriteLoopStep, RemoveLoopsStep DEF QuietInv
  <2>5. EndedAtomically' /\ RestoreReachesManifest'
    BY EndedAtomicallyStep, ReachesStep DEF QuietInv
  <2> QED
    BY <2>2, <2>3, <2>4, <2>5 DEF QuietInv
<1> QED
  BY <1>1, <1>2, UndoInvariant, PTL DEF Spec

\* walk_and_store and save_manifest: a snapshot nobody disturbed records the
\* readable, unexcluded files and links of the tree, and each hash it records
\* has an object.
THEOREM SnapshotsComplete == Spec => []UndisturbedSnapshotComplete
<1>1. QuietInv => UndisturbedSnapshotComplete
  BY DEF QuietInv
<1> QED
  BY <1>1, QuietInvariant, PTL

\* restore_to: when it returns Ok undisturbed, every file of the manifest has
\* its content and nothing its walk can see is left that the manifest lacks.
THEOREM RestoresReachManifest == Spec => []RestoreReachesManifest
<1>1. QuietInv => RestoreReachesManifest
  BY DEF QuietInv
<1> QED
  BY <1>1, QuietInvariant, PTL

\* restore_to: wherever an undisturbed restore stops, each path is as it was or
\* as the manifest wants it, and a rejected restore has changed nothing.
THEOREM RestoresAtomic == Spec => []RestoreAtomicPerFile
<1>1. IndInv /\ QuietInv => RestoreAtomicPerFile
  <2> SUFFICES ASSUME IndInv, QuietInv, quiet, restore.step # "none" \/ outcome # "none",
                      NEW p \in Paths
               PROVE  OldOrNew(p)
    BY DEF RestoreAtomicPerFile, OldOrNew
  <2>1. CASE restore.step # "none"
    BY <2>1, AtomicFromLoops DEF QuietInv
  <2>2. CASE outcome # "none"
    BY <2>2 DEF QuietInv, EndedAtomically
  <2> QED
    BY <2>1, <2>2
<1> QED
  BY <1>1, QuietInvariant, PTL

-----------------------------------------------------------------------------
\* A session in whose tree nobody else writes, with one failed system call at
\* most, restored through the filter of its snapshots.
Idle == writes = 0 /\ faults < 2 /\ RestoreExcluded = SnapExcluded

Present == {p \in Paths : ~Excluded(SnapExcluded, p) /\ Exists(fs, p)}
Passed == {p \in Paths : ~Excluded(WalkFilter, p) /\ Exists(fs, p) /\ p \notin walk.todo}

\* The one failure may have sent the walk to read a file again.
StoreRetried ==
  /\ walk.step = "reread" /\ faults # 0
  /\ walk.at \notin walk.todo /\ ~Excluded(WalkFilter, walk.at)
  /\ ReadableFile(fs, walk.at) /\ walk.hash = fs[walk.at].content
  /\ walk.op # "restore"
  /\ \A p \in Paths : walk.files[p] # None => objects[walk.files[p].hash] # None

\* A walk has recorded what it has passed and counted it.
IdleWalk ==
  walk.op # "none" =>
    /\ FilesExact /\ (StoreExact \/ StoreRetried)
    /\ IsFiniteSet(Passed) /\ walk.entries = Cardinality(Passed) + 1
    /\ MaxEntries > 0 => walk.entries <= MaxEntries

\* Every snapshot is the same one.
IdleManifests == \A i \in DOMAIN manifests : manifests[i] = Snapshot(fs, SnapExcluded)

\* The tree fits the budget, and the temp files there are were there before.
IdleTemps ==
  phase \in {"tracked", "running", "exited", "finalised", "review", "cleanup"} =>
    /\ CheckBudget(Cardinality(Present) + 1, 0)
    /\ phase # "tracked" => tempBefore = CollectAtomicTempFiles(fs, Present)

\* A restore finds nothing to do.
IdleRestore ==
  /\ restore.step # "none" => restore.excluded = SnapExcluded
  /\ restore.step \notin {"none", "walk"} =>
       /\ restore.current = Snapshot(fs, SnapExcluded).files
       /\ restore.links = Snapshot(fs, SnapExcluded).links
  /\ restore.step # "chmod"
  /\ restore.step \in {"write", "delete", "unlink"} => restore.todo = {}

IdleParts == fs = before /\ IdleWalk /\ IdleManifests /\ IdleTemps /\ IdleRestore

\* Once disturbed, always disturbed.
LEMMA FaultsGrow ==
  ASSUME TypeOK, Fault \/ NoFault
  PROVE  faults' >= faults /\ faults' \in Nat
  BY DataAssumption DEF Fault, NoFault, TypeOK

LEMMA IdleBefore ==
  ASSUME IndInv, [Next]_vars, Idle'
  PROVE  /\ Idle /\ UNCHANGED writes /\ faults \in Nat /\ faults' >= faults
         /\ ~\E p \in Paths, e \in Entry : ExternalChange(p, e)
<1>0. TypeOK /\ writes \in Nat /\ faults \in Nat
  BY DataAssumption DEF IndInv, TypeOK
<1>1. ASSUME RunStep PROVE UNCHANGED writes /\ faults' >= faults /\ faults' \in Nat
  <2>1. UNCHANGED writes /\ (Fault \/ NoFault \/ UNCHANGED faults)
    BY <1>1, Zenon
       DEF RunStep, CreateBaseline, StartChild, CreateIncremental, SaveSessionMetadata,
                SkipReview, CleanupNewAtomicTempFiles
  <2> QED
    BY <1>0, <2>1, FaultsGrow
<1>2. ASSUME WalkStep PROVE UNCHANGED writes /\ faults' >= faults /\ faults' \in Nat
  <2>1. (Fault \/ NoFault \/ UNCHANGED faults)
    BY <1>2, Zenon
       DEF WalkStep, WalkAbsent, WalkSkipsContent, WalkFile, WalkOverBudget, HasObject,
                CloneObject, CloneFails, RereadObject, StoreMetadata, SaveManifest,
                SaveManifestFails, RestoreWalked
  <2>2. UNCHANGED writes
    BY <1>2 DEF WalkStep, WalkAbsent, WalkSkipsContent, WalkFile, WalkOverBudget, HasObject,
                CloneObject, CloneFails, RereadObject, StoreMetadata, SaveManifest,
                SaveManifestFails, RestoreWalked, WalkFails, WalkContinues
  <2> QED
    BY <1>0, <2>1, <2>2, FaultsGrow
<1>3. ASSUME RestoreStep PROVE UNCHANGED writes /\ faults' >= faults /\ faults' \in Nat
  <2>1. Fault \/ NoFault
    BY <1>3, Zenon DEF RestoreStep, ValidateTargets, RestorePermissions, NextLoop, RestoreFile,
         DeleteSurplus, UnlinkSymlink, RemoveFile
  <2>2. UNCHANGED writes
    BY <1>3 DEF RestoreStep, ValidateTargets, RestorePermissions, NextLoop, RestoreFile,
         DeleteSurplus, UnlinkSymlink, RemoveFile, RestoreContinues, RestoreKeeps
  <2> QED
    BY <1>0, <2>1, <2>2, FaultsGrow
<1>4. ASSUME UserStep \/ Crash \/ UNCHANGED vars PROVE UNCHANGED writes /\ faults' >= faults /\ faults' \in Nat
  <2>1. UNCHANGED <<writes, faults>>
    BY <1>4 DEF UserStep, ReviewAndRestore, CmdRestore, BeginRestore, Crash, vars
  <2> QED
    BY <1>0, <2>1
<1>5. (\E p \in Paths, e \in Entry : ExternalChange(p, e)) => writes' = writes + 1
  BY DEF ExternalChange
<1>6. UNCHANGED writes /\ faults' >= faults /\ faults' \in Nat
  BY <1>0, <1>1, <1>2, <1>3, <1>4, <1>5 DEF Next, Idle
<1>7. faults' < 2 /\ writes' = 0 /\ RestoreExcluded = SnapExcluded
  BY DEF Idle
<1>8. faults < 2
  BY <1>0, <1>6, <1>7
<1> QED
  BY <1>0, <1>5, <1>6, <1>7, <1>8 DEF Idle

\* What a scan of a tree within the budget sees.
LEMMA ScanSeesAll ==
  ASSUME CheckBudget(Cardinality(Present) + 1, 0), NEW seen \in Scans(fs)
  PROVE  seen = Present
  BY DEF Scans, Present

\* Nothing nono does changes the tree of an idle session.
LEMMA IdleTree ==
  ASSUME IndInv, PhaseOrder, IdleParts, [Next]_vars,
         ~\E p \in Paths, e \in Entry : ExternalChange(p, e)
  PROVE  fs' = fs /\ fs' = before'
<1>0. fs = before /\ fs \in [Paths -> Entry]
  BY DEF IdleParts, IndInv, TypeOK
<1>1. CASE CleanupNewAtomicTempFiles
  <2>1. PICK seen \in Scans(fs) :
          \E failed \in SUBSET (CollectAtomicTempFiles(fs, seen) \ tempBefore) :
            fs' = [p \in Paths |->
                     IF p \in (CollectAtomicTempFiles(fs, seen) \ tempBefore) \ failed
                     THEN Gone ELSE fs[p]]
    BY <1>1 DEF CleanupNewAtomicTempFiles
  <2>2. phase = "cleanup" /\ before' = before
    BY <1>1 DEF CleanupNewAtomicTempFiles
  <2>3. seen = Present /\ tempBefore = CollectAtomicTempFiles(fs, Present)
    BY <2>2, ScanSeesAll DEF IdleParts, IdleTemps
  <2>4. fs' = [p \in Paths |-> fs[p]]
    BY <2>1, <2>3
  <2> QED
    BY <1>0, <2>2, <2>4
<1>2. CASE RunStep /\ ~CleanupNewAtomicTempFiles
  BY <1>0, <1>2 DEF RunStep, CreateBaseline, StartChild, CreateIncremental, SaveSessionMetadata,
                    SkipReview
<1>3. CASE WalkStep
  BY <1>0, <1>3 DEF WalkStep, WalkAbsent, WalkSkipsContent, WalkFile, WalkOverBudget, HasObject,
                    CloneObject, CloneFails, RereadObject, StoreMetadata, SaveManifest,
                    SaveManifestFails, RestoreWalked, WalkFails, WalkContinues
<1>4. CASE RestoreStep
  <2>1. restore.step # "chmod" /\ (restore.step \in {"write", "delete", "unlink"} => restore.todo = {})
    BY DEF IdleParts, IdleRestore
  <2>2. ValidateTargets \/ NextLoop
    BY <1>4, <2>1 DEF RestoreStep, RestorePermissions, RestoreFile, DeleteSurplus, UnlinkSymlink
  <2>3. UNCHANGED <<fs, before>>
    BY <2>2, LoopsGoForward, <1>4 DEF ValidateTargets, NextLoop
  <2> QED
    BY <1>0, <2>3
<1>5. CASE UserStep
  BY <1>5, BeginRestoreFields
<1>6. CASE Crash \/ UNCHANGED vars
  BY <1>0, <1>6 DEF Crash, vars
<1> QED
  BY <1>1, <1>2, <1>3, <1>4, <1>5, <1>6 DEF Next

\* A snapshot depends on the tree alone.
LEMMA SnapshotKept ==
  ASSUME UNCHANGED fs
  PROVE  /\ Snapshot(fs, SnapExcluded)' = Snapshot(fs, SnapExcluded) /\ Present' = Present
         /\ \A S : CollectAtomicTempFiles(fs, S)' = CollectAtomicTempFiles(fs, S)
  BY DEF Snapshot, Present, ReadableFile, Exists, Reachable, CollectAtomicTempFiles

\* A walk that is over has seen all of the tree and counted it.
LEMMA IdleWalked ==
  ASSUME IndInv, IdleParts, Walked, walk.op = "restore" => restore.step # "none"
  PROVE  /\ walk.files = Snapshot(fs, SnapExcluded).files
         /\ walk.links = Snapshot(fs, SnapExcluded).links
         /\ CheckBudget(Cardinality(Present) + 1, 0)
<1>1. walk.op # "none" /\ walk.todo = {} /\ FilesExact
  BY DEF Walked, IdleParts, IdleWalk
<1>2. WalkFilter = SnapExcluded
  BY DEF WalkFilter, IdleParts, IdleRestore
<1>3. Passed = Present
  BY <1>1, <1>2 DEF Passed, Present
<1>4. CheckBudget(Cardinality(Present) + 1, 0)
  BY <1>1, <1>3, DataAssumption DEF IdleParts, IdleWalk, CheckBudget
<1> QED
  BY <1>1, <1>2, <1>4, WalkedAll

LEMMA IdleManifestsStep ==
  ASSUME IndInv, PhaseOrder, IdleParts, [Next]_vars, fs' = fs
  PROVE  IdleManifests'
<1>1. CASE UNCHANGED manifests
  BY <1>1, SnapshotKept DEF IdleParts, IdleManifests
<1>2. CASE SaveManifest
  <2>1. /\ Walked /\ walk.op # "restore"
        /\ manifests' = Append(manifests, [files |-> walk.files, links |-> walk.links])
    BY <1>2 DEF SaveManifest
  <2>2. [files |-> walk.files, links |-> walk.links] = Snapshot(fs, SnapExcluded)
    BY <2>1, IdleWalked DEF Snapshot
  <2>3. \A i \in DOMAIN manifests : manifests[i] = Snapshot(fs, SnapExcluded)
    BY DEF IdleParts, IdleManifests
  <2>4. manifests \in Seq(Manifest)
    BY DEF IndInv, TypeOK
  <2>5. \A i \in DOMAIN manifests' : manifests'[i] = Snapshot(fs, SnapExcluded)
    BY <2>1, <2>2, <2>3, <2>4
  <2> QED
    BY <2>5, SnapshotKept DEF IdleManifests
<1>3. UNCHANGED manifests \/ SaveManifest
  <2>1. RunStep => UNCHANGED manifests
    BY DEF RunStep, CreateBaseline, StartChild, CreateIncremental, SaveSessionMetadata,
           SkipReview, CleanupNewAtomicTempFiles
  <2>2. WalkStep => UNCHANGED manifests \/ SaveManifest
    BY DEF WalkStep, WalkAbsent, WalkSkipsContent, WalkFile, WalkOverBudget, HasObject,
           CloneObject, CloneFails, RereadObject, StoreMetadata,
           SaveManifestFails, RestoreWalked, WalkFails, WalkContinues
  <2>3. RestoreStep => UNCHANGED manifests
    BY LoopsGoForward
  <2>4. UserStep \/ Crash \/ (\E p \in Paths, e \in Entry : ExternalChange(p, e)) \/ UNCHANGED vars
          => UNCHANGED manifests
    BY DEF UserStep, ReviewAndRestore, CmdRestore, BeginRestore, Crash, ExternalChange, vars
  <2> QED
    BY <2>1, <2>2, <2>3, <2>4 DEF Next
<1> QED
  BY <1>1, <1>2, <1>3

LEMMA IdleTempsStep ==
  ASSUME IndInv, PhaseOrder, IdleParts, [Next]_vars, fs' = fs
  PROVE  IdleTemps'
<1> DEFINE Fits == CheckBudget(Cardinality(Present) + 1, 0)
           Known == tempBefore = CollectAtomicTempFiles(fs, Present)
           Early == {"tracked", "running", "exited", "finalised", "review", "cleanup"}
<1>1. Fits' = Fits
  BY SnapshotKept DEF CheckBudget
<1>2. UNCHANGED tempBefore => (Known' <=> Known)
  BY SnapshotKept
<1>3. phase \in Early => Fits /\ (phase # "tracked" => Known)
  BY DEF IdleParts, IdleTemps
<1>4. SUFFICES phase' \in Early => Fits /\ (phase' # "tracked" => Known')
  BY <1>1 DEF IdleTemps
<1> HIDE DEF Fits, Known
<1>5. CASE StartChild
  <2>1. PICK seen \in Scans(fs) : tempBefore' = CollectAtomicTempFiles(fs, seen)
    BY <1>5 DEF StartChild
  <2>2. phase = "tracked" /\ Fits
    BY <1>3, <1>5 DEF StartChild
  <2>3. seen = Present
    BY <2>2, ScanSeesAll DEF Fits
  <2>4. Known'
    BY <2>1, <2>3, SnapshotKept DEF Known
  <2> QED
    BY <2>2, <2>4
<1>6. CASE UNCHANGED tempBefore /\ phase \in Early /\ (phase = "tracked" => phase' \in {"tracked", "closed", "lost"})
  BY <1>2, <1>3, <1>6
<1>7. CASE phase' \notin Early
  BY <1>7
<1>8. CASE SaveManifest
  <2>1. Fits
    BY <1>8, IdleWalked DEF SaveManifest, Fits
  <2>2. walk.op = "baseline" => phase' = "tracked"
    BY <1>8 DEF SaveManifest
  <2>3. walk.op # "baseline" => phase = "exited" /\ UNCHANGED tempBefore
    BY <1>8 DEF SaveManifest, Walked, PhaseOrder, IndInv, TypeOK, Walk, WalkOps
  <2> QED
    BY <1>2, <1>3, <2>1, <2>2, <2>3
<1>9. CASE RunStep /\ ~StartChild
  BY <1>6, <1>7, <1>9 DEF RunStep, CreateBaseline, CreateIncremental, SaveSessionMetadata,
                    SkipReview, CleanupNewAtomicTempFiles
<1>10. CASE WalkStep /\ ~SaveManifest
  <2>1. UNCHANGED tempBefore /\ (phase' = phase \/ phase' = "lost" \/ phase = "review")
    BY <1>10 DEF WalkStep, WalkAbsent, WalkSkipsContent, WalkFile, WalkOverBudget, HasObject,
           CloneObject, CloneFails, RereadObject, StoreMetadata,
           SaveManifestFails, RestoreWalked, WalkFails, WalkContinues, EndRestore
  <2> QED
    BY <1>6, <1>7, <2>1
<1>11. CASE RestoreStep
  <2>1. UNCHANGED tempBefore /\ (phase' = phase \/ phase = "review")
    BY <1>11 DEF RestoreStep, ValidateTargets, RestorePermissions, NextLoop, RestoreFile,
                DeleteSurplus, UnlinkSymlink, RemoveFile, RestoreContinues, EndRestore,
                RestoreKeeps
  <2> QED
    BY <1>6, <1>7, <2>1
<1>12. CASE UserStep \/ (\E p \in Paths, e \in Entry : ExternalChange(p, e)) \/ UNCHANGED vars
  <2>1. UNCHANGED <<phase, tempBefore>>
    BY <1>12 DEF UserStep, ReviewAndRestore, CmdRestore, BeginRestore, ExternalChange, vars
  <2> QED
    BY <1>6, <1>7, <2>1
<1>13. CASE Crash
  BY <1>7, <1>13 DEF Crash
<1> QED
  BY <1>5, <1>8, <1>9, <1>10, <1>11, <1>12, <1>13 DEF Next

\* The restore of an idle session finds the tree its manifest describes.
LEMMA IdleRestoreStep ==
  ASSUME IndInv, PhaseOrder, IdleParts, [Next]_vars, fs' = fs, RestoreExcluded = SnapExcluded
  PROVE  IdleRestore'
<1> DEFINE Shot == Snapshot(fs, SnapExcluded)
<1>0. restore \in Restore /\ Snapshot(fs, SnapExcluded)' = Shot
  BY SnapshotKept DEF IndInv, TypeOK
<1>1. /\ restore.step # "none" => restore.excluded = SnapExcluded
      /\ restore.step \notin {"none", "walk"} =>
           restore.current = Shot.files /\ restore.links = Shot.links
      /\ restore.step # "chmod"
      /\ restore.step \in {"write", "delete", "unlink"} => restore.todo = {}
  BY DEF IdleParts, IdleRestore
<1>t. restore.step # "none" => Target = Shot
  BY DEF IdleParts, IdleManifests, IndInv, RestoreInv, Target
<1>s. Tracked(Shot.files) \subseteq Paths
  BY DEF Tracked
<1> HIDE DEF Shot
<1>2. SUFFICES /\ restore'.step # "none" => restore'.excluded = SnapExcluded
               /\ restore'.step \notin {"none", "walk"} =>
                    restore'.current = Shot.files /\ restore'.links = Shot.links
               /\ restore'.step # "chmod"
               /\ restore'.step \in {"write", "delete", "unlink"} => restore'.todo = {}
  BY <1>0 DEF IdleRestore
<1>3. CASE UNCHANGED restore
  BY <1>1, <1>3
<1>4. CASE restore'.step = "none"
  BY <1>4
<1>5. CASE UserStep
  <2>1. PICK n : BeginRestore(n, SnapExcluded)
    BY <1>5 DEF UserStep, ReviewAndRestore, CmdRestore
  <2>2. restore'.step = "walk" /\ restore'.excluded = SnapExcluded
    BY <2>1, NoRestoreType DEF BeginRestore, Restore
  <2> QED
    BY <2>2
<1>6. CASE RestoreWalked
  <2>1. Walked /\ restore.step = "walk"
    BY <1>6, RestoreWalkedFields DEF RestoreWalked
  <2>2. walk.files = Shot.files /\ walk.links = Shot.links
    BY <2>1, IdleWalked DEF Shot
  <2> QED
    BY <1>1, <1>6, <2>1, <2>2, RestoreWalkedFields
<1>7. CASE ValidateTargets
  <2>1. NeedsRestore(Target, restore.current) = {}
    BY <1>1, <1>7, <1>t DEF ValidateTargets, NeedsRestore, Tracked
  <2>2. restore' = [restore EXCEPT !.step = "write", !.todo = {}]
    BY <1>7, <2>1 DEF ValidateTargets, RestoreContinues
  <2> QED
    BY <1>0, <1>1, <1>7, <2>2 DEF Restore, ValidateTargets
<1>8. CASE NextLoop
  <2>1. restore.step \in {"write", "delete", "unlink"}
    BY <1>8 DEF NextLoop
  <2>2. /\ Surplus(Target, restore.current) = {}
        /\ {p \in restore.links : SymlinkNeedsCleanup(Target, p)} = {}
    BY <1>1, <1>t, <2>1 DEF Surplus, SymlinkNeedsCleanup
  <2>3. \/ restore' = [restore EXCEPT !.step = "delete", !.todo = {}]
        \/ restore' = [restore EXCEPT !.step = "unlink", !.todo = {}]
        \/ EndRestore("ok")
    BY <1>8, <2>1, <2>2 DEF NextLoop, RestoreContinues
  <2> QED
    BY <1>0, <1>1, <2>1, <2>3, EndRestoreFields DEF Restore
<1>9. CASE RestoreStep /\ ~ValidateTargets /\ ~NextLoop
  BY <1>1, <1>9 DEF RestoreStep, RestorePermissions, RestoreFile, DeleteSurplus, UnlinkSymlink
<1>10. CASE WalkStep /\ ~RestoreWalked
  <2>1. CASE WalkGoesOn
    BY <1>3, <2>1, WalkGoesOnKeeps
  <2>2. CASE WalkFails
    BY <1>0, <1>3, <1>4, <2>2, EndRestoreFields DEF WalkFails
  <2>3. CASE SaveManifest
    BY <1>3, <2>3 DEF SaveManifest
  <2> QED
    BY <1>10, <2>1, <2>2, <2>3, WalkStepKinds
<1>11. CASE RunStep \/ (\E p \in Paths, e \in Entry : ExternalChange(p, e)) \/ UNCHANGED vars
  BY <1>3, <1>11
     DEF RunStep, CreateBaseline, StartChild, CreateIncremental, SaveSessionMetadata,
           SkipReview, CleanupNewAtomicTempFiles, ExternalChange, vars
<1>12. CASE Crash
  BY <1>4, <1>12 DEF Crash, NoRestore
<1> QED
  BY <1>5, <1>6, <1>7, <1>8, <1>9, <1>10, <1>11, <1>12 DEF Next

\* Counting: a visit adds the entry it finds to those passed.
Counted ==
  /\ IsFiniteSet(Passed) /\ walk.entries = Cardinality(Passed) + 1
  /\ MaxEntries > 0 => walk.entries <= MaxEntries

LEMMA NewWalkCounted ==
  ASSUME NEW op \in WalkOps, NEW X, walk' = NewWalk(op, X), WalkFilter' = X
  PROVE  Counted'
<1>1. walk'.todo = {p \in Paths : ~Excluded(X, p)} /\ walk'.entries = 1
  BY DEF NewWalk
<1>2. Passed' = {}
  BY <1>1 DEF Passed
<1> QED
  BY <1>1, <1>2, FS_EmptySet, DataAssumption DEF Counted

LEMMA VisitCounted ==
  ASSUME IndInv, FilesExact, Counted, NEW p \in Paths,
         WalkAbsent(p) \/ WalkSkipsContent(p) \/ WalkFile(p)
  PROVE  Counted'
<1>0. walk \in Walk
  BY DEF IndInv, TypeOK
<1>1. p \in walk.todo /\ UNCHANGED <<fs, restore>> /\ walk'.op = walk.op
  BY WalkGoesOnKeeps DEF WalkAbsent, WalkSkipsContent, WalkFile, Visits, WalkGoesOn
<1>2. WalkFilter' = WalkFilter
  BY <1>1 DEF WalkFilter
<1>3. /\ Visited(p) \in Walk /\ Visited(p).todo = walk.todo \ {p}
      /\ Visited(p).entries = walk.entries + 1
  BY <1>0, VisitedType DEF Visited, Walk
<1>4. CASE WalkAbsent(p)
  <2>1. ~Exists(fs, p)
    BY <1>4 DEF WalkAbsent
  <2>2. walk'.todo = walk.todo \ {p} /\ walk'.entries = walk.entries
    BY <1>0, <1>4 DEF WalkAbsent, WalkContinues, Walk
  <2>3. Passed' = Passed
    BY <1>1, <1>2, <2>1, <2>2 DEF Passed, Exists, Reachable
  <2> QED
    BY <2>2, <2>3 DEF Counted
<1>5. CASE WalkSkipsContent(p) \/ WalkFile(p)
  <2>1. Exists(fs, p) /\ CheckBudget(walk.entries + 1, BytesAt(p)) /\ ~Excluded(WalkFilter, p)
    BY <1>1, <1>5 DEF WalkSkipsContent, WalkFile, FilesExact, ReadableFile, Exists
  <2>2. walk'.todo = walk.todo \ {p} /\ walk'.entries = walk.entries + 1
    BY <1>3, <1>5 DEF WalkSkipsContent, WalkFile, WalkContinues, Walk
  <2>3. Passed' = Passed \cup {p} /\ p \notin Passed
    BY <1>1, <1>2, <2>1, <2>2 DEF Passed, Exists, Reachable
  <2>4. IsFiniteSet(Passed) /\ walk.entries = Cardinality(Passed) + 1
    BY DEF Counted
  <2>5. /\ /\ IsFiniteSet(Passed \cup {p})
        /\ Cardinality(Passed \cup {p}) = Cardinality(Passed) + 1
        /\ Cardinality(Passed) \in Nat
    BY <2>3, <2>4, FS_AddElement, FS_CardinalityType
  <2> QED
    BY <2>1, <2>2, <2>3, <2>4, <2>5 DEF Counted, CheckBudget
<1> QED
  BY <1>4, <1>5

\* The steps between two visits pass and count nothing.
LEMMA StoreCounted ==
  ASSUME IndInv, Counted, UNCHANGED <<fs, restore>>, walk'.op = walk.op,
         walk'.todo = walk.todo, walk'.entries = walk.entries
  PROVE  Counted'
<1>1. WalkFilter' = WalkFilter
  BY DEF WalkFilter
<1>2. Passed' = Passed
  BY <1>1 DEF Passed, Exists, Reachable
<1> QED
  BY <1>2 DEF Counted

\* A failed clone is read again, and the one failure is spent.
LEMMA RetryExact ==
  ASSUME IndInv, PhaseOrder, FilesExact, StoreExact \/ StoreRetried, Idle', faults \in Nat,
         CloneFails \/ RereadObject
  PROVE  FilesExact' /\ (StoreExact' \/ StoreRetried')
<1>0. /\ walk \in Walk /\ objects \in [Contents -> Object \cup {None}]
      /\ walk.at \in Paths /\ walk.hash \in Contents
  BY DEF CloneFails, RereadObject, IndInv, WalkInv, TypeOK
<1>1. /\ walk.at \notin walk.todo /\ ~Excluded(WalkFilter, walk.at) /\ ReadableFile(fs, walk.at)
      /\ walk.hash = fs[walk.at].content /\ walk.op # "restore"
      /\ \A p \in Paths : walk.files[p] # None => objects[walk.files[p].hash] # None
  BY DEF StoreExact, StoreRetried, CloneFails, RereadObject
<1>2. faults' < 2
  BY DEF Idle
<1>3. UNCHANGED <<fs, restore>>
  BY DEF CloneFails, RereadObject, WalkContinues
<1>4. CASE CloneFails
  <2>1. /\ Fault
        /\ walk' = [walk EXCEPT !.step = "reread"]
        /\ UNCHANGED objects
        /\ walk.step = "store"
    BY <1>1, <1>4 DEF CloneFails, WalkContinues
  <2>2. /\ walk'.step = "reread" /\ walk'.at = walk.at /\ walk'.hash = walk.hash
        /\ walk'.todo = walk.todo /\ walk'.files = walk.files /\ walk'.links = walk.links
        /\ walk'.op = walk.op
    BY <1>0, <2>1 DEF Walk
  <2>3. faults' # 0
    BY <2>1 DEF Fault
  <2>4. WalkFilter' = WalkFilter
    BY <1>3, <2>2 DEF WalkFilter
  <2>5. FilesExact'
    BY <1>3, <2>1, <2>2, <2>4
       DEF FilesExact, Pending, FileOf, LinkIn, ReadableFile, Reachable, Exists
  <2>6. StoreRetried'
    BY <1>1, <1>3, <2>1, <2>2, <2>3, <2>4 DEF StoreRetried, ReadableFile, Reachable
  <2> QED
    BY <2>5, <2>6
<1>5. CASE RereadObject
  <2>1. walk.step = "reread" /\ faults # 0
    BY <1>5 DEF RereadObject, StoreExact, StoreRetried
  <2>2. ~Fault
    BY <1>2, <2>1 DEF Fault
  <2> DEFINE o == [content |-> fs[walk.at].content, mode |-> DefaultMode]
  <2>3. walk' = [walk EXCEPT !.step = "meta"] /\ objects' = [objects EXCEPT ![walk.hash] = o]
    BY <1>1, <1>5, <2>2 DEF RereadObject, WalkContinues
  <2>4. o # None
    <3>1. o \in Object
      BY <1>0, <1>1, DataAssumption DEF Object
    <3> QED
      BY <3>1, NoneAssumption
  <2> HIDE DEF o
  <2>5. /\ walk'.step = "meta" /\ walk'.at = walk.at /\ walk'.hash = walk.hash
        /\ walk'.todo = walk.todo /\ walk'.files = walk.files /\ walk'.links = walk.links
        /\ walk'.op = walk.op
    BY <1>0, <2>3 DEF Walk
  <2>6. WalkFilter' = WalkFilter
    BY <1>3, <2>5 DEF WalkFilter
  <2>7. FilesExact'
    BY <1>3, <2>1, <2>5, <2>6
       DEF FilesExact, Pending, FileOf, LinkIn, ReadableFile, Reachable, Exists
  <2>8. objects'[walk.hash] # None /\ (\A c \in Contents : objects[c] # None => objects'[c] # None)
    BY <1>0, <2>3, <2>4
  <2>9. \A p \in Paths : walk.files[p] # None => walk.files[p].hash \in Contents
    BY <1>0 DEF Walk, FileMap, FileState
  <2>10. StoreExact'
    BY <1>1, <1>3, <2>5, <2>6, <2>8, <2>9 DEF StoreExact, ReadableFile, Reachable
  <2> QED
    BY <2>7, <2>10
<1> QED
  BY <1>4, <1>5

LEMMA IdleWalkStep ==
  ASSUME IndInv, PhaseOrder, IdleParts, [Next]_vars, Idle', faults \in Nat, fs' = fs
  PROVE  IdleWalk'
<1> SUFFICES ASSUME walk'.op # "none"
             PROVE  FilesExact' /\ (StoreExact' \/ StoreRetried') /\ Counted'
  BY DEF IdleWalk, Counted
<1>0. walk \in Walk
  BY DEF IndInv, TypeOK
<1>1. walk.op # "none" => FilesExact /\ (StoreExact \/ StoreRetried) /\ Counted
  BY DEF IdleParts, IdleWalk, Counted
<1>2. CASE CreateBaseline \/ CreateIncremental
  <2>1. \E op \in {"baseline", "final"} : walk' = NewWalk(op, SnapExcluded)
    BY <1>2 DEF CreateBaseline, CreateIncremental
  <2>2. WalkFilter' = SnapExcluded
    BY <2>1 DEF WalkFilter, NewWalk
  <2> QED
    BY <2>1, <2>2, NewWalkExact, NewWalkCounted DEF WalkOps
<1>3. CASE StartChild \/ SaveSessionMetadata \/ SkipReview \/ CleanupNewAtomicTempFiles
  <2>1. UNCHANGED walk
    BY <1>3 DEF StartChild, SaveSessionMetadata, SkipReview, CleanupNewAtomicTempFiles
  <2>2. walk.op = "none"
    BY <1>3, NoWalkRuns
       DEF StartChild, SaveSessionMetadata, SkipReview, CleanupNewAtomicTempFiles
  <2> QED
    BY <2>1, <2>2
<1>4. CASE WalkGoesOn
  <2>1. walk.op # "none" /\ walk'.op = walk.op /\ UNCHANGED <<fs, restore>>
    BY <1>4, WalkGoesOnKeeps
  <2>2. FilesExact /\ (StoreExact \/ StoreRetried) /\ Counted
    BY <1>1, <2>1
  <2>3. ASSUME NEW p \in Paths, WalkAbsent(p) \/ WalkSkipsContent(p) \/ WalkFile(p)
        PROVE  FilesExact' /\ StoreExact' /\ Counted'
    <3>1. StoreExact
      BY <2>2, <2>3 DEF WalkAbsent, WalkSkipsContent, WalkFile, Visits, StoreRetried
    <3> QED
      BY <2>2, <2>3, <3>1, VisitExact, VisitCounted
  <2>4. HasObject \/ CloneObject \/ CloneFails \/ RereadObject \/ (StoreMetadata /\ ~WalkFails) => Counted'
    <3>1. HasObject \/ CloneObject \/ CloneFails \/ RereadObject
            => walk'.todo = walk.todo /\ walk'.entries = walk.entries
      BY <1>0
         DEF HasObject, CloneObject, CloneFails, RereadObject, WalkContinues, NextFile, Walk
    <3>2. /\ NextFile(walk) \in Walk
          /\ NextFile(walk).todo = walk.todo
          /\ NextFile(walk).entries = walk.entries
      BY <1>0 DEF NextFile, Walk
    <3>3. StoreMetadata /\ ~WalkFails => walk'.todo = walk.todo /\ walk'.entries = walk.entries
      BY <3>2 DEF StoreMetadata, WalkContinues, Walk
    <3> QED
      BY <2>1, <2>2, <3>1, <3>3, StoreCounted
  <2>5. HasObject \/ CloneObject => FilesExact' /\ StoreExact'
    BY <2>2, StoreStepExact DEF HasObject, CloneObject, StoreRetried
  <2>6. CloneFails \/ RereadObject => FilesExact' /\ (StoreExact' \/ StoreRetried')
    BY <2>2, RetryExact
  <2>7. StoreMetadata /\ ~WalkFails => FilesExact' /\ StoreExact'
    BY <2>2, MetadataExact DEF StoreMetadata, StoreRetried
  <2>8. CASE \E p \in Paths : WalkAbsent(p) \/ WalkSkipsContent(p) \/ WalkFile(p)
    BY <2>3, <2>8
  <2>9. CASE HasObject \/ CloneObject \/ CloneFails \/ RereadObject \/ (StoreMetadata /\ ~WalkFails)
    BY <2>4, <2>5, <2>6, <2>7, <2>9
  <2>10. \/ \E p \in Paths : WalkAbsent(p) \/ WalkSkipsContent(p) \/ WalkFile(p)
         \/ HasObject \/ CloneObject \/ CloneFails \/ RereadObject \/ (StoreMetadata /\ ~WalkFails)
    BY <1>4 DEF WalkGoesOn
  <2> QED
    BY <2>8, <2>9, <2>10
<1>5. CASE WalkStep /\ ~WalkGoesOn
  BY <1>5, WalkStepKinds, NoWalkServesNothing DEF WalkFails, SaveManifest, RestoreWalked
<1>6. CASE RestoreStep
  <2>1. restore.step \notin {"none", "walk"} /\ UNCHANGED walk
    BY <1>6 DEF RestoreStep, ValidateTargets, RestorePermissions, NextLoop, RestoreFile,
                DeleteSurplus, UnlinkSymlink, RemoveFile, RestoreContinues, RestoreKeeps
  <2> QED
    BY <2>1, NoWalkRuns
<1>7. CASE UserStep
  <2>1. PICK n, X : BeginRestore(n, X)
    BY <1>7 DEF UserStep, ReviewAndRestore, CmdRestore
  <2>2. walk' = NewWalk("restore", X) /\ restore'.excluded = X
    BY <2>1 DEF BeginRestore, NoRestore
  <2>3. WalkFilter' = X
    BY <2>2 DEF WalkFilter, NewWalk
  <2> QED
    BY <2>2, <2>3, NewWalkExact, NewWalkCounted DEF WalkOps
<1>8. CASE Crash
  BY <1>8, NoWalkServesNothing DEF Crash
<1>9. CASE (\E p \in Paths, e \in Entry : ExternalChange(p, e))
  <2>1. writes' = writes + 1
    BY <1>9 DEF ExternalChange
  <2>2. writes \in Nat /\ writes' = 0
    BY DataAssumption DEF Idle, IndInv, TypeOK
  <2> QED
    BY <2>1, <2>2
<1>10. CASE UNCHANGED vars
  <2>1. UNCHANGED <<fs, objects, walk, restore, faults>>
    BY <1>10 DEF vars
  <2>2. walk.op # "none" /\ WalkFilter' = WalkFilter
    BY <2>1 DEF WalkFilter
  <2>3. FilesExact' /\ (StoreExact' \/ StoreRetried')
    BY <1>1, <2>1, <2>2 DEF FilesExact, StoreExact, StoreRetried, Pending, FileOf, LinkIn,
                            ReadableFile, Reachable, Exists
  <2> QED
    BY <1>1, <2>1, <2>2, <2>3, StoreCounted
<1> QED
  BY <1>2, <1>3, <1>4, <1>5, <1>6, <1>7, <1>8, <1>9, <1>10 DEF Next, RunStep

\* Snapshots, reviews, restores, the cleanup and crashes leave the tree of an
\* idle session as it was, for every tree, filter and walk budget.
THEOREM IdleSessionsHarmless == Spec => []IdleSessionChangesNothing
<1> DEFINE Inv == Idle => IdleParts
<1>1. Init => Inv
  <2> SUFFICES ASSUME Init PROVE IdleParts
    OBVIOUS
  <2>1. walk.op = "none" /\ restore.step = "none" /\ restore.step # "chmod" /\ phase = "launch"
        /\ manifests = <<>> /\ fs = before
    BY NoWalkServesNothing DEF Init, NoRestore
  <2> QED
    BY <2>1 DEF IdleParts, IdleWalk, IdleManifests, IdleTemps, IdleRestore
<1>2. IndInv /\ QuietInv /\ Inv /\ [Next]_vars => Inv'
  <2> SUFFICES ASSUME IndInv, QuietInv, Inv, [Next]_vars, Idle' PROVE IdleParts'
    OBVIOUS
  <2>1. /\ Idle /\ faults \in Nat
        /\ ~\E p \in Paths, e \in Entry : ExternalChange(p, e)
    BY IdleBefore
  <2>2. IdleParts /\ PhaseOrder /\ RestoreExcluded = SnapExcluded
    BY <2>1 DEF QuietInv, Idle
  <2>3. fs' = fs /\ fs' = before'
    BY <2>1, <2>2, IdleTree
  <2>4. IdleWalk' /\ IdleManifests' /\ IdleTemps' /\ IdleRestore'
    BY <2>1, <2>2, <2>3, IdleWalkStep, IdleManifestsStep, IdleTempsStep, IdleRestoreStep
  <2> QED
    BY <2>3, <2>4 DEF IdleParts
<1>3. Inv => IdleSessionChangesNothing
  BY DEF IdleSessionChangesNothing, Idle, IdleParts
<1> QED
  BY <1>1, <1>2, <1>3, QuietInvariant, PTL DEF Spec
=============================================================================
