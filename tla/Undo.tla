-------------------------------- MODULE Undo --------------------------------
(***************************************************************************)
(* Rollback of a session: the content-addressed object store, the snapshot *)
(* manager and the order in which the CLI drives them.  A supervised run   *)
(* takes a baseline snapshot, lets the child run, takes a final snapshot,  *)
(* saves session.json, offers to restore the baseline and removes leftover *)
(* editor temp files; `nono rollback restore` may be run any time later.   *)
(*                                                                         *)
(* Any other process (the child, its orphans, the user's editor) may       *)
(* change the tree between any two system calls: ExternalChange.           *)
(*                                                                         *)
(* Abstractions: one tracked root; a tree of depth two given by Parent; a  *)
(* content stands for its SHA-256 (hash = content, collisions excluded);   *)
(* permission bits are a value in Modes, already masked by 0o777.          *)
(***************************************************************************)
EXTENDS Naturals, Sequences, FiniteSets

CONSTANTS
  Paths,            \* paths below the tracked root
  Root,             \* the tracked root itself
  Parent,           \* Parent[p]: the directory holding p, or Root
  Contents,         \* file contents, identified with their hashes
  Size,             \* Size[c]: bytes of a content
  Modes,            \* permission bits
  Readable,         \* the modes under which nono may open the file
  DefaultMode,      \* mode of a file created by File::create
  TempPaths,        \* paths with an atomic temp suffix
  FileLinks,        \* where a link stands here, it leads to a regular file
  SnapExcluded,     \* excluded by the filter snapshots are taken with
  RestoreExcluded,  \* excluded by the filter of `nono rollback restore`
  MaxEntries,       \* WalkBudget.max_entries, 0 for unlimited
  MaxBytes,         \* WalkBudget.max_bytes, 0 for unlimited
  MaxWrites,        \* bound: external changes in a behaviour
  MaxFaults,        \* bound: I/O errors the kernel reports
  None              \* no object, no path, no file state

ASSUME TreeAssumption ==
  /\ Root \notin Paths
  /\ None \notin Paths \cup Contents \cup Modes \cup {Root}
  /\ Parent \in [Paths -> Paths \cup {Root}]
  /\ \A p \in Paths : Parent[p] = Root \/ Parent[Parent[p]] = Root
  /\ TempPaths \subseteq Paths /\ FileLinks \subseteq Paths
  /\ SnapExcluded \subseteq Paths
  /\ RestoreExcluded \subseteq Paths

ASSUME DataAssumption ==
  /\ Size \in [Contents -> Nat]
  /\ Readable \subseteq Modes
  /\ DefaultMode \in Readable
  /\ MaxEntries \in Nat /\ MaxBytes \in Nat
  /\ MaxWrites \in Nat /\ MaxFaults \in Nat

VARIABLES
  fs,          \* the live tree: an entry for every path
  objects,     \* objects/: hash -> stored object, or None
  manifests,   \* snapshots/NNN.json, manifest n at index n + 1
  phase,       \* where the supervised run is
  walk,        \* the directory walk in progress
  restore,     \* the restore in progress
  outcome,     \* how the last restore of the process ended
  tempBefore,  \* atomic_temp_before
  saved,       \* session.json exists
  writes,      \* external changes so far
  faults,      \* I/O errors so far
  quiet,       \* history: nothing disturbed the current or last operation
  before       \* history: fs when the current or last restore began

vars == <<fs, objects, manifests, phase, walk, restore, outcome, tempBefore,
          saved, writes, faults, quiet, before>>

-----------------------------------------------------------------------------
(* The live tree. *)

Entry == [kind : {"file"}, content : Contents, mode : Modes]
           \cup [kind : {"none", "link", "dir"}]
File(c, m) == [kind |-> "file", content |-> c, mode |-> m]
Gone == [kind |-> "none"]
Directory == [kind |-> "dir"]

\* The parent chain of p consists of real directories.
Reachable(f, p) == Parent[p] # Root => f[Parent[p]].kind = "dir"
Exists(f, p) == Reachable(f, p) /\ f[p].kind # "none"
ReadableFile(f, p) ==
  Reachable(f, p) /\ f[p].kind = "file" /\ f[p].mode \in Readable

\* f with entry e at p; nothing survives below a path that is no directory.
Put(f, p, e) ==
  [q \in Paths |-> CASE q = p -> e
                     [] q # p /\ Parent[q] = p /\ e.kind # "dir" -> Gone
                     [] OTHER -> f[q]]

-----------------------------------------------------------------------------
(* Snapshots and walks. *)

FileState == [hash : Contents, mode : Modes]
FileMap == [Paths -> FileState \cup {None}]
NoFiles == [p \in Paths |-> None]
Manifest == [files : FileMap, links : SUBSET Paths]
Object == [content : Contents, mode : Modes]

ASSUME NoneAssumption == None \notin FileState \cup Object

\* The filter prunes an excluded directory with everything below it.
Excluded(X, p) == p \in X \/ Parent[p] \in X

CheckBudget(entries, bytes) ==
  /\ MaxEntries > 0 => entries =< MaxEntries
  /\ MaxBytes > 0 => bytes =< MaxBytes

WalkOps == {"baseline", "final", "restore"}
Walk == [op : WalkOps \cup {"none"}, step : {"next", "store", "reread", "meta"},
         todo : SUBSET Paths, files : FileMap, links : SUBSET Paths,
         entries : Nat, bytes : Nat, at : Paths \cup {None},
         hash : Contents \cup {None}]
NewWalk(op, X) ==
  [op |-> op, step |-> "next", todo |-> {p \in Paths : ~Excluded(X, p)},
   files |-> NoFiles, links |-> {}, entries |-> 1, bytes |-> 0,
   at |-> None, hash |-> None]
NoWalk == [NewWalk("none", {}) EXCEPT !.todo = {}]

Restore == [step : {"none", "walk", "validate", "write", "chmod", "delete", "unlink"},
            n : Nat, excluded : SUBSET Paths, current : FileMap,
            links : SUBSET Paths, todo : SUBSET Paths,
            at : Paths \cup {None}, applied : SUBSET (Paths \X {"Created", "Modified", "Deleted"})]
NoRestore == [step |-> "none", n |-> 0, excluded |-> {}, current |-> NoFiles,
              links |-> {}, todo |-> {}, at |-> None, applied |-> {}]

Tracked(files) == {p \in Paths : files[p] # None}

\* compute_changes: created, modified, deleted and permission-only changes.
Changes(old, new) == {p \in Paths : old[p] # new[p]}

-----------------------------------------------------------------------------
Init ==
  /\ fs \in {f \in [Paths -> Entry] : \A p \in Paths : f[p].kind # "none" => Reachable(f, p)}
  /\ objects = [c \in Contents |-> None]
  /\ manifests = <<>>
  /\ phase = "launch"
  /\ walk = NoWalk /\ restore = NoRestore /\ outcome = "none"
  /\ tempBefore = {} /\ saved = FALSE
  /\ writes = 0 /\ faults = 0 /\ quiet = TRUE
  /\ before = fs

\* Another process creates, overwrites, chmods, replaces or removes p.
ExternalChange(p, e) ==
  /\ writes < MaxWrites
  /\ Reachable(fs, p) /\ e # fs[p]
  /\ fs' = Put(fs, p, e)
  /\ writes' = writes + 1
  /\ quiet' = FALSE
  /\ UNCHANGED <<objects, manifests, phase, walk, restore, outcome, tempBefore,
                 saved, faults, before>>

\* The kernel reports an I/O error to the step that conjoins this.
Fault == faults < MaxFaults /\ faults' = faults + 1 /\ quiet' = FALSE
NoFault == UNCHANGED <<faults, quiet>>

-----------------------------------------------------------------------------
(* The supervised run.  A walk that fails aborts the operation it serves. *)

CreateBaseline ==
  /\ phase = "launch" /\ walk.op = "none"
  /\ walk' = NewWalk("baseline", SnapExcluded)
  /\ quiet' = TRUE
  /\ UNCHANGED <<fs, objects, manifests, phase, restore, outcome, tempBefore,
                 saved, writes, faults, before>>

\* The child has exited; finalize_supervised_exit starts the final snapshot.
CreateIncremental ==
  /\ phase = "running"
  /\ walk' = NewWalk("final", SnapExcluded)
  /\ phase' = "exited"
  /\ quiet' = TRUE
  /\ UNCHANGED <<fs, objects, manifests, restore, outcome, tempBefore, saved,
                 writes, faults, before>>

\* The entries a scan of tree f may see.  It goes through the filter of the
\* snapshots and stops at the entry limit; the root is the first entry.
Scans(f) ==
  LET present == {p \in Paths : ~Excluded(SnapExcluded, p) /\ Exists(f, p)}
  IN {V \in SUBSET present :
        /\ \A p \in V : Parent[p] \in V \cup {Root}
        /\ IF CheckBudget(Cardinality(present) + 1, 0)
           THEN V = present ELSE Cardinality(V) + 1 = MaxEntries}

\* Path::is_file follows a link.
CollectAtomicTempFiles(f, seen) ==
  {p \in TempPaths \cap seen :
     f[p].kind = "file" \/ (f[p].kind = "link" /\ p \in FileLinks)}

\* Mutant: no temp file is remembered.
StartChildForgetful ==
  /\ phase = "tracked"
  /\ phase' = "running"
  /\ UNCHANGED <<fs, objects, manifests, walk, restore, outcome, tempBefore, saved,
                 writes, faults, quiet, before>>

\* create_baseline has returned: remember the temp files that exist now.
StartChild ==
  /\ phase = "tracked"
  /\ \E seen \in Scans(fs) : tempBefore' = CollectAtomicTempFiles(fs, seen)
  /\ phase' = "running"
  /\ UNCHANGED <<fs, objects, manifests, walk, restore, outcome, saved, writes,
                 faults, quiet, before>>

SaveSessionMetadata ==
  /\ phase = "finalised"
  /\ \/ saved' = TRUE /\ phase' = "review" /\ NoFault
     \/ saved' = FALSE /\ phase' = "lost" /\ Fault
  /\ UNCHANGED <<fs, objects, manifests, walk, restore, outcome, tempBefore,
                 writes, before>>

\* The user declines, there is nothing to review, or prompting is disabled.
SkipReview ==
  /\ phase = "review" /\ restore.step = "none"
  /\ phase' = "cleanup"
  /\ UNCHANGED <<fs, objects, manifests, walk, restore, outcome, tempBefore,
                 saved, writes, faults, quiet, before>>

\* cleanup_new_atomic_temp_files; a failed removal is only logged.  The
\* session's process ends, and with it what it knew of its restore.
CleanupNewAtomicTempFiles ==
  /\ phase = "cleanup"
  /\ \E seen \in Scans(fs) :
       LET new == CollectAtomicTempFiles(fs, seen) \ tempBefore
       IN \E failed \in SUBSET new :
            /\ IF failed = {} THEN NoFault ELSE Fault
            /\ fs' = [p \in Paths |-> IF p \in new \ failed THEN Gone ELSE fs[p]]
  /\ phase' = "closed" /\ outcome' = "none"
  /\ UNCHANGED <<objects, manifests, walk, restore, tempBefore, saved, writes,
                 before>>

\* The supervisor, or the process running `nono rollback restore`, dies.
Crash ==
  /\ phase \notin {"lost", "launch"}
  /\ phase = "closed" => restore.step # "none"
  /\ phase' = IF saved THEN "closed" ELSE "lost"
  /\ walk' = NoWalk /\ restore' = NoRestore /\ outcome' = "none"
  /\ UNCHANGED <<fs, objects, manifests, tempBefore, saved, writes, faults,
                 quiet, before>>

-----------------------------------------------------------------------------
(* walk_and_store for the snapshots, walk_current for restore. *)

EndRestore(result) ==
  /\ restore' = [restore EXCEPT !.step = "none"]
  /\ outcome' = result
  /\ phase' = IF phase = "review" THEN "cleanup" ELSE phase

\* The walk returns Err: no manifest is written.
WalkFails ==
  /\ walk' = NoWalk
  /\ IF walk.op = "restore"
     THEN EndRestore("failed")
     ELSE phase' = "lost" /\ UNCHANGED <<restore, outcome>>
  /\ UNCHANGED <<fs, objects, manifests, tempBefore, saved, writes, before>>

WalkContinues(w) ==
  /\ walk' = w
  /\ UNCHANGED <<fs, manifests, phase, restore, outcome, tempBefore, saved,
                 writes, before>>

\* WalkDir yields p next; its parent directory has been listed already.
Visits(p) ==
  /\ walk.op # "none" /\ walk.step = "next"
  /\ p \in walk.todo /\ Parent[p] \notin walk.todo
Visited(p) == [walk EXCEPT !.todo = @ \ {p}, !.entries = @ + 1]

\* Bytes compared with the limit at p.  walk_and_store looks at the size before
\* it opens the file, walk_current only at files it could hash.
BytesAt(p) ==
  IF ReadableFile(fs, p) \/ (fs[p].kind = "file" /\ walk.op # "restore")
  THEN walk.bytes + Size[fs[p].content]
  ELSE walk.bytes

\* The directory listing does not hold p (any more).
WalkAbsent(p) ==
  /\ Visits(p) /\ ~Exists(fs, p)
  /\ NoFault
  /\ WalkContinues([walk EXCEPT !.todo = @ \ {p}])
  /\ UNCHANGED objects

\* Mutant: symlinks are skipped without recording them.
WalkForgetsLinks(p) ==
  /\ Visits(p) /\ Exists(fs, p) /\ ~ReadableFile(fs, p)
  /\ CheckBudget(walk.entries + 1, BytesAt(p))
  /\ NoFault
  /\ WalkContinues(Visited(p))
  /\ UNCHANGED objects

\* A symlink is recorded and never followed, a directory only descended into,
\* a file nono cannot open is skipped with a warning.
WalkSkipsContent(p) ==
  /\ Visits(p) /\ Exists(fs, p) /\ ~ReadableFile(fs, p)
  /\ CheckBudget(walk.entries + 1, BytesAt(p))
  /\ NoFault
  /\ WalkContinues([Visited(p) EXCEPT !.links = IF fs[p].kind = "link" THEN @ \cup {p} ELSE @])
  /\ UNCHANGED objects

\* walk_current hashes the file; walk_and_store goes on to store it.
WalkFile(p) ==
  /\ Visits(p) /\ ReadableFile(fs, p)
  /\ CheckBudget(walk.entries + 1, BytesAt(p))
  /\ NoFault
  /\ WalkContinues(
       IF walk.op = "restore"
       THEN [Visited(p) EXCEPT !.bytes = BytesAt(p),
               !.files[p] = [hash |-> fs[p].content, mode |-> fs[p].mode]]
       ELSE [Visited(p) EXCEPT !.step = "store", !.at = p, !.hash = fs[p].content])
  /\ UNCHANGED objects

\* A visit that exceeds the entry or the byte limit.
WalkOverBudget(p) ==
  /\ Visits(p) /\ Exists(fs, p)
  /\ ~CheckBudget(walk.entries + 1, BytesAt(p))
  /\ NoFault
  /\ WalkFails

-----------------------------------------------------------------------------
(* ObjectStore::store_file after hashing; the file may change in between. *)

NextFile(w) == [w EXCEPT !.step = "next", !.at = None, !.hash = None]

\* Deduplication: an object with this hash exists, whatever it holds.
HasObject ==
  /\ walk.step = "store" /\ objects[walk.hash] # None
  /\ NoFault
  /\ WalkContinues([walk EXCEPT !.step = "meta"])
  /\ UNCHANGED objects

\* clone_or_copy succeeds.  The clone is re-hashed: on a mismatch nothing is
\* stored and the hash of the vanished content is kept all the same.
CloneObject ==
  /\ walk.step = "store" /\ objects[walk.hash] = None
  /\ ReadableFile(fs, walk.at)
  /\ NoFault
  /\ objects' = IF fs[walk.at].content = walk.hash
                THEN [objects EXCEPT ![walk.hash] =
                        [content |-> walk.hash, mode |-> fs[walk.at].mode]]
                ELSE objects
  /\ WalkContinues([walk EXCEPT !.step = "meta"])

\* clone_or_copy fails: the source is gone or unreadable, or the copy fails.
CloneFails ==
  /\ walk.step = "store" /\ objects[walk.hash] = None
  /\ IF ReadableFile(fs, walk.at) THEN Fault ELSE NoFault
  /\ WalkContinues([walk EXCEPT !.step = "reread"])
  /\ UNCHANGED objects

\* The fallback reads the source again and writes what it reads under the
\* old hash; a failed read or write skips the file.
RereadObject ==
  /\ walk.step = "reread"
  /\ \/ /\ ReadableFile(fs, walk.at)
        /\ NoFault
        /\ objects' = [objects EXCEPT ![walk.hash] =
                         [content |-> fs[walk.at].content, mode |-> DefaultMode]]
        /\ WalkContinues([walk EXCEPT !.step = "meta"])
     \/ /\ IF ReadableFile(fs, walk.at) THEN Fault ELSE NoFault
        /\ WalkContinues(NextFile(walk))
        /\ UNCHANGED objects

\* fs::metadata follows links, so only a missing target skips the file now.
StoreMetadata ==
  /\ walk.step = "meta"
  /\ NoFault
  /\ \/ /\ ~Exists(fs, walk.at) \/ fs[walk.at].kind = "link"
        /\ WalkContinues(NextFile(walk)) /\ UNCHANGED objects
     \/ \E c \in Contents, m \in Modes :
          /\ Exists(fs, walk.at)
          /\ fs[walk.at].kind = "file" => fs[walk.at] = File(c, m)
          /\ LET bytes == walk.bytes + Size[c]
             IN IF CheckBudget(walk.entries, bytes)
                THEN /\ WalkContinues([NextFile(walk) EXCEPT !.bytes = bytes,
                          !.files[walk.at] = [hash |-> walk.hash, mode |-> m]])
                     /\ UNCHANGED objects
                ELSE WalkFails

\* The walk is over: build the manifest and write NNN.json atomically.
Walked == walk.op # "none" /\ walk.step = "next" /\ walk.todo = {}
SaveManifest ==
  /\ Walked /\ walk.op # "restore"
  /\ NoFault
  /\ manifests' = Append(manifests, [files |-> walk.files, links |-> walk.links])
  /\ phase' = IF walk.op = "baseline" THEN "tracked" ELSE "finalised"
  /\ walk' = NoWalk
  /\ UNCHANGED <<fs, objects, restore, outcome, tempBefore, saved, writes, before>>

SaveManifestFails ==
  /\ Walked /\ walk.op # "restore"
  /\ Fault /\ WalkFails

-----------------------------------------------------------------------------
(* restore_to. *)

\* Number of the manifest being restored, 0 for the baseline.
Target == manifests[restore.n + 1]

\* Mutant: a file that was deleted is not recreated.
NeedsRestoreIfPresent(m, current) ==
  {p \in Tracked(m.files) : current[p] # None /\ current[p].hash # m.files[p].hash}
\* compute_restore_diff and restore_to decide alike what has to be written.
NeedsRestore(m, current) ==
  {p \in Tracked(m.files) : current[p] = None \/ current[p].hash # m.files[p].hash}
Surplus(m, current) == Tracked(current) \ Tracked(m.files)
SymlinkNeedsCleanup(m, p) == p \notin m.links /\ p \notin Tracked(m.files)
ChangeType(current, p) == IF current[p] = None THEN "Created" ELSE "Modified"

\* Every existing directory on the way to p is a real one.
ValidRestoreTarget(f, p) == Parent[p] # Root => f[Parent[p]].kind \in {"none", "dir"}

BeginRestore(n, X) ==
  /\ restore' = [NoRestore EXCEPT !.step = "walk", !.n = n, !.excluded = X]
  /\ walk' = NewWalk("restore", X)
  /\ outcome' = "none" /\ quiet' = TRUE /\ before' = fs
  /\ UNCHANGED <<fs, objects, manifests, phase, tempBefore, saved, writes, faults>>

\* review_and_restore: the user answers yes.
ReviewAndRestore ==
  /\ phase = "review" /\ restore.step = "none"
  /\ Changes(manifests[1].files, manifests[2].files) # {}
  /\ BeginRestore(0, SnapExcluded)

\* nono rollback restore [--snapshot n], by default the last snapshot.
SnapshotArgs == {None} \cup (0 .. 1)
CmdRestore(arg) ==
  LET n == IF arg = None THEN Len(manifests) - 1 ELSE arg
  IN /\ phase = "closed" /\ saved /\ restore.step = "none"
     /\ n < Len(manifests)
     /\ BeginRestore(n, RestoreExcluded)

RestoreWalked ==
  /\ Walked /\ walk.op = "restore"
  /\ walk' = NoWalk
  /\ restore' = [restore EXCEPT !.step = "validate", !.current = walk.files,
                                !.links = walk.links]
  /\ UNCHANGED <<fs, objects, manifests, phase, outcome, tempBefore, saved,
                 writes, faults, quiet, before>>

RestoreKeeps == UNCHANGED <<objects, manifests, walk, tempBefore, saved, writes, before>>
RestoreContinues(r) == restore' = r /\ RestoreKeeps /\ UNCHANGED <<phase, outcome>>

\* All targets are validated before the first write.
ValidateTargets ==
  LET needed == NeedsRestore(Target, restore.current)
  IN /\ restore.step = "validate"
     /\ NoFault /\ UNCHANGED fs
     /\ IF \A p \in needed : ValidRestoreTarget(fs, p)
        THEN RestoreContinues([restore EXCEPT !.step = "write", !.todo = needed])
        ELSE EndRestore("rejected") /\ RestoreKeeps

\* The tree once create_dir_all has made the parent of p.
WithParent(f, p) ==
  IF Parent[p] # Root /\ f[Parent[p]].kind = "none"
  THEN [f EXCEPT ![Parent[p]] = Directory]
  ELSE f

\* Mutant: the copy is renamed into place without re-hashing it.
ObjectPresent(h) == objects[h] # None
\* retrieve_to found an object whose content hashes to h.
ObjectIntact(h) == objects[h] # None /\ objects[h].content = h

\* create_dir_all, then retrieve_to: copy, verify and rename over the target.
\* Through a parent that has become a link the file lands outside the tree.
RestoreFile(p) ==
  LET h == Target.files[p].hash
      made == WithParent(fs, p)
      mkdirOk == Parent[p] # Root => fs[Parent[p]].kind # "file"
      ok == mkdirOk /\ ObjectIntact(h) /\ ~(Reachable(made, p) /\ fs[p].kind = "dir")
  IN /\ restore.step = "write" /\ p \in restore.todo
     /\ \/ /\ ok /\ NoFault
           /\ fs' = IF Reachable(made, p)
                    THEN Put(made, p, File(objects[h].content, objects[h].mode))
                    ELSE fs
           /\ RestoreContinues([restore EXCEPT !.step = "chmod", !.todo = @ \ {p}, !.at = p])
        \/ /\ IF ok THEN Fault ELSE NoFault
           /\ fs' = made
           /\ EndRestore("failed") /\ RestoreKeeps

\* set_permissions on the restored file; a failure is only logged.
RestorePermissions ==
  LET p == restore.at
      reachable == Reachable(fs, p) /\ fs[p].kind = "file"
  IN /\ restore.step = "chmod"
     /\ \/ /\ NoFault
           /\ fs' = IF reachable THEN [fs EXCEPT ![p].mode = Target.files[p].mode] ELSE fs
        \/ Fault /\ UNCHANGED fs
     /\ RestoreContinues([restore EXCEPT !.step = "write", !.at = None,
          !.applied = @ \cup {<<p, ChangeType(restore.current, p)>>}])

\* remove_file of p, counted when it succeeds.
RemoveFile(p) ==
  \/ /\ Exists(fs, p) /\ fs[p].kind # "dir"
     /\ NoFault
     /\ fs' = Put(fs, p, Gone)
     /\ RestoreContinues([restore EXCEPT !.todo = @ \ {p}, !.applied = @ \cup {<<p, "Deleted">>}])
  \/ /\ IF Exists(fs, p) /\ fs[p].kind # "dir" THEN Fault ELSE NoFault
     /\ UNCHANGED fs
     /\ RestoreContinues([restore EXCEPT !.todo = @ \ {p}])

DeleteSurplus(p) ==
  /\ restore.step = "delete" /\ p \in restore.todo
  /\ RemoveFile(p)

UnlinkSymlink(p) ==
  /\ restore.step = "unlink" /\ p \in restore.todo
  /\ IF ValidRestoreTarget(fs, p)
     THEN RemoveFile(p)
     ELSE /\ NoFault /\ UNCHANGED fs
          /\ RestoreContinues([restore EXCEPT !.todo = @ \ {p}])

\* The three loops of restore_to run one after the other.
NextLoop ==
  /\ restore.step \in {"write", "delete", "unlink"} /\ restore.todo = {}
  /\ NoFault /\ UNCHANGED fs
  /\ CASE restore.step = "write" ->
            RestoreContinues([restore EXCEPT !.step = "delete",
                                !.todo = Surplus(Target, restore.current)])
       [] restore.step = "delete" ->
            RestoreContinues([restore EXCEPT !.step = "unlink",
              !.todo = {p \in restore.links : SymlinkNeedsCleanup(Target, p)}])
       [] restore.step = "unlink" -> EndRestore("ok") /\ RestoreKeeps

-----------------------------------------------------------------------------
RunStep == \/ CreateBaseline \/ StartChild \/ CreateIncremental
           \/ SaveSessionMetadata \/ SkipReview \/ CleanupNewAtomicTempFiles
WalkStep == \/ \E p \in Paths : WalkAbsent(p) \/ WalkSkipsContent(p) \/ WalkFile(p)
                                  \/ WalkOverBudget(p)
            \/ HasObject \/ CloneObject \/ CloneFails \/ RereadObject \/ StoreMetadata
            \/ SaveManifest \/ SaveManifestFails \/ RestoreWalked
RestoreStep == \/ ValidateTargets \/ RestorePermissions \/ NextLoop
               \/ \E p \in Paths : RestoreFile(p) \/ DeleteSurplus(p) \/ UnlinkSymlink(p)
UserStep == ReviewAndRestore \/ \E arg \in SnapshotArgs : CmdRestore(arg)

Next == \/ RunStep \/ WalkStep \/ RestoreStep \/ UserStep \/ Crash
        \/ \E p \in Paths, e \in Entry : ExternalChange(p, e)

Spec == Init /\ [][Next]_vars
\* Once started, a walk or a restore is executed to its end by its process.
FairSpec == Spec /\ WF_vars(WalkStep) /\ WF_vars(RestoreStep)

-----------------------------------------------------------------------------
(* Properties. *)

TypeOK ==
  /\ fs \in [Paths -> Entry] /\ before \in [Paths -> Entry]
  /\ objects \in [Contents -> Object \cup {None}]
  /\ manifests \in Seq(Manifest)
  /\ phase \in {"launch", "tracked", "running", "exited", "finalised", "review",
                "cleanup", "closed", "lost"}
  /\ walk \in Walk /\ restore \in Restore
  /\ outcome \in {"none", "ok", "rejected", "failed"}
  /\ tempBefore \subseteq Paths
  /\ saved \in BOOLEAN /\ quiet \in BOOLEAN
  /\ writes \in 0 .. MaxWrites /\ faults \in 0 .. MaxFaults

\* What a snapshot of tree f through filter X ought to record.
Snapshot(f, X) ==
  [files |-> [p \in Paths |->
                IF ReadableFile(f, p) /\ ~Excluded(X, p)
                THEN [hash |-> f[p].content, mode |-> f[p].mode] ELSE None],
   links |-> {p \in Paths : Exists(f, p) /\ f[p].kind = "link" /\ ~Excluded(X, p)}]

\* A snapshot nobody disturbed records exactly the readable, unexcluded files
\* and the links of the tree (walk_and_store, save_manifest), and every hash it
\* records has an object: what the walk skips, prunes, deduplicates or gives up
\* on leaves no hole in the manifest.
UndisturbedSnapshotComplete ==
  quiet /\ phase \in {"tracked", "finalised"} =>
    LET m == manifests[Len(manifests)]
    IN /\ m = Snapshot(fs, SnapExcluded)
       /\ \A p \in Tracked(m.files) : objects[m.files[p].hash] # None

\* restore_to returned Ok and nobody disturbed it: every file of the manifest
\* has its recorded content, and of the files and links its walk can see none
\* is left that the manifest does not know.
RestoreReachesManifest ==
  quiet /\ outcome = "ok" /\ phase \in {"cleanup", "closed"} =>
    \A p \in Paths :
      /\ p \in Tracked(Target.files) =>
           Exists(fs, p) /\ fs[p].kind = "file" /\ fs[p].content = Target.files[p].hash
      /\ p \notin Tracked(Target.files) /\ ~Excluded(restore.excluded, p) =>
           ~ReadableFile(fs, p)
      /\ Exists(fs, p) /\ fs[p].kind = "link" /\ ~Excluded(restore.excluded, p) =>
           p \in Target.links

\* compute_restore_diff of manifest m on tree f.
ComputeRestoreDiff(m, f, X) ==
  LET now == Snapshot(f, X)
  IN {<<p, ChangeType(now.files, p)>> : p \in NeedsRestore(m, now.files)}
       \cup {<<p, "Deleted">> : p \in Surplus(m, now.files)}
       \cup {<<p, "Deleted">> : p \in {q \in now.links : SymlinkNeedsCleanup(m, q)}}

\* An undisturbed restore that succeeds reports exactly the changes that
\* `--dry-run` (compute_restore_diff) would have announced when it began, and
\* touches no other file.
RestoreMatchesPreview ==
  quiet /\ outcome = "ok" /\ phase \in {"cleanup", "closed"} =>
    LET diff == ComputeRestoreDiff(Target, before, restore.excluded)
    IN /\ restore.applied = diff
       /\ \A p \in Paths :
            fs[p] # before[p] =>
              \/ \E t \in {"Created", "Modified", "Deleted"} : <<p, t>> \in diff
              \/ fs[p].kind = "dir"

\* At every step of an undisturbed restore (so also where it fails or its
\* process dies) each file is as it was or as the manifest wants it, and a
\* restore that validation rejects has changed nothing: restore_to validates
\* all targets before the first write and replaces files by rename.
RestoreAtomicPerFile ==
  quiet /\ (restore.step # "none" \/ outcome # "none") =>
    \A p \in Paths :
      \/ fs[p] = before[p]
      \/ /\ outcome # "rejected"
         /\ \/ p \in Tracked(Target.files) /\ fs[p].kind = "file"
                 /\ fs[p].content = Target.files[p].hash
            \/ p \notin Tracked(Target.files) /\ fs[p] = Gone
            \/ before[p] = Gone /\ fs[p] = Directory

\* Whatever is in the object store (a poisoned object included), a file that
\* restore_to writes gets the content the manifest names (retrieve_to re-hashes
\* the copy before it renames it into place).
RestoreWritesVerifiedContent ==
  [][\A p \in Paths :
       restore.step = "write" /\ restore'.step = "chmod" /\ fs'[p] # fs[p] =>
         \/ fs'[p].kind = "dir"
         \/ fs'[p].kind = "none"
         \/ p = restore'.at /\ fs'[p].content = Target.files[p].hash]_vars

\* The session's own restore, which uses the filter of the snapshots, never
\* touches a file that filter excludes.
ReviewKeepsExcludedFiles ==
  [][\A p \in Paths :
       Excluded(SnapExcluded, p) /\ phase = "review" /\ writes' = writes =>
         fs'[p] = fs[p]]_vars

\* If no other process changes the tree, nothing nono does to it shows: a
\* session that changed nothing can be reviewed, restored through the filter of
\* its snapshots, cleaned up or killed at any point and every file, tracked or
\* not, is as it was, even if one system call fails.  (Two failures may leave a
\* file out of the baseline; to a restore of it that file is surplus.)
IdleSessionChangesNothing ==
  writes = 0 /\ faults < 2 /\ RestoreExcluded = SnapExcluded => fs = before

\* Every walk and every restore comes to an end.
WalkAndRestoreTerminate ==
  (walk.op # "none" \/ restore.step # "none") ~> (walk.op = "none" /\ restore.step = "none")

-----------------------------------------------------------------------------
(* What comments and documentation say of the code and it does not do. *)

\* object_store.rs:244: when the file changed between hashing and cloning the
\* store "falls back to re-reading the source and writing content directly";
\* so every hash a saved manifest names would have an object.
ManifestObjectsStored ==
  \A i \in DOMAIN manifests : \A p \in Tracked(manifests[i].files) :
    objects[manifests[i].files[p].hash] # None
=============================================================================
