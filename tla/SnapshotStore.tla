--------------------------- MODULE SnapshotStore ---------------------------
(***************************************************************************)
(* Snapshots of generated artifacts (internal/rollback/rollback.go):       *)
(* Create, Restore and Delete on the file system, one process at a time,   *)
(* with an I/O error or a crash possible at every step.                    *)
(*                                                                         *)
(* A directory is a function from the paths in it to contents.  WriteFile  *)
(* is two steps: a crash in between leaves the content Torn.  A checksum   *)
(* is the content it was computed from.  Nothing keeps the target and the  *)
(* snapshots apart: place says how the path given to Restore lies to them. *)
(***************************************************************************)
EXTENDS Integers, FiniteSets, Functions, TLC

CONSTANTS SnapIDs, Paths, Contents, Torn, NoDir, NoPath,
          ManifestPath,    \* "manifest.json", which an artifact may be called too
          Unreadable,      \* a manifest that is missing or does not parse
          ArtifactSets,    \* what Create is called with
          InitialTarget,   \* the output directory before the first step
          MaxFaults        \* bound on crashes and I/O errors

Directory == UNION {[S -> Contents \cup {Torn}] : S \in SUBSET Paths}
EmptyDir == [p \in {} |-> Torn]

ASSUME SnapshotAssumption ==
    /\ Torn \notin Contents /\ NoPath \notin Paths /\ ManifestPath \in Paths
    /\ NoDir \notin Directory /\ Unreadable \notin Directory
    /\ ArtifactSets \subseteq UNION {[S -> Contents] : S \in SUBSET Paths}
    /\ InitialTarget \in ArtifactSets \cup {NoDir}
    /\ MaxFaults \in Nat

VARIABLES files,       \* per snapshot: its directory without the manifest
          manifest,    \* per snapshot: checksums by path, or Unreadable
          target, tmp, \* the output directory, and targetDir.tmp-rollback
          place,       \* where the output directory lies
          pc, id,      \* the running operation and its snapshot
          arts,        \* the artifacts of Create, or the manifest Restore has read
          todo,        \* the paths it still has to write, copy or merge
          writing,     \* the path being written, or NoPath
          made,        \* history: snapshots whose Create returned, and its artifacts
          faults

vars == <<files, manifest, target, tmp, place, pc, id, arts, todo, writing, made, faults>>

\* "." and the root are merged into.  Any other target is removed, and with it
\* what lies below it: nothing else ("apart"), the snapshots (".naeos", the
\* absolute working directory), or the snapshots and tmp too ("./", "..").
Places == {"merge", "apart", "holdsStore", "holdsBoth"}
HoldsStore == place \in {"holdsStore", "holdsBoth"}

Init ==
    /\ files = [s \in SnapIDs |-> NoDir] /\ manifest = [s \in SnapIDs |-> Unreadable]
    /\ target = InitialTarget /\ tmp = NoDir /\ place \in Places
    /\ pc = "idle" /\ id \in SnapIDs /\ arts = EmptyDir /\ todo = {} /\ writing = NoPath
    /\ made = EmptyDir /\ faults = 0

With(dir, p, c) == [q \in DOMAIN dir \cup {p} |-> IF q = p THEN c ELSE dir[q]]
Begin(op, s, work) ==
    /\ pc = "idle" /\ pc' = op /\ id' = s /\ todo' = work /\ UNCHANGED writing
Return == pc' = "idle" /\ todo' = {} /\ writing' = NoPath /\ UNCHANGED <<id, arts>>

\* What Restore sees of a snapshot directory: manifest.json is passed over.
ExceptManifest(dir) == Restrict(dir, DOMAIN dir \ {ManifestPath})

\* WriteFile(p, c) into dir: truncate, then write.
WriteFile(dir, newDir, content) ==
    \/ /\ writing = NoPath
       /\ \E p \in todo : writing' = p /\ newDir = With(dir, p, Torn)
       /\ UNCHANGED <<pc, id, arts, todo>>
    \/ /\ writing # NoPath
       /\ newDir = With(dir, writing, content[writing])
       /\ writing' = NoPath /\ todo' = todo \ {writing}
       /\ UNCHANGED <<pc, id, arts>>
-----------------------------------------------------------------------------
\* Create: a fresh snapshot directory (IDs are time stamps), made with the
\* directories above it.
Create(s, a) ==
    /\ files[s] = NoDir /\ Begin("create", s, DOMAIN a)
    /\ arts' = a
    /\ files' = [files EXCEPT ![s] = EmptyDir]
    /\ target' = IF HoldsStore /\ target = NoDir THEN EmptyDir ELSE target
    /\ UNCHANGED <<place, manifest, tmp, made, faults>>

\* The artifacts are written one after the other.
CreateFile ==
    /\ pc = "create"
    /\ \E dir \in Directory :
         /\ WriteFile(files[id], dir, arts)
         /\ files' = [files EXCEPT ![id] = dir]
    /\ UNCHANGED <<place, manifest, target, tmp, made, faults>>

\* Last the manifest is written, over an artifact of its name, and Create returns.
CreateManifest ==
    /\ pc = "create" /\ todo = {}
    /\ manifest' = [manifest EXCEPT ![id] = arts]
    /\ files' = [files EXCEPT ![id] = ExceptManifest(@)]
    /\ made' = With(made, id, arts)
    /\ Return
    /\ UNCHANGED <<place, target, tmp, faults>>

\* Mutant: a temporary directory left behind is used again.
Restore_keepsTemp(s) ==
    /\ files[s] # NoDir /\ Begin("copy", s, DOMAIN files[s] \ {ManifestPath})
    /\ tmp' = IF tmp = NoDir THEN EmptyDir ELSE tmp
    /\ UNCHANGED <<place, files, manifest, target, arts, made, faults>>

\* Restore: the temporary directory is emptied and the files are copied there.
Restore(s) ==
    /\ files[s] # NoDir /\ Begin("copy", s, DOMAIN files[s] \ {ManifestPath})
    /\ tmp' = EmptyDir
    /\ UNCHANGED <<place, files, manifest, target, arts, made, faults>>

\* Mutant: the file is moved instead of copied.
CopyFile_moves ==
    /\ pc = "copy"
    /\ \E dir \in Directory : WriteFile(tmp, dir, ExceptManifest(files[id])) /\ tmp' = dir
    /\ files' = IF writing = NoPath THEN files
                ELSE [files EXCEPT ![id] = Restrict(@, DOMAIN @ \ {writing})]
    /\ UNCHANGED <<place, manifest, target, made, faults>>

CopyFile ==
    /\ pc = "copy"
    /\ \E dir \in Directory : WriteFile(tmp, dir, ExceptManifest(files[id])) /\ tmp' = dir
    /\ UNCHANGED <<place, files, manifest, target, made, faults>>

\* verifyIntegrity: every file of the manifest is there with its checksum.  A
\* manifest that cannot be read or parsed is not checked.
Intact(dir, m) ==
    m = Unreadable \/ \A p \in DOMAIN m : p \in DOMAIN dir /\ dir[p] = m[p]

\* Mutant: a failed check is not returned.
Verify_ignored ==
    /\ pc = "copy" /\ todo = {}
    /\ pc' = IF place = "merge" THEN "merge" ELSE "remove"
    /\ todo' = DOMAIN tmp /\ arts' = manifest[id] /\ UNCHANGED <<id, writing, tmp>>
    /\ UNCHANGED <<place, files, manifest, target, made, faults>>

Verify ==
    /\ pc = "copy" /\ todo = {}
    /\ IF Intact(tmp, manifest[id])
       THEN /\ pc' = IF place = "merge" THEN "merge" ELSE "remove"
            /\ todo' = DOMAIN tmp /\ arts' = manifest[id] /\ UNCHANGED <<id, writing, tmp>>
       ELSE tmp' = NoDir /\ Return
    /\ UNCHANGED <<place, files, manifest, target, made, faults>>

\* "." and the root are restored by writing the files into them.
MergeFile ==
    /\ pc = "merge"
    /\ \E dir \in Directory :
         /\ WriteFile(IF target = NoDir THEN EmptyDir ELSE target, dir, tmp)
         /\ target' = dir
    /\ UNCHANGED <<place, files, manifest, tmp, made, faults>>

MergeDone ==
    /\ pc = "merge" /\ todo = {}
    /\ tmp' = NoDir /\ Return
    /\ UNCHANGED <<place, files, manifest, target, made, faults>>

\* One entry of a snapshot directory goes, at last the directory.
EntryGone(s) ==
    \/ /\ files[s] # NoDir
       /\ \E p \in DOMAIN files[s] :
            files' = [files EXCEPT ![s] = Restrict(@, DOMAIN @ \ {p})]
       /\ UNCHANGED manifest
    \/ /\ manifest[s] # Unreadable
       /\ manifest' = [manifest EXCEPT ![s] = Unreadable] /\ UNCHANGED files
    \/ /\ files[s] = EmptyDir /\ manifest[s] = Unreadable
       /\ files' = [files EXCEPT ![s] = NoDir] /\ UNCHANGED manifest

\* RemoveAll(targetDir) removes the target entry by entry, and whatever else
\* lies below it.
RemoveEntry ==
    /\ pc = "remove"
    /\ \/ /\ target # NoDir
          /\ \E p \in DOMAIN target : target' = Restrict(target, DOMAIN target \ {p})
          /\ UNCHANGED <<files, manifest, made>>
       \/ /\ HoldsStore /\ \E s \in SnapIDs : EntryGone(s)
          /\ made' = EmptyDir /\ UNCHANGED target
    /\ UNCHANGED <<place, tmp, pc, id, arts, todo, writing, faults>>

\* At last the directory itself.  A target that holds tmp takes it along, and
\* the removal of "./" or the rename to ".." then fails.
RemoveTarget ==
    /\ pc = "remove" /\ target \in {NoDir, EmptyDir}
    /\ HoldsStore => \A s \in SnapIDs : files[s] = NoDir
    /\ IF place = "holdsBoth"
       THEN tmp' = NoDir /\ Return /\ UNCHANGED target
       ELSE target' = NoDir /\ pc' = "rename" /\ UNCHANGED <<tmp, id, arts, todo, writing>>
    /\ UNCHANGED <<place, files, manifest, made, faults>>

Rename ==
    /\ pc = "rename"
    /\ target' = tmp /\ tmp' = NoDir /\ Return
    /\ UNCHANGED <<place, files, manifest, made, faults>>

\* Delete removes the snapshot's directory entry by entry.
Delete(s) ==
    /\ files[s] # NoDir /\ Begin("delete", s, {})
    /\ made' = Restrict(made, DOMAIN made \ {s})
    /\ UNCHANGED <<place, files, manifest, target, tmp, arts, faults>>

DeleteEntry ==
    /\ pc = "delete" /\ EntryGone(id)
    /\ pc' = IF files'[id] = NoDir THEN "idle" ELSE pc
    /\ UNCHANGED <<place, target, tmp, id, arts, todo, writing, made, faults>>
-----------------------------------------------------------------------------
\* Mutant: the error of RemoveAll is ignored, and the new files are moved among
\* those that are left.
Fails_ignored ==
    /\ pc # "idle" /\ faults < MaxFaults
    /\ faults' = faults + 1
    /\ tmp' = IF pc \in {"copy", "merge", "remove", "rename"} THEN NoDir ELSE tmp
    /\ target' = IF pc = "remove" /\ target # NoDir THEN tmp @@ target ELSE target
    /\ Return
    /\ UNCHANGED <<place, files, manifest, made>>

\* The next file operation fails and the operation returns its error.  Create
\* and Delete leave what they did; Restore removes the temporary directory.
Fails ==
    /\ pc # "idle" /\ faults < MaxFaults
    /\ faults' = faults + 1
    /\ tmp' = IF pc \in {"copy", "merge", "remove", "rename"} THEN NoDir ELSE tmp
    /\ Return
    /\ UNCHANGED <<place, files, manifest, target, made>>

\* The process dies.
Crash ==
    /\ pc # "idle" /\ faults < MaxFaults
    /\ faults' = faults + 1
    /\ Return
    /\ UNCHANGED <<place, files, manifest, target, tmp, made>>

Next ==
    \/ \E s \in SnapIDs : Restore(s) \/ Delete(s) \/ \E a \in ArtifactSets : Create(s, a)
    \/ CreateFile \/ CreateManifest
    \/ CopyFile \/ Verify \/ MergeFile \/ MergeDone \/ RemoveEntry \/ RemoveTarget \/ Rename
    \/ DeleteEntry
    \/ Fails \/ Crash

Spec == Init /\ [][Next]_vars
-----------------------------------------------------------------------------
TypeOK ==
    /\ files \in [SnapIDs -> Directory \cup {NoDir}]
    /\ manifest \in [SnapIDs -> ArtifactSets \cup {Unreadable}]
    /\ target \in Directory \cup {NoDir} /\ tmp \in Directory \cup {NoDir}
    /\ place \in Places
    /\ pc \in {"idle", "create", "copy", "merge", "remove", "rename", "delete"}
    /\ id \in SnapIDs /\ todo \subseteq Paths /\ writing \in Paths \cup {NoPath}
    /\ DOMAIN made \subseteq SnapIDs /\ faults \in 0..MaxFaults

\* A snapshot whose Create returned keeps the artifacts it was made from, but
\* for one called manifest.json, which Create itself overwrites (rollback.go:112)
\* and whose checksum then never matches.  It keeps them until Delete is called
\* for it or a Restore begins to remove a target that holds the snapshots
\* (:255), whatever else is restored, interrupted or fails in the meantime.
SnapshotsDurable ==
    \A s \in DOMAIN made : files[s] = ExceptManifest(made[s]) /\ manifest[s] = made[s]

\* A Restore that replaces the target and succeeds leaves exactly the files
\* of the manifest it read, also after an interrupted Restore left its temporary
\* directory and after a Delete or a removal of the snapshots was interrupted.
\* A directory without a readable manifest is put in place as it is.
RestoreExact ==
    [][pc = "rename" /\ target' # target /\ arts # Unreadable => target' = arts]_vars

\* A merging Restore that succeeds leaves every file of the manifest with its
\* content; the files that are not in the snapshot keep theirs throughout.
MergeExact ==
    [][/\ pc = "merge" /\ tmp' = NoDir /\ faults' = faults /\ arts # Unreadable
         => \A p \in DOMAIN arts : target'[p] = arts[p]
       /\ pc = "merge" /\ target # NoDir
         => \A p \in DOMAIN target \ DOMAIN tmp : target'[p] = target[p]]_vars

\* A target that is replaced is never a mixture: its files are files of the
\* initial output or of one snapshot directory, whatever was interrupted, and
\* torn or missing at worst where a directory without a manifest was restored.
TargetNeverMixed ==
    place # "merge" /\ target # NoDir =>
      \E a \in ArtifactSets :
        \A p \in DOMAIN target : p \in DOMAIN a /\ target[p] \in {Torn, a[p]}

\* Replacing the target is meant to be atomic ("atomic rename"): when no
\* operation runs, an output directory that existed still does.
TargetSurvives == place # "merge" /\ InitialTarget # NoDir /\ pc = "idle" => target # NoDir
=============================================================================
