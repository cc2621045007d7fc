------------------------ MODULE SnapshotStoreProofs ------------------------
(***************************************************************************)
(* For any snapshots, artifacts and number of faults: a snapshot whose     *)
(* Create returned is kept, a Restore that succeeds is exact, and the      *)
(* target is never a mixture of two outputs.                               *)
(***************************************************************************)
EXTENDS SnapshotStore, TLAPS

Stages == {"idle", "create", "copy", "merge", "remove", "rename", "delete"}

SnapshotTypeOK ==
    /\ files \in [SnapIDs -> Directory \cup {NoDir}]
    /\ manifest \in [SnapIDs -> ArtifactSets \cup {Unreadable}]
    /\ target \in Directory \cup {NoDir} /\ tmp \in Directory \cup {NoDir}
    /\ pc \in Stages /\ id \in SnapIDs /\ DOMAIN made \subseteq SnapIDs
    /\ \A s \in DOMAIN made : made[s] \in ArtifactSets
    /\ place \in Places /\ faults \in Nat

\* The files of dir are files of src, whole or torn.
Fragment(dir, src) ==
    /\ DOMAIN dir \subseteq DOMAIN src
    /\ \A p \in DOMAIN dir : dir[p] = src[p] \/ dir[p] = Torn

\* A loop of WriteFile has written the files of src but those that are left.
Written(dir, src, left, w) ==
    /\ left \subseteq DOMAIN src /\ (w = NoPath \/ w \in left)
    /\ \A p \in DOMAIN src \ left : p \in DOMAIN dir /\ dir[p] = src[p]

\* What a snapshot directory holds: a part of what one Create wrote, and the
\* files of the manifest untorn once there is a manifest.
FilesInv ==
    /\ \A s \in SnapIDs : files[s] # NoDir => \E a \in ArtifactSets : Fragment(files[s], a)
    /\ \A s \in SnapIDs : manifest[s] # Unreadable =>
         /\ files[s] # NoDir /\ DOMAIN files[s] \subseteq DOMAIN manifest[s]
         /\ \A p \in DOMAIN files[s] : files[s][p] = manifest[s][p]

\* How far the running operation has come.
CreateInv ==
    pc = "create" =>
      /\ arts \in ArtifactSets /\ id \notin DOMAIN made /\ files[id] # NoDir
      /\ manifest[id] = Unreadable
      /\ Fragment(files[id], arts) /\ Written(files[id], arts, todo, writing)
CopyInv ==
    pc = "copy" =>
      /\ files[id] # NoDir /\ tmp # NoDir
      /\ Fragment(tmp, ExceptManifest(files[id]))
      /\ Written(tmp, ExceptManifest(files[id]), todo, writing)
RestoreInv ==
    /\ pc \in {"merge", "remove", "rename"} =>
         /\ tmp # NoDir /\ \E a \in ArtifactSets : Fragment(tmp, a)
         /\ arts # Unreadable => tmp = arts
    /\ pc \in {"remove", "rename"} => place # "merge"
    /\ pc = "merge" =>
         /\ place = "merge"
         /\ Written(IF target = NoDir THEN EmptyDir ELSE target, tmp, todo, writing)
DeleteInv == pc = "delete" => id \notin DOMAIN made /\ files[id] # NoDir
IdleInv == pc \in {"idle", "delete"} => writing = NoPath

SnapshotInv ==
    /\ SnapshotTypeOK /\ FilesInv /\ CreateInv /\ CopyInv /\ RestoreInv /\ DeleteInv /\ IdleInv
    /\ SnapshotsDurable /\ TargetNeverMixed

-----------------------------------------------------------------------------
\* A directory is a function on paths, and never one of the special values.
LEMMA Directories ==
    /\ \A d \in Directory : /\ DOMAIN d \subseteq Paths /\ d = [p \in DOMAIN d |-> d[p]]
                            /\ \A p \in DOMAIN d : d[p] \in Contents \cup {Torn}
                            /\ d # NoDir /\ NoPath \notin DOMAIN d
    /\ \A a \in ArtifactSets : a \in Directory /\ a # NoDir /\ a # Unreadable
    /\ EmptyDir \in Directory /\ DOMAIN EmptyDir = {}
<1>1. ASSUME NEW d \in Directory
      PROVE  /\ DOMAIN d \subseteq Paths /\ d = [p \in DOMAIN d |-> d[p]]
             /\ \A p \in DOMAIN d : d[p] \in Contents \cup {Torn}
             /\ d # NoDir /\ NoPath \notin DOMAIN d
  <2>1. PICK S \in SUBSET Paths : d \in [S -> Contents \cup {Torn}]
      BY DEF Directory
  <2>2. QED
      BY <2>1, SnapshotAssumption
<1>2. ASSUME NEW a \in ArtifactSets PROVE a \in Directory
  <2>1. PICK S \in SUBSET Paths : a \in [S -> Contents]
      BY SnapshotAssumption
  <2>2. a \in [S -> Contents \cup {Torn}]
      BY <2>1
  <2>3. QED
      BY <2>2 DEF Directory
<1>3. EmptyDir \in Directory /\ DOMAIN EmptyDir = {}
  <2>1. EmptyDir \in [{} -> Contents \cup {Torn}] /\ {} \in SUBSET Paths
      BY DEF EmptyDir
  <2>2. QED
      BY <2>1 DEF Directory, EmptyDir
<1>4. QED
    BY <1>1, <1>2, <1>3, SnapshotAssumption

\* A loop of WriteFile that is through has made a copy.
LEMMA CopyIsExact ==
    ASSUME NEW d \in Directory, NEW e \in Directory, NEW w,
           Fragment(d, e), Written(d, e, {}, w)
    PROVE  d = e
<1>1. DOMAIN d = DOMAIN e /\ \A p \in DOMAIN d : d[p] = e[p]
    BY DEF Fragment, Written
<1>2. d = [p \in DOMAIN d |-> d[p]] /\ e = [p \in DOMAIN e |-> e[p]]
    BY Directories
<1>3. QED
    BY <1>1, <1>2

\* RemoveAll takes entries away.
LEMMA Removed ==
    ASSUME NEW d \in Directory, NEW S \in SUBSET DOMAIN d
    PROVE  /\ Restrict(d, S) \in Directory /\ DOMAIN Restrict(d, S) = S
           /\ \A p \in S : Restrict(d, S)[p] = d[p]
<1>1. DOMAIN d \subseteq Paths /\ \A p \in DOMAIN d : d[p] \in Contents \cup {Torn}
    BY Directories
<1>2. Restrict(d, S) \in [S -> Contents \cup {Torn}]
    BY <1>1 DEF Restrict
<1>3. S \in SUBSET Paths
    BY <1>1
<1>4. Restrict(d, S) \in Directory
    BY <1>2, <1>3 DEF Directory
<1>5. QED
    BY <1>4 DEF Restrict

\* What Restore copies of a directory is a part of it.
LEMMA PassedOver ==
    ASSUME NEW d \in Directory
    PROVE  /\ ExceptManifest(d) \in Directory /\ ExceptManifest(d) # NoDir
           /\ DOMAIN ExceptManifest(d) = DOMAIN d \ {ManifestPath}
           /\ \A p \in DOMAIN ExceptManifest(d) : ExceptManifest(d)[p] = d[p]
BY Removed, Directories DEF ExceptManifest

\* WriteFile leaves the files alone that are not in the source.
LEMMA WriteStep ==
    ASSUME NEW dir, NEW newDir, NEW src \in Directory,
           Written(dir, src, todo, writing), WriteFile(dir, newDir, src)
    PROVE  /\ Written(newDir, src, todo', writing') /\ pc' = pc /\ id' = id /\ arts' = arts
           /\ Fragment(dir, src) => Fragment(newDir, src)
           /\ \A p \in DOMAIN dir \ DOMAIN src : p \in DOMAIN newDir /\ newDir[p] = dir[p]
<1>1. NoPath \notin DOMAIN src
    BY Directories
<1>2. CASE writing = NoPath
  <2>1. PICK p \in todo : writing' = p /\ newDir = With(dir, p, Torn)
      BY <1>1, <1>2 DEF WriteFile
  <2>2. todo' = todo /\ pc' = pc /\ id' = id /\ arts' = arts
      BY <1>2 DEF WriteFile
  <2>3. p \in DOMAIN src
      BY DEF Written
  <2>4. /\ DOMAIN newDir = DOMAIN dir \cup {p} /\ newDir[p] = Torn
        /\ \A q \in DOMAIN dir \ {p} : newDir[q] = dir[q]
      BY <2>1 DEF With
  <2>5. QED
      BY <2>1, <2>2, <2>3, <2>4 DEF Written, Fragment
<1>3. CASE writing # NoPath
  <2>1. /\ newDir = With(dir, writing, src[writing]) /\ writing' = NoPath
        /\ todo' = todo \ {writing} /\ pc' = pc /\ id' = id /\ arts' = arts
      BY <1>3 DEF WriteFile
  <2>2. writing \in todo /\ writing \in DOMAIN src
      BY <1>3 DEF Written
  <2>3. /\ DOMAIN newDir = DOMAIN dir \cup {writing} /\ newDir[writing] = src[writing]
        /\ \A q \in DOMAIN dir \ {writing} : newDir[q] = dir[q]
      BY <2>1 DEF With
  <2>4. QED
      BY <2>1, <2>2, <2>3 DEF Written, Fragment
<1>4. QED
    BY <1>2, <1>3

-----------------------------------------------------------------------------
\* What a step keeps that leaves the snapshots alone, or the target.
LEMMA SnapshotsKept ==
    ASSUME SnapshotInv, UNCHANGED <<files, manifest, made>>
    PROVE  FilesInv' /\ SnapshotsDurable'
BY DEF SnapshotInv, FilesInv, SnapshotsDurable

\* A step that leaves the target alone.
LEMMA TargetKept ==
    ASSUME SnapshotInv, UNCHANGED <<target, place>>
    PROVE  TargetNeverMixed'
BY DEF SnapshotInv, TargetNeverMixed

\* Create makes the snapshot's directory.
LEMMA CreateStep ==
    ASSUME SnapshotInv, NEW s \in SnapIDs, NEW a \in ArtifactSets, Create(s, a)
    PROVE  SnapshotInv'
<1>1. /\ files[s] = NoDir /\ pc = "idle" /\ pc' = "create" /\ id' = s /\ todo' = DOMAIN a
      /\ arts' = a /\ files' = [files EXCEPT ![s] = EmptyDir]
      /\ target' \in {target, EmptyDir}
      /\ UNCHANGED <<writing, place, manifest, tmp, made, faults>>
    BY DEF Create, Begin
<1>2. SnapshotTypeOK /\ FilesInv /\ SnapshotsDurable
    BY DEF SnapshotInv
<1>3. /\ files'[s] = EmptyDir /\ files' \in [SnapIDs -> Directory \cup {NoDir}]
      /\ \A t \in SnapIDs \ {s} : files'[t] = files[t]
    BY <1>1, <1>2, Directories DEF SnapshotTypeOK
<1>4. s \notin DOMAIN made /\ manifest[s] = Unreadable
  <2>1. s \in DOMAIN made => made[s] \in ArtifactSets /\ manifest[s] = made[s]
      BY <1>2 DEF SnapshotTypeOK, SnapshotsDurable
  <2>2. QED
      BY <1>1, <1>2, <2>1, Directories DEF FilesInv
<1>5. Fragment(EmptyDir, a)
    BY Directories DEF Fragment
<1>6. SnapshotTypeOK'
    BY <1>1, <1>2, <1>3, Directories DEF SnapshotTypeOK, Stages
<1>7. FilesInv'
    BY <1>1, <1>2, <1>3, <1>4, <1>5 DEF FilesInv
<1>8. CreateInv'
  <2>1. Written(EmptyDir, a, DOMAIN a, NoPath)
      BY DEF Written
  <2>2. writing' = NoPath
      BY <1>1 DEF SnapshotInv, IdleInv
  <2>3. QED
      BY <1>1, <1>3, <1>4, <1>5, <2>1, <2>2, Directories DEF CreateInv
<1>9. CopyInv' /\ RestoreInv' /\ DeleteInv' /\ IdleInv'
    BY <1>1 DEF CopyInv, RestoreInv, DeleteInv, IdleInv
<1>10. SnapshotsDurable'
    BY <1>1, <1>2, <1>3, <1>4 DEF SnapshotTypeOK, SnapshotsDurable
<1>11. TargetNeverMixed'
    BY <1>1, Directories DEF SnapshotInv, TargetNeverMixed
<1>12. QED
    BY <1>1, <1>6, <1>7, <1>8, <1>9, <1>10, <1>11 DEF SnapshotInv

\* Writing one artifact of a new snapshot touches no finished one.
LEMMA CreateFileStep ==
    ASSUME SnapshotInv, CreateFile
    PROVE  SnapshotInv'
<1>0. SnapshotTypeOK /\ FilesInv /\ SnapshotsDurable /\ CreateInv
    BY DEF SnapshotInv
<1>1. PICK dir \in Directory : WriteFile(files[id], dir, arts) /\ files' = [files EXCEPT ![id] = dir]
    BY DEF CreateFile
<1>2. pc = "create" /\ UNCHANGED <<place, manifest, target, tmp, made, faults>>
    BY DEF CreateFile
<1>3. /\ arts \in ArtifactSets /\ id \notin DOMAIN made /\ files[id] # NoDir
      /\ manifest[id] = Unreadable /\ id \in SnapIDs
      /\ Fragment(files[id], arts) /\ Written(files[id], arts, todo, writing)
    BY <1>0, <1>2 DEF CreateInv, SnapshotTypeOK
<1>4. PICK a \in ArtifactSets, old \in Directory : a = arts /\ old = files[id]
    BY <1>0, <1>3 DEF SnapshotTypeOK
<1>5. /\ Written(dir, a, todo', writing') /\ pc' = pc /\ id' = id /\ arts' = a
      /\ Fragment(dir, a)
  <2>1. WriteFile(old, dir, a) /\ Written(old, a, todo, writing) /\ Fragment(old, a) /\ a \in Directory
      BY <1>1, <1>3, <1>4, Directories
  <2>2. QED
      BY <1>4, <2>1, WriteStep
<1>6. /\ files' \in [SnapIDs -> Directory \cup {NoDir}] /\ files'[id] = dir /\ dir # NoDir
      /\ \A t \in SnapIDs \ {id} : files'[t] = files[t]
    BY <1>0, <1>1, <1>3, Directories DEF SnapshotTypeOK
<1>7. SnapshotTypeOK'
    BY <1>0, <1>2, <1>5, <1>6 DEF SnapshotTypeOK
<1>8. FilesInv'
    BY <1>0, <1>2, <1>3, <1>5, <1>6 DEF FilesInv
<1>9. CreateInv'
    BY <1>2, <1>3, <1>4, <1>5, <1>6 DEF CreateInv
<1>10. CopyInv' /\ RestoreInv' /\ DeleteInv' /\ IdleInv'
    BY <1>2, <1>5 DEF CopyInv, RestoreInv, DeleteInv, IdleInv
<1>11. SnapshotsDurable'
    BY <1>0, <1>2, <1>3, <1>6 DEF SnapshotTypeOK, SnapshotsDurable
<1>12. QED
    BY <1>2, <1>7, <1>8, <1>9, <1>10, <1>11, TargetKept DEF SnapshotInv

\* Create returns: from here on the snapshot counts.
LEMMA CreateManifestStep ==
    ASSUME SnapshotInv, CreateManifest
    PROVE  SnapshotInv'
<1>0. SnapshotTypeOK /\ FilesInv /\ SnapshotsDurable /\ CreateInv
    BY DEF SnapshotInv
<1>1. /\ pc = "create" /\ todo = {} /\ manifest' = [manifest EXCEPT ![id] = arts]
      /\ files' = [files EXCEPT ![id] = ExceptManifest(@)]
      /\ made' = With(made, id, arts) /\ pc' = "idle" /\ writing' = NoPath
      /\ UNCHANGED <<id, place, target, tmp, faults>>
    BY DEF CreateManifest, Return
<1>2. /\ arts \in ArtifactSets /\ files[id] # NoDir /\ id \in SnapIDs
      /\ Fragment(files[id], arts) /\ Written(files[id], arts, todo, writing)
    BY <1>0, <1>1 DEF CreateInv, SnapshotTypeOK
<1>3. PICK a \in ArtifactSets, old \in Directory, w \in {writing} :
        a = arts /\ old = files[id] /\ w = writing
    BY <1>0, <1>2 DEF SnapshotTypeOK
<1>4. files[id] = a
  <2>1. Fragment(old, a) /\ Written(old, a, {}, w) /\ a \in Directory
      BY <1>1, <1>2, <1>3, Directories
  <2>2. QED
      BY <1>3, <2>1, CopyIsExact
<1>5. /\ manifest' \in [SnapIDs -> ArtifactSets \cup {Unreadable}] /\ manifest'[id] = a
      /\ \A t \in SnapIDs \ {id} : manifest'[t] = manifest[t] /\ files'[t] = files[t]
    BY <1>0, <1>1, <1>2, <1>3 DEF SnapshotTypeOK
<1>12. /\ files' \in [SnapIDs -> Directory \cup {NoDir}] /\ files'[id] = ExceptManifest(a)
       /\ ExceptManifest(a) \in Directory /\ ExceptManifest(a) # NoDir
       /\ DOMAIN ExceptManifest(a) \subseteq DOMAIN a
       /\ \A p \in DOMAIN ExceptManifest(a) : ExceptManifest(a)[p] = a[p]
  <2>1. /\ a \in Directory /\ ExceptManifest(a) \in Directory /\ ExceptManifest(a) # NoDir
        /\ DOMAIN ExceptManifest(a) \subseteq DOMAIN a
        /\ \A p \in DOMAIN ExceptManifest(a) : ExceptManifest(a)[p] = a[p]
      BY Directories, PassedOver
  <2>2. files' = [files EXCEPT ![id] = ExceptManifest(a)]
      BY <1>1, <1>4
  <2>3. QED
      BY <1>0, <1>2, <2>1, <2>2 DEF SnapshotTypeOK
<1>6. /\ DOMAIN made' = DOMAIN made \cup {id} /\ made'[id] = a
      /\ \A t \in DOMAIN made \ {id} : made'[t] = made[t]
    BY <1>1, <1>3 DEF With
<1>7. SnapshotTypeOK'
    BY <1>0, <1>1, <1>2, <1>5, <1>6, <1>12 DEF SnapshotTypeOK, Stages
<1>8. FilesInv'
  <2>1. ASSUME NEW t \in SnapIDs, t # id, manifest'[t] # Unreadable
        PROVE  /\ files'[t] # NoDir /\ DOMAIN files'[t] \subseteq DOMAIN manifest'[t]
               /\ \A p \in DOMAIN files'[t] : files'[t][p] = manifest'[t][p]
      BY <1>0, <1>1, <1>5, <2>1 DEF FilesInv
  <2>2. /\ files'[id] # NoDir /\ DOMAIN files'[id] \subseteq DOMAIN manifest'[id]
        /\ \A p \in DOMAIN files'[id] : files'[id][p] = manifest'[id][p]
      BY <1>5, <1>12
  <2>3. Fragment(files'[id], a) /\ a \in ArtifactSets
      BY <1>12 DEF Fragment
  <2>4. ASSUME NEW t \in SnapIDs, files'[t] # NoDir
        PROVE  \E b \in ArtifactSets : Fragment(files'[t], b)
      BY <1>0, <1>5, <2>3, <2>4 DEF FilesInv
  <2>5. QED
      BY <2>1, <2>2, <2>4 DEF FilesInv
<1>9. CreateInv' /\ CopyInv' /\ RestoreInv' /\ DeleteInv' /\ IdleInv'
    BY <1>1 DEF CreateInv, CopyInv, RestoreInv, DeleteInv, IdleInv
<1>10. SnapshotsDurable'
    BY <1>0, <1>5, <1>6, <1>12 DEF SnapshotTypeOK, SnapshotsDurable
<1>11. QED
    BY <1>1, <1>7, <1>8, <1>9, <1>10, TargetKept DEF SnapshotInv

\* Restore empties its temporary directory, copies, and compares.
LEMMA RestoreStep ==
    ASSUME SnapshotInv, NEW s \in SnapIDs, Restore(s)
    PROVE  SnapshotInv'
<1>1. /\ files[s] # NoDir /\ pc = "idle" /\ pc' = "copy" /\ id' = s
      /\ todo' = DOMAIN files[s] \ {ManifestPath} /\ tmp' = EmptyDir
      /\ UNCHANGED <<writing, place, files, manifest, target, made, faults>>
    BY DEF Restore, Begin
<1>2. SnapshotTypeOK'
    BY <1>1, Directories DEF SnapshotInv, SnapshotTypeOK, Stages
<1>3. CopyInv'
  <2>1. writing' = NoPath
      BY <1>1 DEF SnapshotInv, IdleInv
  <2>2. PICK src \in Directory : src = files[s]
      BY <1>1 DEF SnapshotInv, SnapshotTypeOK
  <2>3. todo' = DOMAIN ExceptManifest(src)
      BY <1>1, <2>2, PassedOver
  <2>4. /\ Fragment(EmptyDir, ExceptManifest(src))
        /\ Written(EmptyDir, ExceptManifest(src), DOMAIN ExceptManifest(src), NoPath)
      BY Directories DEF Fragment, Written
  <2>5. QED
      BY <1>1, <2>1, <2>2, <2>3, <2>4, Directories DEF CopyInv
<1>4. CreateInv' /\ RestoreInv' /\ DeleteInv' /\ IdleInv'
    BY <1>1 DEF CreateInv, RestoreInv, DeleteInv, IdleInv
<1>5. QED
    BY <1>1, <1>2, <1>3, <1>4, SnapshotsKept, TargetKept DEF SnapshotInv

\* Copying one file of the snapshot to the temporary directory.
LEMMA CopyFileStep ==
    ASSUME SnapshotInv, CopyFile
    PROVE  SnapshotInv'
<1>0. SnapshotTypeOK /\ CopyInv
    BY DEF SnapshotInv
<1>1. PICK dir \in Directory : WriteFile(tmp, dir, ExceptManifest(files[id])) /\ tmp' = dir
    BY DEF CopyFile
<1>2. pc = "copy" /\ UNCHANGED <<place, files, manifest, target, made, faults>>
    BY DEF CopyFile
<1>3. /\ files[id] # NoDir /\ id \in SnapIDs /\ files[id] \in Directory
      /\ ExceptManifest(files[id]) \in Directory
      /\ Fragment(tmp, ExceptManifest(files[id]))
      /\ Written(tmp, ExceptManifest(files[id]), todo, writing)
    BY <1>0, <1>2, PassedOver DEF CopyInv, SnapshotTypeOK
<1>4. PICK src \in Directory, old \in Directory : src = ExceptManifest(files[id]) /\ old = tmp
    BY <1>0, <1>2, <1>3 DEF SnapshotTypeOK, CopyInv
<1>5. /\ Written(dir, src, todo', writing') /\ pc' = pc /\ id' = id /\ Fragment(dir, src)
  <2>1. WriteFile(old, dir, src) /\ Written(old, src, todo, writing) /\ Fragment(old, src)
      BY <1>1, <1>3, <1>4
  <2>2. QED
      BY <2>1, WriteStep
<1>6. SnapshotTypeOK'
    BY <1>0, <1>1, <1>2, <1>5 DEF SnapshotTypeOK
<1>7. CopyInv'
    BY <1>1, <1>2, <1>3, <1>4, <1>5, Directories DEF CopyInv
<1>8. CreateInv' /\ RestoreInv' /\ DeleteInv' /\ IdleInv'
    BY <1>2, <1>5 DEF CreateInv, RestoreInv, DeleteInv, IdleInv
<1>9. QED
    BY <1>2, <1>6, <1>7, <1>8, SnapshotsKept, TargetKept DEF SnapshotInv

\* A copy whose check passed is what the manifest says.
LEMMA CheckedCopy ==
    ASSUME NEW dir \in Directory, NEW m \in ArtifactSets, DOMAIN dir \subseteq DOMAIN m,
           Intact(dir, m)
    PROVE  dir = m
<1>1. m \in Directory /\ m # Unreadable
    BY Directories
<1>2. Fragment(dir, m) /\ Written(dir, m, {}, NoPath)
    BY <1>1 DEF Intact, Fragment, Written
<1>3. QED
    BY <1>1, <1>2, CopyIsExact

\* The copy goes on only if it is what the manifest says.
LEMMA VerifyStep ==
    ASSUME SnapshotInv, Verify
    PROVE  SnapshotInv'
<1>0. SnapshotTypeOK /\ FilesInv /\ CopyInv
    BY DEF SnapshotInv
<1>1. pc = "copy" /\ todo = {} /\ UNCHANGED <<id, place, files, manifest, target, made, faults>>
    BY DEF Verify, Return
<1>2. /\ tmp \in Directory /\ id \in SnapIDs /\ files[id] \in Directory /\ tmp # NoDir
      /\ files[id] # NoDir /\ Fragment(tmp, ExceptManifest(files[id]))
      /\ Written(tmp, ExceptManifest(files[id]), todo, writing)
    BY <1>0, <1>1 DEF CopyInv, SnapshotTypeOK
<1>3. tmp = ExceptManifest(files[id])
  <2>1. PICK src \in Directory, dir \in Directory, w \in {writing} :
          src = ExceptManifest(files[id]) /\ dir = tmp /\ w = writing
      BY <1>2, PassedOver
  <2>2. Fragment(dir, src) /\ Written(dir, src, {}, w)
      BY <1>1, <1>2, <2>1
  <2>3. QED
      BY <2>1, <2>2, CopyIsExact
<1>4. PICK old \in Directory : old = files[id]
    BY <1>2
<1>5. /\ DOMAIN tmp \subseteq DOMAIN old /\ \A p \in DOMAIN tmp : tmp[p] = old[p]
    BY <1>3, <1>4, PassedOver
<1>6. CASE Intact(tmp, manifest[id])
  <2>1. /\ pc' = (IF place = "merge" THEN "merge" ELSE "remove") /\ todo' = DOMAIN tmp
        /\ arts' = manifest[id] /\ UNCHANGED <<writing, tmp>>
      BY <1>6 DEF Verify
  <2>2. writing' = NoPath
      BY <1>1, <1>2, <2>1 DEF Written
  <2>3. SnapshotTypeOK'
      BY <1>0, <1>1, <2>1 DEF SnapshotTypeOK, Stages
  <2>4. \A d : Written(d, tmp, DOMAIN tmp, NoPath)
      BY DEF Written
  <2>5. RestoreInv'
    <3>1. PICK a \in ArtifactSets : Fragment(old, a)
        BY <1>0, <1>2, <1>4 DEF FilesInv
    <3>2. Fragment(tmp, a)
        BY <1>5, <3>1 DEF Fragment
    <3>3. arts' # Unreadable => tmp = arts'
      <4>1. SUFFICES ASSUME arts' # Unreadable PROVE tmp = manifest[id]
          BY <2>1
      <4>2. manifest[id] \in ArtifactSets
          BY <1>0, <1>2, <2>1, <4>1 DEF SnapshotTypeOK
      <4>3. DOMAIN old \subseteq DOMAIN manifest[id]
          BY <1>0, <1>2, <1>4, <2>1, <4>1 DEF FilesInv
      <4>4. QED
          BY <1>2, <1>5, <1>6, <4>2, <4>3, CheckedCopy
    <3>4. \A d : Written(d, tmp', todo', writing')
        BY <2>1, <2>2, <2>4
    <3>5. /\ pc' \in {"remove", "rename"} => place' # "merge"
          /\ pc' = "merge" => place' = "merge"
        BY <1>1, <2>1
    <3>6. QED
        BY <1>2, <2>1, <3>2, <3>3, <3>4, <3>5 DEF RestoreInv
  <2>6. CreateInv' /\ CopyInv' /\ DeleteInv' /\ IdleInv'
      BY <2>1 DEF CreateInv, CopyInv, DeleteInv, IdleInv
  <2>7. QED
      BY <1>1, <2>3, <2>5, <2>6, SnapshotsKept, TargetKept DEF SnapshotInv
<1>7. CASE ~Intact(tmp, manifest[id])
  <2>1. tmp' = NoDir /\ pc' = "idle" /\ writing' = NoPath
      BY <1>7 DEF Verify, Return
  <2>2. SnapshotTypeOK'
      BY <1>0, <1>1, <2>1 DEF SnapshotTypeOK, Stages
  <2>3. CreateInv' /\ CopyInv' /\ RestoreInv' /\ DeleteInv' /\ IdleInv'
      BY <2>1 DEF CreateInv, CopyInv, RestoreInv, DeleteInv, IdleInv
  <2>4. QED
      BY <1>1, <2>2, <2>3, SnapshotsKept, TargetKept DEF SnapshotInv
<1>8. QED
    BY <1>6, <1>7

\* What is known while "." or the root is merged into.
LEMMA Merging ==
    ASSUME SnapshotInv, MergeFile
    PROVE  \E dir \in Directory :
             /\ target' = dir /\ Written(dir, tmp, todo', writing')
             /\ pc = "merge" /\ place = "merge" /\ pc' = pc /\ id' = id /\ arts' = arts
             /\ target # NoDir => \A p \in DOMAIN target \ DOMAIN tmp :
                                    p \in DOMAIN dir /\ dir[p] = target[p]
             /\ UNCHANGED <<place, files, manifest, tmp, made, faults>>
<1>0. SnapshotTypeOK /\ RestoreInv
    BY DEF SnapshotInv
<1>1. PICK dir \in Directory :
        WriteFile(IF target = NoDir THEN EmptyDir ELSE target, dir, tmp) /\ target' = dir
    BY DEF MergeFile
<1>2. pc = "merge" /\ UNCHANGED <<place, files, manifest, tmp, made, faults>>
    BY DEF MergeFile
<1>3. /\ tmp \in Directory /\ place = "merge"
      /\ Written(IF target = NoDir THEN EmptyDir ELSE target, tmp, todo, writing)
    BY <1>0, <1>2 DEF RestoreInv, SnapshotTypeOK
<1>4. PICK src \in Directory, old \in Directory :
        src = tmp /\ old = IF target = NoDir THEN EmptyDir ELSE target
    BY <1>0, <1>3, Directories DEF SnapshotTypeOK
<1>5. /\ Written(dir, src, todo', writing') /\ pc' = pc /\ id' = id /\ arts' = arts
      /\ \A p \in DOMAIN old \ DOMAIN src : p \in DOMAIN dir /\ dir[p] = old[p]
  <2>1. WriteFile(old, dir, src) /\ Written(old, src, todo, writing)
      BY <1>1, <1>3, <1>4
  <2>2. QED
      BY <2>1, WriteStep
<1>6. QED
    BY <1>1, <1>2, <1>3, <1>4, <1>5

\* Writing one file of the copy into the target.
LEMMA MergeFileStep ==
    ASSUME SnapshotInv, MergeFile
    PROVE  SnapshotInv'
<1>1. PICK dir \in Directory :
        /\ target' = dir /\ Written(dir, tmp, todo', writing')
        /\ pc = "merge" /\ place = "merge" /\ pc' = pc /\ id' = id /\ arts' = arts
        /\ UNCHANGED <<place, files, manifest, tmp, made, faults>>
    BY Merging
<1>2. SnapshotTypeOK'
    BY <1>1 DEF SnapshotInv, SnapshotTypeOK
<1>3. RestoreInv'
  <2>1. /\ tmp # NoDir /\ \E a \in ArtifactSets : Fragment(tmp, a)
        /\ arts # Unreadable => tmp = arts
      BY <1>1 DEF SnapshotInv, RestoreInv
  <2>2. target' # NoDir
      BY <1>1, Directories
  <2>3. QED
      BY <1>1, <2>1, <2>2 DEF RestoreInv
<1>4. CreateInv' /\ CopyInv' /\ DeleteInv' /\ IdleInv' /\ TargetNeverMixed'
    BY <1>1 DEF CreateInv, CopyInv, DeleteInv, IdleInv, TargetNeverMixed
<1>5. QED
    BY <1>1, <1>2, <1>3, <1>4, SnapshotsKept DEF SnapshotInv

\* One entry less of a snapshot directory changes no other one.
LEMMA OneEntryGone ==
    ASSUME SnapshotTypeOK, FilesInv, NEW s \in SnapIDs, EntryGone(s)
    PROVE  /\ FilesInv' /\ files' \in [SnapIDs -> Directory \cup {NoDir}]
           /\ manifest' \in [SnapIDs -> ArtifactSets \cup {Unreadable}]
           /\ \A t \in SnapIDs \ {s} : files'[t] = files[t] /\ manifest'[t] = manifest[t]
<1>1. CASE /\ files[s] # NoDir
           /\ \E p \in DOMAIN files[s] :
                files' = [files EXCEPT ![s] = Restrict(@, DOMAIN @ \ {p})]
           /\ UNCHANGED manifest
  <2>1. PICK old \in Directory : old = files[s]
      BY <1>1 DEF SnapshotTypeOK
  <2>2. PICK p \in DOMAIN old : files' = [files EXCEPT ![s] = Restrict(old, DOMAIN old \ {p})]
      BY <1>1, <2>1
  <2> DEFINE dir == Restrict(old, DOMAIN old \ {p})
  <2>3. /\ dir \in Directory /\ DOMAIN dir \subseteq DOMAIN old /\ dir # NoDir
        /\ \A q \in DOMAIN dir : dir[q] = old[q]
      BY Removed, Directories
  <2>4. files' = [files EXCEPT ![s] = dir]
      BY <2>2
  <2> HIDE DEF dir
  <2>5. /\ files' \in [SnapIDs -> Directory \cup {NoDir}] /\ files'[s] = dir
        /\ \A t \in SnapIDs \ {s} : files'[t] = files[t]
      BY <2>3, <2>4 DEF SnapshotTypeOK
  <2>6. PICK a \in ArtifactSets : Fragment(old, a)
      BY <1>1, <2>1 DEF FilesInv
  <2>7. Fragment(dir, a)
      BY <2>3, <2>6 DEF Fragment
  <2>8. manifest[s] # Unreadable =>
          DOMAIN dir \subseteq DOMAIN manifest[s] /\ \A q \in DOMAIN dir : dir[q] = manifest[s][q]
      BY <2>1, <2>3 DEF FilesInv
  <2>9. \A t \in SnapIDs : files'[t] # NoDir => \E b \in ArtifactSets : Fragment(files'[t], b)
      BY <2>5, <2>7 DEF FilesInv
  <2>10. ASSUME NEW t \in SnapIDs, manifest[t] # Unreadable
         PROVE  /\ files'[t] # NoDir /\ DOMAIN files'[t] \subseteq DOMAIN manifest[t]
                /\ \A q \in DOMAIN files'[t] : files'[t][q] = manifest[t][q]
    <3>1. CASE t = s
        BY <2>3, <2>5, <2>8, <2>10, <3>1
    <3>2. CASE t # s
      <4>1. files'[t] = files[t]
          BY <2>5, <3>2
      <4>2. QED
          BY <2>10, <4>1 DEF FilesInv
    <3>3. QED
        BY <3>1, <3>2
  <2>11. manifest' = manifest
      BY <1>1
  <2>12. FilesInv'
      BY <2>9, <2>10, <2>11 DEF FilesInv
  <2>13. QED
      BY <2>5, <2>11, <2>12 DEF SnapshotTypeOK
<1>2. CASE manifest' = [manifest EXCEPT ![s] = Unreadable] /\ UNCHANGED files
  <2>1. /\ manifest' \in [SnapIDs -> ArtifactSets \cup {Unreadable}] /\ manifest'[s] = Unreadable
        /\ \A t \in SnapIDs \ {s} : manifest'[t] = manifest[t]
      BY <1>2 DEF SnapshotTypeOK
  <2>2. FilesInv'
      BY <1>2, <2>1 DEF FilesInv
  <2>3. QED
      BY <1>2, <2>1, <2>2 DEF SnapshotTypeOK
<1>3. CASE /\ manifest[s] = Unreadable /\ files' = [files EXCEPT ![s] = NoDir]
           /\ UNCHANGED manifest
  <2>1. /\ files' \in [SnapIDs -> Directory \cup {NoDir}] /\ files'[s] = NoDir
        /\ \A t \in SnapIDs \ {s} : files'[t] = files[t]
      BY <1>3 DEF SnapshotTypeOK
  <2>2. FilesInv'
      BY <1>3, <2>1 DEF FilesInv
  <2>3. QED
      BY <1>3, <2>1, <2>2 DEF SnapshotTypeOK
<1>4. QED
    BY <1>1, <1>2, <1>3 DEF EntryGone

\* The target goes entry by entry, and the snapshots if it holds them.
LEMMA RemoveEntryStep ==
    ASSUME SnapshotInv, RemoveEntry
    PROVE  SnapshotInv'
<1>0. SnapshotTypeOK /\ FilesInv /\ RestoreInv /\ TargetNeverMixed
    BY DEF SnapshotInv
<1>1. pc = "remove" /\ UNCHANGED <<place, tmp, pc, id, arts, todo, writing, faults>>
    BY DEF RemoveEntry
<1>2. RestoreInv'
    BY <1>0, <1>1 DEF RestoreInv
<1>3. CreateInv' /\ CopyInv' /\ DeleteInv' /\ IdleInv'
    BY <1>1 DEF CreateInv, CopyInv, DeleteInv, IdleInv
<1>4. CASE /\ target # NoDir
           /\ \E p \in DOMAIN target : target' = Restrict(target, DOMAIN target \ {p})
           /\ UNCHANGED <<files, manifest, made>>
  <2>1. PICK old \in Directory : old = target
      BY <1>0, <1>4 DEF SnapshotTypeOK
  <2>2. PICK S \in SUBSET DOMAIN old : target' = Restrict(old, S)
      BY <1>4, <2>1
  <2>3. /\ target' \in Directory /\ DOMAIN target' \subseteq DOMAIN target
        /\ \A p \in DOMAIN target' : target'[p] = target[p]
    <3>1. /\ Restrict(old, S) \in Directory /\ DOMAIN Restrict(old, S) = S
          /\ \A p \in S : Restrict(old, S)[p] = old[p]
        BY Removed
    <3>2. QED
        BY <2>1, <2>2, <3>1
  <2>4. TargetNeverMixed'
      BY <1>0, <1>1, <1>4, <2>3 DEF TargetNeverMixed
  <2>5. SnapshotTypeOK'
      BY <1>0, <1>1, <1>4, <2>3 DEF SnapshotTypeOK
  <2>6. QED
      BY <1>2, <1>3, <1>4, <2>4, <2>5, SnapshotsKept DEF SnapshotInv
<1>5. CASE /\ \E s \in SnapIDs : EntryGone(s)
           /\ made' = EmptyDir /\ UNCHANGED target
  <2>1. /\ FilesInv' /\ files' \in [SnapIDs -> Directory \cup {NoDir}]
        /\ manifest' \in [SnapIDs -> ArtifactSets \cup {Unreadable}]
      BY <1>0, <1>5, OneEntryGone
  <2>2. DOMAIN made' = {}
      BY <1>5, Directories
  <2>3. SnapshotTypeOK' /\ SnapshotsDurable'
      BY <1>0, <1>1, <1>5, <2>1, <2>2 DEF SnapshotTypeOK, SnapshotsDurable
  <2>4. QED
      BY <1>1, <1>2, <1>3, <1>5, <2>1, <2>3, TargetKept DEF SnapshotInv
<1>6. QED
    BY <1>4, <1>5 DEF RemoveEntry

\* The target is removed and replaced by the copy.
LEMMA ReplaceStep ==
    ASSUME SnapshotInv, MergeDone \/ RemoveTarget \/ Rename
    PROVE  SnapshotInv'
<1>0. SnapshotTypeOK /\ FilesInv /\ RestoreInv
    BY DEF SnapshotInv
<1>1. CASE MergeDone \/ (RemoveTarget /\ place = "holdsBoth")
  <2>1. /\ tmp' = NoDir /\ pc' = "idle" /\ writing' = NoPath
        /\ UNCHANGED <<id, place, files, manifest, target, made, faults>>
      BY <1>1 DEF MergeDone, RemoveTarget, Return
  <2>2. SnapshotTypeOK'
      BY <1>0, <2>1 DEF SnapshotTypeOK, Stages
  <2>3. CreateInv' /\ CopyInv' /\ RestoreInv' /\ DeleteInv' /\ IdleInv'
      BY <2>1 DEF CreateInv, CopyInv, RestoreInv, DeleteInv, IdleInv
  <2>4. QED
      BY <2>1, <2>2, <2>3, SnapshotsKept, TargetKept DEF SnapshotInv
<1>2. CASE RemoveTarget /\ place # "holdsBoth"
  <2>1. /\ pc = "remove" /\ target' = NoDir /\ pc' = "rename"
        /\ UNCHANGED <<place, files, manifest, tmp, id, arts, made, faults>>
      BY <1>2 DEF RemoveTarget
  <2>2. SnapshotTypeOK'
      BY <1>0, <2>1 DEF SnapshotTypeOK, Stages
  <2>3. RestoreInv'
      BY <1>0, <2>1 DEF RestoreInv
  <2>4. CreateInv' /\ CopyInv' /\ DeleteInv' /\ IdleInv' /\ TargetNeverMixed'
      BY <2>1 DEF CreateInv, CopyInv, DeleteInv, IdleInv, TargetNeverMixed
  <2>5. QED
      BY <2>1, <2>2, <2>3, <2>4, SnapshotsKept DEF SnapshotInv
<1>3. CASE Rename
  <2>1. /\ pc = "rename" /\ target' = tmp /\ tmp' = NoDir /\ pc' = "idle" /\ writing' = NoPath
        /\ UNCHANGED <<id, place, files, manifest, made, faults>>
      BY <1>3 DEF Rename, Return
  <2>2. PICK a \in ArtifactSets : Fragment(tmp, a)
      BY <1>0, <2>1 DEF RestoreInv
  <2>3. TargetNeverMixed'
      BY <2>1, <2>2 DEF TargetNeverMixed, Fragment
  <2>4. SnapshotTypeOK'
      BY <1>0, <2>1 DEF SnapshotTypeOK, Stages
  <2>5. CreateInv' /\ CopyInv' /\ RestoreInv' /\ DeleteInv' /\ IdleInv'
      BY <2>1 DEF CreateInv, CopyInv, RestoreInv, DeleteInv, IdleInv
  <2>6. QED
      BY <2>1, <2>3, <2>4, <2>5, SnapshotsKept DEF SnapshotInv
<1>4. QED
    BY <1>1, <1>2, <1>3

\* Delete: the snapshot no longer counts, then its entries go one by one.
LEMMA DeleteStep ==
    ASSUME SnapshotInv, NEW s \in SnapIDs, Delete(s)
    PROVE  SnapshotInv'
<1>0. SnapshotTypeOK /\ FilesInv /\ SnapshotsDurable
    BY DEF SnapshotInv
<1>1. /\ files[s] # NoDir /\ pc = "idle" /\ pc' = "delete" /\ id' = s
      /\ made' = Restrict(made, DOMAIN made \ {s}) /\ UNCHANGED writing
      /\ UNCHANGED <<place, files, manifest, target, tmp, faults>>
    BY DEF Delete, Begin
<1>2. DOMAIN made' = DOMAIN made \ {s} /\ \A t \in DOMAIN made' : made'[t] = made[t]
    BY <1>1 DEF Restrict
<1>3. SnapshotTypeOK'
    BY <1>0, <1>1, <1>2 DEF SnapshotTypeOK, Stages
<1>4. FilesInv' /\ SnapshotsDurable'
    BY <1>0, <1>1, <1>2 DEF FilesInv, SnapshotsDurable
<1>5. CreateInv' /\ CopyInv' /\ RestoreInv' /\ DeleteInv' /\ IdleInv'
    BY <1>1, <1>2 DEF SnapshotInv, CreateInv, CopyInv, RestoreInv, DeleteInv, IdleInv
<1>6. QED
    BY <1>1, <1>3, <1>4, <1>5, TargetKept DEF SnapshotInv

\* Removing one entry of the deleted snapshot.
LEMMA DeleteEntryStep ==
    ASSUME SnapshotInv, DeleteEntry
    PROVE  SnapshotInv'
<1>0. SnapshotTypeOK /\ FilesInv /\ SnapshotsDurable /\ DeleteInv /\ IdleInv
    BY DEF SnapshotInv
<1>1. /\ pc = "delete" /\ EntryGone(id) /\ pc' = (IF files'[id] = NoDir THEN "idle" ELSE pc)
      /\ UNCHANGED <<place, target, tmp, id, writing, made, faults>>
    BY DEF DeleteEntry
<1>2. id \in SnapIDs /\ id \notin DOMAIN made /\ writing = NoPath
    BY <1>0, <1>1 DEF DeleteInv, SnapshotTypeOK, IdleInv
<1>3. /\ FilesInv' /\ files' \in [SnapIDs -> Directory \cup {NoDir}]
      /\ manifest' \in [SnapIDs -> ArtifactSets \cup {Unreadable}]
      /\ \A t \in SnapIDs \ {id} : files'[t] = files[t] /\ manifest'[t] = manifest[t]
    BY <1>0, <1>1, <1>2, OneEntryGone
<1>4. SnapshotTypeOK'
    BY <1>0, <1>1, <1>3 DEF SnapshotTypeOK, Stages
<1>5. SnapshotsDurable'
    BY <1>0, <1>1, <1>2, <1>3 DEF SnapshotTypeOK, SnapshotsDurable
<1>6. CreateInv' /\ CopyInv' /\ RestoreInv' /\ DeleteInv' /\ IdleInv'
    BY <1>1, <1>2 DEF CreateInv, CopyInv, RestoreInv, DeleteInv, IdleInv
<1>7. QED
    BY <1>1, <1>3, <1>4, <1>5, <1>6, TargetKept DEF SnapshotInv

\* An operation ends in the middle, by an error or by a crash.
LEMMA FaultStep ==
    ASSUME SnapshotInv, Fails \/ Crash
    PROVE  SnapshotInv'
<1>0. SnapshotTypeOK
    BY DEF SnapshotInv
<1>1. /\ faults' = faults + 1 /\ tmp' \in {tmp, NoDir} /\ pc' = "idle" /\ writing' = NoPath
      /\ UNCHANGED <<id, place, files, manifest, target, made>>
    BY DEF Fails, Crash, Return
<1>2. SnapshotTypeOK'
    BY <1>0, <1>1 DEF SnapshotTypeOK, Stages
<1>3. CreateInv' /\ CopyInv' /\ RestoreInv' /\ DeleteInv' /\ IdleInv'
    BY <1>1 DEF CreateInv, CopyInv, RestoreInv, DeleteInv, IdleInv
<1>4. QED
    BY <1>1, <1>2, <1>3, SnapshotsKept, TargetKept DEF SnapshotInv

\* Initially there are no snapshots and nothing is under way.
LEMMA InitSnapshots == Init => SnapshotInv
<1> SUFFICES ASSUME Init PROVE SnapshotInv
    OBVIOUS
<1>1. /\ files = [s \in SnapIDs |-> NoDir] /\ manifest = [s \in SnapIDs |-> Unreadable]
      /\ target = InitialTarget /\ tmp = NoDir /\ pc = "idle" /\ id \in SnapIDs
      /\ writing = NoPath /\ made = EmptyDir /\ faults = 0 /\ place \in Places
    BY DEF Init
<1>2. InitialTarget = NoDir \/ InitialTarget \in ArtifactSets
    BY SnapshotAssumption
<1>3. DOMAIN made = {}
    BY <1>1, Directories
<1>4. SnapshotTypeOK
    BY <1>1, <1>2, <1>3, Directories DEF SnapshotTypeOK, Stages
<1>5. FilesInv /\ SnapshotsDurable
    BY <1>1, <1>3 DEF FilesInv, SnapshotsDurable
<1>6. CreateInv /\ CopyInv /\ RestoreInv /\ DeleteInv /\ IdleInv
    BY <1>1 DEF CreateInv, CopyInv, RestoreInv, DeleteInv, IdleInv
<1>7. TargetNeverMixed
    BY <1>1, <1>2 DEF TargetNeverMixed
<1>8. QED
    BY <1>4, <1>5, <1>6, <1>7 DEF SnapshotInv

\* Every step, failure and crash keeps the invariant.
LEMMA SnapshotInductive == Spec => []SnapshotInv
<1>1. SnapshotInv /\ [Next]_vars => SnapshotInv'
  <2> SUFFICES ASSUME SnapshotInv, [Next]_vars PROVE SnapshotInv'
      OBVIOUS
  <2>1. ASSUME NEW s \in SnapIDs, Restore(s) \/ Delete(s) \/ \E a \in ArtifactSets : Create(s, a)
        PROVE  SnapshotInv'
      BY <2>1, RestoreStep, DeleteStep, CreateStep
  <2>2. CASE CreateFile \/ CreateManifest \/ DeleteEntry
      BY <2>2, CreateFileStep, CreateManifestStep, DeleteEntryStep
  <2>3. CASE CopyFile \/ Verify \/ MergeFile \/ MergeDone \/ RemoveEntry \/ RemoveTarget \/ Rename
      BY <2>3, CopyFileStep, VerifyStep, MergeFileStep, RemoveEntryStep, ReplaceStep
  <2>4. CASE Fails \/ Crash
      BY <2>4, FaultStep
  <2>5. CASE UNCHANGED vars
      BY <2>5 DEF vars, SnapshotInv, SnapshotTypeOK, FilesInv, CreateInv, CopyInv, RestoreInv,
                  DeleteInv, IdleInv, SnapshotsDurable, TargetNeverMixed
  <2>6. QED
      BY <2>1, <2>2, <2>3, <2>4, <2>5 DEF Next
<1>2. QED
    BY <1>1, InitSnapshots, PTL DEF Spec

-----------------------------------------------------------------------------
\* A snapshot keeps its artifacts, but for one called manifest.json, from the
\* return of Create to the call of Delete or the removal of a target that holds
\* the snapshots, through every other Restore, error and crash.
THEOREM SnapshotsAreDurable == Spec => []SnapshotsDurable
<1>1. SnapshotInv => SnapshotsDurable
    BY DEF SnapshotInv
<1>2. QED
    BY <1>1, SnapshotInductive, PTL

\* A replaced target holds files of one output only, also after RemoveAll or
\* a copy was interrupted.
THEOREM TargetIsNeverMixed == Spec => []TargetNeverMixed
<1>1. SnapshotInv => TargetNeverMixed
    BY DEF SnapshotInv
<1>2. QED
    BY <1>1, SnapshotInductive, PTL

\* A Restore that replaces the target leaves exactly the manifest's files.
THEOREM RestoresAreExact == Spec => RestoreExact
<1>1. ASSUME SnapshotInv, [Next]_vars, pc = "rename", target' # target, arts # Unreadable
      PROVE  target' = arts
  <2>1. Rename
      BY <1>1 DEF Next, vars, Restore, Delete, Create, Begin, CreateFile, CreateManifest, CopyFile,
                  Verify, MergeFile, MergeDone, RemoveEntry, RemoveTarget, DeleteEntry, Fails, Crash
  <2>2. QED
      BY <1>1, <2>1 DEF Rename, SnapshotInv, RestoreInv
<1>2. QED
    BY <1>1, SnapshotInductive, PTL DEF Spec, RestoreExact

\* A Restore into "." or the root leaves every file of the manifest there and
\* the others as they were.
THEOREM MergesAreExact == Spec => MergeExact
<1>1. ASSUME SnapshotInv, [Next]_vars, pc = "merge"
      PROVE  MergeFile \/ MergeDone \/ Fails \/ Crash \/ UNCHANGED vars
    BY <1>1 DEF Next, Restore, Delete, Create, Begin, CreateFile, CreateManifest, CopyFile,
                Verify, RemoveEntry, RemoveTarget, Rename, DeleteEntry
<1>2. ASSUME SnapshotInv, [Next]_vars, pc = "merge", tmp' = NoDir, faults' = faults,
             arts # Unreadable, NEW p \in DOMAIN arts
      PROVE  target'[p] = arts[p]
  <2>1. tmp # NoDir /\ faults \in Nat
      BY <1>2 DEF SnapshotInv, SnapshotTypeOK, RestoreInv
  <2>2. MergeDone
      BY <1>1, <1>2, <2>1 DEF MergeFile, Fails, Crash, vars
  <2>3. tmp = arts
      BY <1>2 DEF SnapshotInv, RestoreInv
  <2>4. Written(IF target = NoDir THEN EmptyDir ELSE target, tmp, {}, writing)
      BY <1>2, <2>2 DEF SnapshotInv, RestoreInv, MergeDone
  <2>5. QED
      BY <1>2, <2>2, <2>3, <2>4, Directories DEF Written, MergeDone
<1>3. ASSUME SnapshotInv, [Next]_vars, pc = "merge", target # NoDir,
             NEW p \in DOMAIN target \ DOMAIN tmp
      PROVE  target'[p] = target[p]
  <2>1. CASE MergeFile
      BY <1>3, <2>1, Merging
  <2>2. CASE MergeDone \/ Fails \/ Crash \/ UNCHANGED vars
      BY <1>3, <2>2 DEF MergeDone, Fails, Crash, vars
  <2>3. QED
      BY <1>1, <1>3, <2>1, <2>2
<1>4. SnapshotInv /\ [Next]_vars =>
        [/\ pc = "merge" /\ tmp' = NoDir /\ faults' = faults /\ arts # Unreadable
           => \A p \in DOMAIN arts : target'[p] = arts[p]
         /\ pc = "merge" /\ target # NoDir
           => \A p \in DOMAIN target \ DOMAIN tmp : target'[p] = target[p]]_vars
    BY <1>2, <1>3
<1>5. QED
    BY <1>4, SnapshotInductive, PTL DEF Spec, MergeExact
=============================================================================
