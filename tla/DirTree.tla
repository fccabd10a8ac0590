------------------------------ MODULE DirTree ------------------------------
(***************************************************************************)
(* The directory tree of an open pod (pkg/dir, pkg/file, and the compound  *)
(* operations of pkg/dfs/fs_api.go).  A directory is an inode that lists   *)
(* its children; a file is a meta (a feed) that names the blob of its      *)
(* content.  Both are cached by path in memory (dirMap, fileMap).  Every   *)
(* handler is one step; what it leaves behind when one of its calls fails  *)
(* is part of that step.  The feeds are registers (FeedRegister), which is *)
(* what they are with the pool disabled, the default.                      *)
(*                                                                         *)
(* A path is a sequence of names, <<>> the root.  The index file of a      *)
(* directory is the directory's inode here.                                *)
(***************************************************************************)
EXTENDS Integers, SequencesExt

CONSTANTS DirNames, FileNames,
          BackupTimes,      \* seconds at which a file may be backed up
          Blobs,            \* uploaded contents
          MaxDepth,         \* bound on the depth of directories
          NoDir, Absent, Deleted, NotCached,
          CarefulCallers,   \* uploads and moves only name existing directories
          SameSecond,       \* a file may be backed up twice within a second
          DirsMove          \* whether RenameDir is called

ASSUME TreeAssumption ==
    /\ MaxDepth \in Nat \ {0}
    /\ CarefulCallers \in BOOLEAN /\ SameSecond \in BOOLEAN /\ DirsMove \in BOOLEAN

VARIABLES fs,
          past,     \* history: which of Causes has happened since the first open
          unlisted  \* history: what a call that stopped half-way left unlisted

vars == <<fs, past, unlisted>>

\* "moved": a directory was moved, of which the fileMap is not told.
\* "nested": a directory below another was removed, and RemoveInode corrected
\* the list of its grandparent.
\* "backup": a file was backed up, and the upload that was to replace it failed.
Causes == {"moved", "nested", "backup"}

AllFileNames == FileNames \cup (BackupTimes \X FileNames)
DirPaths == UNION {[1..n -> DirNames] : n \in 0..MaxDepth}
FilePaths == {Append(p, n) : p \in DirPaths, n \in AllFileNames}

DirEntry(n) == <<"D", n>>
FileEntry(n) == <<"F", n>>
Entries == {DirEntry(n) : n \in DirNames} \cup {FileEntry(n) : n \in AllFileNames}
EntriesAt(p) == {e \in Entries : e[1] = "D" => Len(p) < MaxDepth}

\* Bounds and marks: a mark is no value of what it marks the absence of.
ASSUME MarksAreNoValues ==
    /\ NoDir \notin Seq(Entries)
    /\ Absent \notin Blobs /\ Deleted \notin Blobs /\ NotCached \notin Blobs
    /\ Absent # Deleted

\* Inodes list entries, metas and the caches name blobs (Inode of inode.go,
\* MetaData of file/meta.go).  The dirMap holds only directories that exist:
\* RemoveInode and RenameDir take the path out of it.
Trees == {d \in [DirPaths -> {NoDir} \cup Seq(Entries)] :
             \A p \in DirPaths : d[p] # NoDir => d[p] \in Seq(EntriesAt(p))}
States == {s \in [dir : Trees,
                  meta : [FilePaths -> Blobs \cup {Absent, Deleted}],
                  live : SUBSET Blobs,
                  dirMap : SUBSET DirPaths,
                  fileMap : [FilePaths -> Blobs \cup {NotCached}],
                  out : {"ok", "error", "panic"}] :
              \A p \in s.dirMap : s.dir[p] # NoDir}

TypeOK == fs \in States

\* MkRootDir, then AddRootDir.
Init ==
    /\ fs = [dir |-> [p \in DirPaths |-> IF p = <<>> THEN <<>> ELSE NoDir],
          meta |-> [p \in FilePaths |-> Absent],
          live |-> {},
          dirMap |-> {<<>>},
          fileMap |-> [p \in FilePaths |-> NotCached],
          out |-> "ok"]
    /\ past = {}
    /\ unlisted = {}

-----------------------------------------------------------------------------
(***************************************************************************)
(* Each call maps a state to the state it leaves; out tells whether it     *)
(* returned an error or panicked, and then nothing after it runs.          *)
(***************************************************************************)
Fail(s) == [s EXCEPT !.out = "error"]
Panic(s) == [s EXCEPT !.out = "panic"]
Then(s, Op(_)) == IF s.out = "ok" THEN Op(s) ELSE s

\* A loop: handle[e] is what its body makes of the value the entries before left.
Each(handle, start, entries) ==
    FoldLeft(LAMBDA value, e : handle[e][value], start, entries)

Parent(p) == IF p = <<>> THEN <<>> ELSE Front(p)
HasMeta(s, p) == p \in FilePaths /\ s.meta[p] \in Blobs

\* Without an index file GetInode tries the feed of the path itself, where
\* older versions kept the inode.  If a file of that name is there, its meta
\* parses as an inode without metadata, which SetInode dereferences.
GetInode(s, p) ==
    IF s.dir[p] # NoDir THEN [s EXCEPT !.dirMap = @ \cup {p}]
    ELSE IF HasMeta(s, p) THEN Panic(s) ELSE Fail(s)

SetInode(s, p, entries) ==
    [s EXCEPT !.dir[p] = entries, !.dirMap = @ \cup {p}]

AddEntryToDir(s, p, e) ==
    Then(GetInode(s, p), LAMBDA t : SetInode(t, p, Append(t.dir[p], e)))

\* The entries that are not e, in their order.
Without(entries, e) ==
    Each([f \in Entries |-> [kept \in Seq(Entries) |->
             IF f # e THEN Append(kept, f) ELSE kept]], <<>>, entries)

RemoveEntryFromDir(s, p, e) ==
    Then(GetInode(s, p), LAMBDA t : SetInode(t, p, Without(t.dir[p], e)))

\* The directory whose list of children RemoveInode corrects.
Corrected(p) == Parent(Parent(p))

DropInode(s, p) ==
    IF s.dir[p] = NoDir THEN Fail(s)
    ELSE [s EXCEPT !.dir[p] = NoDir, !.dirMap = @ \ {p}]

RemoveInode(s, p) ==
    Then(DropInode(s, p),
         LAMBDA t : IF p = <<>> THEN t
                    ELSE RemoveEntryFromDir(t, Corrected(p), DirEntry(Last(p))))

\* File.GetInode: the cached meta, else the feed's.
Seen(s, p) == IF s.fileMap[p] # NotCached THEN s.fileMap[p]
              ELSE IF HasMeta(s, p) THEN s.meta[p] ELSE NotCached
Cache(s, p) == [s EXCEPT !.fileMap[p] = Seen(s, p)]

\* Mutant: the meta stays in the fileMap.
RmFileFeedOnly(s, p) ==
    IF Seen(s, p) = NotCached THEN Fail(s)
    ELSE IF Seen(s, p) \notin s.live THEN Fail(Cache(s, p))
    ELSE [Cache(s, p) EXCEPT !.live = @ \ {Seen(s, p)}, !.meta[p] = Deleted]

RmFile(s, p) ==
    IF Seen(s, p) = NotCached THEN Fail(s)
    ELSE IF Seen(s, p) \notin s.live THEN Fail(Cache(s, p))
    ELSE [s EXCEPT !.live = @ \ {Seen(s, p)}, !.meta[p] = Deleted,
                   !.fileMap[p] = NotCached]

\* RmDir and SyncDirectory descend to longer paths.
rmFile(s, p, e) ==
    Then(RmFile(s, Append(p, e[2])), LAMBDA t : RemoveEntryFromDir(t, p, e))
rmEntries(descend, p) ==
    [e \in EntriesAt(p) |-> [s \in States |->
        Then(s, LAMBDA t : IF e[1] = "F" THEN rmFile(t, p, e)
                           ELSE descend[Append(p, e[2])][t])]]
rmDir[p \in DirPaths] ==
    [s \in States |->
        Then(Then(GetInode(s, p), LAMBDA t : Each(rmEntries(rmDir, p), t, t.dir[p])),
             LAMBDA t : RemoveInode(t, p))]
RmDir(s, p) == rmDir[p][s]

loadFileMeta(s, f) ==
    IF HasMeta(s, f) THEN [s EXCEPT !.fileMap[f] = s.meta[f]] ELSE s

syncEntries(descend, p) ==
    [e \in EntriesAt(p) |-> [s \in States |->
        Then(s, LAMBDA t : IF e[1] = "F" THEN loadFileMeta(t, Append(p, e[2]))
                           ELSE descend[Append(p, e[2])][t])]]
syncDirectory[p \in DirPaths] ==
    [s \in States |->
        LET found == GetInode(s, p)
        IN  CASE found.out = "ok" -> Each(syncEntries(syncDirectory, p), found, found.dir[p])
              [] found.out = "error" -> s
              [] found.out = "panic" -> found]
SyncDirectory(s, p) == syncDirectory[p][s]

\* Mutant: makes the directory again when it is there.
MkDirAgain(s, p) ==
    LET at == GetInode(s, Parent(p))
    IN  IF at.out # "ok" THEN at
        ELSE AddEntryToDir(SetInode(at, p, <<>>), Parent(p), DirEntry(Last(p)))

MkDir(s, p) ==
    LET at == GetInode(s, Parent(p))
        present == GetInode(at, p)
    IN  CASE at.out # "ok" -> at
          [] at.out = "ok" /\ present.out = "ok" -> Fail(present)
          [] at.out = "ok" /\ present.out = "panic" -> present
          [] OTHER -> AddEntryToDir(SetInode(at, p, <<>>), Parent(p), DirEntry(Last(p)))

\* Upload, whose handleMeta creates or updates the feed as needed.  Before that
\* it fails on a block size out of its range, a source that ends early or a
\* block that is not stored: refused.
Upload(s, p, b, refused) ==
    IF refused THEN Fail(s)
    ELSE [s EXCEPT !.meta[p] = b, !.fileMap[p] = b, !.live = @ \cup {b}]

\* CreateFeed on a topic that has updates fails: its first chunk exists.
BackupFromFileName(s, p, backup) ==
    IF ~HasMeta(s, p) THEN Fail(s)
    ELSE LET gone == [s EXCEPT !.meta[p] = Deleted]
         IN  IF s.meta[backup] # Absent THEN Fail(gone)
             ELSE [gone EXCEPT !.meta[backup] = s.meta[p],
                               !.fileMap[backup] = s.meta[p]]

UploadFile(s, d, n, b, overwrite, time, refused) ==
    LET p == Append(d, n)
        backup == <<time, n>>
        kept(t) == Then(BackupFromFileName(t, p, Append(d, backup)),
                        LAMBDA u : AddEntryToDir(u, d, FileEntry(backup)))
        ready == IF Seen(s, p) = NotCached THEN s
                 ELSE Then(IF overwrite THEN Cache(s, p) ELSE kept(Cache(s, p)),
                           LAMBDA t : RemoveEntryFromDir(t, d, FileEntry(n)))
    IN  Then(Then(ready, LAMBDA t : Upload(t, p, b, refused)),
             LAMBDA t : AddEntryToDir(t, d, FileEntry(n)))

DeleteFile(s, d, n) ==
    Then(RmFile(s, Append(d, n)), LAMBDA t : RemoveEntryFromDir(t, d, FileEntry(n)))

\* Mutant: the meta of the old name is not marked deleted.
RenameByCopy(s, p, q) ==
    [s EXCEPT !.meta[q] = Seen(s, p),
              !.fileMap = [@ EXCEPT ![p] = NotCached, ![q] = Seen(s, p)]]

RenameFromFileName(s, p, q) ==
    [s EXCEPT !.meta = [@ EXCEPT ![p] = Deleted, ![q] = Seen(s, p)],
              !.fileMap = [@ EXCEPT ![p] = NotCached, ![q] = Seen(s, p)]]

\* Mutant: the file is moved before the new name is looked up.
RenameUnchecked(s, d, n, e, m) ==
    LET p == Append(d, n)
        q == Append(e, m)
    IN  IF Seen(s, p) = NotCached THEN Fail(s)
        ELSE IF Seen(s, q) # NotCached THEN Fail(RenameFromFileName(s, p, q))
        ELSE Then(AddEntryToDir(RenameFromFileName(s, p, q), e, FileEntry(m)),
                  LAMBDA t : RemoveEntryFromDir(t, d, FileEntry(n)))

RenameFile(s, d, n, e, m) ==
    LET p == Append(d, n)
        q == Append(e, m)
    IN  IF Seen(s, p) = NotCached \/ Seen(s, q) # NotCached THEN Fail(Cache(Cache(s, p), q))
        ELSE Then(AddEntryToDir(RenameFromFileName(s, p, q), e, FileEntry(m)),
                  LAMBDA t : RemoveEntryFromDir(t, d, FileEntry(n)))

\* Mutant: the children keep their paths.
mapNothing(s, old, new) == s

\* The children's metas and inodes move; the fileMap is not told.
moveFile(s, p, q) ==
    CASE s.meta[p] = Absent -> Fail(s)
      [] s.meta[p] = Deleted -> s
      [] OTHER -> [s EXCEPT !.meta = [@ EXCEPT ![q] = s.meta[p], ![p] = Deleted]]

moveDir(s, p, q) ==
    Then(GetInode(s, p), LAMBDA t : RemoveInode(SetInode(t, q, t.dir[p]), p))

mapEntries(descend, old, new) ==
    [e \in EntriesAt(old) |-> [s \in States |->
        LET p == Append(old, e[2])
            q == Append(new, e[2])
        IN  Then(s, LAMBDA t : IF e[1] = "F" THEN moveFile(t, p, q)
                               ELSE Then(descend[p][q][t], LAMBDA u : moveDir(u, p, q)))]]
mapChildren[old \in DirPaths] ==
    [new \in DirPaths |-> [s \in States |->
        IF old \in s.dirMap THEN Each(mapEntries(mapChildren, old, new), s, s.dir[old])
        ELSE Panic(s)]]    \* a nil inode is dereferenced
mapChildrenToNewPath(s, old, new) == mapChildren[old][new][s]

RenameDir(s, old, new) ==
    LET found == Then(GetInode(s, old), LAMBDA t : GetInode(t, Parent(old)))
        taken == GetInode(found, new)
        unlink(t) == DropInode([t EXCEPT !.dir[new] = t.dir[old]], old)
        relist(t) == Then(RemoveEntryFromDir(t, Parent(old), DirEntry(Last(old))),
                          LAMBDA u : AddEntryToDir(u, Parent(new), DirEntry(Last(new))))
        resync(t) == Then(SyncDirectory(t, Parent(old)),
                          LAMBDA u : SyncDirectory(u, Parent(new)))
        moved == Then(Then(mapChildrenToNewPath(found, old, new),
                           LAMBDA t : GetInode(t, old)), unlink)
    IN  CASE found.out # "ok" -> found
          [] found.out = "ok" /\ taken.out = "ok" -> Fail(taken)
          [] found.out = "ok" /\ taken.out = "panic" -> taken
          [] OTHER -> Then(Then(moved, relist), resync)

-----------------------------------------------------------------------------
Begin == [fs EXCEPT !.out = "ok"]
IsDir(p) == fs.dir[p] # NoDir
There(s, d, e) ==
    IF e[1] = "D" THEN s.dir[Append(d, e[2])] # NoDir ELSE s.meta[Append(d, e[2])] \in Blobs
Listed(s, d, e) == s.dir[d] # NoDir /\ e \in Range(s.dir[d])
HasSubdirectory(p) == IsDir(p) /\ \E e \in Range(fs.dir[p]) : e[1] = "D"

\* A content no meta and no cache entry names; bounds the number of files.
FreshBlobs == {b \in Blobs : \A p \in FilePaths : b # fs.meta[p] /\ b # fs.fileMap[p]}

\* Bound: a directory and what is listed below it stays within MaxDepth.
Fits(old, new) ==
    \A p \in DirPaths : IsPrefix(old, p) /\ IsDir(p)
        => \A e \in Range(fs.dir[p]) :
              Len(p) + (IF e[1] = "D" THEN 1 ELSE 0) - Len(old) + Len(new) <= MaxDepth

\* What the step adds to the history.
Leaves(causes, strays) ==
    /\ past' = past \cup causes
    /\ unlisted' = {x \in unlisted \cup strays :
                       There(fs', x[1], x[2]) /\ ~Listed(fs', x[1], x[2])}
When(cause, happens) == IF happens THEN {cause} ELSE {}

MkDirAction ==
    /\ \E p \in DirPaths \ {<<>>} : fs' = MkDir(Begin, p)
    /\ Leaves({}, {})

RmDirAction ==
    \E p \in DirPaths \ {<<>>} :
        /\ fs' = RmDir(Begin, p)
        /\ Leaves(When("nested", IsDir(p) /\ (Len(p) > 1 \/ HasSubdirectory(p))), {})

UploadAction ==
    \E d \in DirPaths, n \in FileNames, b \in FreshBlobs,
       overwrite, refused \in BOOLEAN, time \in BackupTimes :
        /\ CarefulCallers => IsDir(d)
        /\ SameSecond \/ overwrite \/ fs.meta[Append(d, <<time, n>>)] = Absent
        /\ fs' = UploadFile(Begin, d, n, b, overwrite, time, refused)
        /\ Leaves(When("backup", refused /\ ~overwrite /\ HasMeta(fs, Append(d, n))),
                  IF refused /\ overwrite THEN {<<d, FileEntry(n)>>} ELSE {})

DeleteAction ==
    /\ \E d \in DirPaths, n \in AllFileNames : fs' = DeleteFile(Begin, d, n)
    /\ Leaves({}, {})

RenameFileAction ==
    /\ \E d, e \in DirPaths, n \in AllFileNames, m \in FileNames :
          /\ CarefulCallers => IsDir(e)
          /\ fs' = RenameFile(Begin, d, n, e, m)
    /\ Leaves({}, {})

RenameDirAction ==
    /\ DirsMove
    /\ \E old, new \in DirPaths \ {<<>>} :
          /\ IsDir(old) /\ Fits(old, new)
          /\ fs' = RenameDir(Begin, old, new)
          /\ Leaves({"moved"} \cup When("nested", HasSubdirectory(old)),
                    IF IsDir(Parent(new)) /\ ~IsPrefix(old, new) THEN {}
                    ELSE {<<Parent(new), DirEntry(Last(new))>>})

\* The pod is closed and opened again: the caches are loaded from the root.
Reopen ==
    /\ fs' = SyncDirectory([Begin EXCEPT !.dirMap = {},
                                         !.fileMap = [p \in FilePaths |-> NotCached]], <<>>)
    /\ Leaves({}, {})

Next ==
    \/ MkDirAction \/ RmDirAction \/ UploadAction \/ DeleteAction
    \/ RenameFileAction \/ RenameDirAction \/ Reopen

Spec == Init /\ [][Next]_vars

-----------------------------------------------------------------------------
Once(entries, e) ==
    \A i, j \in DOMAIN entries : entries[i] = e /\ entries[j] = e => i = j

\* Every entry of a directory names a child that exists ("remove the directory
\* entry from the parent dir", inode.go): RmDir, RmFile, RenameFile and
\* RenameDir, and calls that fail half-way, leave no entry behind in any
\* directory of the tree, until RemoveInode corrects a grandparent.
EntriesResolve == "nested" \notin past =>
    \A d \in DirPaths : IsDir(d) => \A e \in Range(fs.dir[d]) : There(fs, d, e)

\* Until then every directory and every file is listed exactly once by the
\* directory it is in, which exists, so that ls, sync and RmDir reach it
\* (AddEntryToDir does not look for an earlier entry of that name), except what
\* an overwriting upload that failed, or a move to a missing directory, left.
NoOrphans == "nested" \notin past =>
    \A d \in DirPaths : \A e \in EntriesAt(d) :
        There(fs, d, e) /\ <<d, e>> \notin unlisted
            => Listed(fs, d, e) /\ Once(fs.dir[d], e)

\* While no directory is moved and no backup is left half-way, the content of
\* every file is there and is no other file's: RmFile deletes the blocks the
\* cached meta names, which must be this file's and no one's else.
BlobsLive == past \cap {"moved", "backup"} = {} =>
    /\ \A p \in FilePaths : HasMeta(fs, p) => fs.meta[p] \in fs.live
    /\ \A p, q \in FilePaths : HasMeta(fs, p) /\ fs.meta[p] = fs.meta[q] => p = q

\* What a path is cached as is what its feed says, so that a hit of the fileMap
\* in GetInode answers for the feed it saves reading, until a directory is moved
\* or a backup left half-way.
FileMapFresh == past \cap {"moved", "backup"} = {} =>
    \A p \in FilePaths : fs.fileMap[p] # NotCached => fs.fileMap[p] = fs.meta[p]

\* In a tree where nothing has gone wrong before, a call that returns an error
\* has changed nothing that is stored, the calls that leave something unlisted
\* or half-way excepted.
FailedCallsChangeNothing ==
    [][fs'.out = "error" /\ "moved" \notin past /\ past' \cap {"nested", "backup"} = {}
           /\ unlisted' = unlisted
       => fs'.dir = fs.dir /\ fs'.meta = fs.meta /\ fs'.live = fs.live]_vars

\* No call of a handler panics: IsDirectoryPresent, MkDir and the others answer
\* with an error when a path does not name a directory (ErrDirectoryNotPresent).
NeverPanics == fs.out # "panic"
=============================================================================
