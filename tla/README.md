# FairOS-dfs in TLA+

FairOS-dfs is a file system, a key-value store and a document store kept on
Swarm, where the only mutable thing is a *feed*: a sequence of single-owner
chunks whose addresses are computed from a topic, an owner and an epoch. Every
structure of the program (inode, file meta, list of pods, list of groups, user
record) is one value in one feed, read whole, changed in memory and written
whole. There is no lock between processes, few locks inside one, and a write
may stay in a pool before it reaches Swarm. That is where the hard behaviour of
this code is, and what these modules are about.

Paths below are relative to `src/pkg` unless they start with `src/`.

## 1. The system

| Component | State | Operations | Talks to | What makes it correct |
|---|---|---|---|---|
| feed lookup (`feed/lookup`) | none; epochs (level, base time) | `GetNextLevel`, `GetNextEpoch`, `FluzCapacitorAlgorithm`, `LongEarthAlgorithm` | a `read` callback per epoch | finds the newest update not after a given time, with or without a hint |
| feed handler (`feed/handler.go`) | `CacheEntry` per feed, the pool | `createSoc`, `updateSoc`, `getSoc`, `newRequest`, `Lookup` | block store (bee), clock | an acknowledged update gets a slot of its own on the lookup path |
| feed api (`feed/api.go`) | expirable LRU of unwritten updates | `CreateFeed`, `UpdateFeed`, `GetFeedData`, `DeleteFeed`, `CommitFeeds` | handler | a feed reads as the register last written |
| directories (`dir`) | inode per directory in a feed or index file; `dirMap` cache | `MkDir`, `RmDir`, `RenameDir`, `AddEntryToDir`, `RemoveEntryFromDir`, `ListDir`, `SyncDirectory` | feeds, files, task manager | entries and inodes agree; nothing unreachable is left |
| files (`file`) | meta per file in a feed, blocks, `fileMap` cache | `Upload`, `Download`, `RmFile`, `RenameFromFileName`, `BackupFromFileName`, `WriteAt`, reader | feeds, block store | a meta names blocks that exist and hold the file |
| pods (`pod`, `dfs/pod_api.go`) | list of pods in a feed (V1, V2), `podMap`, keys | `CreatePod`, `OpenPod`, `ClosePod`, `DeletePod`, `ReceivePod`, `PodShare`, `ForkPod`, subscriptions | directories, accounts, feeds | no pod is lost; no two pods share a name or key |
| groups (`pod/group.go`, `pod/groupMember.go`, `acl`) | a list of groups per user, a list of permissions per group, both in feeds; `listMap` by group name and `groupMap` in memory | create, remove, open, close, add and remove members, update permissions, accept an invitation | feeds, ACL | a member has the permission last given, and opens the group with no other |
| accounts (`account`) | user key, keys by pod index | `CreatePodAccount`, `DeletePodAccount`, `GetAddress` | pods | a listed pod's key is its own |
| ACT (`act`) | list of ACTs of a user, a feed with the newest history per ACT | `CreateUpdateACT`, `GrantAccess`, `SaveGrantedPod`, `GetPodAccess` | feeds, block store, `swarm-act` | who was granted and not revoked opens the contents, and nobody else |
| key-value tables (`collection/kv.go`, `index_api.go`) | tries of manifests in feeds, memory batches, open-table maps | put, get, delete, seek, batch, count | feeds, block store | a table is the map last written |
| documents (`collection/document.go`) | an index (a trie) per field, documents as blobs, the list of databases, the open ones | create, open and delete a database, put, get, delete, find, batches, index a file line by line | key-value tries, block store, files | a document is found under its id and its fields until it is replaced or deleted |
| listings (`dir/ls.go`, `file/ls.go`, `dir/sync.go`, `dfs/pod_api.go`) | a WaitGroup, a list or channels per call | `ListDir`, `ListFiles`, `SyncDirectoryAsync`, `PublicPodDisLs` | task manager, feeds | a listing returns, with every name |
| users (`user`, `dfs/user_api.go`, `ensm/eth`) | map of sessions, ENS record, portable account | sign-up, login by password or wallet, logout, delete, share | ENS, feeds, pods | a name stays its user's; half-made users can be repeated |
| front ends (`api`, `cmd/dfs`, `src/wasm`, `src/gomobile`) and `dfs` | cookies and tokens, a session id per websocket or library | some 280 endpoints: check the request and the login, call `dfs`, answer; `dfs` checks the login, the pod or group, and calls the components | everything | nothing without a login, one answer per request, from the drive that was asked for |

Hard behaviour: two sessions of a user write a feed in the same second; a slot
once written is never rewritten; a read that times out looks like an empty
slot; pooled writes fail when nobody waits for them; whole lists are read,
changed and stored by several threads; a process stops between two writes to
two feeds; caches (dirMap, fileMap, podMap, podAccounts, the pool) outlive what
they copy; listings and uploads start goroutines whose counts must match; a call
that changes several indexes, lists or chain records stops half-way; a session
ends while a request of it is under way.

## 2. Modules

### Feeds

* **FeedEpoch** - epochs, `GetNextLevel`, `GetNextEpoch`, with the bit
  arithmetic of the code (`HighestLevel` 25 in the code is a constant).
* **FeedLookup** - both lookup algorithms as functions of the set of slots a
  read finds. `LongEarthStep` gives the *set* of answers its goroutines can
  agree on. The recursions are functions over their positions, so that they can
  be reasoned about.
* **FeedSlots** - abstract: where the updates of one feed may be put. The slot
  of an update is (its base time, a level chosen from the update before it).
  `SlotOf` and the clock are parameters.
* **FeedWriters** - several sessions on one feed: `createSoc`, `newRequest`,
  the upload, "chunk already exists", the one-second sleeps and
  `maxUpdateRetry`. One action per step between which another session may run.
  `Placement` instantiates FeedSlots: the writers implement it.
* **FeedRegister** - abstract: one register per topic, with create, update, read.
* **FeedPool** - the pool of unwritten updates. `putInPool` is three actions
  (Get, Add, the eviction callback), because other callers run in between;
  items expire, are removed by the library's cleaner, are written by
  `CommitFeeds`, and are lost in a crash. The LRU is external and modelled by
  what it does. `handleMeta` and `mapChildrenToNewPath` are the two callers that
  choose between creating and updating a feed. It implements FeedRegister.

### Directories and files

* **DirTree** - a pod's tree: inodes, entries, metas, blobs, dirMap and fileMap
  as one record `fs` with the outcome of the last call. Each call is an operator
  on that record that follows the code's early returns, so a composed operation
  (`RenameFile` = rename the meta, add an entry, remove an entry) stops where
  the code stops. `UploadFile` may be `refused` by `file.Upload`, for a block size
  out of range or a source or store that fails, when the old entry is already out
  of the directory or the old file backed up; `RenameDir` may name a parent that
  is missing, which it finds out after the move. Two history variables say
  what such calls leave: `past`, which of the three things have happened that end
  a property (a directory moved, a nested one removed, a backup left half-way),
  and `unlisted`, what was left without an entry. `CarefulCallers` says whether callers check that the parent is
  there before they upload; `DirsMove` adds `RenameDir`; `SameSecond` lets two
  backups be made in one second. The three walks (`RmDir`, `SyncDirectory`,
  `mapChildrenToNewPath`) are recursive functions of the path whose loops are
  folds over the entries the directory had when the loop began (`Each`), as the
  slice that `range` holds; `Without` is the loop that rebuilds a list.

* **BlockUpload** - the goroutines of `File.Upload` for one file: the one that
  reads, one worker per block (at most `noOfParallelWorkers` at a time), and
  the caller in its select between `doneC` and `errC`; `wg`, `mainErr` and
  `refMap` are shared. `mainErr` is read without synchronization, so a stale
  read is a choice.
* **FileBlocks** - pure operators on blocks: cutting data into blocks,
  `Reader.Read` and `Seek` with their four cursors, and `WriteAt` part by part.
  The loops of `ReadFrom` and `WriteAt` are functions of the rounds made.
* **ByteFile** - abstract: a file is a sequence of bytes, overwritten at
  offsets, read from a position.
* **FileIO** - an upload, then overwrites and readers of the file it left; it
  implements ByteFile. `PartialTails` lets an update end inside a last, short
  block, `SeekLater` lets a reader seek after it has read.

### Pods

* **PodManager** - the list of pods of one user, stored whole; the requests of
  several threads in several sessions, each with its own copy of the list
  between reading and storing it; root directories by key index; maps of open
  pods; loaded keys; crashes of a session; reads of the list that fail
  (`MayMissList`) and the fallback from the V2 to the V1 list. `MayCrash` also lets
  a `DeletePod` fail behind the root directory, at the pod's tables (`del.go:48`).

### Collections

* **KVMap** - abstract: a map whose writes are atomic and whose reads return a
  value the key had at some moment of the read.
* **KVIndex** - pure operators on one manifest: where a key goes
  (`addOrUpdateStringEntry`, sorted insertion), where it is found
  (`findManifest`), where a seek stops (`seekStringKey`). Keys are sequences of
  letters.
* **KVStore** - one table: manifests in feeds, one read or one store per step,
  `openKVTMu`, the list of tables, the open table, `kv.iterator`, failed stores
  and crashes, the list of tables among what may fail (`ListFails`). It implements
  KVMap. `PutsBranchKeys` and `DropsUnderReads` admit the calls under which it does
  not.
* **KVStoreProofs** - that it does, and that iterations give out its keys in order
  and leave none out, for any finite set of keys (section 4).

* **DocStore** - one mutable document database: an index per field as a
  function from keys to references, changed index by index in any order (Go
  ranges over maps) up to the first that refuses or fails; the schema list, the
  open database, batches in memory and the mark `sealed` they leave on the root
  manifests. `Find` gives the set of answers the code may give: its iterator
  stands at the value's key or, when there is none, at one behind it
  (`Landings`), the keys of fields in `Tested` are matched with the value as a
  regular expression and those of numbers, maps and lists not at all (`Passes`),
  and references to documents deleted meanwhile are skipped. `Distinct` keeps
  clients from giving two documents one simple key.
* **DocLines** - the lines of a file: `Reader.ReadLine` with its buffer, over the
  `Read` and `Seek` of FileBlocks, from the start to EOF, and from where a line
  starts after a `Seek`. The jumps back in `ReadLine` are a function of the rounds
  made (`ReadOn`). The databases over a file that this is meant for do not come so
  far: `OpenFileForIndex` decrypts the inode, which `Upload` stores as it is
  (`file/reader.go:83`). **FileIOProofs** proves that lines are found (section 4).

### Users and sharing

* **Accounts** - the registry (`owner`), the public resolver (`pubkey`), the
  chunks of portable accounts at their places, the map of sessions. Sign-up is
  GetOwner, RegisterSubdomain, SetResolver with SetAll, the upload, and the
  session; login is GetOwner and the download. Several calls run at a time and
  each may fail at any step, a receipt may come too late.
* **Groups** - the list of groups of each user and the permissions of each
  group on Swarm; per session the cached permissions by *name*, the open groups,
  and whether its mutex was left locked by a panic. One step per list stored.
  `Careful` and `MayMissList` name what callers do and which reads fail. Opening a
  shared group reads the member's own list, which no other session of his changes
  here, and the owner's permissions in one step.
* **Acts** - each user's list of tables and the feed of each table. A change
  reads the list, writes the feed, stores the list. The history a feed holds is
  the set of users it opens to and the access key it gives them (`accessKey`), with
  which references are encrypted; a revocation makes a new key. `readable` is the
  history of the contents shared since. `swarm-act`, which makes these, is external.

### Listings

* **Listing** - the goroutines of one listing: the caller with its WaitGroup and
  the tasks it gave to the task manager (ListDir, ListFiles,
  SyncDirectoryAsync), or the readers under a semaphore, the goroutine that
  closes the channels and the loop that receives (PublicPodDisLs).
  Files may be deleted while they are listed, and several subdirectories be stored
  in the old way.

### Front ends

* **RequestSteps** - what a request is made of: a sequence of steps, each a
  check that refuses, a call, a write or an answer. One operator per kind.
* **DfsApi** - every exported function of `dfs.API` as its steps: the login, the
  pod or group that must be open, the call below.
* **HttpApi**, **WsApi**, **WasmApi**, **MobileApi** - every handler, websocket
  command, exported wasm function and mobile function as its steps, with DfsApi
  inside. Each line is one endpoint in the order of its source.
* **Gateway** - the state a request runs against (the login, the expired
  cookie, the argument that is missing, the open pod or group) and one action
  per step, between which other clients log out and close pods. The login
  middleware's logout is a step of its own (`GateLogout`), as the handlers' is.
  Its properties speak of one request.
* **FrontEnds** - the catalogue of all endpoints under Gateway, with the sets of
  endpoints that do not keep a property, each named after the property, so that
  the property holds *elsewhere*; and the rules the endpoints' steps follow.
  **FrontEndsProofs** goes from the rules to the properties (section 4).

### Composition

* **Services** - Accounts, Groups, Acts, DocStore and Listing, which share no
  state, each an `INSTANCE` with constants of Services: a behaviour is one of
  one part. **ServicesProofs** proves what it promises (section 4).
* **MCServices** - the instance of Services that TLC checks, with DocLines as one
  part more. In the other parts a file of one line is open and is left alone.
* FileIO composes BlockUpload, FileBlocks and ByteFile, and FeedWriters composes
  FeedEpoch, FeedLookup and FeedSlots.

The MC modules `MCDirTree`, `MCPodManager`, `MCKVStore` and `MCServices` define what a
.cfg cannot express of an instance: constants, symmetries, and the bounds of DirTree.

## 3. Runs

| Run | Instance | Shows |
|---|---|---|
| FeedWriters | 4 levels, 7 times, 2 sessions, 4 updates; in a part of the behaviours reads time out | a lookup finds the latest update, from every hint a session holds; both algorithms agree; with reads that time out, every acknowledged write follows FeedSlots (`WritesArePlaced`), whose slots have no hole (`NoHoles`) |
| FeedPool | 3 topics, 2 values, pool of 2, 1 client | pooled feeds are registers; nothing acknowledged is lost |
| FeedPoolFaults | 2 topics, pool of 1, 2 clients, expiry, faults | what reaches Swarm is what was put in the pool last |
| DirTree | 3 directories on two levels, 2 files, backups, 2 blobs, moves, refused uploads | until a nested directory is removed, entries and inodes agree and nothing is orphaned but what refused uploads and moves to missing directories left; until a directory is moved or a backup left half-way, metas do not outlive blobs, caches are fresh, and failed calls change nothing |
| PodSerial | 3 names, 4 pods ever, 1 thread | listed pods have roots, open pods are listed, no pod is lost, a delete touches its own root only |
| PodThreads | 2 names, 2 threads, crashes, failed reads | the list stays well formed |
| FileIO | 3 blocks of 3 bytes, 2 workers, 2 updates of 0, 1 or 4 bytes that do not end inside a short last block, buffers of 1, 2, 4 and 7 bytes, failing store and source | every upload returns; it is quiet and in order when the inode is built; the blocks are a file of bytes |
| KVStore | 3 keys, 2 values (symmetric), 1 writer with 5 writes, 1 reader with 1 get or seek | the trie is a map; its manifests stay sorted and complete; iterations miss nothing and stay in order; a table that is open is in the list and has its root, though the list may fail to be stored |
| FrontEnds | every endpoint, any one argument missing, any call failing, other clients of the session | nothing without a login; an expired cookie changes nothing; elsewhere than at the listed endpoints one answer, a refusal for a reason only, served from the drive asked for |
| Services: groups | owner, member and a third user, one group name, permissions 0, 1, 2, one entry in a list of shared groups, failing stores | permissions are what the owner's calls gave; a group opens to a member only |
| Services: acts | one owner with a table, a member with two names, two contents per table, 3 access keys, failing steps | a content shared since the last revocation opens to whom acknowledged calls gave access, and none to a revoked user |
| Services: accounts | 1 name, 2 mnemonics, 2 passwords, a wallet, 2 calls at a time, 1 session, failing transactions | accounts stay their owners', sessions work with the owner's account |
| Services: documents | 2 ids, 2 values of which one contains the other, a tested simple field and a list field, 4 documents, 3 uploads, 1 failure per database | get gives the document last put, Find the documents with a value, and for a value nobody has none or those of one key behind it |
| Services: docLines | every file of up to 8 bytes in blocks of 3: up to three blocks, the last one full or not, with and without a newline at the end | every line is read once and, if a block can hold it, again after a Seek |
| Services: listing | up to 3 names, 2 readers at a time, refused tasks, errors, deleted files, 2 old subdirectories | a listing returns, with every name, but for the two that cannot (`Endless`, the panic of ListFiles) |
| FeedSkew | a second passes inside `updateSoc` | *violated*: the update is not found |
| PodFallback | one failed read of the list | *violated*: every pod is lost |

Bounds. Four levels and the times 4..10 contain every position of the first
differing bit of two times, updates in one second down to level 0 and beyond
it. A pool smaller than the number of topics evicts; one of size 1 evicts on
every write. Three directories (two names, paths of up to two names) and two
feeds of files (one name and a backup of it, those marked deleted included) give
nested directories, every pair of source and target of a move, targets below
the source and below a missing directory, and a file next to its backup;
names and contents are interchangeable. A behaviour is followed until a nested
directory was removed, or one moved and a backup left half-way (`Bounds`): the step
that does it is still checked, and behind it little of what the properties say is
left to break. Two threads suffice
for a read-modify-write race; `MaxPods` above the number of names makes names
and indices be used again. Three blocks and two workers make the reading
goroutine wait for a place and let workers overtake each other; a block of
three bytes has a first, an inner and a last byte, the updates fall short of a
block or cross one or two borders, and the buffers are shorter than a block,
longer than one and longer than two. The three keys 11, 111 and 12 give the
cases of a put: splitting a leaf with the key longer or shorter, splitting a
branch, the empty name, a branch below a branch, and a branch followed by a leaf
(the run holds as well for the keys 1, 12, 111, 112, where a key is shorter than
the branch it splits, in some minutes); five writes fill a table, or fill it,
delete it and start to fill it again over the manifests of its earlier life.
Reads change nothing but `kv.iterator`, so one get or one seek at any moment
meets every state; values are interchangeable, hence the symmetry.
Requests keep nothing between them, so FrontEnds runs one request at a time
with the others reduced to what they can do to its session. One session of an
owner and one of a member give a permission that is read while it changes; a
third user is one who never had any. One name is enough for two sign-ups to
race for it, two calls at a time for every pair of steps; a second session would
only copy the first. Three access keys are those of a creation and two
revocations. Two documents share a list value, replace one another's
keys, and need three uploads for one to be put again; of their two values one is
found by a search for the other. Eight bytes in blocks of
three put a newline at every place of a block and a line across two
borders. Three names and two readers make a reader wait for another.

Fairness. FileIO assumes weak fairness of the reading goroutine, of each worker
and of the caller of an upload; the listings of Services that of the caller, of
each task and of the goroutine that closes the channels. The Go scheduler runs
every goroutine that can run, the task manager every task it took, each call to
the source or the store returns, with an error if need be (the client's requests
have timeouts), and a `select` takes each ready case in the end. The other
properties are safety properties. Runs whose clock, versions or uploads end say
`CHECK_DEADLOCK FALSE`; so does Services, where a listing that returned, and a
database half created or half deleted (its name can be neither created nor
opened) stop for good.

### What the code does not keep

Two of these are runs; the others can be seen by changing a constant of a
passing run's configuration (those of the run Services stand behind the name of
the part they belong to), or taking an exception out of a property, and checking the property named.

| Where | What | To see it |
|---|---|---|
| `feed/handler.go:245` | the level and the time of an update come from two readings of the clock | run FeedSkew |
| `feed/lookup/algorithm_longearth.go:209` | a wrong hint restarts the lookup at a time that may underflow | FeedWriters with one session and `Lossy = {TRUE}`, `RestartStaysInThePast` |
| `dir/rename.go:144` | a move updates a feed that exists in the pool only; the write is lost | FeedPool with `MoveCaller = TRUE`, `NoLostWrite` |
| `feed/handler.go:135` | an expired pool item is skipped by reads | FeedPool with `MayExpire = TRUE`, `BehavesAsRegister` |
| `dir/inode.go:143` | the entry of a nested directory is removed from its grandparent ("remove the directory entry from the parent dir", line 142) | DirTree with `"nested" \notin past` taken out of `EntriesResolve` |
| `dir/rename.go:111` | old paths stay in the fileMap after a move, and deleting one deletes the moved file's blocks | DirTree with the condition on `past` taken out of `BlobsLive` |
| `dfs/fs_api.go:380` | an upload that `file.Upload` refuses (a block size out of 1 to 8 MB, which the handlers pass on, a source or store that fails) leaves the old file without its entry; without overwrite, its feed deleted and its blob still in the fileMap, so that a delete of the name frees the backup's blocks | DirTree with `unlisted` taken out of `NoOrphans`; with the condition on `past` taken out of `BlobsLive`, `FileMapFresh` |
| `dir/rename.go:92` | a move to a directory that is not there fails after the move, and what was moved is listed nowhere | DirTree with `unlisted` taken out of `NoOrphans` |
| `dir/inode.go:78` | a file's meta read as an inode | DirTree with `FileNames = DirNames`, `NeverPanics` |
| `file/meta.go:126` | backups are named after the second | DirTree with `SameSecond = TRUE`, `EntriesResolve` |
| `dfs/fs_api.go:386` | a file is stored before its directory is looked at | DirTree with `CarefulCallers = FALSE`, `NoOrphans` |
| `file/upload.go:151` | the error of a worker is lost when the reading goroutine has ended; `Upload` succeeds with a block missing | FileIO, `OkMeansComplete` |
| `file/upload.go:107` | a failed read leaves the goroutine that waits for the WaitGroup for ever (the tests look for leaks with goleak) | `wg` of an upload that ended with a read error stays at 1 |
| `file/writeAt.go:180` | an update that ends in the last, short block appends zeros to it | FileIO with `PartialTails = TRUE`, `IsByteFile` |
| `file/reader.go:225` | `Seek` after the last, short block was read indexes past the blocks | FileIO with `SeekLater = TRUE`, `IsByteFile` |
| `file/reader.go:83` | `OpenFileForIndex` decrypts an inode that `Upload` does not encrypt, so no uploaded file can be indexed | DocLines stops at the Reader below it |
| `file/meta.go:72` | an upload creates the meta's feed after any error of reading it, the time-out of a feed that is there included | not modelled |
| `collection/kv.go:257` | two puts into one manifest, one is lost | KVStore with two writers, `IsKVMap` |
| `collection/index_api.go:341` | a key that other keys continue gets a second leaf when it is put again | KVStore with `PutsBranchKeys = TRUE`, `TrieWellFormed`, `IterationInOrder` |
| `collection/index_api.go:101` | the last leaf of a branch cannot be deleted when its name is empty: the parent is looked for at `filepath.Dir` of a name without a slash | `deleteRead` of KVStore ends such a call without a store |
| `collection/kv.go:99`, `:127` | the list of tables and the index are stored one after the other; a failure in between leaves a name that can be neither created, opened nor deleted | the run KVStore with `~open => (listed <=> feed[<<>>] # Absent)` between calls; what is open stays whole (`OpenTableIsThere`) |
| `collection/iterator.go:370` | a branch that cannot be read is passed over, and the iteration ends as if nothing were left | not modelled |
| `collection/index.go:278` | any failed read of a root counts as no index | not modelled |
| `collection/index_api.go:387` | a get that a table's deletion and new creation overtake returns the value of a put that is not stored yet | KVStore with `DropsUnderReads = TRUE`, `IsKVMap` |
| `collection/iterator.go:260` | a seek passes over a branch longer than what is left of the start key | KVStore with keys 12, 1111, 1112 and start 11, `IterationComplete` |
| `collection/kv.go:356` | `KVBatchPut` ("in to the memory", line 343) writes through, from an empty root manifest | not modelled |
| `collection/index_api.go:321` | the count, which "should be updated on root manifest" (`entry.go:27`), goes to the manifest a put ends in, and counts updates | not modelled |
| `collection/index.go:344` | a table whose name continues another's shares feeds with it | not modelled (one table) |
| `collection/kv.go:414` | one `kv.iterator` for all tables and clients | not modelled (one reader) |
| `pod/new.go:46` | two `CreatePod` calls, one pod lost | PodSerial with two threads, `NoLostPods` |
| `dfs/pod_api.go:90` | a stop inside `CreatePod` or `DeletePod` leaves a pod without a root | PodSerial with `MayCrash = TRUE`, `PodsHaveRoots` |
| `pod/del.go:60` | the key at the pod's *position* is forgotten | PodSerial with `NoForgottenKeys` |
| `pod/new.go:226` | an index is used again while another session has the old pod open | two sessions, `DeletesOwnRootOnly` |
| `pod/ls.go:53` | a failed read of the V2 list is taken for its absence | run PodFallback |
| `file/ls.go:50` | `wg.Add` comes after the task was given away: a fast task makes the counter negative, which panics in a goroutine of the task manager | `listing` of the run, `ListingReturns` without its exception for ListFiles |
| `dfs/pod_api.go:537` | a deleted file in a shared directory sends nothing, and `missingCount` never counts it: the loop runs on closed channels for ever | `listing` of the run, `ListingReturns` without `Endless` |
| `dfs/pod_api.go:463` | the goroutines for old directories share the outer `topic` | `listing` of the run, `ListsEveryName` without the exception for two old directories |
| `user/new.go:118` | a sign-up that stopped behind RegisterSubdomain is taken up without SetResolver and SetAll; the name never gets its public key | `accounts`, `PublicKeysAreSet` |
| `user/delete.go:36` | a delete removes the account of one password only; accounts for a wallet or another password stay | `portable` of `accounts` |
| `pod/group.go:106`, `acl/acl/controller.go:127` | permissions are cached by the group's name: a group created under the name of a shared one that was removed starts with the other owner's list | `groups` with names of groups given to members as well, `PermissionsAsGiven` |
| `acl/acl/controller.go:43` | without a cached list (after a new login) UpdatePermission and AddMember write to a nil map and panic with the mutex locked; RemoveMember begins a new list without the others | `groups` with `Careful = FALSE`, `PermissionsAsGiven`; `locked` |
| `pod/group.go:422` | a list of groups that cannot be read counts as empty | `groups` with `MayMissList = TRUE`, `PermissionsAsGiven` |
| `pod/group.go:204`, `:248` | an element is taken out of the slice that is ranged over; AcceptGroupInvite makes copies, and two copies panic | the guard on `Copies` in Groups |
| `act/new.go:122` | a revocation makes a new access key, and the references of contents shared before are not encrypted again: `GetPodAccess` (`grant.go:103`) decrypts them with the newest history, which shuts the remaining grantees out as well | `acts` of the run with `readable` taken out of `GrantsInForce` |
| `act/new.go:126` | two sessions of an owner, each with a mutex of its own, lose a revocation | `acts` with two sessions of the owner, `GrantsInForce` |
| `act/act.go:77` | a list of tables that cannot be read counts as empty; the next new table replaces it | `acts` with `MayMissList = TRUE`, `GrantsInForce` |
| `act/new.go:96` | a creation that stopped behind CreateFeed can never be repeated under its name | `Fail` of Acts |
| `collection/document.go:885` | two documents with one value in a simple field share its entry, and deleting one takes it; the other can be neither put nor deleted again | `documents` with `Distinct = FALSE`, `FindsByField` |
| `collection/document.go:701` | Put fails half-way on a missing map, list or vector field (it panics), Del on an index that lacks the entry | `Fails` of DocStore |
| `collection/batch.go:62` | a batch stores root manifests that are not marked mutable; a mutable database opened after it refuses every change | `sealed` of DocStore |
| `collection/document.go:1414` | the test that a database is empty before a batch never refuses | `CreateDocBatch` keeps to empty databases |
| `collection/document.go:1018` | Find of a value takes the first key at or after it: for a value nobody has, a number, map or list field answers the documents of the next key, and a string field (line 990) those of a key the value matches as a regular expression | `documents` of the run with `g = e` for all of the last disjunction of `FindsByField`; `Landings` and `Passes` of DocStore |
| `collection/document.go:405` | deleted databases leave their documents pinned | not modelled |
| `file/reader.go:291` | the last line of a file without a newline is dropped; in such a file a reader sought into its last block does not find the lines there | `docLines` of the run with `ReadsPastSeek` taken out of `LinesAreFound` |
| `file/reader.go:294` | a line longer than a block may not be read from where it starts: EOF that comes with the rest of it drops it | `docLines` of the run without the length of a line in `LinesAreFound` |
| `api/act.go:115` | a request to grant and revoke one key is answered as wrong and carried out | `AnsweredNotOnce` of FrontEnds |
| `api/ws.go:1687` | DocCreate with an unknown index type answers the error, creates the database and answers again | `AnsweredNotOnce` |
| `api/file_download.go:157` | an error after the body began is written behind the body (also `public.go:85`, `:156`, `git.go:130`) | `AnsweredNotOnce` |
| `user/login.go:221` | two logouts of one session at a time: the second dereferences a nil user | `AnsweredNotOnce` (logout and delete) |
| `api/login_middleware.go:63` | the middleware logs out a session whose cookie has expired; when another request does it first, between the test and the lookup, the nil user is dereferenced and nothing is answered | `LostAtTheGate` |
| `api/git.go:165` | a push whose header has fewer than three words panics, and nothing is answered | `AnsweredNotOnce` (GitReceivePack) |
| `src/wasm/main.go:271` | `resolve.Invoke` of a byte slice panics (`publicKvEntryGet`, `docCount`, `docFind`, `docEntryGet`); `fileReceiveInfo` reads a third argument of two; `connect` rejects and then resolves | `AnsweredNotOnce` |
| `api/group_open.go:62`, `group_close.go:62`, `group_remove_member.go:75`, `api/ws.go:1143`, `src/wasm/main.go:1416` | the session id is handed on in the place of another argument; every call fails with "user not logged in" | `NeverServed` of FrontEnds |
| `api/file_download.go:135` | a download asked of a group reads from the pod of that name | `ServesOther` of FrontEnds |
| `api/kv_put_get_del.go:104`, `:394`, `api/public.go:195` | the table's name is tested where the key is called missing; a missing directory path is called a file path | `ServesOther` |

## 4. Proofs

Each theorem is for every value of the constants that the module's named
ASSUMEs allow. Conditions beyond these stand in the theorem as hypotheses on the
constants; the instance that a run checks fulfils them, and the table above says
which constant to change to see what happens without them.

* **FeedWritersProofs**, first half - the two lookup algorithms. Its parts: a least element
  for sets of naturals (it stands for induction), and from it
  `RecursionHasSolution`: a recursive function whose body looks only at arguments
  of a smaller weight equals its body. Then the arithmetic of epochs
  (`BasesNest`, `NextLevel`, `NextEpoch`), the weight by which both searches end
  (the time, then the level), and what a read tells: in a feed that is `Placed`
  (its updates fill the slots above them) and whose last update is `L`
  (`LastPlaced`), a slot that is read at the time asked holds `L` or lies above
  it, and an empty one lies below. From this `LongEarthFindsLast` and
  `FluzCapacitorFindsLast`: both algorithms end and answer `L`, without a hint and
  with every update of the feed as the hint, and whatever LongEarth's
  goroutines do. `LongEarthAnswersAreUpdates` needs none of that: whatever the
  feed and whichever reads are lost, the answer is an update of it or none.
* **FeedWritersProofs**, second half - that sessions write such feeds. `WritersTyped` and
  `EpochsNest` hold always. So does what FeedSlots promises (`SlotsTyped`,
  `SlotsHaveNoHoles`): its rule leaves no hole whichever update a writer starts from,
  because two times that share a slot at a level share it at every level above
  (`PlacingKeepsNoHoles`). Under `MaxSkew = 0` the inductive invariant `Placing`
  says that the feed is placed (`Placed`), that a request ready to be uploaded has
  the present time and a level that the placement rule allows (`LevelsAllowed`; so
  whoever uploads first, the level stays right or the slot is taken), that hints
  and answers are updates of the feed, and that the newest update is the one no
  other was placed behind (`LatestIsLast`). It gives
  `WritersLeaveNoHoles`, `WritersFollowPlacement` (the writers implement
  FeedSlots), `LookupsFindLatest` and `AlgorithmsAlwaysAgree`, for any number of
  sessions, seconds, levels and retries, and with any set of lost reads. `MaxSkew = 0`
  says that newRequest and updateSoc read one second from their two clocks;
  the run FeedSkew shows that the hypothesis is needed. `MaxTime` has to fit
  into a word, as the code's `uint64` has it.
* **FeedPoolProofs** - `PoolTyped`; and under `Serial` (one client, no expiry,
  no faults, no move caller) `SerialPoolKeepsWrites` and `SerialPoolIsRegister`.
  The inductive invariant `IInv` adds that a decision between create and update
  that a client has taken still holds when it is acted on (`DecisionsHold`).
  `PoolFlushesNewest` has no hypothesis: any clients, expired items, failing
  stores and crashes. `HoldsNewest` says that an item of the pool, in the list or
  expired, has the value put last for its feed, so whoever writes it, the
  eviction, the library's cleaner or a commit, writes that (`FlushedIsNewest`).
* **PodManagerProofs** - `PodTyped`; `ListsStayWellFormed` (with
  `CopiesWellFormed`: the copies in the hands of threads are well formed too);
  `OneThreadKeepsPods` (with `CopiesHoldPods`: the copy a thread will store
  holds every acknowledged pod), crashes included. `OneThreadOpensListedPods`
  rests on `Sequential`: what is open is in the list (`MapFits`), and the copy a
  thread holds differs from the list by the change it is about to store
  (`RequestFits`). Without a stop in the middle of a call, `Rooted` adds that a
  listed pod has its root unless the request at work on it is still to make or
  has just removed it, and that an index nobody is listed at has none
  (`FreeRoots`); it gives `OneThreadKeepsRoots` and `OneThreadDeletesOwnRoots`,
  although indices are used again. The hypotheses are those of the table above:
  a second thread, a list that cannot be read, and for the roots a stop between
  two stores, each break the property in the code.
* **FileIOProofs** - an upload, then the file, then the lines of documents.
  - `UploadTyped`, `UploadIsQuietWhenDone`, `UploadKeepsBlocksInOrder` for any
    number of blocks and workers. The inductive invariant says what the WaitGroup
    counts (`CountsRunning`: the workers, the reading goroutine, and the block
    between the two), that workers are started in order, and that an ended worker
    left a block or an error. `FileIsUploaded` carries them over to FileIO.
  - `FileIsByteFile`, the refinement of ByteFile: for any block size, data,
    updates and buffers, if `~PartialTails` and `~SeekLater`. Without the first,
    or the second, TLC finds a counterexample (section 3). The invariant `FInv`
    says that the inode is the blocks of some bytes c, as `Split` cuts them, that
    every byte of c is therefore in exactly one block, and that an open reader
    stands between two blocks of its file or at its cursor in one (`ReaderOK`).
    `ReadAnswers` shows that each branch of `Read` gives the next bytes of c and
    EOF only at the end; `ReadAllReads` that `ReadFrom` gives all of c, since each
    of its reads passes a block border; `WriteAtWrites` that the loop of `WriteAt`
    leaves the blocks of c with the update in it: between two rounds the blocks
    written are new ones and the others old ones (`Placed`), the old data and the
    update stand at the next border (`Running`), and every round consumes a byte
    of the update at least. Where the update ends well (`EndsWell`), no byte is
    missing from its last block (`TailCompletes`): this is where the condition is
    needed.
  - `FilesAreTyped`, from the same invariant.
  - `FileLinesAreFound`, for files of any size and content in blocks of any size but
    one byte. A reader of lines stands at the next line (`AtLine`): at the end of a
    block, or in the block it holds, whose buffer may have zeros behind the bytes of
    the last block, none of them a newline. One round of `ReadLine` from there finds
    the newline, is at the end of the file, or goes on with the next block and all
    bytes so far in hand (`RoundReads`), so that a line may cross any number of
    blocks (`ReadOnReads`). `SeekReads` computes what `Read` gives from any byte on:
    a block's size or all that is left. `DInv` says that the file is the
    blocks of its bytes and that the reader is at the line that starts at `seekIndex`,
    the sum of the lines read so far. What `LinesAreFound` leaves out, lines longer
    than a block and those of an unterminated last block after a `Seek`, are rows of
    the table above. The hypothesis `BlockSize > 1` is the code's: `Upload` refuses blocks
    below 1 MB (`file/upload.go:58`). With blocks of one byte it would be false,
    since `rlReadNewLine` is not reset when a buffer of one newline is used up.
* **ServicesProofs** - groups, access control tables, accounts, documents and
  listings. Each part has an inductive invariant of its own; the other parts stand still.
  - `PermissionsStayAsGiven` and `GroupsOpenAsGiven`. `GroupsInv` relates, for
    each user, the stored permissions to the acknowledged calls (`UserFits`), and,
    for each session, its cached permissions to both (`CacheFits`): a cached list
    agrees with the calls and with the change under way, and a group that is not
    in the list, or is about to leave it or enter it, has none cached but the new
    one's. Hypotheses: every user has one session and names of groups no other
    user gives (`GroupsApart`), the list of groups can be read, and nobody
    changes members before opening the group (`Careful`). The first two are
    needed because `listMap` is keyed by the bare name and no other session's
    change reaches it; the other two because the code takes an unread list for an
    empty one and writes to a nil map.
  - `GrantsStayInForce`. `ActsInv` says of each table of an owner that the
    history in its feed and the one in the list open to those the acknowledged
    calls say, and that the contents in it have a feed (`TableFits`); and of a
    change under way that the list it is about to store is the user's but for one
    table, whose history is right once the call is acknowledged, and is in the
    feed by then (`ChangeFits`). `KeysInv` says the same of access keys: the contents
    shared since the last revocation have the key that the feed and the list agree
    on, or are about to. Hypotheses: one session for each user (the mutex is the
    session's), and a readable list.
  - `AccountsStayTheirs`, for any names, mnemonics, passwords, wallets, sessions
    and calls at a time, with or without failures and without hypotheses.
    `AccountsAreTheirOwners` is not inductive: it says nothing of the calls that
    are half done. `AccountsInv` adds what a call relies on from its earlier
    steps (`CallsKeepPromises`: behind RegisterSubdomain or GetOwner the name is
    the account's, and stays so because the registrar never replaces an owner),
    that every account on Swarm names its owner, and that a place is taken once.
    It says nothing of `PublicKeysAreSet`, which the code does not keep.
  - `DocumentsAsPut`, without hypotheses. `DocsInv` says of the index in the feeds,
    and of the one in a batch, that an id has one reference at most, to a document
    of that id, and that following it gives what was last put (`Gives`). It is kept
    by calls that stop after any of their indexes because such a call makes the
    answer `Unknown` for its own id and moves nothing of the others (`OthersKept`),
    and by a batch, which stores the keys of "id" with all the others, or fails.
  - `DocumentsAreFound`, for clients that are `Distinct`. `FindInv` holds until a call
    stops half-way: a reference to a document that is there stands under keys of that
    document only and is the one its id has, and each document last put has such a
    reference under all its keys (`Files`); two documents share no key that a call takes
    whole entries from (`Apart`, what `Distinct` is about); a batch and the feeds
    have the same references for ids, which is why a field the batch has not stored
    yet still finds the right documents. `FoundByKey` goes from there to the answers:
    a key nobody's document has lists deleted documents only, if any, and wherever the
    iterator stands it gives all of one key. `Behind` and `Matches` may be any relations.
  - `ListingsAreWhole`. `ListInv` says that the WaitGroup counts the tasks that are
    not over, but for the one ListFiles has given away and not added yet, and that an
    entry in the list is that of the name whose task put it there, except that
    goroutines for old directories, which share one variable, may put the entry of
    another of them. No hypothesis.
  `ServicesAssumption` and `DocsAssumption` say that `None` and `Unknown` are none of
  the values they stand beside, and what a document looks like.
* **DirTreeProofs** - the directory tree. Each call is a composition of calls, and
  three of them walk the tree, so the module first proves what it is made of: a
  loop has the value its steps lead to and keeps what each step keeps
  (`LoopIs`, `LoopKeeps`); a walk that only descends to longer paths has the value its
  equation says, since paths end at `MaxDepth` (`RecursionHasSolution`); then
  each call's effect on directories and on files, as a relation between the state
  before and after (`EntryAdded`, `Renamed`, `Uploaded`, `DirGone`, ...).
  - `FileMapIsFresh` and `BlobsAreLive`, for trees of any depth. The invariant
    `KeptInv`: what a path is cached as is what its feed says (`Fresh`), and the
    content of a file is there and is no other file's (`Owned`). Neither is
    inductive alone: `RmFile` deletes the blocks the cached meta names, which are the
    file's own only when the cache is fresh. It is also kept by calls that
    fail or panic half-way, overwriting uploads that are refused among them. It ends
    with the first moved directory, after which old
    paths stay cached (`dir/rename.go:111`), and with the first upload refused
    behind a backup, whose file stays cached (`dfs/fs_api.go:380`).
  - `EntriesAlwaysResolve`, `NothingIsOrphaned`, `FailuresStoreNothing` and
    `TreesAreTyped`, for trees of one level and any names, with moves and refused
    uploads. The
    invariant `WholeInv`: each directory lists exactly, once each, the children there
    are but for those in `unlisted`, which are files (`Strays`) that are there, and what is
    no directory has no children; entries that resolve and
    the absence of orphans are its two halves, and a call needs both: a delete that finds
    the file must find its directory too, or it fails with the file gone. With
    `Whole` a walk cannot meet an entry without a child, so `RmDir` and
    `RenameDir` do not stop half-way. A file that a refused upload left unlisted
    stays so until it is stored again under its name, deleted or renamed.
  - Hypotheses: `CarefulCallers` and `~SameSecond`, each a row of the table
    above. `MaxDepth = 1` in the second group: the run checks the same properties
    with nested directories, which `RemoveInode` sets wrong once one is removed
    (`dir/inode.go:143`), up to that point; the proofs do not cover them.
* **KVStoreProofs** - the trie of a key-value table, for any finite set of keys
  and any values and readers. Its lemmas are the algebra of words (`Words` has
  no letters of its own: what is concatenated, begins, comes after), what each
  operator of KVIndex does to the entries of a sorted manifest (`AddSortedIs`, `SplitIs`,
  `RemovedIs`, ...), and what a walk from the root reaches. A path is walked when
  a chain of branches leads to it; induction over a walk is that over the length
  of a path in a set, from the least element of a set of naturals.
  - `KVTyped`: any number of writers, no hypothesis. Any stored manifest's
    leaves spell keys and its branches lead towards one, whoever stores it, since
    each call's path and what is left of its key spell the key.
  - `KVWellFormed`. The inductive invariant `Kept` says that the trie is `Whole`
    (every branch of a walked manifest leads to a manifest, and these are sorted), that
    `content` is what it holds, and that each call in progress `Fits`: a put or
    delete that is about to store has computed its manifests from the trie as it
    still is, and when the parent of a split is the last to store, its child
    is there already. So the child of a split is written off the walk
    (`OffTheWalk`), and the parent then brings it on to the walk with the new key
    and all the old ones (`SplitStored`); a writer that stops between the two
    leaves a manifest that nobody reaches, and the next split writes over it.
  - `KVIsMap` adds `Reading`: a get is at a walked path on the way to its key, and the
    value that the key has now is among those it had since the get began (`may`). One store changes the value of one key at most, so each
    step is a step of KVMap or none.
  - `OpenTablesAreThere`, from `Listing`: what the call that creates or drops the
    table has done to the index, and that a call that has read a manifest has come by
    the root. A call may fail between the index and the list, so the two do not
    agree; that no table is open by then is what is left.
  - `KVIterationInOrder`. A level of the stack of an iterator is the copy of a
    manifest it once read and the index it stopped at, and the manifest may have
    been split or lost entries since. `InLine` says that whatever a level may
    still give out, or lead to through the trie as it is now, comes after the
    last key given out, and a deeper level's before a higher one's. `Tidied` says
    that manifests stay sorted, also those off the walk and those about to be
    stored, since an iterator may still hold them, and that their branches lead to where two keys
    part.
  - `KVIterationComplete` adds `NothingMissed`: a key that is due (from the start on, in the
    table since the seek began, not given out yet) is the entry of a level from its
    index on, or below such a branch. No store cuts a branch off, so a put that splits a
    manifest leaves its keys below the branch the stack holds. `Alone` says that
    `openKVTMu` keeps a seek and a next from running together.
    `FittingStarts` speaks of where the keys with a start's first letter part:
    not after the start. `seekStringKey` looks at one letter of an entry and
    passes over a branch that is longer than what is left of the start
    (`iterator.go:260`), and enters one that diverges upwards from it; in both cases
    keys after the start are left out. Without the hypothesis the property is false
    (the row of `iterator.go:260` in the table above); the starts of the run satisfy it.
  Hypotheses: one writer, since a put works on a manifest it has read and no
  lock keeps others from storing it; no key with a branch of its own put again;
  for `KVIsMap` no table dropped in the middle of a get. `OpenTablesAreThere` needs
  the one writer only: a put that a drop overtakes makes the root again. Each is a
  row of the table above, with the constant that lifts it and the property that breaks.
* **FrontEndsProofs** - the requests of every front end, for any number of rows or
  files (`MaxItems`). The rules that the endpoints' steps follow (`LoginFirst`,
  `GateFirst`, `AnswersLast`, `RefusesWithReason`, `AsksForAll`) are operators of
  FrontEnds; that every endpoint keeps them, except those the sets `AnyoneMayCall`,
  `AnsweredNotOnce`, `NeverServed` and `ServesOther` name, is `FrontEndsAssumption`:
  a statement about the catalogue alone, which TLC evaluates in the run, so that a
  handler that left a rule would be found there. The proofs go from the rules
  to what requests do: first what one step makes of a request, whatever its kind
  (`Outcome`: it passes, jumps, falls out of an attempt, is refused, changes something,
  says something or breaks off; one lemma per step, collected in `ServeIs`), then an
  inductive invariant per rule.
  - `StrangersChangeNothing` and `ExpiredChangeNothing`, from `KeptOut`: a request
    without a session is at an `Open` step, one with no lookup of a session on the
    way to it, and there is no session it could find. `Open` is closed
    under every kind of step but the lookup, errors within an attempt included.
  - `OthersAnswerOnce`, from `Answered`: until the last step nothing but writes is in
    the log, and the last step answers, or the login middleware has panicked
    (`LostAtTheGate`).
  - `OthersRefuseWithReason`, from `Reasoned`; `OthersServeAsAsked`, from `Asked`: a request that lacks
    an argument has the test of it still before it, since no optional step or jump leads past
    the test, or has been refused.

The inductive invariants were checked by TLC, as invariants of the instances that
the runs use, before they were proved; but for `FInv`, which ranges over all
sequences of bytes: there TLC checked `IsByteFile` itself.

What stays with TLC: liveness (`UploadReturns`, `ListingReturns`: the prover has
no ENABLED), and the properties that hold in part only, outside the hypotheses
of their theorems, as those of the directory tree in nested directories.

## 5. Plan

Done: feeds, directory tree, pods, file blocks, key-value tables, listings,
documents, users, groups, access control tables, front ends; proofs for the
feeds, the pool, the directory tree, pods, uploads and files, groups, access
control tables, accounts, key-value tables, documents and their lines, listings and the
front ends.

1. Concurrent calls on one directory (the unlocked cached inode); the goroutine
   level of LongEarth; `WriteAtFile`, and single stores that fail, as actions of
   DirTree; callers of the pool that create a feed after any failed read.
2. Batches of key-value tables merged into a trie, counts, the end and limit of
   an iteration, several tables, reads that fail for a moment; Find with ranges and expressions.
3. ForkPod over DirTree and FileIO; subscriptions over the contract.
4. Proofs: key-value tables with several writers, and trees of several levels, up to
   where the code loses entries.

## 6. Not modelled

* The contracts and their generated bindings, the subscription manager that
  calls one of them, the block store library and `swarm-act`: not in this
  repository, or generated. What the program relies on is in the modules that
  use them.
* Fork, snapshot and subscriptions of pods beyond the guards of their entry
  points; sharing a file between users (`user/sharing.go`).
* Vectors and `NearestNodes`, expressions of Find, the merge of a batch.
* The command line client: a prompt that formats requests to the HTTP server.
* Logging, cryptography (keys, encryption, signatures and addresses are taken as
  injective), compression, the swagger documents, and `feed/tracker`, whose code
  is commented out.
