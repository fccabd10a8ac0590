----------------------------- MODULE MobileApi -----------------------------
(***************************************************************************)
(* gomobile/dfs.go: the functions an app calls in its own process, all of  *)
(* them for the session of the last login. An app connects first: nothing  *)
(* tests whether there is an api.                                          *)
(***************************************************************************)
EXTENDS RequestSteps

dfs == INSTANCE DfsApi

\* A network that is not known, and the error of NewDfsAPI, are returned.
Connect   == Read \o NewApi("refuse") \o Ok
LoginUser == dfs!LoginUserV2 \o Ok
IsUserPresent  == Ok
IsUserLoggedIn == Ok
LogoutUser == dfs!LogoutUser(sessionId) \o Ok
StatUser  == dfs!GetUserStat(sessionId) \o Ok

NewPod    == dfs!CreatePod(sessionId) \o Ok
PodOpen   == dfs!OpenPod(sessionId) \o Ok
PodClose  == dfs!ClosePod(sessionId) \o Ok
PodDelete == dfs!DeletePod(sessionId) \o Ok
PodSync   == dfs!SyncPod(sessionId) \o Ok
PodList   == dfs!ListPods(sessionId) \o Ok
PodStat   == dfs!PodStat(sessionId) \o Ok
IsPodPresent == dfs!IsPodExist(sessionId) \o Ok
PodShare  == dfs!PodShare(sessionId) \o Ok
PodReceive == Read \o dfs!PodReceive(sessionId) \o Ok
PodReceiveInfo == Read \o dfs!PodReceiveInfo(sessionId) \o Ok

DirPresent == dfs!IsDirPresent(sessionId, Pod) \o Ok
DirMake    == dfs!Mkdir(sessionId, Pod) \o Ok
DirRemove  == dfs!RmDir(sessionId, Pod) \o Ok
DirList    == dfs!ListDir(sessionId, Pod) \o Ok
DirStat    == dfs!DirectoryStat(sessionId, Pod) \o Ok

FileShare   == dfs!ShareFile(sessionId, Pod) \o Ok
FileReceive == dfs!ReceiveFile(sessionId) \o Ok
FileReceiveInfo == dfs!ReceiveInfo(sessionId) \o Ok
FileDelete  == dfs!DeleteFile(sessionId, Pod) \o Ok
FileStat    == dfs!FileStat(sessionId, Pod) \o Ok
\* A file of the device, opened, and the block size; or bytes.
FileUpload  == Read \o Read \o Read \o dfs!UploadFile(sessionId, Pod) \o Ok
BlobUpload  == dfs!UploadFile(sessionId, Pod) \o Ok
FileDownload == dfs!DownloadFile(sessionId, Pod) \o Read \o Ok

KVNewStore == Read \o dfs!KVCreate(sessionId) \o Ok
KVList     == dfs!KVList(sessionId) \o Ok
KVOpen     == dfs!KVOpen(sessionId) \o Ok
KVDelete   == dfs!KVDelete(sessionId) \o Ok
KVCount    == dfs!KVCount(sessionId) \o Ok
KVEntryPut == dfs!KVPut(sessionId) \o Ok
KVEntryGet == dfs!KVGet(sessionId) \o Ok
KVEntryDelete == dfs!KVDel(sessionId) \o Ok
\* Without a row there is no batch to write.
KVLoadCSV  == Read \o Read \o Maybe(Panic) \o dfs!KVBatch(sessionId) \o TryWrite("cache")
                   \o ForEach(TryWrite("cache")) \o Write("data") \o Ok
KVSeek     == dfs!KVSeek(sessionId) \o Ok
KVSeekNext == dfs!KVGetNext(sessionId) \o Ok

DocNewStore == ForEach(Read) \o dfs!DocCreate(sessionId) \o Ok
DocList     == dfs!DocList(sessionId) \o Ok
DocOpen     == dfs!DocOpen(sessionId) \o Ok
DocCount    == dfs!DocCount(sessionId) \o Ok
DocDelete   == dfs!DocDelete(sessionId) \o Ok
DocFind     == dfs!DocFind(sessionId) \o Ok
DocEntryPut == dfs!DocPut(sessionId) \o Ok
DocEntryGet == dfs!DocGet(sessionId) \o Ok
DocEntryDelete == dfs!DocDel(sessionId) \o Ok
DocLoadJson == Read \o Read \o dfs!DocBatch(sessionId)
                    \o ForEach(Attempt(dfs!DocBatchPut(sessionId)))
                    \o dfs!DocBatchWrite(sessionId) \o Ok
DocIndexJson == dfs!DocIndexJson(sessionId) \o Ok

(* Tables of the exported functions. *)
Exports ==
    [Connect |-> Connect, LoginUser |-> LoginUser, IsUserPresent |-> IsUserPresent,
     IsUserLoggedIn |-> IsUserLoggedIn, LogoutUser |-> LogoutUser, StatUser |-> StatUser,
     NewPod |-> NewPod, PodOpen |-> PodOpen, PodClose |-> PodClose, PodDelete |-> PodDelete,
     PodSync |-> PodSync, PodList |-> PodList, PodStat |-> PodStat,
     IsPodPresent |-> IsPodPresent, PodShare |-> PodShare, PodReceive |-> PodReceive,
     PodReceiveInfo |-> PodReceiveInfo, DirPresent |-> DirPresent, DirMake |-> DirMake,
     DirRemove |-> DirRemove, DirList |-> DirList, DirStat |-> DirStat, FileShare |-> FileShare,
     FileReceive |-> FileReceive, FileReceiveInfo |-> FileReceiveInfo,
     FileDelete |-> FileDelete, FileStat |-> FileStat, FileUpload |-> FileUpload,
     BlobUpload |-> BlobUpload, FileDownload |-> FileDownload, KVNewStore |-> KVNewStore,
     KVList |-> KVList, KVOpen |-> KVOpen, KVDelete |-> KVDelete, KVCount |-> KVCount,
     KVEntryPut |-> KVEntryPut, KVEntryGet |-> KVEntryGet, KVEntryDelete |-> KVEntryDelete,
     KVLoadCSV |-> KVLoadCSV, KVSeek |-> KVSeek, KVSeekNext |-> KVSeekNext,
     DocNewStore |-> DocNewStore, DocList |-> DocList, DocOpen |-> DocOpen,
     DocCount |-> DocCount, DocDelete |-> DocDelete, DocFind |-> DocFind,
     DocEntryPut |-> DocEntryPut, DocEntryGet |-> DocEntryGet,
     DocEntryDelete |-> DocEntryDelete, DocLoadJson |-> DocLoadJson,
     DocIndexJson |-> DocIndexJson]
=============================================================================
