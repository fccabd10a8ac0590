------------------------------- MODULE WsApi -------------------------------
(***************************************************************************)
(* pkg/api/ws.go: the events of a websocket, served one by one in the loop *)
(* of handleEvents with the session of the last login. An event is decoded,*)
(* a call is made, its result is encoded and written. Without a session a  *)
(* call is refused by the dfs layer only.                                  *)
(***************************************************************************)
EXTENDS RequestSteps

dfs == INSTANCE DfsApi

Event(steps) == Read \o steps \o Read \o Ok

UserLogin      == Event(dfs!LoginUserV2)
UserPresent    == Event(<<>>)
UserIsLoggedin == Event(<<>>)
UserLogout     == dfs!LogoutUser(sessionId) \o Read \o Ok
UserDelete     == Event(dfs!DeleteUserV2(sessionId))
UserStat       == dfs!GetUserStat(sessionId) \o Read \o Ok

PodNew   == Event(dfs!CreatePod(sessionId))
PodOpen  == Event(dfs!OpenPod(sessionId))
PodClose == Event(dfs!ClosePod(sessionId))
PodSync  == Event(dfs!SyncPod(sessionId))
PodShare == Event(dfs!PodShare(sessionId))
PodDelete == Event(dfs!DeletePod(sessionId))
PodLs    == Event(dfs!ListPods(sessionId))
PodStat  == Event(dfs!PodStat(sessionId))
PodReceive     == Event(Read \o dfs!PodReceive(sessionId))
PodReceiveInfo == Event(Read \o dfs!PodReceiveInfo(sessionId))

DirMkdir == Event(dfs!Mkdir(sessionId, Pod))
DirRmdir == Event(dfs!RmDir(sessionId, Pod))
DirLs    == Event(dfs!ListDir(sessionId, Pod))
DirStat  == Event(dfs!DirectoryStat(sessionId, Pod))
DirIsPresent == Event(dfs!IsDirPresent(sessionId, Pod))

\* The size first, then the content.
FileDownload == Read \o dfs!DownloadFile(sessionId, Pod) \o Read \o Stream
\* A part of a stream that does not arrive is answered, and the next awaited.
FileUpload   == Event(Maybe(Read) \o Read \o dfs!UploadFile(sessionId, Pod))
FileUploadStream ==
    Event(Read \o ForEach(Maybe(Tell)) \o Read \o dfs!UploadFile(sessionId, Pod))
FileShare  == Event(dfs!ShareFile(sessionId, Pod))
\* The session id is given as the directory, the directory as the session id.
FileReceive == Event(dfs!ReceiveFile("dirPath"))
FileReceiveInfo == Event(dfs!ReceiveInfo(sessionId))
FileDelete == Event(dfs!DeleteFile(sessionId, Pod))
FileStat   == Event(dfs!FileStat(sessionId, Pod))

KVCreate == Event(Read \o dfs!KVCreate(sessionId))
KVList   == Event(dfs!KVList(sessionId))
KVOpen   == Event(dfs!KVOpen(sessionId))
KVCount  == Event(dfs!KVCount(sessionId))
KVDelete == Event(dfs!KVDelete(sessionId))
KVEntryPresent == Event(Attempt(dfs!KVGet(sessionId)))
KVEntryPut     == Event(dfs!KVPut(sessionId))
KVEntryGet     == Event(dfs!KVGet(sessionId))
KVEntryDelete  == Event(dfs!KVDel(sessionId))
KVSeek     == Event(Read \o dfs!KVSeek(sessionId))
KVSeekNext == Event(dfs!KVGetNext(sessionId))

\* An index that cannot be read is answered, and the next one looked at.
DocCreate == Event(ForEach(Maybe(Tell)) \o dfs!DocCreate(sessionId))
DocList   == Event(dfs!DocList(sessionId))
DocOpen   == Event(dfs!DocOpen(sessionId))
DocCount  == Event(dfs!DocCount(sessionId))
DocDelete == Event(dfs!DocDelete(sessionId))
DocFind   == Event(Read \o dfs!DocFind(sessionId))
DocEntryPut  == Event(dfs!DocPut(sessionId))
DocEntryGet  == Event(dfs!DocGet(sessionId))
DocEntryDel  == Event(dfs!DocDel(sessionId))
DocIndexJson == Event(dfs!DocIndexJson(sessionId))

UnknownEvent == Refuse

(* Tables of the events. *)
Events ==
    [UserLogin |-> UserLogin, UserPresent |-> UserPresent, UserIsLoggedin |-> UserIsLoggedin,
     UserLogout |-> UserLogout, UserDelete |-> UserDelete, UserStat |-> UserStat,
     PodNew |-> PodNew, PodOpen |-> PodOpen, PodClose |-> PodClose, PodSync |-> PodSync,
     PodShare |-> PodShare, PodDelete |-> PodDelete, PodLs |-> PodLs, PodStat |-> PodStat,
     PodReceive |-> PodReceive, PodReceiveInfo |-> PodReceiveInfo, DirMkdir |-> DirMkdir,
     DirRmdir |-> DirRmdir, DirLs |-> DirLs, DirStat |-> DirStat, DirIsPresent |-> DirIsPresent,
     FileDownload |-> FileDownload, FileUpload |-> FileUpload,
     FileUploadStream |-> FileUploadStream, FileShare |-> FileShare,
     FileReceive |-> FileReceive, FileReceiveInfo |-> FileReceiveInfo,
     FileDelete |-> FileDelete, FileStat |-> FileStat, KVCreate |-> KVCreate, KVList |-> KVList,
     KVOpen |-> KVOpen, KVCount |-> KVCount, KVDelete |-> KVDelete,
     KVEntryPresent |-> KVEntryPresent, KVEntryPut |-> KVEntryPut, KVEntryGet |-> KVEntryGet,
     KVEntryDelete |-> KVEntryDelete, KVSeek |-> KVSeek, KVSeekNext |-> KVSeekNext,
     DocCreate |-> DocCreate, DocList |-> DocList, DocOpen |-> DocOpen, DocCount |-> DocCount,
     DocDelete |-> DocDelete, DocFind |-> DocFind, DocEntryPut |-> DocEntryPut,
     DocEntryGet |-> DocEntryGet, DocEntryDel |-> DocEntryDel, DocIndexJson |-> DocIndexJson,
     UnknownEvent |-> UnknownEvent]
=============================================================================
