------------------------------- MODULE HttpApi -------------------------------
(***************************************************************************)
(* pkg/api: what each HTTP handler does with a request, in the order of    *)
(* its code. The routes of cmd/dfs put LoginMiddleware in front of most of *)
(* them. Which status an error is answered with is left out. driveName     *)
(* stands for podName or groupName.                                        *)
(***************************************************************************)
EXTENDS RequestSteps, TLC

dfs == INSTANCE DfsApi

\* Content type and body, or form and query.
Json == Read \o Read
\* cmd/dfs server: options, network, log level, and the api of the handler.
startServer == Read \o Read \o Read \o NewApi("refuse") \o Ok

PodOf   == Json \o Ask("podName")
DriveOf == Json \o Ask("driveName")
TableOf == PodOf \o Ask("tableName")

(* Users. *)
UserSignupV2Handler == Json \o Ask("userName") \o Ask("password") \o dfs!CreateUserV2 \o Read \o Ok
UserLoginV2Handler  == Json \o Ask("userName") \o Ask("password") \o dfs!LoginUserV2 \o Read \o Ok
UserLoginWithSignature == Json \o Ask("signature") \o dfs!LoginUserWithSignature \o Read \o Ok
UserLogoutHandler   == Token \o dfs!LogoutUser(sessionId) \o Ok
UserDeleteV2Handler == Json \o Ask("password") \o Token \o dfs!DeleteUserV2(sessionId) \o Ok
UserStatHandler     == Token \o dfs!GetUserStat(sessionId) \o Ok
UserPresentV2Handler  == Ask("userName") \o Ok
IsUserLoggedInHandler == Ask("userName") \o Ok
\* Kept for old clients: refused, some after a look at the arguments.
UserSignupHandler   == Json \o Ask("userName") \o Ask("password") \o Refuse
UserPresentHandler  == Ask("userName") \o Refuse
UserLoginHandler    == Refuse
UserDeleteHandler   == Refuse
ExportUserHandler   == Refuse
UserMigrateHandler  == Refuse
PodOpenAsyncHandler == Refuse

(* Pods. *)
PodCreateHandler == PodOf \o Token \o dfs!CreatePod(sessionId) \o Ok
PodOpenHandler   == PodOf \o Token \o dfs!OpenPod(sessionId) \o Ok
PodCloseHandler  == PodOf \o Token \o dfs!ClosePod(sessionId) \o Ok
PodDeleteHandler == PodOf \o Token \o dfs!DeletePod(sessionId) \o Ok
PodSyncHandler   == PodOf \o Token \o dfs!SyncPod(sessionId) \o Ok
PodSyncAsyncHandler == PodOf \o Token \o dfs!SyncPodAsync(sessionId) \o Ok
PodShareHandler  == PodOf \o Token \o dfs!PodShare(sessionId) \o Ok
PodForkHandler   == PodOf \o Ask("forkName") \o Token \o dfs!ForkPod(sessionId) \o Ok
PodForkFromReferenceHandler == Json \o Token \o dfs!ForkPodFromRef(sessionId) \o Ok
PodListHandler   == Token \o dfs!ListPods(sessionId) \o Ok
PodStatHandler   == Ask("podName") \o Token \o dfs!PodStat(sessionId) \o Ok
PodPresentHandler == Ask("podName") \o Token \o dfs!IsPodExist(sessionId) \o Ok
PodReceiveInfoHandler == Ask("sharingRef") \o Token \o Read \o dfs!PodReceiveInfo(sessionId) \o Ok
PodReceiveHandler == Ask("sharingRef") \o Token \o Read \o dfs!PodReceive(sessionId) \o Ok
PodReceiveSnapshotHandler ==
    Ask("sharingRef") \o Read \o dfs!PublicPodReceiveInfo \o dfs!PublicPodSnapshot \o Ok

(* Directories of a pod or a group. *)
DirectoryMkdirHandler == DriveOf \o Ask("dirPath") \o Token \o dfs!Mkdir(sessionId, Drive) \o Ok
DirectoryRmdirHandler == DriveOf \o Ask("dirPath") \o Token \o dfs!RmDir(sessionId, Drive) \o Ok
DirectoryRenameHandler ==
    DriveOf \o Ask("oldPath") \o Ask("newPath") \o Token \o dfs!RenameDir(sessionId, Drive) \o Ok
DirectoryModeHandler ==
    DriveOf \o Ask("dirPath") \o Ask("mode") \o Read \o Token \o dfs!ChmodDir(sessionId, Drive) \o Ok
DirectoryLsHandler   == Ask("driveName") \o Ask("dirPath") \o Token \o dfs!ListDir(sessionId, Drive) \o Ok
DirectoryStatHandler == Ask("driveName") \o Ask("dirPath") \o Token \o dfs!DirectoryStat(sessionId, Drive) \o Ok
\* An error is answered as "not present".
DirectoryPresentHandler ==
    Ask("driveName") \o Ask("dirPath") \o Token \o Attempt(dfs!IsDirPresent(sessionId, Drive)) \o Ok

(* Files of a pod or a group. *)
FileDeleteHandler == DriveOf \o Ask("filePath") \o Token \o dfs!DeleteFile(sessionId, Drive) \o Ok
FileRenameHandler ==
    DriveOf \o Ask("oldPath") \o Ask("newPath") \o Token \o dfs!RenameFile(sessionId, Drive) \o Ok
FileModeHandler ==
    DriveOf \o Ask("filePath") \o Ask("mode") \o Read \o Token \o dfs!ChmodFile(sessionId, Drive) \o Ok
FileShareHandler ==
    DriveOf \o Ask("filePath") \o Ask("destUser") \o Token \o dfs!ShareFile(sessionId, Drive) \o Ok
FileStatHandler   == Ask("driveName") \o Ask("filePath") \o Token \o dfs!FileStat(sessionId, Drive) \o Ok
FileStatusHandler == Ask("driveName") \o Ask("filePath") \o Token \o dfs!StatusFile(sessionId, Drive) \o Ok
FileReceiveHandler ==
    Ask("podName") \o Ask("sharingRef") \o Ask("dirPath") \o Token \o dfs!ReceiveFile(sessionId) \o Ok
FileReceiveInfoHandler == Ask("sharingRef") \o Token \o dfs!ReceiveInfo(sessionId) \o Ok
\* The group of the request is not handed on.
handleDownload == Token \o dfs!DownloadFile(sessionId, Pod) \o Stream
FileDownloadHandlerPost == Ask("driveName") \o Ask("filePath") \o handleDownload
FileDownloadHandlerGet  == Ask("driveName") \o Ask("filePath") \o handleDownload
FileUpdateHandler ==
    Token \o Ask("driveName") \o Ask("fileName") \o Read \o Read \o Read
          \o dfs!WriteAtFile(sessionId, Drive) \o Ok
handleFileUpload == dfs!UploadFile(sessionId, Drive)
\* A file that cannot be opened is reported in the answer, one that cannot be
\* stored ends the request: the files before it stay.
FileUploadHandler ==
    Ask("driveName") \o Ask("dirPath") \o Ask("blockSize") \o Read \o Read \o Token
        \o Read \o Read \o Ask("files")
        \o ForEach(Maybe(handleFileUpload)) \o Ok

(* Key-value tables. *)
Table == Ask("podName") \o Ask("tableName")
KVCreateHandler == TableOf \o Read \o Token \o dfs!KVCreate(sessionId) \o Ok
KVOpenHandler   == TableOf \o Token \o dfs!KVOpen(sessionId) \o Ok
KVDeleteHandler == TableOf \o Token \o dfs!KVDelete(sessionId) \o Ok
KVCountHandler  == TableOf \o Token \o dfs!KVCount(sessionId) \o Ok
KVListHandler   == Ask("podName") \o Token \o dfs!KVList(sessionId) \o Ok
\* Writing and deleting call the key missing when the table is.
KVPutHandler ==
    TableOf \o AskAs("tableName", "key") \o Ask("value") \o Token \o dfs!KVPut(sessionId) \o Ok
KVDelHandler == TableOf \o AskAs("tableName", "key") \o Token \o dfs!KVDel(sessionId) \o Ok
KVGetHandler == Table \o Ask("key") \o Token \o dfs!KVGet(sessionId) \o Ok
KVGetDataHandler ==
    Table \o Ask("key") \o Ask("format") \o Read \o Token \o dfs!KVGet(sessionId) \o Ok
KVPresentHandler == Table \o Ask("key") \o Token \o Attempt(dfs!KVGet(sessionId)) \o Ok
KVSeekHandler    == TableOf \o Ask("start") \o Read \o Token \o dfs!KVSeek(sessionId) \o Ok
KVGetNextHandler == Table \o Token \o dfs!KVGetNext(sessionId) \o Ok
\* A row that cannot be read ends the export, and what came before is answered.
KVExportHandler  ==
    TableOf \o Ask("start") \o Read \o Token \o dfs!KVSeek(sessionId)
            \o Attempt(ForEach(Read)) \o Ok
\* The first row makes the batch, without rows there is none; a row that fails
\* is counted.
KVLoadCSVHandler ==
    Table \o Token \o Read \o Ask("csv") \o Read \o Maybe(Drop)
          \o dfs!KVBatch(sessionId) \o TryWrite("cache") \o ForEach(TryWrite("cache"))
          \o Write("data") \o Ok

(* Document databases. *)
DocCreateHandler == TableOf \o ForEach(Read) \o Token \o dfs!DocCreate(sessionId) \o Ok
DocOpenHandler   == TableOf \o Token \o dfs!DocOpen(sessionId) \o Ok
DocDeleteHandler ==
    Json \o Ask("tableName") \o Ask("podName") \o Token \o dfs!DocDelete(sessionId) \o Ok
DocCountHandler  == TableOf \o Token \o dfs!DocCount(sessionId) \o Ok
DocListHandler   == Ask("podName") \o Token \o dfs!DocList(sessionId) \o Ok
DocFindHandler   == Table \o Ask("expr") \o Read \o Token \o dfs!DocFind(sessionId) \o Ok
DocEntryPutHandler == TableOf \o Ask("doc") \o Token \o dfs!DocPut(sessionId) \o Ok
DocEntryGetHandler == Table \o Ask("id") \o Token \o dfs!DocGet(sessionId) \o Ok
DocEntryDelHandler == TableOf \o Ask("id") \o Token \o dfs!DocDel(sessionId) \o Ok
DocIndexJsonHandler == TableOf \o Ask("fileName") \o Token \o dfs!DocIndexJson(sessionId) \o Ok
DocLoadJsonHandler ==
    Table \o Token \o Read \o Ask("json") \o Read \o dfs!DocBatch(sessionId)
          \o ForEach(Attempt(dfs!DocBatchPut(sessionId))) \o dfs!DocBatchWrite(sessionId) \o Ok

(* Groups. Opening, closing and removing a member give the session id and the *)
(* name of the group, or of the member, in each other's place.              *)
GroupOf  == Json \o Ask("groupName")
MemberOf == GroupOf \o Ask("member")
GroupCreateHandler == GroupOf \o Token \o dfs!CreateGroup(sessionId) \o Ok
GroupDeleteHandler == GroupOf \o Token \o dfs!RemoveGroup(sessionId) \o Ok
GroupDeleteSharedHandler == GroupOf \o Token \o dfs!RemoveSharedGroup(sessionId) \o Ok
GroupOpenHandler   == GroupOf \o Token \o dfs!OpenGroup("groupName") \o Ok
GroupCloseHandler  == GroupOf \o Token \o dfs!CloseGroup("groupName") \o Ok
GroupListHandler   == Token \o dfs!ListGroups(sessionId) \o Ok
GroupGetMembers    == Ask("groupName") \o Token \o dfs!GetGroupMembers(sessionId) \o Ok
GroupGetPermission == Ask("groupName") \o Token \o dfs!GetPermission(sessionId) \o Ok
GroupAddMemberHandler ==
    MemberOf \o Ask("permission") \o Token \o dfs!AddMember(sessionId) \o Ok
GroupUpdatePermissionHandler ==
    MemberOf \o Ask("permission") \o Token \o dfs!UpdatePermission(sessionId) \o Ok
GroupRemoveMemberHandler == MemberOf \o Token \o dfs!RemoveMember("groupName") \o Ok
GroupAcceptInviteHandler ==
    Json \o Ask("reference") \o Token \o dfs!AcceptGroupInvite(sessionId) \o Ok

(* Access control tables. *)
CreateGranteeHandler == Token \o Read \o dfs!CreateGranteePublicKey(sessionId) \o Ok
\* Equal keys are answered, and then granted and revoked all the same.
GrantRevokeHandler   ==
    Token \o Read \o Maybe(Tell) \o Read \o dfs!GrantRevokeGranteePublicKey(sessionId) \o Ok
ListGranteesHandler == Token \o dfs!ListGrantees(sessionId) \o Ok
ACTPodShareHandler  == Token \o dfs!ACTPodShare(sessionId) \o Ok
ACTListHandler      == Token \o dfs!GetACTs(sessionId) \o Ok
ACTSharedPods       == Token \o dfs!GetACTContents(sessionId) \o Ok
ACTOpenPod          == Token \o dfs!OpenACTPod(sessionId) \o Ok
ACTSavePod          == Token \o Json \o dfs!SaveACTPod(sessionId) \o Ok

(* Pods as git repositories: a reference file and a pack. *)
GitInfoRef    == Token \o dfs!OpenPod(sessionId) \o Attempt(dfs!DownloadFile(sessionId, Pod)) \o Ok
GitUploadPack == Token \o dfs!DownloadFile(sessionId, Pod) \o Read
                       \o dfs!DownloadFile(sessionId, Pod) \o Stream
\* A push names a hash and a reference; one that names none panics.
GitReceivePack ==
    Token \o Read \o Maybe(Drop) \o dfs!StatusFile(sessionId, Pod)
          \o dfs!UploadFile(sessionId, Pod) \o dfs!UploadFile(sessionId, Pod) \o Ok

(* Pods shared in public, for everyone. A missing dirPath is called filePath. *)
PublicInfo == Ask("sharingRef") \o Read
PublicPodGetFileHandler ==
    PublicInfo \o Ask("filePath") \o dfs!PublicPodReceiveInfo \o dfs!PublicPodFileDownload \o Stream
PublicPodFilePathHandler ==
    PublicInfo \o dfs!PublicPodReceiveInfo \o dfs!PublicPodFileDownload \o Stream
PublicPodGetDirHandler ==
    PublicInfo \o AskAs("dirPath", "filePath") \o dfs!PublicPodReceiveInfo \o dfs!PublicPodDisLs \o Ok
PublicPodKVEntryGetHandler ==
    PublicInfo \o Ask("tableName") \o Ask("key") \o dfs!PublicPodReceiveInfo
               \o dfs!PublicPodKVEntryGet \o Ok

(* Tables of the routes: open to everyone, behind LoginMiddleware, and  *)
(* behind GitAuthMiddleware, which asks for a token as well.               *)
OpenRoutes ==
    [PublicPodGetFileHandler |-> PublicPodGetFileHandler,
     PublicPodGetDirHandler |-> PublicPodGetDirHandler,
     PublicPodKVEntryGetHandler |-> PublicPodKVEntryGetHandler,
     PodReceiveSnapshotHandler |-> PodReceiveSnapshotHandler,
     PublicPodFilePathHandler |-> PublicPodFilePathHandler,
     UserSignupV2Handler |-> UserSignupV2Handler, UserLoginV2Handler |-> UserLoginV2Handler,
     UserLoginWithSignature |-> UserLoginWithSignature,
     UserPresentV2Handler |-> UserPresentV2Handler, UserSignupHandler |-> UserSignupHandler,
     UserLoginHandler |-> UserLoginHandler, UserPresentHandler |-> UserPresentHandler,
     IsUserLoggedInHandler |-> IsUserLoggedInHandler]
LoginRoutes ==
    [UserDeleteV2Handler |-> UserDeleteV2Handler, UserMigrateHandler |-> UserMigrateHandler,
     UserLogoutHandler |-> UserLogoutHandler, ExportUserHandler |-> ExportUserHandler,
     UserDeleteHandler |-> UserDeleteHandler, UserStatHandler |-> UserStatHandler,
     PodPresentHandler |-> PodPresentHandler, PodCreateHandler |-> PodCreateHandler,
     PodOpenHandler |-> PodOpenHandler, PodOpenAsyncHandler |-> PodOpenAsyncHandler,
     PodCloseHandler |-> PodCloseHandler, PodSyncHandler |-> PodSyncHandler,
     PodSyncAsyncHandler |-> PodSyncAsyncHandler, PodShareHandler |-> PodShareHandler,
     PodDeleteHandler |-> PodDeleteHandler, PodListHandler |-> PodListHandler,
     PodStatHandler |-> PodStatHandler, PodReceiveHandler |-> PodReceiveHandler,
     PodReceiveInfoHandler |-> PodReceiveInfoHandler, PodForkHandler |-> PodForkHandler,
     PodForkFromReferenceHandler |-> PodForkFromReferenceHandler,
     GroupCreateHandler |-> GroupCreateHandler, GroupListHandler |-> GroupListHandler,
     GroupDeleteHandler |-> GroupDeleteHandler,
     GroupDeleteSharedHandler |-> GroupDeleteSharedHandler,
     GroupAcceptInviteHandler |-> GroupAcceptInviteHandler,
     GroupAddMemberHandler |-> GroupAddMemberHandler,
     GroupRemoveMemberHandler |-> GroupRemoveMemberHandler,
     GroupUpdatePermissionHandler |-> GroupUpdatePermissionHandler,
     GroupCloseHandler |-> GroupCloseHandler, GroupGetMembers |-> GroupGetMembers,
     GroupGetPermission |-> GroupGetPermission, GroupOpenHandler |-> GroupOpenHandler,
     DirectoryMkdirHandler |-> DirectoryMkdirHandler,
     DirectoryRmdirHandler |-> DirectoryRmdirHandler, DirectoryLsHandler |-> DirectoryLsHandler,
     DirectoryStatHandler |-> DirectoryStatHandler,
     DirectoryModeHandler |-> DirectoryModeHandler,
     DirectoryPresentHandler |-> DirectoryPresentHandler,
     DirectoryRenameHandler |-> DirectoryRenameHandler, FileStatusHandler |-> FileStatusHandler,
     FileDownloadHandlerGet |-> FileDownloadHandlerGet,
     FileDownloadHandlerPost |-> FileDownloadHandlerPost,
     FileUpdateHandler |-> FileUpdateHandler, FileUploadHandler |-> FileUploadHandler,
     FileShareHandler |-> FileShareHandler, FileReceiveHandler |-> FileReceiveHandler,
     FileReceiveInfoHandler |-> FileReceiveInfoHandler, FileDeleteHandler |-> FileDeleteHandler,
     FileStatHandler |-> FileStatHandler, FileModeHandler |-> FileModeHandler,
     FileRenameHandler |-> FileRenameHandler, KVCreateHandler |-> KVCreateHandler,
     KVListHandler |-> KVListHandler, KVOpenHandler |-> KVOpenHandler,
     KVCountHandler |-> KVCountHandler, KVDeleteHandler |-> KVDeleteHandler,
     KVPresentHandler |-> KVPresentHandler, KVPutHandler |-> KVPutHandler,
     KVGetHandler |-> KVGetHandler, KVGetDataHandler |-> KVGetDataHandler,
     KVDelHandler |-> KVDelHandler, KVLoadCSVHandler |-> KVLoadCSVHandler,
     KVExportHandler |-> KVExportHandler, KVSeekHandler |-> KVSeekHandler,
     KVGetNextHandler |-> KVGetNextHandler, DocCreateHandler |-> DocCreateHandler,
     DocListHandler |-> DocListHandler, DocOpenHandler |-> DocOpenHandler,
     DocCountHandler |-> DocCountHandler, DocDeleteHandler |-> DocDeleteHandler,
     DocFindHandler |-> DocFindHandler, DocLoadJsonHandler |-> DocLoadJsonHandler,
     DocIndexJsonHandler |-> DocIndexJsonHandler, DocEntryPutHandler |-> DocEntryPutHandler,
     DocEntryGetHandler |-> DocEntryGetHandler, DocEntryDelHandler |-> DocEntryDelHandler,
     CreateGranteeHandler |-> CreateGranteeHandler, GrantRevokeHandler |-> GrantRevokeHandler,
     ListGranteesHandler |-> ListGranteesHandler, ACTPodShareHandler |-> ACTPodShareHandler,
     ACTListHandler |-> ACTListHandler, ACTSharedPods |-> ACTSharedPods,
     ACTSavePod |-> ACTSavePod, ACTOpenPod |-> ACTOpenPod]
GitRoutes ==
    [GitInfoRef |-> GitInfoRef, GitUploadPack |-> GitUploadPack,
     GitReceivePack |-> GitReceivePack]
Routes == OpenRoutes @@ [h \in DOMAIN LoginRoutes |-> Gate \o LoginRoutes[h]]
              @@ [h \in DOMAIN GitRoutes |-> Token \o GitRoutes[h]]
=============================================================================
