------------------------------ MODULE WasmApi ------------------------------
(***************************************************************************)
(* wasm/main.go: the functions a web page calls. Each returns a promise,   *)
(* looks whether there is an api and how many arguments it was given, and  *)
(* makes its call on a goroutine, which rejects or resolves the promise.   *)
(***************************************************************************)
EXTENDS RequestSteps

dfs == INSTANCE DfsApi

Function(steps) == Connected \o Ask("arguments") \o steps
Promise(steps)  == Function(steps) \o Ok
\* The same for a function whose arguments name a group.
GroupFunction(steps) == Connected \o Ask("groupName") \o steps
GroupPromise(steps)  == GroupFunction(steps) \o Ok

\* A failed NewDfsAPI rejects the promise, and then the promise is resolved.
connect == Ask("arguments") \o Read \o NewApi("tell") \o Ok
login          == Promise(dfs!LoginUserV2)
walletLogin    == Promise(dfs!LoginWithWallet)
signatureLogin == Promise(dfs!LoginUserWithSignature)
connectWallet  == Promise(dfs!ConnectPortableAccountWithWallet)
userPresent    == Promise(<<>>)
userIsLoggedIn == Promise(<<>>)
userLogout     == Promise(dfs!LogoutUser(sessionId))
userDelete     == Promise(dfs!DeleteUserV2(sessionId))
userStat       == Promise(dfs!GetUserStat(sessionId))
getNameHash    == Promise(dfs!GetNameHash(sessionId))

podNew   == Promise(dfs!CreatePod(sessionId))
podOpen  == Promise(dfs!OpenPod(sessionId))
podClose == Promise(dfs!ClosePod(sessionId))
podSync  == Promise(dfs!SyncPod(sessionId))
podDelete == Promise(dfs!DeletePod(sessionId))
podList  == Promise(dfs!ListPods(sessionId))
podStat  == Promise(dfs!PodStat(sessionId))
podShare == Promise(dfs!PodShare(sessionId))
podReceive     == Promise(Read \o dfs!PodReceive(sessionId))
podReceiveInfo == Promise(Read \o dfs!PodReceiveInfo(sessionId))
publicPodReceiveInfo == Promise(Read \o dfs!PublicPodReceiveInfo)
publicPodFile == Promise(Read \o dfs!PublicPodReceiveInfo \o dfs!PublicPodFileDownload \o Read)
publicPodFileMeta == Promise(Read \o dfs!PublicPodFileDownloadFromMetadata \o Read)
publicPodDir  == Promise(Read \o dfs!PublicPodReceiveInfo \o dfs!PublicPodDisLs)
\* A slice of bytes is no value of JavaScript: resolving with it panics.
publicKvEntryGet ==
    Function(Read \o dfs!PublicPodReceiveInfo \o dfs!PublicPodKVEntryGet \o Panic)

groupNew    == GroupPromise(dfs!CreateGroup(sessionId))
groupOpen   == GroupPromise(dfs!OpenGroup(sessionId))
groupClose  == GroupPromise(dfs!CloseGroup(sessionId))
groupDelete == GroupPromise(dfs!RemoveGroup(sessionId))
groupDeleteShared == GroupPromise(dfs!RemoveSharedGroup(sessionId))
groupList   == Promise(dfs!ListGroups(sessionId))
groupInvite == GroupPromise(dfs!AddMember(sessionId))
groupAccept == Promise(dfs!AcceptGroupInvite(sessionId))
\* The group, the member, the session id: the first is taken for the last.
groupRemoveMember     == GroupPromise(dfs!RemoveMember("groupName"))
groupUpdatePermission == GroupPromise(dfs!UpdatePermission(sessionId))
groupMembers    == GroupPromise(dfs!GetGroupMembers(sessionId))
groupPermission == GroupPromise(dfs!GetPermission(sessionId))

dirPresent == Promise(dfs!IsDirPresent(sessionId, Pod))
dirMake    == Promise(dfs!Mkdir(sessionId, Pod))
dirRemove  == Promise(dfs!RmDir(sessionId, Pod))
dirList    == Promise(dfs!ListDir(sessionId, Pod))
dirStat    == Promise(dfs!DirectoryStat(sessionId, Pod))
fileDownload == Promise(dfs!DownloadFile(sessionId, Pod) \o Read)
fileUpload   == Promise(Read \o dfs!UploadFile(sessionId, Pod))
fileShare    == Promise(dfs!ShareFile(sessionId, Pod))
fileReceive  == Promise(dfs!ReceiveFile(sessionId))
\* Two arguments are asked for, and the third is read.
fileReceiveInfo == Function(Panic)
fileDelete   == Promise(dfs!DeleteFile(sessionId, Pod))
fileStat     == Promise(dfs!FileStat(sessionId, Pod))

groupDirPresent == GroupPromise(dfs!IsDirPresent(sessionId, Group))
groupDirMake    == GroupPromise(dfs!Mkdir(sessionId, Group))
groupDirRemove  == GroupPromise(dfs!RmDir(sessionId, Group))
groupDirList    == GroupPromise(dfs!ListDir(sessionId, Group))
groupDirStat    == GroupPromise(dfs!DirectoryStat(sessionId, Group))
groupFileDownload == GroupPromise(dfs!DownloadFile(sessionId, Group) \o Read)
groupFileUpload == GroupPromise(Read \o dfs!UploadFile(sessionId, Group))
groupFileShare  == GroupPromise(dfs!ShareFile(sessionId, Group))
groupFileDelete == GroupPromise(dfs!DeleteFile(sessionId, Group))
groupFileStat   == GroupPromise(dfs!FileStat(sessionId, Group))

kvNewStore == Promise(Read \o dfs!KVCreate(sessionId))
kvList     == Promise(dfs!KVList(sessionId))
kvOpen     == Promise(dfs!KVOpen(sessionId))
kvDelete   == Promise(dfs!KVDelete(sessionId))
kvCount    == Promise(dfs!KVCount(sessionId))
kvEntryPut == Promise(dfs!KVPut(sessionId))
kvEntryGet == Promise(dfs!KVGet(sessionId))
kvEntryDelete == Promise(dfs!KVDel(sessionId))
\* Without a row there is no batch to write.
kvLoadCSV  == Promise(Maybe(Panic) \o dfs!KVBatch(sessionId) \o TryWrite("cache")
                      \o ForEach(TryWrite("cache")) \o Write("data"))
kvSeek     == Promise(dfs!KVSeek(sessionId))
kvSeekNext == Promise(dfs!KVGetNext(sessionId))

docNewStore == Promise(ForEach(Read) \o dfs!DocCreate(sessionId))
docList     == Promise(dfs!DocList(sessionId))
docOpen     == Promise(dfs!DocOpen(sessionId))
docCount    == Function(dfs!DocCount(sessionId) \o Panic)
docDelete   == Promise(dfs!DocDelete(sessionId))
docFind     == Function(dfs!DocFind(sessionId) \o Panic)
docEntryPut == Promise(dfs!DocPut(sessionId))
docEntryGet == Function(dfs!DocGet(sessionId) \o Panic)
docEntryDelete == Promise(dfs!DocDel(sessionId))
docLoadJson == Promise(dfs!DocBatch(sessionId) \o ForEach(Attempt(dfs!DocBatchPut(sessionId)))
                       \o dfs!DocBatchWrite(sessionId))
docIndexJson == Promise(dfs!DocIndexJson(sessionId))

encryptSubscription == Promise(Read \o dfs!EncryptSubscription(sessionId))
getSubscriptions    == Promise(dfs!GetSubscriptions(sessionId))
openSubscribedPod   == Promise(Read \o dfs!OpenSubscribedPod(sessionId))
openSubscribedPodFromReference == Promise(Read \o dfs!DecryptAndOpenSubscriptionPod(sessionId))
getSubscribablePods    == Promise(dfs!GetSubscribablePods(sessionId))
getSubRequests         == Promise(dfs!GetSubsRequests(sessionId))
getSubscribablePodInfo == Promise(Read \o dfs!GetSubscribablePodInfo(sessionId))

actCreate == Promise(Read \o dfs!CreateGranteePublicKey(sessionId))
\* No key to grant and none to revoke, equal keys, a key that cannot be read.
actUpdate == Promise(Read \o Read \o dfs!GrantRevokeGranteePublicKey(sessionId))
actListGrantees == Promise(dfs!ListGrantees(sessionId))
actSharePod == Promise(dfs!ACTPodShare(sessionId))
actList     == Promise(dfs!GetACTs(sessionId))
actListPods == Promise(dfs!GetACTContents(sessionId))
actSavePod  == Promise(Read \o dfs!SaveACTPod(sessionId))
actOpenPod  == Promise(dfs!OpenACTPod(sessionId))

(* Tables of the registered functions. *)
Functions ==
    [connect |-> connect, login |-> login, walletLogin |-> walletLogin,
     signatureLogin |-> signatureLogin, connectWallet |-> connectWallet,
     userPresent |-> userPresent, userIsLoggedIn |-> userIsLoggedIn, userLogout |-> userLogout,
     userDelete |-> userDelete, userStat |-> userStat, getNameHash |-> getNameHash,
     podNew |-> podNew, podOpen |-> podOpen, podClose |-> podClose, podSync |-> podSync,
     podDelete |-> podDelete, podList |-> podList, podStat |-> podStat, podShare |-> podShare,
     podReceive |-> podReceive, podReceiveInfo |-> podReceiveInfo,
     publicPodReceiveInfo |-> publicPodReceiveInfo, publicPodFile |-> publicPodFile,
     publicPodFileMeta |-> publicPodFileMeta, publicPodDir |-> publicPodDir,
     publicKvEntryGet |-> publicKvEntryGet, groupNew |-> groupNew, groupOpen |-> groupOpen,
     groupClose |-> groupClose, groupDelete |-> groupDelete,
     groupDeleteShared |-> groupDeleteShared, groupList |-> groupList,
     groupInvite |-> groupInvite, groupAccept |-> groupAccept,
     groupRemoveMember |-> groupRemoveMember, groupUpdatePermission |-> groupUpdatePermission,
     groupMembers |-> groupMembers, groupPermission |-> groupPermission,
     dirPresent |-> dirPresent, dirMake |-> dirMake, dirRemove |-> dirRemove,
     dirList |-> dirList, dirStat |-> dirStat, fileDownload |-> fileDownload,
     fileUpload |-> fileUpload, fileShare |-> fileShare, fileReceive |-> fileReceive,
     fileReceiveInfo |-> fileReceiveInfo, fileDelete |-> fileDelete, fileStat |-> fileStat,
     groupDirPresent |-> groupDirPresent, groupDirMake |-> groupDirMake,
     groupDirRemove |-> groupDirRemove, groupDirList |-> groupDirList,
     groupDirStat |-> groupDirStat, groupFileDownload |-> groupFileDownload,
     groupFileUpload |-> groupFileUpload, groupFileShare |-> groupFileShare,
     groupFileDelete |-> groupFileDelete, groupFileStat |-> groupFileStat,
     kvNewStore |-> kvNewStore, kvList |-> kvList, kvOpen |-> kvOpen, kvDelete |-> kvDelete,
     kvCount |-> kvCount, kvEntryPut |-> kvEntryPut, kvEntryGet |-> kvEntryGet,
     kvEntryDelete |-> kvEntryDelete, kvLoadCSV |-> kvLoadCSV, kvSeek |-> kvSeek,
     kvSeekNext |-> kvSeekNext, docNewStore |-> docNewStore, docList |-> docList,
     docOpen |-> docOpen, docCount |-> docCount, docDelete |-> docDelete, docFind |-> docFind,
     docEntryPut |-> docEntryPut, docEntryGet |-> docEntryGet,
     docEntryDelete |-> docEntryDelete, docLoadJson |-> docLoadJson,
     docIndexJson |-> docIndexJson, encryptSubscription |-> encryptSubscription,
     getSubscriptions |-> getSubscriptions, openSubscribedPod |-> openSubscribedPod,
     openSubscribedPodFromReference |-> openSubscribedPodFromReference,
     getSubscribablePods |-> getSubscribablePods, getSubRequests |-> getSubRequests,
     getSubscribablePodInfo |-> getSubscribablePodInfo, actCreate |-> actCreate,
     actUpdate |-> actUpdate, actListGrantees |-> actListGrantees, actSharePod |-> actSharePod,
     actList |-> actList, actListPods |-> actListPods, actSavePod |-> actSavePod,
     actOpenPod |-> actOpenPod]
=============================================================================
