------------------------------- MODULE DfsApi -------------------------------
(***************************************************************************)
(* pkg/dfs: what every front end calls. A function looks the session up,   *)
(* gets the pod (opening it) or the group, and calls a component. `s` is   *)
(* the argument the caller passes as the session id. What the component    *)
(* does inside is the subject of the other modules; here it is one Read or *)
(* one Write, and a function that calls for several writes shows them.     *)
(***************************************************************************)
EXTENDS RequestSteps

InPod(s, steps)   == Session(s) \o Pod \o steps
\* `d` is the drive: Drive, Pod or Group, as isGroup is the request's, false or true.
InDrive(s, d, steps) == Session(s) \o d \o steps
OfUser(s, steps)  == Session(s) \o steps

\* --- user_api.go
CreateUserV2           == Read \o Write("data") \o Write("login")
LoginUserV2            == Read \o Write("login")
LoginUserWithSignature == Read \o Write("login")
LoginWithWallet        == Read \o Write("login")
ConnectPortableAccountWithWallet == Read \o Write("data")
\* CloseAllPods, whose error is logged, CommitFeeds, then the session goes.
LogoutUser(s)          == OfUser(s, TryWrite("closeAll") \o Do("data") \o Session(s) \o Logout)
DeleteUserV2(s)        == OfUser(s, Session(s) \o Read \o Write("data") \o Session(s) \o Logout)
GetUserStat(s)         == OfUser(s, Read)
GetNameHash(s)         == OfUser(s, Read)

\* --- pod_api.go
prepareOwnPod  == Write("data") \o Write("openPod")
CreatePod(s)   == OfUser(s, prepareOwnPod)
\* The root directory of an own pod is removed before the pod.
DeletePod(s)   == InPod(s, Maybe(Write("data")) \o Write("closePod"))
OpenPod(s)     == InPod(s, <<>>)
ClosePod(s)    == OfUser(s, InMap \o Write("closePod"))
PodStat(s)     == InPod(s, Read)
SyncPod(s)     == InPod(s, Write("cache"))
SyncPodAsync(s) == InPod(s, Write("cache"))
ListPods(s)    == OfUser(s, Read)
PodShare(s)    == OfUser(s, Read \o Write("data"))
PodReceiveInfo(s) == OfUser(s, Read)
PodReceive(s)  == OfUser(s, Read \o Write("data"))
\* False for whoever is not logged in.
IsPodExist(s)  == Attempt(OfUser(s, Read))
\* Name, presence, a new pod, and the files one by one.
Fork(arg)          == Ask(arg) \o Read \o prepareOwnPod
ForkPod(s)         == OfUser(s, Fork("forkName") \o Pod \o ForEach(Write("data")))
\* A reference that cannot be read makes an empty fork.
ForkPodFromRef(s)  == OfUser(s, Ask("reference") \o Fork("forkName") \o Maybe(Read \o ForEach(Write("data"))))

\* Pods shared in public are read through feeds of their own.
PublicPodReceiveInfo == Read
PublicPodFileDownload == Read \o Read
PublicPodFileDownloadFromMetadata == Read
PublicPodKVEntryGet  == Read \o Read
PublicPodDisLs       == Read \o ForEach(Read)
PublicPodSnapshot    == Read \o ForEach(Read)

\* The marketplace may not be configured (a.sm == nil).
Market == Read
EncryptSubscription(s)   == OfUser(s, Market \o Read \o Pod \o Write("data"))
DecryptAndOpenSubscriptionPod(s) == OfUser(s, Market \o Read \o Write("openPod") \o Write("cache"))
GetSubscriptions(s)      == OfUser(s, Market \o Read \o Read \o ForEach(Read))
GetSubscribablePodInfo(s) == OfUser(s, Market \o Read)
OpenSubscribedPod(s)     == OfUser(s, Market \o Read \o Read \o Write("openPod") \o Write("cache"))
GetSubscribablePods(s)   == OfUser(s, Market \o Read)
GetSubsRequests(s)       == OfUser(s, Market \o Read)

\* --- fs_api.go
Mkdir(s, d)        == InDrive(s, d, Write("data"))
RenameDir(s, d)    == InDrive(s, d, Write("data"))
IsDirPresent(s, d) == InDrive(s, d, <<>>)
RmDir(s, d)        == InDrive(s, d, Write("data"))
ListDir(s, d)      == InDrive(s, d, Read \o Read)
DirectoryStat(s, d) == InDrive(s, d, Read \o Read)
ChmodDir(s, d)     == InDrive(s, d, Write("data"))
\* The file, then its entry in the directory; a read-only pod refuses both.
DeleteFile(s, d)   == InDrive(s, d, Read \o Write("data") \o Write("data"))
FileStat(s, d)     == InDrive(s, d, Read \o Read)
\* A file in the way is backed up, and its entries change; then blocks and entry.
UploadFile(s, d)   == InDrive(s, d, Maybe(Write("data") \o Write("data") \o Write("data"))
                              \o Write("data") \o Write("data"))
RenameFile(s, d)   == InDrive(s, d, Read \o Read \o Write("data") \o Write("data") \o Write("data"))
DownloadFile(s, d) == InDrive(s, d, Read)
WriteAtFile(s, d)  == InDrive(s, d, Read \o Write("data"))
ShareFile(s, d)    == InDrive(s, d, Read \o Write("data"))
ReceiveFile(s)  == OfUser(s, Read \o Pod \o Read \o Write("data") \o Write("data"))
ReceiveInfo(s)  == OfUser(s, Read)
StatusFile(s, d)   == InDrive(s, d, Read)
ChmodFile(s, d)    == InDrive(s, d, Write("data"))

\* --- kv_api.go
KVCreate(s)  == InPod(s, Write("data"))
KVDelete(s)  == InPod(s, Write("data"))
KVOpen(s)    == InPod(s, Write("cache"))
KVList(s)    == InPod(s, Read)
KVCount(s)   == InPod(s, Read)
KVPut(s)     == InPod(s, Write("data"))
KVGet(s)     == InPod(s, Read)
KVDel(s)     == InPod(s, Write("data"))
KVBatch(s)   == InPod(s, Read)
KVSeek(s)    == InPod(s, Write("cache"))
KVGetNext(s) == InPod(s, Write("cache"))

\* --- doc_api.go
DocCreate(s) == InPod(s, Write("data"))
DocOpen(s)   == InPod(s, Write("cache"))
DocDelete(s) == InPod(s, Write("data"))
DocList(s)   == InPod(s, Read)
DocCount(s)  == InPod(s, Read)
DocPut(s)    == InPod(s, Write("data"))
DocGet(s)    == InPod(s, Read)
DocDel(s)    == InPod(s, Write("data"))
DocFind(s)   == InPod(s, Read)
DocBatch(s)  == InPod(s, Read)
DocBatchPut(s)   == InPod(s, TryWrite("data"))
DocBatchWrite(s) == InPod(s, Write("data"))
DocIndexJson(s)  == InPod(s, Read \o Write("data"))

\* --- group_api.go
CreateGroup(s)       == OfUser(s, Write("data") \o Write("openGroup"))
\* Its databases, tables, permissions and place in the list go one by one.
RemoveGroup(s)       == OfUser(s, Read \o Write("openGroup") \o Write("data") \o Write("data")
                                    \o Write("data") \o Do("closeGroup") \o Write("data"))
RemoveSharedGroup(s) == OfUser(s, Read \o Do("closeGroup") \o Write("data"))
ListGroups(s)        == OfUser(s, Read)
OpenGroup(s)         == OfUser(s, Write("openGroup"))
CloseGroup(s)        == OfUser(s, Group \o Write("closeGroup"))
AddMember(s)         == OfUser(s, Read \o Read \o Write("data"))
AcceptGroupInvite(s) == OfUser(s, Write("data"))
RemoveMember(s)      == OfUser(s, Read \o Read \o Write("data"))
UpdatePermission(s)  == OfUser(s, Read \o Read \o Write("data"))
GetPermission(s)     == OfUser(s, Read)
GetGroupMembers(s)   == OfUser(s, Read)

\* --- act_api.go
CreateGranteePublicKey(s)      == OfUser(s, Write("data"))
GrantRevokeGranteePublicKey(s) == OfUser(s, Write("data"))
ListGrantees(s)   == OfUser(s, Read)
ACTPodShare(s)    == OfUser(s, Write("data") \o Write("data"))
OpenACTPod(s)     == OfUser(s, Read \o Read \o Write("openPod"))
GetACTs(s)        == OfUser(s, Read)
SaveACTPod(s)     == OfUser(s, Write("data"))
GetACTContents(s) == OfUser(s, Read)
=============================================================================
