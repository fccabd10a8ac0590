----------------------------- MODULE PodManager -----------------------------
(***************************************************************************)
(* The pods of one user (pkg/pod new.go, open.go, close.go, del.go and     *)
(* DeletePod of pkg/dfs/pod_api.go).  The list of pods is one file on      *)
(* Swarm that every operation reads, changes in memory and stores as a     *)
(* whole.  A pod's index in the list derives its key, so a pod made at an  *)
(* index that was used before has the feeds of the deleted pod.            *)
(*                                                                         *)
(* Threads serve requests; those of one session share its map of open pods *)
(* and its loaded accounts.  A pod's password, drawn at random, identifies *)
(* it.  The content of a pod is its root directory here.                   *)
(***************************************************************************)
EXTENDS Integers, FiniteSets, Sequences

CONSTANTS Threads, Sessions,
          Home,           \* thread -> its session
          Names,
          maxPodId,       \* 65535 in the code; indices are below it
          MaxPods,        \* bound on the number of pods ever created
          MayCrash,       \* whether a session may die, and a DeletePod fail, half way
          MayMissList,    \* whether a read of the list file may fail
          NoPod, Absent, Deleted

ASSUME PodAssumption ==
    /\ Home \in [Threads -> Sessions]
    /\ maxPodId \in Nat /\ MaxPods \in Nat
    /\ MayCrash \in BOOLEAN /\ MayMissList \in BOOLEAN
    /\ Absent \notin Nat /\ Deleted \notin Nat /\ Absent # Deleted

VARIABLES list,      \* PodsV2: own pods in order, names of shared pods
          root,      \* index -> password of the pod whose root directory is there
          podMap,    \* session -> name -> open pod
          accounts,  \* session -> indices whose key is loaded
          thread,    \* request of each thread, with its copy of the list
          made,      \* passwords drawn so far
          acked      \* history: own pods created and not deleted since

vars == <<list, root, podMap, accounts, thread, made, acked>>

Indices == 1..(maxPodId - 1)
Passwords == 1..MaxPods
Item == [name: Names, index: Indices, pass: Passwords]
Lists == [pods: Seq(Item), shared: SUBSET Names]

\* An open pod: its item (none for a shared one) and whether its Directory has
\* the root inode cached.
Open == [shared: {FALSE}, item: Item, rooted: BOOLEAN] \cup [shared: {TRUE}]

\* What the map says of a name with no open pod is not itself an open pod.
ASSUME NoPodAssumption == NoPod \notin Open

Idle == [pc |-> "idle"]
Requests == {Idle}
    \cup [pc: {"storeNew"}, item: Item, list: Lists]
    \cup [pc: {"makeRoot", "openRoot"}, item: Item]
    \cup [pc: {"storeShared"}, name: Names, list: Lists]
    \cup [pc: {"deleteOwn"}, name: Names]
    \cup [pc: {"storeLess"}, removed: SUBSET Item, list: Lists]

\* The list in the format of older versions, which these users never had.
loadUserPods == [pods |-> <<>>, shared |-> {}]

\* The stored list and every session's copies and maps are what the types of
\* List, ListItem and Info in pod.go and info.go say, indices within maxPodId.
TypeOK ==
    /\ list \in Lists
    /\ root \in [Indices -> Passwords \cup {Absent, Deleted}]
    /\ podMap \in [Sessions -> [Names -> Open \cup {NoPod}]]
    /\ accounts \in [Sessions -> SUBSET Nat]
    /\ thread \in [Threads -> Requests]
    /\ made \in 0..MaxPods
    /\ acked \in SUBSET Item

Init ==
    /\ list = loadUserPods
    /\ root = [i \in Indices |-> Absent]
    /\ podMap = [s \in Sessions |-> [n \in Names |-> NoPod]]
    /\ accounts = [s \in Sessions |-> {}]
    /\ thread = [t \in Threads |-> Idle]
    /\ made = 0
    /\ acked = {}

-----------------------------------------------------------------------------
Positions(l) == DOMAIN l.pods
OwnNames(l) == {l.pods[k].name : k \in Positions(l)}
UsedIndices(l) == {l.pods[k].index : k \in Positions(l)}

\* Mutant: only own pods are looked at.
IsOwnPodPresent(l, n) == n \in OwnNames(l)

\* checkIfPodPresent or checkIfSharedPodPresent.
IsPodPresent(l, n) == n \in OwnNames(l) \cup l.shared

\* getFreeId: the lowest index no own pod of the list uses.
getFreeId(l, i) ==
    /\ i \in Indices \ UsedIndices(l)
    /\ \A j \in Indices \ UsedIndices(l) : i <= j

WithPod(l, item) == [l EXCEPT !.pods = Append(@, item)]

\* Mutant: keeps the pod and drops the one after it.
WithoutNext(l, k) ==
    [l EXCEPT !.pods = [j \in 1..(Len(@) - 1) |-> IF j <= k THEN @[j] ELSE @[j + 1]]]

WithoutPosition(l, k) ==
    [l EXCEPT !.pods = [j \in 1..(Len(@) - 1) |-> IF j < k THEN @[j] ELSE @[j + 1]]]

Goto(t, request) == thread' = [thread EXCEPT ![t] = request]
Load(t, i) == accounts' = [accounts EXCEPT ![Home[t]] = @ \cup {i}]
Unload(t, i) == accounts' = [accounts EXCEPT ![Home[t]] = @ \ {i}]
Map(t, n, open) == podMap' = [podMap EXCEPT ![Home[t]][n] = open]
Opened(t, n) == podMap[Home[t]][n]
OwnPod(item, rooted) == [shared |-> FALSE, item |-> item, rooted |-> rooted]

\* Mutant: a shared pod is not marked as one.
SharedPodUnmarked == [shared |-> FALSE]

SharedPod == [shared |-> TRUE]

-----------------------------------------------------------------------------
\* PodList, the first call of every operation, takes a list it could not read
\* for one that is not there, and stores the older format's list in its place.
PodListFallsBack(t) ==
    /\ MayMissList
    /\ thread[t] = Idle
    /\ list' = loadUserPods
    /\ UNCHANGED <<root, podMap, accounts, thread, made, acked>>

\* CreatePod of an own pod, up to the change of the list it read.
CreatePod(t, n, i) ==
    LET item == [name |-> n, index |-> i, pass |-> made + 1] IN
    /\ thread[t] = Idle
    /\ made < MaxPods
    /\ ~IsPodPresent(list, n)
    /\ getFreeId(list, i)
    /\ made' = made + 1
    /\ Load(t, i)
    /\ Goto(t, [pc |-> "storeNew", item |-> item, list |-> WithPod(list, item)])
    /\ UNCHANGED <<list, root, podMap, acked>>

\* GetAddress panics when the account was unloaded in the meantime.
StoreNew(t) ==
    LET item == thread[t].item
        known == item.index \in accounts[Home[t]]
    IN
    /\ thread[t].pc = "storeNew"
    /\ list' = thread[t].list
    /\ acked' = acked \cup {item}
    /\ IF known
       THEN /\ Map(t, item.name, OwnPod(item, FALSE))
            /\ Goto(t, [pc |-> "makeRoot", item |-> item])
       ELSE Goto(t, Idle) /\ UNCHANGED podMap
    /\ UNCHANGED <<root, accounts, made>>

\* Mutant: MkRootDir is refused where a deleted root was.
MakeRootOnce(t) ==
    LET item == thread[t].item
        free == root[item.index] = Absent
    IN
    /\ thread[t].pc = "makeRoot"
    /\ root' = [root EXCEPT ![item.index] = IF free THEN item.pass ELSE @]
    /\ IF free /\ Opened(t, item.name) = OwnPod(item, FALSE)
       THEN Map(t, item.name, OwnPod(item, TRUE))
       ELSE UNCHANGED podMap
    /\ Goto(t, Idle)
    /\ UNCHANGED <<list, accounts, made, acked>>

\* MkRootDir fails when the feed of the root's index file is that of a pod
\* with another password: it cannot be read, and not be created either.
MakeRoot(t) ==
    LET item == thread[t].item
        free == root[item.index] \in {Absent, Deleted}
    IN
    /\ thread[t].pc = "makeRoot"
    /\ root' = [root EXCEPT ![item.index] = IF free THEN item.pass ELSE @]
    /\ IF free /\ Opened(t, item.name) = OwnPod(item, FALSE)
       THEN Map(t, item.name, OwnPod(item, TRUE))
       ELSE UNCHANGED podMap
    /\ Goto(t, Idle)
    /\ UNCHANGED <<list, accounts, made, acked>>

\* OpenPod of an own pod that is not in the map.
OpenPod(t, k) ==
    LET item == list.pods[k] IN
    /\ thread[t] = Idle
    /\ Opened(t, item.name) = NoPod
    /\ Load(t, item.index)
    /\ Goto(t, [pc |-> "openRoot", item |-> item])
    /\ UNCHANGED <<list, root, podMap, made, acked>>

\* The pod enters the map before AddRootDir, and stays there if that fails.
OpenRoot(t) ==
    LET item == thread[t].item IN
    /\ thread[t].pc = "openRoot"
    /\ IF item.index \in accounts[Home[t]]
       THEN Map(t, item.name, OwnPod(item, root[item.index] = item.pass))
       ELSE UNCHANGED podMap
    /\ Goto(t, Idle)
    /\ UNCHANGED <<list, root, accounts, made, acked>>

OpenSharedPod(t, n) ==
    /\ thread[t] = Idle
    /\ Opened(t, n) = NoPod
    /\ n \in list.shared \ OwnNames(list)
    /\ Map(t, n, SharedPod)
    /\ UNCHANGED <<list, root, accounts, thread, made, acked>>

\* getPodIndex gives -1 for a pod that is not among the list's own ones.
ClosePod(t, n) ==
    LET at == {k \in Positions(list) : list.pods[k].name = n} IN
    /\ thread[t] = Idle
    /\ Opened(t, n) # NoPod
    /\ Map(t, n, NoPod)
    /\ accounts' = [accounts EXCEPT ![Home[t]] = @ \ {list.pods[k].index : k \in at}]
    /\ UNCHANGED <<list, root, thread, made, acked>>

\* ReceivePod is CreatePod with the address of someone else's pod.
ReceivePod(t, n) ==
    /\ thread[t] = Idle
    /\ ~IsPodPresent(list, n)
    /\ Goto(t, [pc |-> "storeShared", name |-> n,
                list |-> [list EXCEPT !.shared = @ \cup {n}]])
    /\ UNCHANGED <<list, root, podMap, accounts, made, acked>>

StoreShared(t) ==
    /\ thread[t].pc = "storeShared"
    /\ list' = thread[t].list
    /\ Map(t, thread[t].name, SharedPod)
    /\ Goto(t, Idle)
    /\ UNCHANGED <<root, accounts, made, acked>>

\* DeleteSharedPod: out of the map first, then the list is stored.
DeleteSharedPod(t, n) ==
    /\ thread[t] = Idle
    /\ Opened(t, n) = SharedPod
    /\ n \in list.shared
    /\ Map(t, n, NoPod)
    /\ Goto(t, [pc |-> "storeLess", removed |-> {},
                list |-> [list EXCEPT !.shared = @ \ {n}]])
    /\ UNCHANGED <<list, root, accounts, made, acked>>

\* Mutant: the first pod of the list loses its root.
DeleteFirstRoot(t, n) ==
    LET open == Opened(t, n) IN
    /\ thread[t] = Idle
    /\ open \notin {NoPod, SharedPod}
    /\ open.rooted
    /\ root' = [root EXCEPT ![list.pods[1].index] = Deleted]
    /\ Map(t, n, OwnPod(open.item, FALSE))
    /\ Goto(t, [pc |-> "deleteOwn", name |-> n])
    /\ UNCHANGED <<list, accounts, made, acked>>

\* DeletePod of an open pod begins with RmRootDir, which fails unless the root
\* is cached.  It marks the index file's feed deleted, whoever's it is now, as
\* long as the content this session had cached for it can still be read.
DeletePod(t, n) ==
    LET open == Opened(t, n) IN
    /\ thread[t] = Idle
    /\ open \notin {NoPod, SharedPod}
    /\ open.rooted
    /\ root' = [root EXCEPT ![open.item.index] = Deleted]
    /\ Map(t, n, OwnPod(open.item, FALSE))
    /\ Goto(t, [pc |-> "deleteOwn", name |-> n])
    /\ UNCHANGED <<list, accounts, made, acked>>

\* Mutant: the pod stays in the map of open pods.
DeleteStillOpen(t, k) ==
    LET item == list.pods[k] IN
    /\ thread[t].pc = "deleteOwn"
    /\ item.name = thread[t].name
    /\ Opened(t, item.name) # NoPod
    /\ Unload(t, k - 1)
    /\ Goto(t, [pc |-> "storeLess", removed |-> {item},
                list |-> WithoutPosition(list, k)])
    /\ UNCHANGED <<list, root, podMap, made, acked>>

\* DeleteOwnPod unloads the account whose number is the pod's place in the list,
\* counted from 0.
DeleteOwnPod(t, k) ==
    LET item == list.pods[k] IN
    /\ thread[t].pc = "deleteOwn"
    /\ item.name = thread[t].name
    /\ Opened(t, item.name) # NoPod
    /\ Map(t, item.name, NoPod)
    /\ Unload(t, k - 1)
    /\ Goto(t, [pc |-> "storeLess", removed |-> {item},
                list |-> WithoutPosition(list, k)])
    /\ UNCHANGED <<list, root, made, acked>>

\* The pod is no longer listed; or it was closed, is opened again, has no root;
\* or a table of it cannot be deleted (del.go:48-56).  Its root is gone.
DeleteFails(t) ==
    LET n == thread[t].name IN
    /\ thread[t].pc = "deleteOwn"
    /\ n \notin OwnNames(list) \/ Opened(t, n) = NoPod \/ MayCrash
    /\ IF n \in OwnNames(list) /\ Opened(t, n) = NoPod
       THEN \E k \in Positions(list) :
               /\ list.pods[k].name = n
               /\ Map(t, n, OwnPod(list.pods[k], FALSE))
               /\ Load(t, list.pods[k].index)
       ELSE UNCHANGED <<podMap, accounts>>
    /\ Goto(t, Idle)
    /\ UNCHANGED <<list, root, made, acked>>

StoreLess(t) ==
    /\ thread[t].pc = "storeLess"
    /\ list' = thread[t].list
    /\ acked' = acked \ thread[t].removed
    /\ Goto(t, Idle)
    /\ UNCHANGED <<root, podMap, accounts, made>>

\* The session dies or logs out: nothing of it is left but what is on Swarm.
Crash(s) ==
    /\ MayCrash
    /\ podMap' = [podMap EXCEPT ![s] = [n \in Names |-> NoPod]]
    /\ accounts' = [accounts EXCEPT ![s] = {}]
    /\ thread' = [t \in Threads |-> IF Home[t] = s THEN Idle ELSE thread[t]]
    /\ UNCHANGED <<list, root, made, acked>>

Step(t) ==
    \/ PodListFallsBack(t)
    \/ \E n \in Names : \E i \in Indices : CreatePod(t, n, i)
    \/ StoreNew(t) \/ MakeRoot(t) \/ OpenRoot(t) \/ StoreShared(t)
    \/ \E k \in Positions(list) : OpenPod(t, k) \/ DeleteOwnPod(t, k)
    \/ \E n \in Names : OpenSharedPod(t, n) \/ ClosePod(t, n) \/ ReceivePod(t, n)
                           \/ DeleteSharedPod(t, n) \/ DeletePod(t, n)
    \/ DeleteFails(t) \/ StoreLess(t)

Next == (\E t \in Threads : Step(t)) \/ (\E s \in Sessions : Crash(s))

Spec == Init /\ [][Next]_vars

-----------------------------------------------------------------------------
\* A list in which no two pods have the same name or the same index.
WellFormed(l) ==
    /\ \A j, k \in Positions(l) : j # k =>
          l.pods[j].name # l.pods[k].name /\ l.pods[j].index # l.pods[k].index
    /\ OwnNames(l) \cap l.shared = {}

\* Whatever the threads and sessions do to each other, and wherever they die, no
\* two pods of the stored list have the same name or key (getFreeId).
ListWellFormed == WellFormed(list)

\* An own pod whose creation was stored is in the list until its deletion is:
\* no operation stores a list that is older than what it puts back.
NoLostPods == \A item \in acked : \E k \in Positions(list) : list.pods[k] = item

Busy(item) ==
    \E t \in Threads :
        \/ thread[t].pc = "makeRoot" /\ thread[t].item = item
        \/ thread[t].pc = "deleteOwn" /\ thread[t].name = item.name
        \/ thread[t].pc = "storeLess" /\ item \in thread[t].removed

\* A listed pod that no request is creating or deleting has its root directory,
\* without which it can neither be used nor deleted (RmRootDir refuses).
PodsHaveRoots ==
    \A k \in Positions(list) :
        Busy(list.pods[k]) \/ root[list.pods[k].index] = list.pods[k].pass

\* DeletePod "deletes a pod": no step deletes the root directory of a listed pod
\* that it is not deleting.
DeletesOwnRootOnly ==
    [][\A i \in Indices : root[i] \in Passwords /\ root'[i] = Deleted =>
          \E t \in Threads : thread'[t].pc = "deleteOwn" /\
              podMap'[Home[t]][thread'[t].name].item.pass = root[i]]_vars

\* What is open in a session is what the list says under that name.
OpenPodsAreListed ==
    \A s \in Sessions, n \in Names :
        podMap[s][n] # NoPod =>
            IF podMap[s][n] = SharedPod THEN n \in list.shared
            ELSE \E k \in Positions(list) : list.pods[k] = podMap[s][n].item

\* DeletePodAccount forgets "a particular pods key": the keys that stay loaded
\* in a session with no request in progress are those of listed pods.
NoForgottenKeys ==
    (\A t \in Threads : thread[t] = Idle) =>
        \A s \in Sessions : accounts[s] \subseteq UsedIndices(list)
=============================================================================
