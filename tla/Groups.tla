------------------------------- MODULE Groups -------------------------------
(***************************************************************************)
(* Groups of users (pkg/pod/group.go, groupMember.go) and the permissions  *)
(* of their members (pkg/acl/acl/controller.go). A user's groups, own and  *)
(* shared, are one list on Swarm; a group's permissions are one list in a  *)
(* feed of its owner, which a session keeps in listMap by the *name* of    *)
(* the group once it was loaded or stored, and stores from there.          *)
(*                                                                         *)
(* A call is the steps between which calls of other sessions may run:      *)
(* reading the list of groups, storing it, storing the permissions.        *)
(***************************************************************************)
EXTENDS Naturals, Sequences, FiniteSets

CONSTANTS Users, Sessions,
          UserOf,         \* session -> its user
          Names,
          NamesOf,        \* user -> the names the user gives to groups
          Asked,          \* the permissions members are given
          Careful,        \* only owners change members, and list them before they remove one
          MayFail,        \* whether a store may fail and a session may end in a call
          MayMissList,    \* whether a read of the list of groups may fail
          MaxShared,      \* bound on the shared groups of a user
          None

VARIABLES lists,    \* user -> the list of groups on Swarm
          acls,     \* owner -> name -> permissions on Swarm, or None
          listMap,  \* session -> name -> the permissions cached, or None
          opened,   \* session -> name -> [owner, perm] of the open group, or None
          invites,  \* references handed out by AddMember: owner and name
          work,     \* session -> the rest of its call
          locked,   \* sessions whose ACL's mutex was left locked
          given     \* history: owner -> name -> user -> permission, by acknowledged calls

vars == <<lists, acls, listMap, opened, invites, work, locked, given>>

NoPermission    == 0
PermissionRead  == 1
PermissionWrite == 2
Granted == {PermissionRead, PermissionWrite}
Unsure == 3        \* a call that would change it failed half-way

Idle == [do |-> "idle"]

NoGroups == [own |-> {}, shared |-> <<>>]
Nobody == [u \in Users |-> NoPermission]
OnlyOwner(u) == [Nobody EXCEPT ![u] = PermissionWrite]
Fresh == [n \in Names |-> None]

Init ==
    /\ lists = [u \in Users |-> NoGroups]
    /\ acls = [u \in Users |-> Fresh]
    /\ listMap = [s \in Sessions |-> Fresh]
    /\ opened = [s \in Sessions |-> Fresh]
    /\ invites = {} /\ locked = {}
    /\ work = [s \in Sessions |-> Idle]
    /\ given = [u \in Users |-> [n \in Names |-> Nobody]]

-----------------------------------------------------------------------------
SharedNames(l) == {l.shared[k].name : k \in DOMAIN l.shared}
Copies(l, n) == {k \in DOMAIN l.shared : l.shared[k].name = n}
checkIfPodPresent(l, n) == n \in l.own \cup SharedNames(l)

\* What ListGroup may answer: a meta that cannot be read is ErrFileNotFound, which
\* most callers take for an empty list.
ListGroup(u) == {lists[u]} \cup (IF MayMissList THEN {NoGroups} ELSE {})

\* The owner of the group a user means: the own one first, then the first shared.
OwnerOf(u, l, n) ==
    IF n \in l.own THEN u
    ELSE l.shared[CHOOSE k \in Copies(l, n) : \A j \in Copies(l, n) : k <= j].owner

Calling(s) == work[s] = Idle
Does(s, step) == work[s].do = step
Goto(s, w) == work' = [work EXCEPT ![s] = w]
Returns(s) == Goto(s, Idle)
Cache(s, n, perms) == listMap' = [listMap EXCEPT ![s][n] = perms]
Opens(s, n, info) == opened' = [opened EXCEPT ![s][n] = info]
Grants(u, n, m, p) == given' = [given EXCEPT ![u][n][m] = p]

\* loadPermissions, for the owner of a list that is there.
loadPermissions(s, owner, n) ==
    /\ s \notin locked /\ acls[owner][n] # None
    /\ Cache(s, n, acls[owner][n])

\* Mutant: the cached list is dropped first, as RemoveGroup does.
storeOnlyOwner(s, n) == OnlyOwner(UserOf[s])

\* The list storePermissions stores.
ToStore(s, n) == IF listMap[s][n] # None THEN listMap[s][n] ELSE OnlyOwner(UserOf[s])

-----------------------------------------------------------------------------
\* CreateGroup stores the list of groups, then the permissions, then opens it.
CreateGroup(s, n) ==
    LET u == UserOf[s] IN
    /\ Calling(s) /\ n \in NamesOf[u]
    /\ \E l \in ListGroup(u) :
          /\ ~checkIfPodPresent(l, n)
          /\ Goto(s, [do |-> "storeGroups", list |-> [l EXCEPT !.own = @ \cup {n}],
                      name |-> n, then |-> "aclCreateGroup"])
    /\ UNCHANGED <<lists, acls, listMap, opened, invites, locked, given>>

\* RemoveGroup opens the group, deletes its tables, and resets its permissions
\* before the list of groups is stored.
RemoveGroup(s, n) ==
    LET u == UserOf[s] IN
    /\ Calling(s)
    /\ \E l \in ListGroup(u) :
          /\ n \in l.own
          /\ Goto(s, [do |-> "aclRemoveGroup", list |-> [l EXCEPT !.own = @ \ {n}], name |-> n])
    /\ Opens(s, n, IF opened[s][n] # None THEN opened[s][n]
                   ELSE [owner |-> u, perm |-> PermissionWrite])
    /\ UNCHANGED <<lists, acls, listMap, invites, locked, given>>

\* A call that waits for a mutex nobody unlocks.
Hangs(s) ==
    /\ s \in locked
    /\ Calling(s) \/ work[s].do \in {"aclCreateGroup", "aclRemoveGroup", "aclChange"}
    /\ Goto(s, [do |-> "hung"])
    /\ UNCHANGED <<lists, acls, listMap, opened, invites, locked, given>>

aclRemoveGroup(s) ==
    LET u == UserOf[s]
        n == work[s].name
    IN
    /\ Does(s, "aclRemoveGroup") /\ s \notin locked
    /\ Cache(s, n, OnlyOwner(u))
    /\ acls' = [acls EXCEPT ![u][n] = OnlyOwner(u)]
    /\ Opens(s, n, None)
    /\ given' = [given EXCEPT ![u][n] = [Nobody EXCEPT ![u] = Unsure]]
    /\ Goto(s, [do |-> "storeGroups", list |-> work[s].list, name |-> n, then |-> "return"])
    /\ UNCHANGED <<lists, invites, locked>>

StoreGroups(s) ==
    /\ Does(s, "storeGroups")
    /\ lists' = [lists EXCEPT ![UserOf[s]] = work[s].list]
    /\ IF work[s].then = "return" THEN Returns(s)
       ELSE Goto(s, [do |-> work[s].then, name |-> work[s].name])
    /\ UNCHANGED <<acls, listMap, opened, invites, locked, given>>

aclCreateGroup(s) ==
    LET u == UserOf[s]
        n == work[s].name
    IN
    /\ Does(s, "aclCreateGroup") /\ s \notin locked
    /\ acls' = [acls EXCEPT ![u][n] = ToStore(s, n)]
    /\ Cache(s, n, ToStore(s, n))
    /\ given' = [given EXCEPT ![u][n] = OnlyOwner(u)]
    /\ Opens(s, n, [owner |-> u, perm |-> PermissionWrite])
    /\ Returns(s)
    /\ UNCHANGED <<lists, invites, locked>>

\* RemoveSharedGroup takes elements out of the slice it ranges over: with two
\* copies of a group it panics, and nothing is stored.
RemoveSharedGroup(s, n) ==
    LET u == UserOf[s] IN
    /\ Calling(s)
    /\ \E l \in ListGroup(u) : \E k \in Copies(l, n) :
          /\ Cardinality(Copies(l, n)) = 1
          /\ Goto(s, [do |-> "storeGroups", name |-> n, then |-> "return",
                      list |-> [l EXCEPT !.shared = SubSeq(@, 1, k - 1)
                                                      \o SubSeq(@, k + 1, Len(@))]])
    /\ Opens(s, n, None)
    /\ UNCHANGED <<lists, acls, listMap, invites, locked, given>>

OpenOwnGroup(s, n) ==
    /\ Calling(s) /\ opened[s][n] = None
    /\ n \in lists[UserOf[s]].own
    /\ Opens(s, n, [owner |-> UserOf[s], perm |-> PermissionWrite])
    /\ UNCHANGED <<lists, acls, listMap, invites, work, locked, given>>

\* Mutant: the list cached under the name decides.
OpenSharedCached(s, n) ==
    LET u == UserOf[s]
        owner == OwnerOf(u, lists[u], n)
    IN
    /\ Calling(s) /\ opened[s][n] = None
    /\ n \in SharedNames(lists[u]) \ lists[u].own
    /\ acls[owner][n] # None
    /\ Cache(s, n, IF listMap[s][n] # None THEN listMap[s][n] ELSE acls[owner][n])
    /\ listMap'[s][n][u] \in Granted
    /\ Opens(s, n, [owner |-> owner, perm |-> listMap'[s][n][u]])
    /\ UNCHANGED <<lists, acls, invites, work, locked, given>>

\* OpenGroup of a shared group with a permission.
OpenSharedGroup(s, n) ==
    LET u == UserOf[s]
        owner == OwnerOf(u, lists[u], n)
    IN
    /\ Calling(s) /\ opened[s][n] = None
    /\ n \in SharedNames(lists[u]) \ lists[u].own
    /\ loadPermissions(s, owner, n)
    /\ acls[owner][n][u] \in Granted
    /\ Opens(s, n, [owner |-> owner, perm |-> acls[owner][n][u]])
    /\ UNCHANGED <<lists, acls, invites, work, locked, given>>

\* Without one it leaves the list of shared groups; two copies make that panic.
OpenDenied(s, n) ==
    LET u == UserOf[s]
        l == lists[u]
    IN
    /\ Calling(s) /\ opened[s][n] = None
    /\ n \in SharedNames(l) \ l.own
    /\ loadPermissions(s, OwnerOf(u, l, n), n)
    /\ acls[OwnerOf(u, l, n)][n][u] \notin Granted
    /\ IF Cardinality(Copies(l, n)) = 1
       THEN \E k \in Copies(l, n) :
              Goto(s, [do |-> "storeGroups", name |-> n, then |-> "return",
                       list |-> [l EXCEPT !.shared = SubSeq(@, 1, k - 1)
                                                      \o SubSeq(@, k + 1, Len(@))]])
       ELSE UNCHANGED work
    /\ UNCHANGED <<lists, acls, opened, invites, locked, given>>

CloseGroup(s, n) ==
    /\ Calling(s) /\ opened[s][n] # None
    /\ Opens(s, n, None)
    /\ UNCHANGED <<lists, acls, listMap, invites, work, locked, given>>

\* GetPermission, and GetGroupMembers of an own group, load the list anew.
GetPermission(s, n) ==
    LET u == UserOf[s] IN
    /\ Calling(s)
    /\ checkIfPodPresent(lists[u], n)
    /\ loadPermissions(s, OwnerOf(u, lists[u], n), n)
    /\ UNCHANGED <<lists, acls, opened, invites, work, locked, given>>

-----------------------------------------------------------------------------
\* AddMember (of an own group), UpdatePermission and, with NoPermission,
\* RemoveMember, up to the change of the cached list. Without a cached list the
\* assignment to a nil map panics and the mutex stays locked; a deletion from one
\* does not, and the next store begins a new list.
Change(s, n, m, p, adds) ==
    /\ Calling(s) /\ m # UserOf[s] /\ s \notin locked
    /\ adds => p \in Granted
    /\ (Careful /\ p = NoPermission) => listMap[s][n] # None
    /\ \E l \in ListGroup(UserOf[s]) :
          IF adds \/ Careful THEN n \in l.own ELSE checkIfPodPresent(l, n)
    /\ IF listMap[s][n] = None /\ p \in Granted
       THEN locked' = locked \cup {s} /\ UNCHANGED <<work, listMap>>
       ELSE /\ Goto(s, [do |-> "aclChange", name |-> n, member |-> m, perm |-> p, adds |-> adds])
            /\ IF listMap[s][n] = None THEN UNCHANGED listMap
               ELSE Cache(s, n, [listMap[s][n] EXCEPT ![m] = p])
            /\ UNCHANGED locked
    /\ UNCHANGED <<lists, acls, opened, invites, given>>

\* storePermissions; AddMember then hands out the invitation.
aclChange(s) ==
    LET u == UserOf[s]
        n == work[s].name
    IN
    /\ Does(s, "aclChange") /\ s \notin locked
    /\ acls' = [acls EXCEPT ![u][n] = ToStore(s, n)]
    /\ Cache(s, n, ToStore(s, n))
    /\ Grants(u, n, work[s].member, work[s].perm)
    /\ invites' = IF work[s].adds THEN invites \cup {[owner |-> u, name |-> n]} ELSE invites
    /\ Returns(s)
    /\ UNCHANGED <<lists, opened, locked>>

\* AcceptGroupInvite looks the permission up with the owner in the invitation,
\* and does not look whether the group is in the list.
AcceptGroupInvite(s, i) ==
    LET u == UserOf[s] IN
    /\ Calling(s) /\ i \in invites /\ i.owner # u
    /\ loadPermissions(s, i.owner, i.name)
    /\ \E l \in ListGroup(u) :
          IF acls[i.owner][i.name][u] \in Granted
          THEN /\ Len(l.shared) < MaxShared
               /\ Goto(s, [do |-> "storeGroups", name |-> i.name, then |-> "return",
                           list |-> [l EXCEPT !.shared = Append(@, i)]])
          ELSE UNCHANGED work
    /\ UNCHANGED <<lists, acls, opened, invites, locked, given>>

\* What a call that did not end may have changed or not.
Interrupted(s) ==
    LET u == UserOf[s] IN
    IF Does(s, "aclChange")
    THEN Grants(u, work[s].name, work[s].member, Unsure)
    ELSE IF work[s].do \in {"aclRemoveGroup", "aclCreateGroup"}
    THEN given' = [given EXCEPT ![u][work[s].name] = [m \in Users |-> Unsure]]
    ELSE UNCHANGED given

\* A store fails: the call returns the error, and the cached list keeps the change.
Fails(s) ==
    /\ MayFail /\ s \notin locked
    /\ work[s].do \in {"storeGroups", "aclCreateGroup", "aclRemoveGroup", "aclChange"}
    /\ CASE Does(s, "storeGroups")    -> UNCHANGED listMap
         [] Does(s, "aclRemoveGroup") -> Cache(s, work[s].name, OnlyOwner(UserOf[s]))
         [] OTHER                     -> Cache(s, work[s].name, ToStore(s, work[s].name))
    /\ Interrupted(s)
    /\ Returns(s)
    /\ UNCHANGED <<lists, acls, opened, invites, locked>>

\* The user logs out, or the process ends, and logs in again: a new ACL and Group.
LogsInAgain(s) ==
    /\ Calling(s) \/ MayFail
    /\ listMap' = [listMap EXCEPT ![s] = Fresh]
    /\ opened' = [opened EXCEPT ![s] = Fresh]
    /\ locked' = locked \ {s}
    /\ Interrupted(s)
    /\ Returns(s)
    /\ UNCHANGED <<lists, acls, invites>>

Next ==
    \E s \in Sessions :
       \/ \E n \in Names :
             \/ CreateGroup(s, n) \/ RemoveGroup(s, n) \/ RemoveSharedGroup(s, n)
             \/ OpenOwnGroup(s, n) \/ OpenSharedGroup(s, n) \/ OpenDenied(s, n)
             \/ CloseGroup(s, n) \/ GetPermission(s, n)
             \/ \E m \in Users, p \in Asked, adds \in BOOLEAN :
                   Change(s, n, m, p, adds)
       \/ \E i \in invites : AcceptGroupInvite(s, i)
       \/ aclRemoveGroup(s) \/ StoreGroups(s) \/ aclCreateGroup(s) \/ aclChange(s)
       \/ Hangs(s) \/ Fails(s) \/ LogsInAgain(s)

Spec == Init /\ [][Next]_vars

-----------------------------------------------------------------------------
\* The permissions stored for a group are the ones its owner's calls gave
\* (UpdatePermission, RemoveMember): none is lost or comes back, through
\* failures, logging in again and groups removed and made again, and none is
\* there before its call is acknowledged.
PermissionsAsGiven ==
    \A u \in Users : \A n \in lists[u].own :
        acls[u][n] # None =>
            \A m \in Users : given[u][n][m] # Unsure => acls[u][n][m] = given[u][n][m]

\* A user whose permission was taken away cannot open the group any more, nor with
\* more rights than the owner last gave (ErrPermissionDenied in OpenGroup).
OpensStep ==
    \A s \in Sessions, n \in Names :
        LET info == opened'[s][n] IN
        (info # None /\ info # opened[s][n] /\ info.owner # UserOf[s])
          => given[info.owner][n][UserOf[s]] \in {info.perm, Unsure}

OpensAsGiven == [][OpensStep]_vars
=============================================================================
