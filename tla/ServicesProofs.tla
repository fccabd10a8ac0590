--------------------------- MODULE ServicesProofs ---------------------------
(***************************************************************************)
(* What Services promises holds for any users, sessions, groups, tables,   *)
(* accounts, documents and directories.  A behaviour is one of one part,   *)
(* so each part has an invariant of its own.  GroupsInv, ActsInv and       *)
(* AccountsInv say for every user what is stored, and for every session    *)
(* what it has cached and what the rest of its call will store.  DocsInv   *)
(* says which references the indexes of a database have, and FindInv what  *)
(* they have while no call has stopped half-way.  ListInv says how the     *)
(* tasks of a listing, its WaitGroup and its entries go together.          *)
(*                                                                         *)
(* Groups and tables are proved for users with one session each: the cache *)
(* of a session, or the list a call has read, is not refreshed when        *)
(* another session of the user stores.                                     *)
(***************************************************************************)
EXTENDS Services, FiniteSetTheorems, WellFoundedInduction, TLAPS, FunctionTheorems

-----------------------------------------------------------------------------
\* Groups

Perms == [Users -> 0..2]

\* The names a user with a session gives to groups.
OwnNames(u) == {n \in GroupNames : \E s \in Sessions : UserOf[s] = u /\ n \in GroupsOf[u]}

Invites == {i \in [owner: Users, name: GroupNames] : i.name \in OwnNames(i.owner)}

ListOf(u) == [own: SUBSET OwnNames(u), shared: Seq({i \in Invites : i.owner # u})]

GroupCall(u) ==
         [do: {"idle", "hung"}]
    \cup [do: {"storeGroups"}, list: ListOf(u), name: GroupNames, then: {"return"}]
    \cup [do: {"storeGroups"}, list: ListOf(u), name: OwnNames(u), then: {"aclCreateGroup"}]
    \cup [do: {"aclCreateGroup"}, name: OwnNames(u)]
    \cup [do: {"aclRemoveGroup"}, list: ListOf(u), name: OwnNames(u)]
    \cup [do: {"aclChange"}, name: OwnNames(u), member: Users, perm: 0..2, adds: BOOLEAN]

\* Permissions that say what the owner's acknowledged calls said.
Agrees(perms, calls) == \A m \in Users : calls[m] # groups!Unsure => perms[m] = calls[m]

UserFits(u) ==
    /\ lists[u] \in ListOf(u)
    /\ acls[u] \in [GroupNames -> Perms \cup {None}]
    /\ given[u] \in [GroupNames -> [Users -> 0..3]]
    /\ \A n \in OwnNames(u) : acls[u][n] # None => Agrees(acls[u][n], given[u][n])

\* The call changes a member of the group.
Changes(w, n) == w.do = "aclChange" /\ w.name = n

\* The group is not in the list, will not be, or is about to be made.
Unmade(w, l, n) ==
    \/ n \notin l.own
    \/ w.do = "storeGroups" /\ n \notin w.list.own
    \/ w.do = "storeGroups" /\ w.then = "aclCreateGroup" /\ w.name = n
    \/ w.do = "aclRemoveGroup" /\ n \notin w.list.own /\ n # w.name
    \/ w.do = "aclCreateGroup" /\ w.name = n

\* What the cache may have of a group of the session's user.
CacheFits(s, n) ==
    LET w == work[s]  cache == listMap[s][n]  calls == given[UserOf[s]][n] IN
    /\ cache # None =>
          Agrees(cache, IF Changes(w, n) THEN [calls EXCEPT ![w.member] = w.perm] ELSE calls)
    /\ Unmade(w, lists[UserOf[s]], n) => cache \in {None, groups!OnlyOwner(UserOf[s])}
    /\ Changes(w, n) => cache # None

SessionFits(s) ==
    /\ work[s] \in GroupCall(UserOf[s])
    /\ listMap[s] \in [GroupNames -> Perms \cup {None}]
    /\ DOMAIN opened[s] = GroupNames
    /\ work[s].do = "aclChange" => s \notin locked
    /\ \A n \in OwnNames(UserOf[s]) : CacheFits(s, n)

GroupsInv ==
    /\ DOMAIN lists = Users /\ DOMAIN acls = Users /\ DOMAIN given = Users
    /\ DOMAIN listMap = Sessions /\ DOMAIN opened = Sessions /\ DOMAIN work = Sessions
    /\ invites \subseteq Invites
    /\ \A u \in Users : UserFits(u)
    /\ \A s \in Sessions : SessionFits(s)

\* A user has one session.
OneSessionEach == \A s, t \in Sessions : UserOf[s] = UserOf[t] => s = t

\* And no two users give a group one name.
GroupsApart ==
    /\ OneSessionEach
    /\ \A s, t \in Sessions : s # t => GroupsOf[UserOf[s]] \cap GroupsOf[UserOf[t]] = {}

\* g is f, but perhaps for x.
Alters(f, g, x) == DOMAIN g = DOMAIN f /\ \A y \in DOMAIN f : y # x => g[y] = f[y]

-----------------------------------------------------------------------------
\* Of numbers there is a least one.
LEMMA LeastNumber ==
    ASSUME NEW S, S \subseteq Nat, S # {}
    PROVE  \E k \in S : \A j \in S : k <= j
<1>1. IsWellFoundedOn(OpToRel(<, Nat), Nat)
  BY NatLessThanWellFounded
<1>2. PICK k \in S : \A j \in S : <<j, k>> \notin OpToRel(<, Nat)
  BY <1>1, WFMin
<1>3. \A j \in S : ~(j < k)
  BY <1>2 DEF OpToRel
<1> QED
  BY <1>3

\* The group a user means by a name, if it is a shared one, belongs to somebody else.
LEMMA SharedGroupsOwner ==
    ASSUME NEW u \in Users, NEW l \in ListOf(u), NEW n \in GroupNames,
           n \in groups!SharedNames(l), n \notin l.own
    PROVE  /\ groups!OwnerOf(u, l, n) \in Users \ {u}
           /\ n \in OwnNames(groups!OwnerOf(u, l, n))
<1> DEFINE copies == groups!Copies(l, n)
<1>1. l.shared \in Seq({i \in Invites : i.owner # u})
  BY DEF ListOf
<1>2. copies \subseteq Nat /\ copies # {}
  BY <1>1 DEF groups!Copies, groups!SharedNames
<1>3. PICK k \in copies : \A j \in copies : k <= j
  <2> HIDE DEF copies
  <2> QED
    BY <1>2, LeastNumber
<1> DEFINE first == CHOOSE i \in copies : \A j \in copies : i <= j
<1>4. first \in copies
  BY <1>3
<1>5. groups!OwnerOf(u, l, n) = l.shared[first].owner
  BY DEF groups!OwnerOf
<1>6. l.shared[first].name = n /\ first \in DOMAIN l.shared
  BY <1>4 DEF groups!Copies
<1>7. l.shared[first] \in {i \in Invites : i.owner # u}
  <2> HIDE DEF first
  <2> QED
    BY <1>1, <1>6
<1> QED
  BY <1>5, <1>6, <1>7 DEF Invites

\* The owners of two groups of one name are one.
LEMMA NamesApart ==
    ASSUME GroupsApart, NEW u, NEW v, u # v, NEW n, n \in OwnNames(u)
    PROVE  n \notin OwnNames(v)
  BY DEF GroupsApart, OneSessionEach, OwnNames

\* A list without its k-th element.
LEMMA WithoutOne ==
    ASSUME NEW S, NEW q \in Seq(S), NEW k \in DOMAIN q
    PROVE  SubSeq(q, 1, k - 1) \o SubSeq(q, k + 1, Len(q)) \in Seq(S)
<1>1. k \in 1..Len(q)
  OBVIOUS
<1>2. SubSeq(q, 1, k - 1) \in Seq(S)
  BY <1>1
<1>3. SubSeq(q, k + 1, Len(q)) \in Seq(S)
  BY <1>1
<1> QED
  BY <1>2, <1>3

-----------------------------------------------------------------------------
\* A step of a session that leaves the other sessions, and what other users have, alone.
Alone(s) ==
    /\ Alters(lists, lists', UserOf[s]) /\ Alters(acls, acls', UserOf[s])
    /\ Alters(given, given', UserOf[s])
    /\ Alters(work, work', s) /\ Alters(listMap, listMap', s) /\ Alters(opened, opened', s)
    /\ \A t \in Sessions : t # s => (t \in locked' <=> t \in locked)

LEMMA StepAloneKeepsInv ==
    ASSUME ServicesAssumption, GroupsApart, GroupsInv, NEW s \in Sessions, Alone(s),
           UserFits(UserOf[s])', SessionFits(s)', invites' \subseteq Invites
    PROVE  GroupsInv'
<1>1. \A u \in Users : UserFits(u)'
  <2> SUFFICES ASSUME NEW u \in Users, u # UserOf[s]
               PROVE  UserFits(u)'
    OBVIOUS
  <2>1. lists'[u] = lists[u] /\ acls'[u] = acls[u] /\ given'[u] = given[u] /\ UserFits(u)
    BY DEF GroupsInv, Alone, Alters
  <2> QED
    BY <2>1 DEF UserFits
<1>2. \A t \in Sessions : SessionFits(t)'
  <2> SUFFICES ASSUME NEW t \in Sessions, t # s
               PROVE  SessionFits(t)'
    OBVIOUS
  <2>1. UserOf[t] # UserOf[s] /\ UserOf[t] \in Users
    BY ServicesAssumption DEF GroupsApart, OneSessionEach, ServicesAssumption
  <2>2. lists'[UserOf[t]] = lists[UserOf[t]] /\ given'[UserOf[t]] = given[UserOf[t]]
    BY <2>1 DEF GroupsInv, Alone, Alters
  <2>3. work'[t] = work[t] /\ listMap'[t] = listMap[t] /\ opened'[t] = opened[t]
        /\ (t \in locked' <=> t \in locked) /\ SessionFits(t)
    BY DEF GroupsInv, Alone, Alters
  <2> QED
    BY <2>2, <2>3 DEF SessionFits, CacheFits
<1> QED
  BY <1>1, <1>2 DEF GroupsInv, Alone, Alters

\* What the invariant says of a session and its user.
LEMMA SessionFacts ==
    ASSUME ServicesAssumption, GroupsInv, NEW s \in Sessions
    PROVE  /\ UserOf[s] \in Users /\ UserFits(UserOf[s]) /\ SessionFits(s)
           /\ DOMAIN lists = Users /\ DOMAIN acls = Users /\ DOMAIN given = Users
           /\ DOMAIN listMap = Sessions /\ DOMAIN opened = Sessions /\ DOMAIN work = Sessions
  BY ServicesAssumption DEF ServicesAssumption, GroupsInv

\* A call that changes nothing yet but what the session has loaded and opened.
LEMMA CallGoesOn ==
    ASSUME ServicesAssumption, GroupsApart, GroupsInv, NEW s \in Sessions,
           NEW w \in GroupCall(UserOf[s]),
           w.do \in {"idle", "hung", "storeGroups", "aclRemoveGroup"},
           groups!Calling(s) \/ s \in locked \/ work[s].do = "storeGroups",
           \A n \in OwnNames(UserOf[s]) : Unmade(w, lists[UserOf[s]], n) =>
                  listMap[s][n] \in {None, groups!OnlyOwner(UserOf[s])},
           work'[s] = w, Alters(work, work', s), UNCHANGED <<lists, acls, given, locked, invites>>,
           Alters(opened, opened', s), DOMAIN opened'[s] = GroupNames,
           \/ UNCHANGED listMap
           \/ \E v \in Users, n \in GroupNames :
                 /\ groups!loadPermissions(s, v, n) /\ n \in OwnNames(v)
                 /\ v = UserOf[s] => w.do = "idle" /\ n \in lists[v].own
    PROVE  GroupsInv'
<1> DEFINE u == UserOf[s]
<1>1. /\ u \in Users /\ UserFits(u) /\ SessionFits(s)
      /\ DOMAIN listMap = Sessions
  BY SessionFacts
<1>2. work[s].do # "aclChange"
  BY <1>1 DEF SessionFits, groups!Calling, groups!Idle
<1>3. Alters(listMap, listMap', s) /\ listMap'[s] \in [GroupNames -> Perms \cup {None}]
  <2>1. CASE UNCHANGED listMap
    BY <1>1, <2>1 DEF Alters, SessionFits
  <2>2. ASSUME NEW v \in Users, NEW n \in GroupNames, groups!loadPermissions(s, v, n)
        PROVE  Alters(listMap, listMap', s) /\ listMap'[s] \in [GroupNames -> Perms \cup {None}]
    <3>1. listMap' = [listMap EXCEPT ![s][n] = acls[v][n]]
      BY <2>2 DEF groups!loadPermissions, groups!Cache
    <3>2. acls[v][n] \in Perms \cup {None}
      BY DEF GroupsInv, UserFits
    <3> QED
      BY <1>1, <3>1, <3>2 DEF Alters, SessionFits
  <2> QED
    BY <2>1, <2>2
<1>4. \A n \in OwnNames(u) : CacheFits(s, n)'
  <2> SUFFICES ASSUME NEW n \in OwnNames(u)
               PROVE  CacheFits(s, n)'
    OBVIOUS
  <2>1. n \in GroupNames
    BY DEF OwnNames
  <2>2. CASE listMap'[s][n] = listMap[s][n]
    BY <1>1, <1>2, <2>2 DEF CacheFits, SessionFits, Changes
  <2>3. CASE listMap'[s][n] # listMap[s][n]
    <3>1. PICK v \in Users, m \in GroupNames :
             /\ groups!loadPermissions(s, v, m) /\ m \in OwnNames(v)
             /\ v = UserOf[s] => w.do = "idle" /\ m \in lists[v].own
      BY <2>3
    <3>2. listMap' = [listMap EXCEPT ![s][m] = acls[v][m]]
      BY <3>1 DEF groups!loadPermissions, groups!Cache
    <3>3. m = n /\ listMap'[s][n] = acls[v][n]
      BY <1>1, <2>1, <2>3, <3>2 DEF SessionFits
    <3>4. v = u
      BY <3>1, <3>3, NamesApart
    <3>5. listMap'[s][n] # None => Agrees(listMap'[s][n], given[u][n])
      BY <1>1, <3>3, <3>4 DEF UserFits
    <3>6. ~Unmade(w, lists[u], n) /\ ~Changes(w, n)
      BY <3>1, <3>3, <3>4 DEF Unmade, Changes
    <3> QED
      BY <3>5, <3>6 DEF CacheFits, Agrees
  <2> QED
    BY <2>2, <2>3
<1>5. SessionFits(s)'
  BY <1>3, <1>4 DEF SessionFits
<1>6. UserFits(u)'
  BY <1>1 DEF UserFits
<1>7. Alone(s)
  BY <1>3 DEF Alone, Alters
<1> QED
  BY <1>5, <1>6, <1>7, StepAloneKeepsInv DEF GroupsInv

-----------------------------------------------------------------------------
\* What a group call reads from the list of groups, if it can be read.
LEMMA IdleFits ==
    ASSUME ServicesAssumption, GroupsInv, NEW s \in Sessions, groups!Calling(s)
    PROVE  \A n \in OwnNames(UserOf[s]) : n \notin lists[UserOf[s]].own =>
                  listMap[s][n] \in {None, groups!OnlyOwner(UserOf[s])}
  BY SessionFacts DEF SessionFits, CacheFits, Unmade

\* A list without one of the shared groups.
LEMMA SharedWithoutOne ==
    ASSUME NEW u, NEW l \in ListOf(u), NEW k \in DOMAIN l.shared
    PROVE  /\ [l EXCEPT !.shared = SubSeq(@, 1, k - 1) \o SubSeq(@, k + 1, Len(@))] \in ListOf(u)
           /\ [l EXCEPT !.shared = SubSeq(@, 1, k - 1) \o SubSeq(@, k + 1, Len(@))].own = l.own
<1> DEFINE rest == SubSeq(l.shared, 1, k - 1) \o SubSeq(l.shared, k + 1, Len(l.shared))
<1>1. rest \in Seq({i \in Invites : i.owner # u})
  BY WithoutOne DEF ListOf
<1>2. \A q : [l EXCEPT !.shared = q] = [own |-> l.own, shared |-> q]
  BY DEF ListOf
<1>3. [l EXCEPT !.shared = rest] \in ListOf(u) /\ [l EXCEPT !.shared = rest].own = l.own
  <2> HIDE DEF rest
  <2> QED
    BY <1>1, <1>2 DEF ListOf
<1> QED
  BY <1>3

LEMMA CreateGroupKeepsInv ==
    ASSUME ServicesAssumption, GroupsApart, ~MayMissList, GroupsInv,
           NEW s \in Sessions, NEW n \in GroupNames, groups!CreateGroup(s, n)
    PROVE  GroupsInv'
<1> DEFINE u == UserOf[s]
           l == lists[u]
           w == [do |-> "storeGroups", list |-> [l EXCEPT !.own = @ \cup {n}],
                 name |-> n, then |-> "aclCreateGroup"]
<1>1. UserFits(u) /\ SessionFits(s) /\ DOMAIN work = Sessions /\ DOMAIN opened = Sessions
  BY SessionFacts
<1>2. n \in OwnNames(u)
  BY DEF groups!CreateGroup, OwnNames
<1>3. n \notin l.own /\ work' = [work EXCEPT ![s] = w]
  BY DEF groups!CreateGroup, groups!ListGroup, groups!checkIfPodPresent, groups!Goto
<1>4. w.list \in ListOf(u) /\ w.list.own = l.own \cup {n}
  BY <1>1, <1>2 DEF UserFits, ListOf
<1>5. w \in GroupCall(u)
  BY <1>2, <1>4 DEF GroupCall
<1>6. \A m \in OwnNames(u) : Unmade(w, l, m) => listMap[s][m] \in {None, groups!OnlyOwner(u)}
  <2>1. \A m : Unmade(w, l, m) => m \notin l.own
    BY <1>3, <1>4 DEF Unmade
  <2> QED
    BY <2>1, IdleFits DEF groups!CreateGroup
<1>7. work'[s] = w /\ Alters(work, work', s)
  BY <1>1, <1>3 DEF Alters
<1>8. UNCHANGED <<lists, acls, listMap, opened, invites, locked, given>> /\ groups!Calling(s)
  BY DEF groups!CreateGroup
<1>9. DOMAIN opened'[s] = GroupNames /\ Alters(opened, opened', s)
  BY <1>1, <1>8 DEF SessionFits, Alters
<1>10. w.do = "storeGroups"
  OBVIOUS
<1> QED
  <2> HIDE DEF w
  <2> QED
    BY <1>5, <1>6, <1>7, <1>8, <1>9, <1>10, CallGoesOn

LEMMA RemoveGroupKeepsInv ==
    ASSUME ServicesAssumption, GroupsApart, ~MayMissList, GroupsInv,
           NEW s \in Sessions, NEW n \in GroupNames, groups!RemoveGroup(s, n)
    PROVE  GroupsInv'
<1> DEFINE u == UserOf[s]
           l == lists[u]
           w == [do |-> "aclRemoveGroup", list |-> [l EXCEPT !.own = @ \ {n}], name |-> n]
<1>1. UserFits(u) /\ SessionFits(s) /\ DOMAIN work = Sessions /\ DOMAIN opened = Sessions
  BY SessionFacts
<1>2. n \in l.own /\ work' = [work EXCEPT ![s] = w]
  BY DEF groups!RemoveGroup, groups!ListGroup, groups!Goto
<1>3. n \in OwnNames(u)
  BY <1>1, <1>2 DEF UserFits, ListOf
<1>4. w.list \in ListOf(u) /\ w.list.own = l.own \ {n}
  BY <1>1 DEF UserFits, ListOf
<1>5. w \in GroupCall(u)
  BY <1>3, <1>4 DEF GroupCall
<1>6. \A m \in OwnNames(u) : Unmade(w, l, m) => listMap[s][m] \in {None, groups!OnlyOwner(u)}
  <2>1. \A m : Unmade(w, l, m) => m \notin l.own
    BY <1>4 DEF Unmade
  <2> QED
    BY <2>1, IdleFits DEF groups!RemoveGroup
<1>7. work'[s] = w /\ Alters(work, work', s)
  BY <1>1, <1>2 DEF Alters
<1>8. UNCHANGED <<lists, acls, listMap, invites, locked, given>> /\ groups!Calling(s)
  BY DEF groups!RemoveGroup
<1>9. DOMAIN opened'[s] = GroupNames /\ Alters(opened, opened', s)
  <2>1. PICK info : opened' = [opened EXCEPT ![s][n] = info]
    BY DEF groups!RemoveGroup, groups!Opens
  <2> QED
    BY <1>1, <2>1 DEF SessionFits, Alters
<1>10. w.do = "aclRemoveGroup"
  OBVIOUS
<1> QED
  <2> HIDE DEF w
  <2> QED
    BY <1>5, <1>6, <1>7, <1>8, <1>9, <1>10, CallGoesOn

\* A call that only takes a shared group out of the list.
LEMMA LeavingKeepsInv ==
    ASSUME ServicesAssumption, GroupsApart, GroupsInv,
           NEW s \in Sessions, NEW n \in GroupNames, NEW l \in ListOf(UserOf[s]),
           groups!Calling(s), l.own = lists[UserOf[s]].own,
           groups!Goto(s, [do |-> "storeGroups", name |-> n, then |-> "return", list |-> l]),
           UNCHANGED <<lists, acls, given, locked, invites>>,
           Alters(opened, opened', s), DOMAIN opened'[s] = GroupNames,
           \/ UNCHANGED listMap
           \/ \E v \in Users \ {UserOf[s]}, m \in GroupNames :
                 groups!loadPermissions(s, v, m) /\ m \in OwnNames(v)
    PROVE  GroupsInv'
<1> DEFINE u == UserOf[s]
           w == [do |-> "storeGroups", name |-> n, then |-> "return", list |-> l]
<1>1. DOMAIN work = Sessions
  BY SessionFacts
<1>2. w \in GroupCall(u)
  BY DEF GroupCall
<1>3. \A m \in OwnNames(u) : Unmade(w, lists[u], m) => listMap[s][m] \in {None, groups!OnlyOwner(u)}
  <2>1. \A m : Unmade(w, lists[u], m) => m \notin lists[u].own
    BY DEF Unmade
  <2> QED
    BY <2>1, IdleFits
<1>4. work'[s] = w /\ Alters(work, work', s)
  BY <1>1 DEF Alters, groups!Goto
<1>5. w.do = "storeGroups"
  OBVIOUS
<1> QED
  <2> HIDE DEF w
  <2> QED
    BY <1>2, <1>3, <1>4, <1>5, CallGoesOn

LEMMA RemoveSharedGroupKeepsInv ==
    ASSUME ServicesAssumption, GroupsApart, ~MayMissList, GroupsInv,
           NEW s \in Sessions, NEW n \in GroupNames, groups!RemoveSharedGroup(s, n)
    PROVE  GroupsInv'
<1> DEFINE u == UserOf[s]
           l == lists[u]
           rest(k) == [l EXCEPT !.shared = SubSeq(@, 1, k - 1) \o SubSeq(@, k + 1, Len(@))]
<1>1. UserFits(u) /\ SessionFits(s) /\ DOMAIN opened = Sessions
  BY SessionFacts
<1>2. PICK k \in groups!Copies(l, n) :
         groups!Goto(s, [do |-> "storeGroups", name |-> n, then |-> "return", list |-> rest(k)])
  BY DEF groups!RemoveSharedGroup, groups!ListGroup
<1>3. rest(k) \in ListOf(u) /\ rest(k).own = l.own
  BY <1>1, SharedWithoutOne DEF UserFits, groups!Copies
<1>4. Alters(opened, opened', s) /\ DOMAIN opened'[s] = GroupNames
  BY <1>1 DEF groups!RemoveSharedGroup, groups!Opens, Alters, SessionFits
<1>5. groups!Calling(s) /\ UNCHANGED <<lists, acls, listMap, invites, locked, given>>
  BY DEF groups!RemoveSharedGroup
<1> QED
  <2> HIDE DEF rest
  <2> QED
    BY <1>2, <1>3, <1>4, <1>5, LeavingKeepsInv

\* A call that ends at once, having opened, closed or loaded something.
LEMMA CallEnds ==
    ASSUME ServicesAssumption, GroupsApart, GroupsInv, NEW s \in Sessions,
           groups!Calling(s), UNCHANGED <<lists, acls, given, locked, invites, work>>,
           Alters(opened, opened', s), DOMAIN opened'[s] = GroupNames,
           \/ UNCHANGED listMap
           \/ \E v \in Users, n \in GroupNames :
                 /\ groups!loadPermissions(s, v, n) /\ n \in OwnNames(v)
                 /\ v = UserOf[s] => n \in lists[v].own
    PROVE  GroupsInv'
<1> DEFINE u == UserOf[s]
           w == work[s]
<1>1. w = groups!Idle /\ work'[s] = w /\ Alters(work, work', s)
  BY DEF groups!Calling, Alters
<1>2. w \in GroupCall(u) /\ w.do = "idle"
  BY <1>1 DEF groups!Idle, GroupCall
<1>3. \A n \in OwnNames(u) : Unmade(w, lists[u], n) => listMap[s][n] \in {None, groups!OnlyOwner(u)}
  BY SessionFacts DEF SessionFits, CacheFits
<1> QED
  <2> HIDE DEF w
  <2> QED
    BY <1>1, <1>2, <1>3, CallGoesOn

LEMMA OpenOwnGroupKeepsInv ==
    ASSUME ServicesAssumption, GroupsApart, GroupsInv, NEW s \in Sessions,
           NEW n \in GroupNames, groups!OpenOwnGroup(s, n) \/ groups!CloseGroup(s, n)
    PROVE  GroupsInv'
<1>1. SessionFits(s) /\ DOMAIN opened = Sessions
  BY SessionFacts
<1>2. groups!Calling(s) /\ UNCHANGED <<lists, acls, listMap, invites, work, locked, given>>
  BY DEF groups!OpenOwnGroup, groups!CloseGroup
<1>3. PICK info : opened' = [opened EXCEPT ![s][n] = info]
  BY DEF groups!OpenOwnGroup, groups!CloseGroup, groups!Opens
<1>4. Alters(opened, opened', s) /\ DOMAIN opened'[s] = GroupNames
  BY <1>1, <1>3 DEF Alters, SessionFits
<1> QED
  BY <1>2, <1>4, CallEnds

LEMMA OpenSharedGroupKeepsInv ==
    ASSUME ServicesAssumption, GroupsApart, GroupsInv, NEW s \in Sessions,
           NEW n \in GroupNames, groups!OpenSharedGroup(s, n)
    PROVE  GroupsInv'
<1> DEFINE u == UserOf[s]
           v == groups!OwnerOf(u, lists[u], n)
<1>1. u \in Users /\ UserFits(u) /\ SessionFits(s) /\ DOMAIN opened = Sessions
  BY SessionFacts
<1>2. v \in Users \ {u} /\ n \in OwnNames(v)
  BY <1>1, SharedGroupsOwner DEF groups!OpenSharedGroup, UserFits
<1>3. groups!loadPermissions(s, v, n)
  BY DEF groups!OpenSharedGroup
<1>4. PICK info : opened' = [opened EXCEPT ![s][n] = info]
  BY DEF groups!OpenSharedGroup, groups!Opens
<1>5. Alters(opened, opened', s) /\ DOMAIN opened'[s] = GroupNames
  BY <1>1, <1>4 DEF Alters, SessionFits
<1>6. groups!Calling(s) /\ UNCHANGED <<lists, acls, invites, work, locked, given>>
  BY DEF groups!OpenSharedGroup
<1> QED
  <2> HIDE DEF v
  <2> QED
    BY <1>2, <1>3, <1>5, <1>6, CallEnds

LEMMA OpenDeniedKeepsInv ==
    ASSUME ServicesAssumption, GroupsApart, GroupsInv, NEW s \in Sessions,
           NEW n \in GroupNames, groups!OpenDenied(s, n)
    PROVE  GroupsInv'
<1> DEFINE u == UserOf[s]
           l == lists[u]
           v == groups!OwnerOf(u, l, n)
           rest(k) == [l EXCEPT !.shared = SubSeq(@, 1, k - 1) \o SubSeq(@, k + 1, Len(@))]
<1>1. u \in Users /\ UserFits(u) /\ SessionFits(s) /\ DOMAIN opened = Sessions
  BY SessionFacts
<1>2. v \in Users \ {u} /\ n \in OwnNames(v)
  BY <1>1, SharedGroupsOwner DEF groups!OpenDenied, UserFits
<1>3. groups!Calling(s) /\ UNCHANGED <<lists, acls, opened, invites, locked, given>>
      /\ groups!loadPermissions(s, v, n)
  BY DEF groups!OpenDenied
<1>4. Alters(opened, opened', s) /\ DOMAIN opened'[s] = GroupNames
  BY <1>1, <1>3 DEF Alters, SessionFits
<1>5. CASE UNCHANGED work
  <2> HIDE DEF v
  <2> QED
    BY <1>2, <1>3, <1>4, <1>5, CallEnds
<1>6. CASE ~UNCHANGED work
  <2>1. PICK k \in groups!Copies(l, n) :
           groups!Goto(s, [do |-> "storeGroups", name |-> n, then |-> "return", list |-> rest(k)])
    BY <1>6 DEF groups!OpenDenied
  <2>2. rest(k) \in ListOf(u) /\ rest(k).own = l.own
    BY <1>1, SharedWithoutOne DEF UserFits, groups!Copies
  <2> HIDE DEF rest, v
  <2> QED
    BY <1>2, <1>3, <1>4, <2>1, <2>2, LeavingKeepsInv
<1> QED
  BY <1>5, <1>6

LEMMA GetPermissionKeepsInv ==
    ASSUME ServicesAssumption, GroupsApart, GroupsInv, NEW s \in Sessions,
           NEW n \in GroupNames, groups!GetPermission(s, n)
    PROVE  GroupsInv'
<1> DEFINE u == UserOf[s]
           v == groups!OwnerOf(u, lists[u], n)
<1>1. u \in Users /\ UserFits(u) /\ SessionFits(s) /\ DOMAIN opened = Sessions
  BY SessionFacts
<1>2. v \in Users /\ n \in OwnNames(v) /\ (v = u => n \in lists[v].own)
  <2>1. CASE n \in lists[u].own
    BY <1>1, <2>1 DEF groups!OwnerOf, UserFits, ListOf
  <2>2. CASE n \notin lists[u].own
    BY <1>1, <2>2, SharedGroupsOwner DEF groups!GetPermission, groups!checkIfPodPresent, UserFits
  <2> QED
    BY <2>1, <2>2
<1>3. groups!Calling(s) /\ UNCHANGED <<lists, acls, opened, invites, work, locked, given>>
      /\ groups!loadPermissions(s, v, n)
  BY DEF groups!GetPermission
<1>4. Alters(opened, opened', s) /\ DOMAIN opened'[s] = GroupNames
  BY <1>1, <1>3 DEF Alters, SessionFits
<1> QED
  <2> HIDE DEF v
  <2> QED
    BY <1>2, <1>3, <1>4, CallEnds

LEMMA AcceptGroupInviteKeepsInv ==
    ASSUME ServicesAssumption, GroupsApart, ~MayMissList, GroupsInv, NEW s \in Sessions,
           NEW i \in invites, groups!AcceptGroupInvite(s, i)
    PROVE  GroupsInv'
<1> DEFINE u == UserOf[s]
           l == lists[u]
           l2 == [l EXCEPT !.shared = Append(@, i)]
<1>1. u \in Users /\ UserFits(u) /\ SessionFits(s) /\ DOMAIN opened = Sessions
  BY SessionFacts
<1>2. i \in Invites /\ i.owner \in Users \ {u} /\ i.name \in OwnNames(i.owner)
      /\ i.name \in GroupNames
  BY DEF GroupsInv, groups!AcceptGroupInvite, Invites, OwnNames
<1>3. groups!Calling(s) /\ UNCHANGED <<lists, acls, opened, invites, locked, given>>
      /\ groups!loadPermissions(s, i.owner, i.name)
  BY DEF groups!AcceptGroupInvite
<1>4. Alters(opened, opened', s) /\ DOMAIN opened'[s] = GroupNames
  BY <1>1, <1>3 DEF Alters, SessionFits
<1>5. CASE UNCHANGED work
  BY <1>2, <1>3, <1>4, <1>5, CallEnds
<1>6. CASE ~UNCHANGED work
  <2>1. groups!Goto(s, [do |-> "storeGroups", name |-> i.name, then |-> "return", list |-> l2])
    BY <1>6 DEF groups!AcceptGroupInvite, groups!ListGroup
  <2>2. l2 \in ListOf(u) /\ l2.own = l.own
    <3>1. l.shared \in Seq({j \in Invites : j.owner # u})
      BY <1>1 DEF UserFits, ListOf
    <3>2. Append(l.shared, i) \in Seq({j \in Invites : j.owner # u})
      BY <1>2, <3>1
    <3> QED
      BY <1>1, <3>2 DEF UserFits, ListOf
  <2> HIDE DEF l2
  <2> QED
    BY <1>2, <1>3, <1>4, <2>1, <2>2, LeavingKeepsInv
<1> QED
  BY <1>5, <1>6

LEMMA HangsKeepsInv ==
    ASSUME ServicesAssumption, GroupsApart, GroupsInv, NEW s \in Sessions, groups!Hangs(s)
    PROVE  GroupsInv'
<1> DEFINE u == UserOf[s]
           w == [do |-> "hung"]
<1>1. UserFits(u) /\ SessionFits(s) /\ DOMAIN work = Sessions /\ DOMAIN opened = Sessions
  BY SessionFacts
<1>2. work'[s] = w /\ Alters(work, work', s) /\ s \in locked
      /\ UNCHANGED <<lists, acls, listMap, opened, invites, locked, given>>
  BY <1>1 DEF groups!Hangs, groups!Goto, Alters
<1>3. w \in GroupCall(u) /\ w.do = "hung"
  BY DEF GroupCall
<1>4. \A n \in OwnNames(u) : Unmade(w, lists[u], n) => listMap[s][n] \in {None, groups!OnlyOwner(u)}
  <2>1. \A n : Unmade(w, lists[u], n) => n \notin lists[u].own
    BY DEF Unmade
  <2>2. \A n : n \notin lists[u].own => Unmade(work[s], lists[u], n)
    BY DEF Unmade
  <2> QED
    BY <1>1, <2>1, <2>2 DEF SessionFits, CacheFits
<1>5. Alters(opened, opened', s) /\ DOMAIN opened'[s] = GroupNames
  BY <1>1, <1>2 DEF Alters, SessionFits
<1> QED
  <2> HIDE DEF w
  <2> QED
    BY <1>2, <1>3, <1>4, <1>5, CallGoesOn

-----------------------------------------------------------------------------
\* What the steps of a call store.
LEMMA OnlyOwnerIsPerms ==
    ASSUME NEW u \in Users
    PROVE  groups!OnlyOwner(u) \in Perms /\ groups!OnlyOwner(u) \in [Users -> 0..3]
           /\ [groups!Nobody EXCEPT ![u] = groups!Unsure] \in [Users -> 0..3]
           /\ Agrees(groups!OnlyOwner(u), groups!OnlyOwner(u))
           /\ Agrees(groups!OnlyOwner(u), [groups!Nobody EXCEPT ![u] = groups!Unsure])
           /\ \A perms : Agrees(perms, [m \in Users |-> groups!Unsure])
  BY DEF groups!OnlyOwner, groups!Nobody, groups!Unsure, groups!NoPermission,
         groups!PermissionWrite, Perms, Agrees

\* A step that stores or caches permissions of one group, after which the call makes
\* or changes no group.
LEMMA StepOnGroup ==
    ASSUME ServicesAssumption, GroupsApart, GroupsInv, NEW s \in Sessions,
           NEW n \in OwnNames(UserOf[s]), NEW w \in GroupCall(UserOf[s]),
           w.do \in {"idle", "storeGroups"},
           w.do = "storeGroups" => w.then = "return" /\
                \A m \in OwnNames(UserOf[s]) : (m # n /\ m \notin w.list.own) =>
                        Unmade(work[s], lists[UserOf[s]], m),
           work'[s] = w, Alters(work, work', s),
           work[s].do \in {"idle", "aclRemoveGroup", "aclCreateGroup"} \/ Changes(work[s], n),
           NEW calls \in [Users -> 0..3], given' = [given EXCEPT ![UserOf[s]][n] = calls],
           NEW stored \in Perms \cup {None},
           \/ acls' = [acls EXCEPT ![UserOf[s]][n] = stored]
           \/ UNCHANGED acls /\ stored = acls[UserOf[s]][n],
           NEW cached \in Perms \cup {None}, listMap' = [listMap EXCEPT ![s][n] = cached],
           stored # None => Agrees(stored, calls), cached # None => Agrees(cached, calls),
           cached \in {None, groups!OnlyOwner(UserOf[s])}
              \/ (n \in lists[UserOf[s]].own /\ w.do = "idle"),
           Alters(opened, opened', s), DOMAIN opened'[s] = GroupNames,
           invites' \subseteq Invites, UNCHANGED <<lists, locked>>
    PROVE  GroupsInv'
<1> DEFINE u == UserOf[s]
<1>1. /\ u \in Users /\ UserFits(u) /\ SessionFits(s)
      /\ DOMAIN acls = Users /\ DOMAIN given = Users /\ DOMAIN listMap = Sessions
  BY SessionFacts
<1>2. n \in GroupNames
  BY DEF OwnNames
<1>3. /\ Alters(acls, acls', u) /\ Alters(given, given', u) /\ Alters(listMap, listMap', s)
  BY <1>1 DEF Alters
<1>4. /\ acls'[u] \in [GroupNames -> Perms \cup {None}]
      /\ given'[u] \in [GroupNames -> [Users -> 0..3]]
      /\ listMap'[s] \in [GroupNames -> Perms \cup {None}]
  BY <1>1, <1>2 DEF UserFits, SessionFits
<1>5. \A m \in GroupNames : /\ acls'[u][m] = IF m = n THEN stored ELSE acls[u][m]
                            /\ given'[u][m] = IF m = n THEN calls ELSE given[u][m]
                            /\ listMap'[s][m] = IF m = n THEN cached ELSE listMap[s][m]
  BY <1>1, <1>2 DEF UserFits, SessionFits
<1>6. UserFits(u)'
  BY <1>1, <1>4, <1>5 DEF UserFits, OwnNames
<1>7. \A m \in OwnNames(u) : CacheFits(s, m)'
  <2> SUFFICES ASSUME NEW m \in OwnNames(u)
               PROVE  CacheFits(s, m)'
    OBVIOUS
  <2>1. m \in GroupNames /\ ~Changes(w, m)
    BY DEF OwnNames, Changes
  <2>2. CASE m = n
    <3>1. listMap'[s][m] # None => Agrees(listMap'[s][m], given'[u][m])
      BY <1>5, <2>1, <2>2
    <3>2. Unmade(w, lists[u], m) => listMap'[s][m] \in {None, groups!OnlyOwner(u)}
      BY <1>5, <2>1, <2>2 DEF Unmade
    <3> QED
      BY <2>1, <3>1, <3>2 DEF CacheFits, Agrees
  <2>3. CASE m # n
    <3>1. listMap'[s][m] = listMap[s][m] /\ given'[u][m] = given[u][m]
      BY <1>5, <2>1, <2>3
    <3>2. ~Changes(work[s], m) /\ CacheFits(s, m)
      BY <1>1, <2>3 DEF Changes, SessionFits
    <3>3. listMap'[s][m] # None => Agrees(listMap'[s][m], given'[u][m])
      BY <3>1, <3>2 DEF CacheFits
    <3>4. Unmade(w, lists[u], m) => Unmade(work[s], lists[u], m)
      BY <2>3 DEF Unmade
    <3> QED
      BY <2>1, <3>1, <3>2, <3>3, <3>4 DEF CacheFits, Agrees
  <2> QED
    BY <2>2, <2>3
<1>8. SessionFits(s)'
  BY <1>4, <1>7 DEF SessionFits
<1>9. Alone(s)
  BY <1>3 DEF Alone, Alters
<1> QED
  BY <1>6, <1>8, <1>9, StepAloneKeepsInv

\* What a session that is about to store a group's permissions has cached of it.
LEMMA ToStoreFits ==
    ASSUME ServicesAssumption, GroupsInv, NEW s \in Sessions, NEW n \in OwnNames(UserOf[s])
    PROVE  /\ groups!ToStore(s, n) \in Perms /\ groups!ToStore(s, n) # None
           /\ (work[s].do = "aclCreateGroup" /\ work[s].name = n) =>
                 groups!ToStore(s, n) = groups!OnlyOwner(UserOf[s])
           /\ Changes(work[s], n) =>
                 /\ groups!ToStore(s, n) = listMap[s][n]
                 /\ Agrees(listMap[s][n],
                           [given[UserOf[s]][n] EXCEPT ![work[s].member] = work[s].perm])
<1>1. /\ UserOf[s] \in Users /\ CacheFits(s, n) /\ n \in GroupNames
      /\ listMap[s][n] \in Perms \cup {None}
  BY SessionFacts DEF SessionFits, OwnNames
<1>2. None \notin Perms
  BY ServicesAssumption DEF ServicesAssumption, Perms
<1>3. groups!OnlyOwner(UserOf[s]) \in Perms
  BY <1>1, OnlyOwnerIsPerms
<1> QED
  BY <1>1, <1>2, <1>3 DEF groups!ToStore, CacheFits, Unmade

LEMMA aclRemoveGroupKeepsInv ==
    ASSUME ServicesAssumption, GroupsApart, GroupsInv, NEW s \in Sessions,
           groups!aclRemoveGroup(s)
    PROVE  GroupsInv'
<1> DEFINE u == UserOf[s]
           n == work[s].name
           w == [do |-> "storeGroups", list |-> work[s].list, name |-> n, then |-> "return"]
           calls == [groups!Nobody EXCEPT ![u] = groups!Unsure]
           perms == groups!OnlyOwner(u)
<1>1. /\ u \in Users /\ SessionFits(s) /\ work[s].do = "aclRemoveGroup"
      /\ DOMAIN work = Sessions /\ DOMAIN opened = Sessions
  BY SessionFacts DEF groups!aclRemoveGroup, groups!Does
<1>2. n \in OwnNames(u) /\ n \in GroupNames /\ work[s].list \in ListOf(u)
  BY <1>1 DEF SessionFits, GroupCall, OwnNames
<1>3. w \in GroupCall(u) /\ w.do = "storeGroups" /\ w.then = "return"
  BY <1>2 DEF GroupCall
<1>4. \A m \in OwnNames(u) : (m # n /\ m \notin w.list.own) => Unmade(work[s], lists[u], m)
  BY <1>1 DEF Unmade
<1>5. work'[s] = w /\ Alters(work, work', s)
  BY <1>1 DEF groups!aclRemoveGroup, groups!Goto, Alters
<1>6. given' = [given EXCEPT ![u][n] = calls] /\ acls' = [acls EXCEPT ![u][n] = perms]
      /\ listMap' = [listMap EXCEPT ![s][n] = perms] /\ UNCHANGED <<lists, invites, locked>>
  BY DEF groups!aclRemoveGroup, groups!Cache
<1>7. calls \in [Users -> 0..3] /\ perms \in Perms /\ Agrees(perms, calls)
      /\ perms \in {None, groups!OnlyOwner(u)}
  BY <1>1, OnlyOwnerIsPerms
<1>8. Alters(opened, opened', s) /\ DOMAIN opened'[s] = GroupNames
  BY <1>1 DEF groups!aclRemoveGroup, groups!Opens, Alters, SessionFits
<1> QED
  <2> HIDE DEF w, calls, perms, n
  <2>1. perms \in Perms \cup {None} /\ invites' \subseteq Invites
    BY <1>6, <1>7 DEF GroupsInv
  <2> QED
    BY <1>1, <1>2, <1>3, <1>4, <1>5, <1>6, <1>7, <1>8, <2>1, StepOnGroup

LEMMA aclCreateGroupKeepsInv ==
    ASSUME ServicesAssumption, GroupsApart, GroupsInv, NEW s \in Sessions,
           groups!aclCreateGroup(s)
    PROVE  GroupsInv'
<1> DEFINE u == UserOf[s]
           n == work[s].name
           perms == groups!OnlyOwner(u)
<1>1. /\ u \in Users /\ SessionFits(s) /\ work[s].do = "aclCreateGroup"
      /\ DOMAIN work = Sessions /\ DOMAIN opened = Sessions
  BY SessionFacts DEF groups!aclCreateGroup, groups!Does
<1>2. n \in OwnNames(u)
  BY <1>1 DEF SessionFits, GroupCall
<1>3. groups!ToStore(s, n) = perms
  BY <1>1, <1>2, ToStoreFits
<1>4. groups!Idle \in GroupCall(u) /\ groups!Idle.do = "idle"
  BY DEF GroupCall, groups!Idle
<1>5. work'[s] = groups!Idle /\ Alters(work, work', s)
  BY <1>1 DEF groups!aclCreateGroup, groups!Returns, groups!Goto, Alters
<1>6. given' = [given EXCEPT ![u][n] = perms] /\ acls' = [acls EXCEPT ![u][n] = perms]
      /\ listMap' = [listMap EXCEPT ![s][n] = perms] /\ UNCHANGED <<lists, invites, locked>>
  BY <1>3 DEF groups!aclCreateGroup, groups!Cache
<1>7. perms \in [Users -> 0..3] /\ perms \in Perms \cup {None} /\ Agrees(perms, perms)
      /\ perms \in {None, groups!OnlyOwner(u)}
  BY <1>1, OnlyOwnerIsPerms
<1>8. Alters(opened, opened', s) /\ DOMAIN opened'[s] = GroupNames
  BY <1>1 DEF groups!aclCreateGroup, groups!Opens, Alters, SessionFits
<1>9. invites' \subseteq Invites
  BY <1>6 DEF GroupsInv
<1> QED
  <2> HIDE DEF perms, n
  <2> QED
    BY <1>1, <1>2, <1>4, <1>5, <1>6, <1>7, <1>8, <1>9, StepOnGroup

LEMMA aclChangeKeepsInv ==
    ASSUME ServicesAssumption, GroupsApart, GroupsInv, NEW s \in Sessions,
           groups!aclChange(s)
    PROVE  GroupsInv'
<1> DEFINE u == UserOf[s]
           n == work[s].name
           perms == listMap[s][n]
           calls == [given[u][n] EXCEPT ![work[s].member] = work[s].perm]
<1>1. /\ u \in Users /\ UserFits(u) /\ SessionFits(s) /\ work[s].do = "aclChange"
      /\ DOMAIN work = Sessions /\ DOMAIN opened = Sessions /\ DOMAIN given = Users
  BY SessionFacts DEF groups!aclChange, groups!Does
<1>2. /\ n \in OwnNames(u) /\ n \in GroupNames /\ work[s].member \in Users
      /\ work[s].perm \in 0..2 /\ Changes(work[s], n)
  BY <1>1 DEF SessionFits, GroupCall, OwnNames, Changes
<1>3. groups!ToStore(s, n) = perms /\ perms \in Perms \cup {None} /\ Agrees(perms, calls)
  BY <1>2, ToStoreFits
<1>4. groups!Idle \in GroupCall(u) /\ groups!Idle.do = "idle"
  BY DEF GroupCall, groups!Idle
<1>5. work'[s] = groups!Idle /\ Alters(work, work', s)
  BY <1>1 DEF groups!aclChange, groups!Returns, groups!Goto, Alters
<1>6. /\ acls' = [acls EXCEPT ![u][n] = perms] /\ listMap' = [listMap EXCEPT ![s][n] = perms]
      /\ UNCHANGED <<lists, opened, locked>>
  BY <1>3 DEF groups!aclChange, groups!Cache
<1>7. given' = [given EXCEPT ![u][n] = calls] /\ calls \in [Users -> 0..3]
  BY <1>1, <1>2 DEF groups!aclChange, groups!Grants, UserFits
<1>8. Alters(opened, opened', s) /\ DOMAIN opened'[s] = GroupNames
  BY <1>1, <1>6 DEF Alters, SessionFits
<1>9. invites' \subseteq Invites
  BY <1>1, <1>2 DEF GroupsInv, groups!aclChange, Invites
<1>10. n \in lists[u].own \/ perms = groups!OnlyOwner(u)
  <2>1. CacheFits(s, n) /\ perms # None
    BY <1>1, <1>2 DEF SessionFits, CacheFits
  <2> QED
    BY <2>1 DEF CacheFits, Unmade
<1> QED
  <2> HIDE DEF perms, n, calls
  <2> QED
    BY <1>1, <1>2, <1>3, <1>4, <1>5, <1>6, <1>7, <1>8, <1>9, <1>10, StepOnGroup

\* StoreGroups: the list is now what the call said it would be.
LEMMA StoreGroupsKeepsInv ==
    ASSUME ServicesAssumption, GroupsApart, GroupsInv, NEW s \in Sessions,
           groups!StoreGroups(s)
    PROVE  GroupsInv'
<1> DEFINE u == UserOf[s]
           w == IF work[s].then = "return" THEN groups!Idle
                ELSE [do |-> work[s].then, name |-> work[s].name]
<1>1. /\ u \in Users /\ UserFits(u) /\ SessionFits(s) /\ work[s].do = "storeGroups"
      /\ DOMAIN work = Sessions /\ DOMAIN lists = Users
  BY SessionFacts DEF groups!StoreGroups, groups!Does
<1>2. lists' = [lists EXCEPT ![u] = work[s].list]
      /\ UNCHANGED <<acls, listMap, opened, invites, locked, given>>
  BY DEF groups!StoreGroups
<1>3. work' = [work EXCEPT ![s] = w]
  BY DEF groups!StoreGroups, groups!Returns, groups!Goto
<1>4. /\ work[s].list \in ListOf(u) /\ w \in GroupCall(u)
      /\ w.do = "idle" \/ (w.do = "aclCreateGroup" /\ work[s].then = "aclCreateGroup"
                           /\ w.name = work[s].name)
  BY <1>1 DEF SessionFits, GroupCall, groups!Idle
<1>5. lists'[u] = work[s].list /\ work'[s] = w
  BY <1>1, <1>2, <1>3
<1>6. UserFits(u)'
  BY <1>1, <1>2, <1>4, <1>5 DEF UserFits
<1>7. \A n \in OwnNames(u) : CacheFits(s, n)'
  <2> HIDE DEF w
  <2> SUFFICES ASSUME NEW n \in OwnNames(u)
               PROVE  CacheFits(s, n)'
    OBVIOUS
  <2>1. CacheFits(s, n) /\ ~Changes(work[s], n) /\ ~Changes(w, n)
    BY <1>1, <1>4 DEF SessionFits, Changes
  <2>2. Unmade(w, work[s].list, n) => Unmade(work[s], lists[u], n)
    BY <1>1, <1>4 DEF Unmade
  <2> QED
    BY <1>2, <1>5, <2>1, <2>2 DEF CacheFits
<1>8. SessionFits(s)'
  <2> HIDE DEF w
  <2> QED
    BY <1>1, <1>2, <1>4, <1>5, <1>7 DEF SessionFits
<1>9. Alone(s)
  BY <1>1, <1>2, <1>3 DEF Alone, Alters
<1> QED
  BY <1>2, <1>6, <1>8, <1>9, StepAloneKeepsInv DEF GroupsInv

LEMMA ChangeKeepsInv ==
    ASSUME ServicesAssumption, GroupsApart, ~MayMissList, Careful, GroupsInv, NEW s \in Sessions,
           NEW n \in GroupNames,
           \E m \in Users, p \in Asked, adds \in BOOLEAN : groups!Change(s, n, m, p, adds)
    PROVE  GroupsInv'
<1> PICK m \in Users, p \in Asked, adds \in BOOLEAN : groups!Change(s, n, m, p, adds)
  OBVIOUS
<1> DEFINE u == UserOf[s]
           w == [do |-> "aclChange", name |-> n, member |-> m, perm |-> p, adds |-> adds]
           perms == [listMap[s][n] EXCEPT ![m] = p]
<1>1. /\ u \in Users /\ UserFits(u) /\ SessionFits(s) /\ work[s] = groups!Idle
      /\ DOMAIN work = Sessions /\ DOMAIN listMap = Sessions
  BY SessionFacts DEF groups!Change, groups!Calling
<1>2. p \in 0..2
  BY ServicesAssumption DEF ServicesAssumption
<1>3. n \in lists[u].own /\ n \in OwnNames(u) /\ UNCHANGED <<lists, acls, opened, invites, given>>
  BY <1>1 DEF groups!Change, groups!ListGroup, UserFits, ListOf
<1>4. UserFits(u)'
  BY <1>1, <1>3 DEF UserFits
<1>5. CASE listMap[s][n] = None /\ p \in groups!Granted
  <2>1. locked' = locked \cup {s} /\ UNCHANGED <<work, listMap>>
    BY <1>5 DEF groups!Change
  <2>2. SessionFits(s)'
    BY <1>1, <1>3, <2>1 DEF SessionFits, CacheFits, groups!Idle
  <2>3. Alone(s)
    BY <1>3, <2>1 DEF Alone, Alters
  <2> QED
    BY <1>3, <1>4, <2>2, <2>3, StepAloneKeepsInv DEF GroupsInv
<1>6. CASE ~(listMap[s][n] = None /\ p \in groups!Granted)
  <2>1. listMap[s][n] # None
    BY <1>2, <1>6 DEF groups!Change, groups!Granted, groups!NoPermission,
                      groups!PermissionRead, groups!PermissionWrite
  <2>2. work' = [work EXCEPT ![s] = w] /\ listMap' = [listMap EXCEPT ![s][n] = perms]
        /\ UNCHANGED locked /\ s \notin locked
    BY <1>6, <2>1 DEF groups!Change, groups!Goto, groups!Cache
  <2>3. listMap[s][n] \in Perms /\ perms \in Perms /\ None \notin Perms
    BY <1>1, <1>2, <2>1, ServicesAssumption DEF SessionFits, Perms, ServicesAssumption
  <2>4. w \in GroupCall(u)
    BY <1>2, <1>3 DEF GroupCall
  <2>5. work'[s] = w /\ listMap'[s] = [listMap[s] EXCEPT ![n] = perms]
        /\ Alters(work, work', s) /\ Alters(listMap, listMap', s)
    BY <1>1, <2>2 DEF Alters
  <2>6. listMap'[s] \in [GroupNames -> Perms \cup {None}]
        /\ \A k \in GroupNames : listMap'[s][k] = IF k = n THEN perms ELSE listMap[s][k]
    BY <1>1, <2>3, <2>5 DEF SessionFits
  <2>7. Agrees(listMap[s][n], given[u][n])
    BY <1>1, <1>3, <2>1 DEF SessionFits, CacheFits, Changes, groups!Idle
  <2>8. Agrees(perms, [given[u][n] EXCEPT ![m] = p])
    BY <1>1, <2>3, <2>7 DEF Agrees, Perms, UserFits
  <2>9. \A k \in OwnNames(u) : CacheFits(s, k)'
    <3> SUFFICES ASSUME NEW k \in OwnNames(u)
                 PROVE  CacheFits(s, k)'
      OBVIOUS
    <3>1. k \in GroupNames /\ CacheFits(s, k) /\ ~Changes(work[s], k)
          /\ (Unmade(w, lists[u], k) => k \notin lists[u].own)
      BY <1>1 DEF OwnNames, SessionFits, groups!Idle, Changes, Unmade
    <3>2. CASE k = n
      <4>1. Changes(w, k) /\ w.member = m /\ w.perm = p
        BY <3>2 DEF Changes
      <4>2. ~Unmade(w, lists[u], k) /\ listMap'[s][k] = perms
        BY <1>3, <2>6, <3>1, <3>2
      <4> HIDE DEF w, perms
      <4> QED
        BY <1>3, <2>3, <2>5, <2>8, <3>2, <4>1, <4>2 DEF CacheFits
    <3>3. CASE k # n
      <4>1. ~Changes(w, k) /\ listMap'[s][k] = listMap[s][k]
        BY <2>6, <3>1, <3>3 DEF Changes
      <4>2. Unmade(w, lists[u], k) => Unmade(work[s], lists[u], k)
        BY <3>1 DEF Unmade
      <4> HIDE DEF w
      <4> QED
        BY <1>3, <2>5, <3>1, <4>1, <4>2 DEF CacheFits
    <3> QED
      BY <3>2, <3>3
  <2>10. SessionFits(s)'
    BY <1>1, <1>3, <2>2, <2>4, <2>5, <2>6, <2>9 DEF SessionFits
  <2>11. Alone(s)
    BY <1>3, <2>2, <2>5 DEF Alone, Alters
  <2> QED
    BY <1>3, <1>4, <2>10, <2>11, StepAloneKeepsInv DEF GroupsInv
<1> QED
  BY <1>5, <1>6

\* What a call that did not end may have changed is not relied on.
LEMMA InterruptedFits ==
    ASSUME ServicesAssumption, GroupsInv, NEW s \in Sessions, groups!Interrupted(s)
    PROVE  /\ work[s].do \notin {"aclRemoveGroup", "aclCreateGroup", "aclChange"} => UNCHANGED given
           /\ work[s].do \in {"aclRemoveGroup", "aclCreateGroup", "aclChange"} =>
                 /\ work[s].name \in OwnNames(UserOf[s])
                 /\ \E calls \in [Users -> 0..3] :
                       /\ given' = [given EXCEPT ![UserOf[s]][work[s].name] = calls]
                       /\ \A perms : Agrees(perms, given[UserOf[s]][work[s].name]) =>
                                        Agrees(perms, calls)
                       /\ work[s].do = "aclChange" =>
                             \A perms : Agrees(perms, [given[UserOf[s]][work[s].name] EXCEPT
                                                          ![work[s].member] = work[s].perm])
                                        => Agrees(perms, calls)
                       /\ work[s].do # "aclChange" => \A perms : Agrees(perms, calls)
<1> DEFINE u == UserOf[s]
           n == work[s].name
<1>1. u \in Users /\ UserFits(u) /\ SessionFits(s)
  BY SessionFacts
<1>2. CASE work[s].do \notin {"aclRemoveGroup", "aclCreateGroup", "aclChange"}
  BY <1>2 DEF groups!Interrupted, groups!Does
<1>3. CASE work[s].do \in {"aclRemoveGroup", "aclCreateGroup"}
  <2> DEFINE calls == [m \in Users |-> groups!Unsure]
  <2>1. given' = [given EXCEPT ![u][n] = calls]
    BY <1>3 DEF groups!Interrupted, groups!Does
  <2>2. calls \in [Users -> 0..3] /\ \A perms : Agrees(perms, calls)
    BY DEF groups!Unsure, Agrees
  <2>3. n \in OwnNames(u)
    BY <1>1, <1>3 DEF SessionFits, GroupCall
  <2> QED
    BY <1>3, <2>1, <2>2, <2>3
<1>4. CASE work[s].do = "aclChange"
  <2> DEFINE calls == [given[u][n] EXCEPT ![work[s].member] = groups!Unsure]
  <2>1. n \in OwnNames(u) /\ n \in GroupNames /\ work[s].member \in Users
    BY <1>1, <1>4 DEF SessionFits, GroupCall, OwnNames
  <2>2. given[u][n] \in [Users -> 0..3] /\ given' = [given EXCEPT ![u][n] = calls]
    BY <1>1, <1>4, <2>1, SessionFacts
       DEF groups!Interrupted, groups!Does, groups!Grants, UserFits
  <2>3. calls \in [Users -> 0..3]
    BY <2>1, <2>2 DEF groups!Unsure
  <2>4. \A perms : Agrees(perms, given[u][n]) => Agrees(perms, calls)
    BY <2>2 DEF Agrees
  <2>5. \A perms : Agrees(perms, [given[u][n] EXCEPT ![work[s].member] = work[s].perm])
                      => Agrees(perms, calls)
    BY <2>1, <2>2 DEF Agrees
  <2> QED
    <3> HIDE DEF calls
    <3> QED
      BY <1>4, <2>1, <2>2, <2>3, <2>4, <2>5
<1> QED
  BY <1>2, <1>3, <1>4

LEMMA FailsKeepsInv ==
    ASSUME ServicesAssumption, GroupsApart, GroupsInv, NEW s \in Sessions, groups!Fails(s)
    PROVE  GroupsInv'
<1> DEFINE u == UserOf[s]
           n == work[s].name
<1>1. /\ u \in Users /\ UserFits(u) /\ SessionFits(s)
      /\ DOMAIN work = Sessions /\ DOMAIN opened = Sessions
  BY SessionFacts
<1>2. /\ UNCHANGED <<lists, acls, opened, invites, locked>> /\ groups!Interrupted(s)
      /\ work' = [work EXCEPT ![s] = groups!Idle]
  BY DEF groups!Fails, groups!Returns, groups!Goto
<1>3. groups!Idle \in GroupCall(u) /\ groups!Idle.do = "idle" /\ work'[s] = groups!Idle
      /\ Alters(work, work', s)
  BY <1>1, <1>2 DEF GroupCall, groups!Idle, Alters
<1>4. Alters(opened, opened', s) /\ DOMAIN opened'[s] = GroupNames
  BY <1>1, <1>2 DEF Alters, SessionFits
<1>5. CASE work[s].do = "storeGroups"
  <2>1. UNCHANGED <<given, listMap>>
    BY <1>2, <1>5, InterruptedFits DEF groups!Fails, groups!Does
  <2>2. \A m \in OwnNames(u) : Unmade(groups!Idle, lists[u], m) =>
           listMap[s][m] \in {None, groups!OnlyOwner(u)}
    BY <1>1 DEF SessionFits, CacheFits, Unmade, groups!Idle
  <2> QED
    BY <1>2, <1>3, <1>4, <1>5, <2>1, <2>2, CallGoesOn
<1>6. CASE work[s].do \in {"aclRemoveGroup", "aclCreateGroup", "aclChange"}
  <2>1. n \in OwnNames(u) /\ n \in GroupNames
    BY <1>2, <1>6, InterruptedFits DEF OwnNames
  <2>2. PICK calls \in [Users -> 0..3] :
           /\ given' = [given EXCEPT ![u][n] = calls]
           /\ \A perms : Agrees(perms, given[u][n]) => Agrees(perms, calls)
           /\ work[s].do = "aclChange" =>
                 \A perms : Agrees(perms, [given[u][n] EXCEPT ![work[s].member] = work[s].perm])
                                        => Agrees(perms, calls)
           /\ work[s].do # "aclChange" => \A perms : Agrees(perms, calls)
    BY <1>2, <1>6, InterruptedFits
  <2>3. PICK cached : /\ listMap' = [listMap EXCEPT ![s][n] = cached]
                      /\ cached = IF work[s].do = "aclRemoveGroup" THEN groups!OnlyOwner(u)
                                  ELSE groups!ToStore(s, n)
    BY <1>6 DEF groups!Fails, groups!Does, groups!Cache
  <2>4. cached \in Perms \cup {None}
    BY <1>1, <2>1, <2>3, ToStoreFits, OnlyOwnerIsPerms
  <2>5. work[s].do \in {"idle", "aclRemoveGroup", "aclCreateGroup"} \/ Changes(work[s], n)
    BY <1>6 DEF Changes
  <2>6. Agrees(cached, calls)
    BY <2>1, <2>2, <2>3, <2>5, ToStoreFits DEF Changes
  <2>7. cached \in {None, groups!OnlyOwner(u)} \/ n \in lists[u].own
    <3>1. CASE work[s].do = "aclChange"
      <4>1. CacheFits(s, n) /\ cached = listMap[s][n]
        BY <1>1, <2>1, <2>3, <2>5, <3>1, ToStoreFits DEF SessionFits
      <4> QED
        BY <4>1 DEF CacheFits, Unmade
    <3> QED
      BY <1>6, <2>1, <2>3, <3>1, ToStoreFits
  <2>8. acls[u][n] \in Perms \cup {None} /\ (acls[u][n] # None => Agrees(acls[u][n], calls))
    BY <1>1, <2>1, <2>2 DEF UserFits
  <2>9. invites' \subseteq Invites
    BY <1>2 DEF GroupsInv
  <2> QED
    <3> HIDE DEF n
    <3> QED
      BY <1>2, <1>3, <1>4, <2>1, <2>2, <2>3, <2>4, <2>5, <2>6, <2>7, <2>8, <2>9, StepOnGroup
<1> QED
  BY <1>5, <1>6 DEF groups!Fails

\* A new session has an empty cache.
LEMMA LogsInAgainKeepsInv ==
    ASSUME ServicesAssumption, GroupsApart, GroupsInv, NEW s \in Sessions, groups!LogsInAgain(s)
    PROVE  GroupsInv'
<1> DEFINE u == UserOf[s]
           n == work[s].name
<1>1. /\ u \in Users /\ UserFits(u) /\ SessionFits(s) /\ DOMAIN given = Users
      /\ DOMAIN work = Sessions /\ DOMAIN opened = Sessions /\ DOMAIN listMap = Sessions
  BY SessionFacts
<1>2. /\ UNCHANGED <<lists, acls, invites>> /\ groups!Interrupted(s)
      /\ work' = [work EXCEPT ![s] = groups!Idle]
      /\ listMap' = [listMap EXCEPT ![s] = groups!Fresh]
      /\ opened' = [opened EXCEPT ![s] = groups!Fresh] /\ locked' = locked \ {s}
  BY DEF groups!LogsInAgain, groups!Returns, groups!Goto
<1>3. /\ work'[s] = groups!Idle /\ listMap'[s] = groups!Fresh /\ opened'[s] = groups!Fresh
      /\ Alters(work, work', s) /\ Alters(listMap, listMap', s) /\ Alters(opened, opened', s)
  BY <1>1, <1>2 DEF Alters
<1>4. /\ Alters(given, given', u) /\ given'[u] \in [GroupNames -> [Users -> 0..3]]
      /\ \A m \in GroupNames : \A perms : Agrees(perms, given[u][m]) => Agrees(perms, given'[u][m])
  <2>1. CASE work[s].do \notin {"aclRemoveGroup", "aclCreateGroup", "aclChange"}
    BY <1>1, <1>2, <2>1, InterruptedFits DEF Alters, UserFits
  <2>2. CASE work[s].do \in {"aclRemoveGroup", "aclCreateGroup", "aclChange"}
    <3>1. PICK calls \in [Users -> 0..3] :
             /\ given' = [given EXCEPT ![u][n] = calls]
             /\ \A perms : Agrees(perms, given[u][n]) => Agrees(perms, calls)
      BY <1>2, <2>2, InterruptedFits
    <3>2. \A m \in GroupNames : given'[u][m] = IF m = n THEN calls ELSE given[u][m]
      BY <1>1, <3>1 DEF UserFits
    <3> QED
      BY <1>1, <3>1, <3>2 DEF Alters, UserFits
  <2> QED
    BY <2>1, <2>2
<1>5. UserFits(u)'
  BY <1>1, <1>2, <1>4 DEF UserFits, OwnNames
<1>6. SessionFits(s)'
  <2>1. groups!Idle \in GroupCall(u) /\ groups!Idle.do = "idle"
    BY DEF GroupCall, groups!Idle
  <2>2. groups!Fresh \in [GroupNames -> Perms \cup {None}] /\ DOMAIN groups!Fresh = GroupNames
        /\ \A m \in OwnNames(u) : groups!Fresh[m] = None
    BY DEF groups!Fresh, OwnNames
  <2>3. \A m : ~Changes(groups!Idle, m)
    BY <2>1 DEF Changes
  <2> QED
    BY <1>3, <2>1, <2>2, <2>3 DEF SessionFits, CacheFits
<1>7. Alone(s)
  BY <1>2, <1>3, <1>4 DEF Alone, Alters
<1> QED
  BY <1>2, <1>5, <1>6, <1>7, StepAloneKeepsInv DEF GroupsInv

-----------------------------------------------------------------------------
LEMMA GroupsStepKeepsInv ==
    ASSUME ServicesAssumption, GroupsApart, ~MayMissList, Careful, GroupsInv, groups!Next
    PROVE  GroupsInv'
<1>1. PICK s \in Sessions :
         \/ \E n \in GroupNames :
               \/ groups!CreateGroup(s, n) \/ groups!RemoveGroup(s, n)
               \/ groups!RemoveSharedGroup(s, n)
               \/ groups!OpenOwnGroup(s, n) \/ groups!OpenSharedGroup(s, n)
               \/ groups!OpenDenied(s, n)
               \/ groups!CloseGroup(s, n) \/ groups!GetPermission(s, n)
               \/ \E m \in Users, p \in Asked, adds \in BOOLEAN :
                     groups!Change(s, n, m, p, adds)
         \/ \E i \in invites : groups!AcceptGroupInvite(s, i)
         \/ groups!aclRemoveGroup(s) \/ groups!StoreGroups(s) \/ groups!aclCreateGroup(s)
         \/ groups!aclChange(s) \/ groups!Hangs(s) \/ groups!Fails(s) \/ groups!LogsInAgain(s)
  BY DEF groups!Next
<1>2. ASSUME NEW n \in GroupNames,
             \/ groups!CreateGroup(s, n)
             \/ groups!RemoveGroup(s, n)
             \/ groups!RemoveSharedGroup(s, n)
      PROVE  GroupsInv'
  BY <1>2, CreateGroupKeepsInv, RemoveGroupKeepsInv, RemoveSharedGroupKeepsInv
<1>3. ASSUME NEW n \in GroupNames,
             \/ groups!OpenOwnGroup(s, n)
             \/ groups!OpenSharedGroup(s, n)
             \/ groups!OpenDenied(s, n)
             \/ groups!CloseGroup(s, n)
             \/ groups!GetPermission(s, n)
      PROVE  GroupsInv'
  BY <1>3, OpenOwnGroupKeepsInv, OpenSharedGroupKeepsInv, OpenDeniedKeepsInv,
     GetPermissionKeepsInv
<1>4. ASSUME NEW n \in GroupNames,
             \E m \in Users, p \in Asked, adds \in BOOLEAN : groups!Change(s, n, m, p, adds)
      PROVE  GroupsInv'
  BY <1>4, ChangeKeepsInv
<1>5. ASSUME NEW i \in invites, groups!AcceptGroupInvite(s, i)
      PROVE  GroupsInv'
  BY <1>5, AcceptGroupInviteKeepsInv
<1> QED
  BY <1>1, <1>2, <1>3, <1>4, <1>5, aclRemoveGroupKeepsInv, StoreGroupsKeepsInv,
     aclCreateGroupKeepsInv, aclChangeKeepsInv, HangsKeepsInv, FailsKeepsInv,
     LogsInAgainKeepsInv

LEMMA GroupsInitFits ==
    ASSUME ServicesAssumption, groups!Init
    PROVE  GroupsInv
<1>1. groups!NoGroups \in [own: {{}}, shared: {<<>>}]
  BY DEF groups!NoGroups
<1>2. \A u : groups!NoGroups \in ListOf(u) /\ groups!NoGroups.own = {}
  <2> TAKE u
  <2>1. <<>> \in Seq({i \in Invites : i.owner # u})
    OBVIOUS
  <2> QED
    BY <1>1, <2>1 DEF ListOf
<1>3. groups!Fresh \in [GroupNames -> Perms \cup {None}] /\ DOMAIN groups!Fresh = GroupNames
      /\ \A n \in GroupNames : groups!Fresh[n] = None
  BY DEF groups!Fresh
<1>4. [n \in GroupNames |-> groups!Nobody] \in [GroupNames -> [Users -> 0..3]]
  BY DEF groups!Nobody, groups!NoPermission
<1>5. \A u \in Users : UserFits(u)
  BY <1>2, <1>3, <1>4 DEF groups!Init, UserFits, OwnNames
<1>6. \A u : groups!Idle \in GroupCall(u) /\ groups!Idle.do = "idle"
  BY DEF groups!Idle, GroupCall
<1>7. ASSUME NEW s \in Sessions
      PROVE  SessionFits(s)
  <2>1. work[s] = groups!Idle /\ listMap[s] = groups!Fresh /\ opened[s] = groups!Fresh
    BY DEF groups!Init
  <2>2. \A n \in OwnNames(UserOf[s]) : listMap[s][n] = None /\ ~Changes(work[s], n)
    BY <1>3, <1>6, <2>1 DEF OwnNames, Changes
  <2> QED
    BY <1>3, <1>6, <2>1, <2>2 DEF SessionFits, CacheFits
<1> QED
  BY <1>5, <1>7 DEF groups!Init, GroupsInv

LEMMA GroupsStayFit ==
    ASSUME GroupsApart, ~MayMissList, Careful
    PROVE  ServicesSpec => [](Part("groups") => GroupsInv)
<1>1. ServicesInit => (Part("groups") => GroupsInv)
  BY ServicesAssumption, GroupsInitFits DEF ServicesInit, Part
<1>2. ASSUME Part("groups") => GroupsInv, [ServicesNext]_serviceVars
      PROVE  (Part("groups") => GroupsInv)'
  <2>1. UNCHANGED part
    BY <1>2 DEF ServicesNext, serviceVars
  <2>2. CASE UNCHANGED serviceVars
    <3>1. UNCHANGED <<lists, acls, listMap, opened, invites, work, locked, given>>
      BY <2>2 DEF serviceVars, groupVars
    <3> QED
      BY <1>2, <2>1, <3>1 DEF Part, GroupsInv, UserFits, SessionFits, CacheFits
  <2>3. CASE Part("groups") /\ groups!Next
    BY <1>2, <2>3, ServicesAssumption, GroupsStepKeepsInv
  <2>4. CASE ~Part("groups")
    BY <2>1, <2>4 DEF Part
  <2> QED
    BY <1>2, <2>2, <2>3, <2>4 DEF ServicesNext, Part
<1> QED
  BY <1>1, <1>2, PTL DEF ServicesSpec

\* Through failures, logging in again, and groups removed and made again, the permissions
\* stored for a group are the ones its owner's acknowledged calls gave (UpdatePermission,
\* RemoveMember), for any users, if each has one session and names of groups of his own.
THEOREM PermissionsStayAsGiven ==
    ASSUME GroupsApart, ~MayMissList, Careful
    PROVE  ServicesSpec => []PermissionsAsGiven
<1>1. (Part("groups") => GroupsInv) => PermissionsAsGiven
  <2> SUFFICES ASSUME GroupsInv, NEW u \in Users, NEW n \in lists[u].own, acls[u][n] # None,
                      NEW m \in Users, given[u][n][m] # groups!Unsure
               PROVE  acls[u][n][m] = given[u][n][m]
    BY DEF PermissionsAsGiven, groups!PermissionsAsGiven
  <2>1. UserFits(u) /\ n \in OwnNames(u)
    BY DEF GroupsInv, UserFits, ListOf
  <2> QED
    BY <2>1 DEF UserFits, Agrees
<1> QED
  BY <1>1, GroupsStayFit, PTL

\* A step that opens a group of somebody else has read its owner's list.
LEMMA OpensWhatIsGiven ==
    ASSUME ServicesAssumption, GroupsInv, groups!Next
    PROVE  groups!OpensStep
<1> SUFFICES ASSUME NEW s \in Sessions, NEW n \in GroupNames,
                    opened'[s][n] # None, opened'[s][n] # opened[s][n],
                    opened'[s][n].owner # UserOf[s]
             PROVE  given[opened'[s][n].owner][n][UserOf[s]] \in {opened'[s][n].perm, groups!Unsure}
  BY DEF groups!OpensStep
<1>1. DOMAIN opened = Sessions /\ DOMAIN opened[s] = GroupNames /\ UserOf[s] \in Users
  BY SessionFacts DEF SessionFits
<1>2. \A t \in Sessions, m \in GroupNames : \A info :
         opened' = [opened EXCEPT ![t][m] = info] =>
            t = s /\ m = n /\ opened'[s][n] = info
  BY <1>1
<1>3. ASSUME NEW t \in Sessions, groups!LogsInAgain(t)
      PROVE  FALSE
  <2>1. opened' = [opened EXCEPT ![t] = groups!Fresh]
    BY <1>3 DEF groups!LogsInAgain
  <2> QED
    BY <1>1, <2>1 DEF groups!Fresh
<1>4. ASSUME NEW t \in Sessions, groups!aclRemoveGroup(t) \/ groups!aclCreateGroup(t)
      PROVE  FALSE
  <2>1. SessionFits(t)
    BY SessionFacts
  <2>2. work[t].name \in GroupNames
    BY <1>4, <2>1 DEF groups!aclRemoveGroup, groups!aclCreateGroup, groups!Does, SessionFits,
                     GroupCall, OwnNames
  <2>3. PICK info : /\ opened' = [opened EXCEPT ![t][work[t].name] = info]
                    /\ info = None \/ info.owner = UserOf[t]
    BY <1>4 DEF groups!aclRemoveGroup, groups!aclCreateGroup, groups!Opens
  <2> QED
    BY <1>2, <2>2, <2>3
<1>5. ASSUME NEW t \in Sessions, NEW m \in GroupNames,
             \/ groups!RemoveGroup(t, m)
             \/ groups!RemoveSharedGroup(t, m)
             \/ groups!OpenOwnGroup(t, m)
             \/ groups!CloseGroup(t, m)
      PROVE  FALSE
  <2>1. PICK info : /\ opened' = [opened EXCEPT ![t][m] = info]
                    /\ info = None \/ info = opened[t][m] \/ info.owner = UserOf[t]
    BY <1>5 DEF groups!RemoveGroup, groups!RemoveSharedGroup, groups!OpenOwnGroup,
                groups!CloseGroup, groups!Opens
  <2> QED
    BY <1>2, <2>1
<1>6. ASSUME NEW t \in Sessions,
             \/ \E m \in GroupNames : \/ groups!CreateGroup(t, m)
                                      \/ groups!OpenDenied(t, m)
                                      \/ groups!GetPermission(t, m)
                                      \/ \E k \in Users, p \in Asked, adds \in BOOLEAN :
                                            groups!Change(t, m, k, p, adds)
             \/ \E i \in invites : groups!AcceptGroupInvite(t, i)
             \/ groups!StoreGroups(t)
             \/ groups!aclChange(t)
             \/ groups!Hangs(t)
             \/ groups!Fails(t)
      PROVE  FALSE
  <2>1. UNCHANGED opened
    BY <1>6 DEF groups!CreateGroup, groups!OpenDenied, groups!GetPermission, groups!Change,
                groups!AcceptGroupInvite, groups!StoreGroups, groups!aclChange,
                groups!Hangs, groups!Fails
  <2> QED
    BY <2>1
<1>7. PICK t \in Sessions, m \in GroupNames : groups!OpenSharedGroup(t, m)
  BY <1>3, <1>4, <1>5, <1>6 DEF groups!Next
<1> DEFINE v == groups!OwnerOf(UserOf[t], lists[UserOf[t]], m)
<1>8. /\ opened' = [opened EXCEPT ![t][m] = [owner |-> v, perm |-> acls[v][m][UserOf[t]]]]
      /\ acls[v][m] # None
  BY <1>7 DEF groups!OpenSharedGroup, groups!Opens, groups!loadPermissions
<1>9. t = s /\ m = n /\ opened'[s][n] = [owner |-> v, perm |-> acls[v][m][UserOf[t]]]
  <2> HIDE DEF v
  <2> QED
    BY <1>2, <1>8
<1>10. v \in Users /\ n \in OwnNames(v)
  BY <1>7, <1>9, SessionFacts, SharedGroupsOwner DEF groups!OpenSharedGroup, UserFits
<1> HIDE DEF v
<1>11. Agrees(acls[v][n], given[v][n])
  BY <1>8, <1>9, <1>10 DEF GroupsInv, UserFits
<1> QED
  BY <1>1, <1>9, <1>11 DEF Agrees

\* A group opens only with what its owner last gave: a user whose permission was taken away
\* does not open it any more (ErrPermissionDenied in OpenGroup).
THEOREM GroupsOpenAsGiven ==
    ASSUME GroupsApart, ~MayMissList, Careful
    PROVE  ServicesSpec => OpensAsGiven
<1>1. ASSUME Part("groups") => GroupsInv, [ServicesNext]_serviceVars
      PROVE  [Part("groups") => groups!OpensStep]_serviceVars
  <2> SUFFICES ASSUME Part("groups"), ServicesNext
               PROVE  groups!OpensStep
    BY <1>1
  <2>1. groups!Next
    BY DEF ServicesNext, Part
  <2> QED
    BY <1>1, <2>1, ServicesAssumption, OpensWhatIsGiven
<1> QED
  BY <1>1, GroupsStayFit, PTL DEF ServicesSpec, OpensAsGiven

-----------------------------------------------------------------------------
\* Access control tables

\* Users a history opens to, who are the ones the owner's acknowledged calls say.
GrantsFit(who, calls, users) ==
    \A v \in users : (calls[v] = "in" => v \in who) /\ (calls[v] = "out" => v \notin who)

\* The owner of a content has a history for it.
Fed(c) == feed[c.owner][c.name] # None

ContentsFed(table) == \A k \in DOMAIN table.content : Fed(table.content[k])

TableFits(u, n) ==
    LET table == list[u][n]  calls == granted[u][n] IN
    /\ IF feed[u][n] # None THEN GrantsFit(feed[u][n], calls, Users)
                            ELSE \A v \in Users : calls[v] = "out"
    /\ IF table # None /\ table.who # None THEN GrantsFit(table.who, calls, Users)
                                           ELSE \A v \in Users : calls[v] # "in"
    /\ table # None => ContentsFed(table)

OwnerFits(u) ==
    /\ list[u] \in [TableNames -> acts!Table \cup {None}]
    /\ feed[u] \in [TableNames -> (SUBSET Users) \cup {None}]
    /\ granted[u] \in [TableNames -> [Users -> {"in", "out", "unsure"}]]
    /\ \A n \in TableNames : TableFits(u, n)

TableCall ==
         [do: {"idle"}]
    \cup [do: {"CreateFeed", "UpdateFeed", "storeUserACTs"}, name: TableNames,
          who: (SUBSET Users) \cup {None}, list: [TableNames -> acts!Table \cup {None}],
          grant: SUBSET Users, revoke: SUBSET Users, key: Nat, shares: SUBSET acts!Content]

\* The list a change is about to store: the user's, with another table.
ListFits(u, w) ==
    /\ w.list[w.name] # None
    /\ \A n \in TableNames : n # w.name => w.list[n] = list[u][n]
    /\ (list[u][w.name] # None /\ list[u][w.name].who # None) => w.list[w.name].who # None

\* The history of that table opens to whom it should once the change is acknowledged.
HistoryFits(u, w) ==
    LET who == w.list[w.name].who  calls == granted[u][w.name] IN
    /\ w.grant \cap w.revoke = {}
    /\ who = None => w.grant \cup w.revoke = {} /\ \A v \in Users : calls[v] # "in"
    /\ who # None => /\ w.grant \subseteq who /\ w.revoke \cap who = {}
                     /\ GrantsFit(who, calls, Users \ (w.grant \cup w.revoke))

\* The feed gets that history first, and then has one for every content of the table.
FeedFits(u, w) ==
    LET table == w.list[w.name] IN
    /\ \A c \in w.shares : IF w.do = "storeUserACTs" THEN Fed(c)
                                                     ELSE c.owner = u /\ c.name = w.name
    /\ w.do = "storeUserACTs" =>
          ContentsFed(table) /\ (w.grant \cup w.revoke # {} => feed[u][w.name] = table.who)
    /\ w.do # "storeUserACTs" =>
          /\ w.who = IF table.who = None THEN {} ELSE table.who
          /\ \A k \in DOMAIN table.content :
                Fed(table.content[k]) \/ (table.content[k].owner = u
                                          /\ table.content[k].name = w.name)

ChangeFits(u, w) == ListFits(u, w) /\ HistoryFits(u, w) /\ FeedFits(u, w)

ActsInv ==
    /\ DOMAIN list = Users /\ DOMAIN feed = Users /\ DOMAIN granted = Users
    /\ DOMAIN change = Sessions /\ keysMade \in Nat
    /\ \A c \in shared : c \in acts!Content /\ Fed(c)
    /\ \A u \in Users : OwnerFits(u)
    /\ \A s \in Sessions : /\ change[s] \in TableCall
                           /\ change[s].do # "idle" => ChangeFits(UserOf[s], change[s])

-----------------------------------------------------------------------------
LEMMA NoneIsNoHistory == \A who \in SUBSET Users : who # None
  BY ServicesAssumption DEF ServicesAssumption

LEMMA TableFacts ==
    ASSUME ActsInv, NEW s \in Sessions
    PROVE  /\ UserOf[s] \in Users /\ OwnerFits(UserOf[s]) /\ change[s] \in TableCall
           /\ change[s].do # "idle" => ChangeFits(UserOf[s], change[s])
           /\ DOMAIN list = Users /\ DOMAIN feed = Users /\ DOMAIN granted = Users
           /\ DOMAIN change = Sessions
  BY ServicesAssumption DEF ServicesAssumption, ActsInv

\* The contents of a table are contents.
LEMMA ContentsAreContents ==
    ASSUME NEW table \in acts!Table, NEW k \in DOMAIN table.content
    PROVE  table.content[k] \in acts!Content
<1>1. table.content \in Seq(acts!Content)
  BY DEF acts!Table
<1> QED
  BY <1>1

LEMMA HistoryOfTable ==
    ASSUME NEW table \in acts!Table
    PROVE  table.who \in (SUBSET Users) \cup {None}
  BY DEF acts!Table

\* A step of a session that leaves the other sessions, and what other users have, alone,
\* and takes no history away.
LEMMA ActStepAloneKeepsInv ==
    ASSUME OneSessionEach, ActsInv, NEW s \in Sessions,
           Alters(list, list', UserOf[s]), Alters(feed, feed', UserOf[s]),
           Alters(granted, granted', UserOf[s]), Alters(change, change', s),
           \A c \in acts!Content : Fed(c) => Fed(c)',
           NEW w \in TableCall, change'[s] = w, w.do # "idle" => ChangeFits(UserOf[s], w)',
           keysMade' \in Nat,
           OwnerFits(UserOf[s])', \A c \in shared' : c \in acts!Content /\ Fed(c)'
    PROVE  ActsInv'
<1>1. ASSUME NEW table \in acts!Table, ContentsFed(table)
      PROVE  ContentsFed(table)'
  BY <1>1, ContentsAreContents DEF ContentsFed
<1>2. \A u \in Users : OwnerFits(u)'
  <2> SUFFICES ASSUME NEW u \in Users, u # UserOf[s]
               PROVE  OwnerFits(u)'
    OBVIOUS
  <2>1. list'[u] = list[u] /\ feed'[u] = feed[u] /\ granted'[u] = granted[u] /\ OwnerFits(u)
    BY DEF ActsInv, Alters
  <2>2. \A n \in TableNames : TableFits(u, n)'
    <3> TAKE n \in TableNames
    <3> PICK table \in acts!Table \cup {None} : table = list[u][n]
      BY <2>1 DEF OwnerFits
    <3>1. TableFits(u, n) /\ list'[u][n] = table
      BY <2>1 DEF OwnerFits
    <3>2. table # None => ContentsFed(table)'
      BY <1>1, <3>1 DEF TableFits
    <3> QED
      BY <2>1, <3>1, <3>2 DEF TableFits
  <2> QED
    BY <2>1, <2>2 DEF OwnerFits
<1>3. ASSUME NEW t \in Sessions
      PROVE  /\ change'[t] \in TableCall
             /\ change'[t].do # "idle" => ChangeFits(UserOf[t], change[t])'
  <2>1. CASE t = s
    BY <2>1
  <2>2. CASE t # s
    <3> PICK v \in TableCall : v = change[t]
      BY TableFacts
    <3>1. change'[t] = v /\ UserOf[t] # UserOf[s] /\ UserOf[t] \in Users
      BY <2>2, TableFacts DEF OneSessionEach, Alters
    <3>2. list'[UserOf[t]] = list[UserOf[t]] /\ feed'[UserOf[t]] = feed[UserOf[t]]
          /\ granted'[UserOf[t]] = granted[UserOf[t]]
      BY <3>1, TableFacts DEF Alters
    <3>3. ASSUME v.do # "idle"
          PROVE  ChangeFits(UserOf[t], v)'
      <4> DEFINE table == v.list[v.name]
      <4>1. ChangeFits(UserOf[t], v)
        BY <3>3, TableFacts
      <4>2. v.name \in TableNames /\ v.list \in [TableNames -> acts!Table \cup {None}]
        BY <3>3 DEF TableCall
      <4>3. table \in acts!Table
        BY <4>1, <4>2 DEF ChangeFits, ListFits
      <4>4. /\ ContentsFed(table) => ContentsFed(table)'
            /\ \A k \in DOMAIN table.content : Fed(table.content[k]) => Fed(table.content[k])'
        <5> HIDE DEF table
        <5> QED
          BY <1>1, <4>3, ContentsAreContents
      <4>5. ListFits(UserOf[t], v)' /\ HistoryFits(UserOf[t], v)'
        BY <3>2, <4>1 DEF ChangeFits, ListFits, HistoryFits
      <4>6. FeedFits(UserOf[t], v)'
        <5>1. \A c \in v.shares : Fed(c) => Fed(c)'
          BY <3>3 DEF TableCall
        <5> QED
          BY <3>2, <4>1, <4>4, <5>1 DEF ChangeFits, FeedFits
      <4> QED
        BY <4>5, <4>6 DEF ChangeFits
    <3> QED
      BY <3>1, <3>3
  <2> QED
    BY <2>1, <2>2
<1> QED
  BY <1>2, <1>3 DEF ActsInv, Alters

\* A step of a call that only goes on with w.
LEMMA TableCallGoesOn ==
    ASSUME OneSessionEach, ActsInv, NEW s \in Sessions, NEW w \in TableCall,
           w.do # "idle" => ChangeFits(UserOf[s], w), acts!Goto(s, w),
           UNCHANGED <<list, feed, granted, shared>>, keysMade' \in Nat
    PROVE  ActsInv'
<1> DEFINE u == UserOf[s]
<1>1. OwnerFits(u) /\ DOMAIN change = Sessions
  BY TableFacts
<1>2. change'[s] = w /\ Alters(change, change', s)
  BY <1>1 DEF acts!Goto, Alters
<1>3. Alters(list, list', u) /\ Alters(feed, feed', u) /\ Alters(granted, granted', u)
  BY DEF Alters
<1>4. \A c \in acts!Content : Fed(c) => Fed(c)'
  BY DEF Fed
<1>5. OwnerFits(u)'
  BY <1>1 DEF OwnerFits, TableFits, ContentsFed, Fed
<1>6. w.do # "idle" => ChangeFits(u, w)'
  BY DEF ChangeFits, ListFits, HistoryFits, FeedFits, ContentsFed, Fed
<1>7. \A c \in shared' : c \in acts!Content /\ Fed(c)'
  BY DEF ActsInv, Fed
<1> QED
  BY <1>2, <1>3, <1>4, <1>5, <1>6, <1>7, ActStepAloneKeepsInv

\* What a change relies on of the table, history and contents it is made with.
ChangeIsFit(u, n, table, step, who, grant, revoke, shares) ==
    /\ (list[u][n] # None /\ list[u][n].who # None) => table.who # None
    /\ grant \cap revoke = {}
    /\ table.who = None => /\ grant \cup revoke = {}
                           /\ \A v \in Users : granted[u][n][v] # "in"
    /\ table.who # None => /\ grant \subseteq table.who /\ revoke \cap table.who = {}
                           /\ GrantsFit(table.who, granted[u][n], Users \ (grant \cup revoke))
    /\ step = "storeUserACTs" => ContentsFed(table) /\ grant \cup revoke = {} /\ shares = {}
    /\ \A c \in shares : c.owner = u /\ c.name = n
    /\ step # "storeUserACTs" =>
          /\ who = IF table.who = None THEN {} ELSE table.who
          /\ \A k \in DOMAIN table.content :
                Fed(table.content[k]) \/ (table.content[k].owner = u
                                          /\ table.content[k].name = n)

\* What a change begins with, once its table and history are made.
LEMMA ChangeBegins ==
    ASSUME OneSessionEach, ActsInv, NEW s \in Sessions, NEW n \in TableNames,
           NEW table \in acts!Table, NEW step \in {"CreateFeed", "UpdateFeed", "storeUserACTs"},
           NEW who \in (SUBSET Users) \cup {None}, NEW grant \in SUBSET Users,
           NEW revoke \in SUBSET Users, NEW key \in Nat, NEW shares \in SUBSET acts!Content,
           acts!Change(s, list[UserOf[s]], n, table, step, who, key, grant, revoke, shares),
           UNCHANGED <<list, feed, granted, shared>>, keysMade' \in Nat,
           ChangeIsFit(UserOf[s], n, table, step, who, grant, revoke, shares)
    PROVE  ActsInv'
<1> DEFINE u == UserOf[s]
           w == [do |-> step, name |-> n, who |-> who, key |-> key,
                 list |-> [list[u] EXCEPT ![n] = table],
                 grant |-> grant, revoke |-> revoke, shares |-> shares]
<1>1. list[u] \in [TableNames -> acts!Table \cup {None}]
  BY TableFacts DEF OwnerFits
<1>2. w \in TableCall /\ acts!Goto(s, w)
  BY <1>1 DEF TableCall, acts!Change
<1>3. /\ w.list[n] = table /\ \A m \in TableNames : m # n => w.list[m] = list[u][m]
      /\ w.do = step /\ w.name = n /\ w.who = who /\ w.grant = grant /\ w.revoke = revoke
      /\ w.shares = shares
  BY <1>1
<1>4. table # None
  BY ServicesAssumption DEF ServicesAssumption
<1> HIDE DEF w
<1>5. ListFits(u, w)
  BY <1>3, <1>4 DEF ListFits, ChangeIsFit
<1>6. HistoryFits(u, w)
  BY <1>3 DEF HistoryFits, ChangeIsFit
<1>7. FeedFits(u, w)
  BY <1>3 DEF FeedFits, ChangeIsFit
<1> QED
  BY <1>2, <1>5, <1>6, <1>7, TableCallGoesOn DEF ChangeFits

LEMMA CreateACTKeepsInv ==
    ASSUME OneSessionEach, ~MayMissList, ActsInv, NEW s \in Sessions, NEW n \in TableNames,
           NEW grant \in Users, acts!CreateACT(s, n, grant)
    PROVE  ActsInv'
<1> DEFINE u == UserOf[s]
           named == {grant}
           none == {}
           key == acts!FreshKey
           table == [who |-> named, key |-> key, content |-> <<>>]
<1>1. /\ list[u][n] = None
      /\ acts!Change(s, list[u], n, table, "CreateFeed", named, key, named, none, none)
      /\ UNCHANGED <<list, feed, granted, shared>> /\ keysMade' \in Nat
  BY DEF acts!CreateACT, acts!loadUserACTs, acts!MakesKey, acts!FreshKey, ActsInv
<1>2. \A v \in Users : granted[u][n][v] # "in"
  BY <1>1, TableFacts DEF OwnerFits, TableFits
<1>3. table \in acts!Table /\ table.who = named /\ table.content = <<>> /\ named # None
  <2>1. <<>> \in Seq(acts!Content)
    OBVIOUS
  <2>2. key \in Nat
    BY DEF ActsInv, acts!FreshKey
  <2> HIDE DEF key
  <2> QED
    BY <2>1, <2>2, NoneIsNoHistory DEF acts!Table
<1>4. GrantsFit(named, granted[u][n], Users \ (named \cup none))
  BY <1>2 DEF GrantsFit
<1>5. named \in SUBSET Users /\ none \in SUBSET Users /\ named \cap none = {}
      /\ none \cap named = {} /\ none \in SUBSET acts!Content /\ \A c \in none : FALSE
  OBVIOUS
<1>7. key \in Nat
  BY DEF ActsInv, acts!FreshKey
<1> HIDE DEF table, named, none, key
<1>6. \A k \in DOMAIN table.content : FALSE
  BY <1>3
<1> QED
  <2>1. ChangeIsFit(u, n, table, "CreateFeed", named, named, none, none)
    BY <1>1, <1>3, <1>4, <1>5, <1>6 DEF ChangeIsFit
  <2> QED
    BY <1>1, <1>3, <1>5, <1>7, <2>1, ChangeBegins

LEMMA UpdateACTKeepsInv ==
    ASSUME OneSessionEach, ~MayMissList, ActsInv, NEW s \in Sessions, NEW n \in TableNames,
           NEW grant \in SUBSET Users, NEW revoke \in SUBSET Users, grant \cap revoke = {},
           acts!UpdateACT(s, n, grant, revoke)
    PROVE  ActsInv'
<1> DEFINE u == UserOf[s]
           old == list[u][n]
           who == (old.who \cup grant) \ revoke
           key == IF revoke = {} THEN old.key ELSE acts!FreshKey
           table == [old EXCEPT !.who = who, !.key = key]
           none == {}
<1>1. /\ old # None /\ old.who # None
      /\ acts!Change(s, list[u], n, table, "UpdateFeed", who, key, grant, revoke, none)
      /\ UNCHANGED <<list, feed, granted, shared>> /\ keysMade' \in Nat
  <2>1. acts!loadUserACTs(u) = {list[u]}
    BY DEF acts!loadUserACTs
  <2>2. keysMade' \in Nat
    BY DEF acts!UpdateACT, acts!MakesKey, acts!KeepsKey, acts!FreshKey, ActsInv
  <2> QED
    BY <2>1, <2>2 DEF acts!UpdateACT, acts!WithHistory
<1>2. old \in acts!Table /\ TableFits(u, n)
  BY <1>1, TableFacts DEF OwnerFits
<1>3. who \in SUBSET Users /\ who # None
  <2>1. old.who \in SUBSET Users
    <3> HIDE DEF old
    <3>1. old.who \in (SUBSET Users) \cup {None}
      BY <1>2, HistoryOfTable
    <3> QED
      BY <1>1, <3>1
  <2>2. who \in SUBSET Users
    BY <2>1
  <2> HIDE DEF who
  <2> QED
    BY <2>2, NoneIsNoHistory
<1>8. key \in Nat
  BY <1>2 DEF ActsInv, acts!FreshKey, acts!Table
<1>4. table \in acts!Table /\ table.who = who /\ table.content = old.content
  <2> HIDE DEF key, who, old
  <2> QED
    BY <1>2, <1>3, <1>8 DEF acts!Table
<1>5. GrantsFit(who, granted[u][n], Users \ (grant \cup revoke))
  BY <1>1, <1>2 DEF TableFits, GrantsFit
<1>6. \A k \in DOMAIN table.content : Fed(table.content[k])
  BY <1>1, <1>2, <1>4 DEF TableFits, ContentsFed
<1>7. /\ grant \subseteq who /\ revoke \cap who = {}
      /\ none \in SUBSET acts!Content /\ \A c \in none : FALSE
  OBVIOUS
<1> HIDE DEF table, who, key, none
<1> QED
  <2>1. ChangeIsFit(u, n, table, "UpdateFeed", who, grant, revoke, none)
    BY <1>1, <1>3, <1>4, <1>5, <1>6, <1>7 DEF ChangeIsFit
  <2> QED
    BY <1>1, <1>3, <1>4, <1>7, <1>8, <2>1, ChangeBegins

LEMMA GrantAccessKeepsInv ==
    ASSUME OneSessionEach, ~MayMissList, ActsInv, NEW s \in Sessions, NEW n \in TableNames,
           NEW pod \in Pods, acts!GrantAccess(s, n, pod)
    PROVE  ActsInv'
<1> DEFINE u == UserOf[s]
           old == list[u][n]
           key == IF old.who = None THEN acts!FreshKey ELSE old.key
           new == [owner |-> u, name |-> n, pod |-> pod, key |-> key]
           shares == {new}
           table == [old EXCEPT !.content = Append(@, new)]
           none == {}
           who == IF old.who = None THEN {} ELSE old.who
<1>1. /\ old # None
      /\ acts!Change(s, list[u], n, table, "UpdateFeed", who, key, none, none, shares)
      /\ UNCHANGED <<list, feed, granted, shared>> /\ keysMade' \in Nat
  <2>1. acts!loadUserACTs(u) = {list[u]}
    BY DEF acts!loadUserACTs
  <2>2. keysMade' \in Nat
    BY DEF acts!GrantAccess, acts!MakesKey, acts!KeepsKey, acts!FreshKey, ActsInv
  <2> QED
    BY <2>1, <2>2 DEF acts!GrantAccess
<1>2. old \in acts!Table /\ TableFits(u, n) /\ u \in Users
  BY <1>1, TableFacts DEF OwnerFits
<1>13. key \in Nat
  BY <1>2 DEF ActsInv, acts!FreshKey, acts!Table
<1>3. new \in acts!Content /\ old.content \in Seq(acts!Content)
  <2> HIDE DEF key
  <2> QED
    BY <1>2, <1>13 DEF acts!Content, acts!Table
<1>14. shares \in SUBSET acts!Content /\ \A c \in shares : c.owner = u /\ c.name = n
  <2>1. new.owner = u /\ new.name = n
    OBVIOUS
  <2> HIDE DEF new
  <2> QED
    BY <1>3, <2>1
<1>4. /\ Append(old.content, new) \in Seq(acts!Content)
      /\ \A k \in DOMAIN Append(old.content, new) :
            \/ Append(old.content, new)[k] = new
            \/ k \in DOMAIN old.content /\ Append(old.content, new)[k] = old.content[k]
  <2> HIDE DEF new
  <2> QED
    BY <1>3
<1>5. table \in acts!Table /\ table.who = old.who /\ table.content = Append(old.content, new)
  <2> HIDE DEF new
  <2> QED
    BY <1>2, <1>4 DEF acts!Table
<1>6. who \in (SUBSET Users) \cup {None}
  BY <1>2 DEF acts!Table
<1>7. \A k \in DOMAIN table.content :
         Fed(table.content[k]) \/ (table.content[k].owner = u /\ table.content[k].name = n)
  <2>1. new.owner = u /\ new.name = n
    OBVIOUS
  <2>2. \A k \in DOMAIN old.content : Fed(old.content[k])
    BY <1>1, <1>2 DEF TableFits, ContentsFed
  <2> HIDE DEF new, table
  <2> QED
    BY <1>4, <1>5, <2>1, <2>2
<1>8. /\ table.who = None => \A v \in Users : granted[u][n][v] # "in"
      /\ table.who # None => GrantsFit(table.who, granted[u][n], Users \ (none \cup none))
  BY <1>1, <1>2, <1>5 DEF TableFits, GrantsFit
<1>9. /\ none \in SUBSET Users /\ none \cup none = {} /\ none \cap none = {}
      /\ none \subseteq table.who /\ none \cap table.who = {}
  OBVIOUS
<1>10. who = IF table.who = None THEN {} ELSE table.who
  BY <1>5
<1>11. old.who = None <=> table.who = None
  BY <1>5
<1>12. (list[u][n] # None /\ list[u][n].who # None) => table.who # None
  BY <1>11
<1> HIDE DEF table, new, none, who, old, key, shares
<1> QED
  <2>1. ChangeIsFit(u, n, table, "UpdateFeed", who, none, none, shares)
    BY <1>1, <1>7, <1>8, <1>9, <1>10, <1>12, <1>14 DEF ChangeIsFit
  <2> QED
    BY <1>1, <1>5, <1>6, <1>9, <1>13, <1>14, <2>1, ChangeBegins

LEMMA SaveGrantedPodKeepsInv ==
    ASSUME OneSessionEach, ~MayMissList, ActsInv, NEW s \in Sessions, NEW n \in TableNames,
           NEW c \in shared, acts!SaveGrantedPod(s, n, c)
    PROVE  ActsInv'
<1> DEFINE u == UserOf[s]
           none == {}
           one == <<c>>
           table == [who |-> None, key |-> 0, content |-> one]
<1>1. /\ list[u][n] = None
      /\ acts!Change(s, list[u], n, table, "storeUserACTs", none, 0, none, none, none)
      /\ UNCHANGED <<list, feed, granted, shared>> /\ keysMade' \in Nat
  BY DEF acts!SaveGrantedPod, acts!loadUserACTs, ActsInv
<1>2. c \in acts!Content /\ Fed(c)
  BY DEF ActsInv
<1>3. one \in Seq(acts!Content) /\ \A k \in DOMAIN one : one[k] = c
  <2>1. DOMAIN <<c>> = {1} /\ <<c>>[1] = c
    OBVIOUS
  <2>2. <<c>> \in Seq(acts!Content)
    BY <1>2
  <2> QED
    BY <2>1, <2>2
<1> HIDE DEF one
<1>4. table \in acts!Table /\ table.who = None /\ table.content = one
  BY <1>3 DEF acts!Table
<1>5. \A v \in Users : granted[u][n][v] # "in"
  BY <1>1, TableFacts DEF OwnerFits, TableFits
<1>6. none \in SUBSET Users /\ none \cup none = {} /\ \A set : none \cap set = {}
      /\ none = {} /\ none \in SUBSET acts!Content /\ \A x \in none : FALSE
  OBVIOUS
<1> HIDE DEF table, none
<1>7. ContentsFed(table)
  BY <1>2, <1>3, <1>4 DEF ContentsFed
<1> QED
  <2>1. ChangeIsFit(u, n, table, "storeUserACTs", none, none, none, none)
    BY <1>1, <1>4, <1>5, <1>6, <1>7 DEF ChangeIsFit
  <2> QED
    BY <1>1, <1>4, <1>6, <2>1, ChangeBegins

LEMMA FailKeepsInv ==
    ASSUME OneSessionEach, ActsInv, NEW s \in Sessions, acts!Fail(s)
    PROVE  ActsInv'
<1>1. acts!Idle \in TableCall /\ acts!Idle.do = "idle"
  BY DEF acts!Idle, TableCall
<1> QED
  BY <1>1, TableCallGoesOn DEF acts!Fail, acts!Returns, ActsInv

\* The feed gets the new history; until the change is acknowledged nothing is said of whom
\* it names.
LEMMA writeFeedKeepsInv ==
    ASSUME OneSessionEach, ActsInv, NEW s \in Sessions, acts!writeFeed(s)
    PROVE  ActsInv'
<1> PICK u \in Users : u = UserOf[s]
  BY TableFacts
<1> PICK v \in TableCall : v = change[s]
  BY TableFacts
<1> DEFINE n == v.name
           who == v.who
           named == v.grant \cup v.revoke
           table == v.list[n]
           w == [v EXCEPT !.do = "storeUserACTs"]
<1>1. /\ OwnerFits(u) /\ v.do \in {"CreateFeed", "UpdateFeed"} /\ ChangeFits(u, v)
      /\ DOMAIN list = Users /\ DOMAIN feed = Users /\ DOMAIN granted = Users
      /\ DOMAIN change = Sessions
  BY TableFacts DEF acts!writeFeed, acts!Does
<1>2. /\ n \in TableNames /\ v.list \in [TableNames -> acts!Table \cup {None}]
      /\ v.grant \in SUBSET Users /\ v.revoke \in SUBSET Users
  BY <1>1 DEF TableCall
<1>3. w \in TableCall /\ w.do = "storeUserACTs" /\ w.name = n /\ w.list = v.list
      /\ w.grant = v.grant /\ w.revoke = v.revoke /\ w.shares = v.shares
      /\ v.shares \in SUBSET acts!Content
  BY <1>1 DEF TableCall
<1>4. table \in acts!Table
  BY <1>1, <1>2 DEF ChangeFits, ListFits
<1>5. who = (IF table.who = None THEN {} ELSE table.who) /\ who \in SUBSET Users /\ who # None
  <2>1. who = IF table.who = None THEN {} ELSE table.who
    BY <1>1 DEF ChangeFits, FeedFits
  <2>2. who \in SUBSET Users
    BY <1>4, <2>1, HistoryOfTable
  <2> QED
    BY <2>1, <2>2, NoneIsNoHistory
<1>6. /\ feed' = [feed EXCEPT ![u][n] = who] /\ UNCHANGED <<list, shared, keysMade>>
      /\ change' = [change EXCEPT ![s] = w]
      /\ granted' = [granted EXCEPT ![u][n] =
            [x \in Users |-> IF x \in v.revoke THEN "unsure"
                             ELSE IF x \in v.grant THEN "unsure" ELSE @[x]]]
  BY DEF acts!writeFeed, acts!Says, acts!Goto
<1> DEFINE calls == [x \in Users |-> IF x \in named THEN "unsure" ELSE granted[u][n][x]]
<1>7. granted' = [granted EXCEPT ![u][n] = calls]
  BY <1>6
<1>8. calls \in [Users -> {"in", "out", "unsure"}]
  BY <1>1, <1>2 DEF OwnerFits
<1>9. \A x \in Users : calls[x] = IF x \in named THEN "unsure" ELSE granted[u][n][x]
  OBVIOUS
<1> HIDE DEF calls, who, w, table, named
<1>10. /\ feed'[u] = [feed[u] EXCEPT ![n] = who] /\ granted'[u] = [granted[u] EXCEPT ![n] = calls]
       /\ change'[s] = w /\ Alters(change, change', s) /\ Alters(list, list', u)
       /\ Alters(feed, feed', u) /\ Alters(granted, granted', u)
  BY <1>1, <1>6, <1>7 DEF Alters
<1>11. /\ feed'[u] \in [TableNames -> (SUBSET Users) \cup {None}]
       /\ granted'[u] \in [TableNames -> [Users -> {"in", "out", "unsure"}]]
       /\ \A m \in TableNames : /\ feed'[u][m] = IF m = n THEN who ELSE feed[u][m]
                                /\ granted'[u][m] = IF m = n THEN calls ELSE granted[u][m]
  BY <1>1, <1>2, <1>5, <1>8, <1>10 DEF OwnerFits
<1>12. \A c \in acts!Content : Fed(c) => Fed(c)'
  BY <1>1, <1>5, <1>10, <1>11 DEF Fed, Alters, acts!Content
<1>13. ASSUME NEW t \in acts!Table, ContentsFed(t)
       PROVE  ContentsFed(t)'
  BY <1>12, <1>13, ContentsAreContents DEF ContentsFed
<1>14. /\ table.who = None => named = {} /\ \A x \in Users : granted[u][n][x] # "in"
       /\ table.who # None => GrantsFit(table.who, granted[u][n], Users \ named)
  BY <1>1 DEF ChangeFits, HistoryFits, table, named
<1>15. GrantsFit(who, calls, Users)
  BY <1>5, <1>9, <1>14 DEF GrantsFit
<1>16. OwnerFits(u)'
  <2>1. ASSUME NEW m \in TableNames
        PROVE  TableFits(u, m)'
    <3> PICK t \in acts!Table \cup {None} : t = list[u][m]
      BY <1>1 DEF OwnerFits
    <3>1. TableFits(u, m) /\ list'[u][m] = t
      BY <1>1, <1>6 DEF OwnerFits
    <3>2. t # None => ContentsFed(t)'
      BY <1>13, <3>1 DEF TableFits
    <3>3. CASE m = n
      <4>1. (t # None /\ t.who # None) => GrantsFit(t.who, calls, Users)
        BY <1>9, <3>1, <3>3 DEF TableFits, GrantsFit
      <4>2. ~(t # None /\ t.who # None) => \A x \in Users : calls[x] # "in"
        BY <1>9, <3>1, <3>3 DEF TableFits
      <4> QED
        BY SMTT(40), <1>5, <1>11, <1>15, <3>1, <3>2, <3>3, <4>1, <4>2 DEF TableFits
    <3>4. CASE m # n
      BY <1>11, <3>1, <3>2, <3>4 DEF TableFits
    <3> QED
      BY <3>3, <3>4
  <2> QED
    BY <1>1, <1>6, <1>11, <2>1 DEF OwnerFits
<1>17. ListFits(u, w)'
  BY <1>1, <1>3, <1>6 DEF ChangeFits, ListFits
<1>18. HistoryFits(u, w)'
  <2>1. table.who = None => \A x \in Users : calls[x] # "in"
    BY <1>9, <1>14
  <2>2. table.who # None => GrantsFit(table.who, calls, Users \ named)
    BY <1>9, <1>14 DEF GrantsFit
  <2>3. HistoryFits(u, v)
    BY <1>1 DEF ChangeFits
  <2> QED
    BY <1>2, <1>3, <1>11, <2>1, <2>2, <2>3 DEF HistoryFits, table, named
<1>19. FeedFits(u, w)'
  <2>1. ASSUME NEW k \in DOMAIN table.content
        PROVE  Fed(table.content[k])'
    <3> PICK c \in acts!Content : c = table.content[k]
      BY <1>4, ContentsAreContents
    <3>1. Fed(c) \/ (c.owner = u /\ c.name = n)
      BY <1>1 DEF ChangeFits, FeedFits, table
    <3>2. CASE Fed(c)
      <4>1. Fed(c)'
        BY <1>12, <3>2
      <4> QED
        BY <4>1 DEF Fed, table
    <3>3. CASE c.owner = u /\ c.name = n
      <4>1. Fed(c)'
        BY <1>2, <1>5, <1>11, <3>3 DEF Fed
      <4> QED
        BY <4>1 DEF Fed, table
    <3> QED
      BY <3>1, <3>2, <3>3
  <2>2. ContentsFed(table)'
    BY <2>1 DEF ContentsFed, table
  <2>3. named # {} => feed'[u][n] = table.who
    BY <1>2, <1>5, <1>11, <1>14
  <2>4. ASSUME NEW c \in v.shares
        PROVE  Fed(c)'
    <3>1. c.owner = u /\ c.name = n
      BY <1>1 DEF ChangeFits, FeedFits
    <3> QED
      BY <1>2, <1>5, <1>11, <3>1 DEF Fed
  <2> QED
    BY <1>3, <2>2, <2>3, <2>4 DEF FeedFits, table, named
<1>20. \A c \in shared' : c \in acts!Content /\ Fed(c)'
  BY <1>6, <1>12 DEF ActsInv
<1>21. ChangeFits(u, w)'
  BY <1>17, <1>18, <1>19 DEF ChangeFits
<1>22. keysMade' \in Nat
  BY <1>6 DEF ActsInv
<1> QED
  BY <1>3, <1>10, <1>12, <1>16, <1>20, <1>21, <1>22, ActStepAloneKeepsInv

\* The list gets the table: the change is acknowledged.
LEMMA storeUserACTsKeepsInv ==
    ASSUME OneSessionEach, ActsInv, NEW s \in Sessions, acts!storeUserACTs(s)
    PROVE  ActsInv'
<1> PICK u \in Users : u = UserOf[s]
  BY TableFacts
<1> PICK v \in TableCall : v = change[s]
  BY TableFacts
<1> DEFINE n == v.name
           named == v.grant \cup v.revoke
           table == v.list[n]
<1>1. /\ OwnerFits(u) /\ v.do = "storeUserACTs" /\ ChangeFits(u, v)
      /\ DOMAIN list = Users /\ DOMAIN granted = Users /\ DOMAIN change = Sessions
  BY TableFacts DEF acts!storeUserACTs, acts!Does
<1>2. /\ n \in TableNames /\ v.list \in [TableNames -> acts!Table \cup {None}]
      /\ v.grant \in SUBSET Users /\ v.revoke \in SUBSET Users
  BY <1>1 DEF TableCall
<1>3. table \in acts!Table /\ table # None
  BY <1>1, <1>2 DEF ChangeFits, ListFits
<1> DEFINE calls == [x \in Users |-> IF x \in v.revoke THEN "out"
                                     ELSE IF x \in v.grant THEN "in" ELSE granted[u][n][x]]
<1>4. /\ list' = [list EXCEPT ![u] = v.list] /\ UNCHANGED <<feed, keysMade>>
      /\ granted' = [granted EXCEPT ![u][n] = calls]
      /\ change' = [change EXCEPT ![s] = acts!Idle]
      /\ shared' = shared \cup v.shares
  BY DEF acts!storeUserACTs, acts!Says, acts!Returns, acts!Goto
<1>5. calls \in [Users -> {"in", "out", "unsure"}]
  BY <1>1, <1>2 DEF OwnerFits
<1>6. \A x \in Users : calls[x] = IF x \in v.revoke THEN "out"
                                  ELSE IF x \in v.grant THEN "in" ELSE granted[u][n][x]
  OBVIOUS
<1> HIDE DEF calls, table, named
<1>7. /\ list'[u] = v.list /\ granted'[u] = [granted[u] EXCEPT ![n] = calls]
      /\ change'[s] = acts!Idle /\ Alters(change, change', s) /\ Alters(list, list', u)
      /\ Alters(feed, feed', u) /\ Alters(granted, granted', u)
  BY <1>1, <1>4 DEF Alters
<1>8. /\ granted'[u] \in [TableNames -> [Users -> {"in", "out", "unsure"}]]
      /\ \A m \in TableNames : granted'[u][m] = IF m = n THEN calls ELSE granted[u][m]
  BY <1>1, <1>2, <1>5, <1>7 DEF OwnerFits
<1>9. /\ v.grant \cap v.revoke = {}
      /\ table.who = None => named = {} /\ \A x \in Users : granted[u][n][x] # "in"
      /\ table.who # None => /\ v.grant \subseteq table.who /\ v.revoke \cap table.who = {}
                             /\ GrantsFit(table.who, granted[u][n], Users \ named)
      /\ named # {} => feed[u][n] = table.who
      /\ ContentsFed(table)
  BY <1>1 DEF ChangeFits, HistoryFits, FeedFits, table, named
<1>10. table.who # None => GrantsFit(table.who, calls, Users)
  BY <1>6, <1>9 DEF GrantsFit, named
<1>11. named = {} => \A x \in Users : calls[x] = granted[u][n][x]
  BY <1>6 DEF named
<1>12. \A t : ContentsFed(t) => ContentsFed(t)'
  BY <1>4 DEF ContentsFed, Fed
<1>13. OwnerFits(u)'
  <2>1. ASSUME NEW m \in TableNames
        PROVE  TableFits(u, m)'
    <3>1. TableFits(u, m)
      BY <1>1 DEF OwnerFits
    <3>2. CASE m = n
      <4>1. list'[u][m] = table /\ granted'[u][m] = calls /\ feed'[u][m] = feed[u][m]
        BY <1>2, <1>4, <1>7, <1>8, <3>2 DEF table
      <4>2. feed[u][m] # None => GrantsFit(feed[u][m], calls, Users)
        <5>1. CASE named = {}
          BY <1>11, <3>1, <3>2, <5>1 DEF TableFits, GrantsFit
        <5>2. CASE named # {}
          BY <1>9, <1>10, <3>2, <5>2
        <5> QED
          BY <5>1, <5>2
      <4>3. feed[u][m] = None => \A x \in Users : calls[x] = "out"
        <5>1. feed[u][m] = None => named = {}
          BY <1>9, <3>2
        <5> QED
          BY <1>11, <3>1, <3>2, <5>1 DEF TableFits
      <4>4. table.who = None => \A x \in Users : calls[x] # "in"
        BY <1>9, <1>11
      <4>5. ContentsFed(table)'
        BY <1>9, <1>12
      <4>6. ContentsFed(list[u][m])' <=> ContentsFed(table)'
        BY <4>1 DEF ContentsFed
      <4> QED
        BY <1>3, <1>10, <4>1, <4>2, <4>3, <4>4, <4>5, <4>6 DEF TableFits
    <3>3. CASE m # n
      <4>1. list'[u][m] = list[u][m] /\ granted'[u][m] = granted[u][m] /\ feed' = feed
        BY <1>1, <1>4, <1>7, <1>8, <3>3 DEF ChangeFits, ListFits
      <4>2. ContentsFed(list[u][m]) => ContentsFed(list[u][m])'
        BY <4>1 DEF ContentsFed, Fed
      <4> QED
        BY <3>1, <4>1, <4>2 DEF TableFits
    <3> QED
      BY <3>2, <3>3
  <2> QED
    BY <1>1, <1>2, <1>4, <1>7, <1>8, <2>1 DEF OwnerFits
<1>14. \A c \in shared' : c \in acts!Content /\ Fed(c)'
  <2> SUFFICES ASSUME NEW c \in shared'
               PROVE  c \in acts!Content /\ Fed(c)
    BY <1>4 DEF Fed
  <2>1. CASE c \in shared
    BY <2>1 DEF ActsInv
  <2>2. CASE c \notin shared
    <3>1. c \in v.shares
      BY <1>4, <2>2
    <3> QED
      BY <1>1, <3>1 DEF TableCall, ChangeFits, FeedFits
  <2> QED
    BY <2>1, <2>2
<1>15. acts!Idle \in TableCall /\ acts!Idle.do = "idle"
  BY DEF acts!Idle, TableCall
<1>16. \A c \in acts!Content : Fed(c) => Fed(c)'
  BY <1>4 DEF Fed
<1>17. keysMade' \in Nat
  BY <1>4 DEF ActsInv
<1> QED
  BY <1>7, <1>13, <1>14, <1>15, <1>16, <1>17, ActStepAloneKeepsInv

-----------------------------------------------------------------------------
LEMMA ActsStepKeepsInv ==
    ASSUME OneSessionEach, ~MayMissList, ActsInv, acts!Next
    PROVE  ActsInv'
<1> PICK s \in Sessions : acts!Step(s)
  BY DEF acts!Next
<1>1. TablesOf[UserOf[s]] \subseteq TableNames
  BY ServicesAssumption DEF ServicesAssumption
<1>2. ASSUME NEW n \in TableNames, NEW u \in Users, acts!CreateACT(s, n, u)
      PROVE  ActsInv'
  BY <1>2, CreateACTKeepsInv
<1>3. ASSUME NEW n \in TableNames, NEW grant \in SUBSET Users, NEW revoke \in SUBSET Users,
             grant \cap revoke = {}, acts!UpdateACT(s, n, grant, revoke)
      PROVE  ActsInv'
  BY <1>3, UpdateACTKeepsInv
<1>4. ASSUME NEW n \in TableNames, NEW pod \in Pods, acts!GrantAccess(s, n, pod)
      PROVE  ActsInv'
  BY <1>4, GrantAccessKeepsInv
<1>5. ASSUME NEW n \in TableNames, NEW c \in shared, acts!SaveGrantedPod(s, n, c)
      PROVE  ActsInv'
  BY <1>5, SaveGrantedPodKeepsInv
<1>6. \A set \in {{}} \cup {{u} : u \in Users \ {UserOf[s]}} : set \in SUBSET Users
  OBVIOUS
<1> QED
  BY <1>1, <1>2, <1>3, <1>4, <1>5, <1>6, writeFeedKeepsInv, storeUserACTsKeepsInv, FailKeepsInv
     DEF acts!Step

-----------------------------------------------------------------------------
\* What was shared of a table since its last revocation has the key that the history in
\* its feed gives, which is that of the table in the list.
KeysAgree(u, n) ==
    LET table == list[u][n] IN
    /\ table = None => readable[u][n] = {}
    /\ (table # None /\ table.who # None) =>
          \A c \in readable[u][n] : c.key = table.key /\ c.key = accessKey[u][n]

\* And that of the table a change is about to store.
KeysFit(u, w) ==
    LET table == w.list[w.name] IN
    table.who # None =>
        /\ \A c \in w.shares : c.key = table.key
        /\ (w.do # "storeUserACTs" => w.key = table.key)
        /\ (w.do = "storeUserACTs" => accessKey[u][w.name] = table.key)
        /\ (w.do = "storeUserACTs" \/ w.revoke = {}) =>
              \A c \in readable[u][w.name] : c.key = table.key

KeysInv ==
    /\ DOMAIN accessKey = Users /\ DOMAIN readable = Users
    /\ \A u \in Users :
          /\ DOMAIN accessKey[u] = TableNames /\ DOMAIN readable[u] = TableNames
          /\ \A n \in TableNames : KeysAgree(u, n)
    /\ \A s \in Sessions : change[s].do # "idle" => KeysFit(UserOf[s], change[s])

\* A step of a session that leaves what other users have alone.
LEMMA ActStepAloneKeepsKeys ==
    ASSUME OneSessionEach, ActsInv, KeysInv, NEW s \in Sessions,
           Alters(list, list', UserOf[s]), Alters(accessKey, accessKey', UserOf[s]),
           Alters(readable, readable', UserOf[s]), Alters(change, change', s),
           DOMAIN accessKey'[UserOf[s]] = TableNames, DOMAIN readable'[UserOf[s]] = TableNames,
           \A n \in TableNames : KeysAgree(UserOf[s], n)',
           NEW w, change'[s] = w, w.do # "idle" => KeysFit(UserOf[s], w)'
    PROVE  KeysInv'
<1>1. DOMAIN accessKey' = Users /\ DOMAIN readable' = Users
  BY DEF KeysInv, Alters
<1>2. ASSUME NEW u \in Users, u # UserOf[s]
      PROVE  /\ accessKey'[u] = accessKey[u] /\ readable'[u] = readable[u]
             /\ list'[u] = list[u]
  BY <1>2 DEF KeysInv, ActsInv, Alters
<1>3. ASSUME NEW u \in Users
      PROVE  /\ DOMAIN accessKey'[u] = TableNames /\ DOMAIN readable'[u] = TableNames
             /\ \A n \in TableNames : KeysAgree(u, n)'
  <2>1. CASE u = UserOf[s]
    BY <2>1
  <2>2. CASE u # UserOf[s]
    BY <1>2, <2>2 DEF KeysInv, KeysAgree
  <2> QED
    BY <2>1, <2>2
<1>4. ASSUME NEW t \in Sessions
      PROVE  (change[t].do # "idle" => KeysFit(UserOf[t], change[t]))'
  <2>1. CASE t = s
    BY <2>1
  <2>2. CASE t # s
    <3> PICK v : v = change[t]
      OBVIOUS
    <3>1. change'[t] = v /\ UserOf[t] # UserOf[s] /\ UserOf[t] \in Users
      BY <2>2, TableFacts DEF OneSessionEach, Alters
    <3>2. v.do # "idle" => KeysFit(UserOf[t], v)
      BY DEF KeysInv
    <3>3. v.do # "idle" => KeysFit(UserOf[t], v)'
      BY <1>2, <3>1, <3>2 DEF KeysFit
    <3> QED
      BY <3>1, <3>3
  <2> QED
    BY <2>1, <2>2
<1> QED
  BY <1>1, <1>3, <1>4 DEF KeysInv

\* A step of a call that only goes on with w.
LEMMA TableCallKeepsKeys ==
    ASSUME OneSessionEach, ActsInv, KeysInv, NEW s \in Sessions, NEW w, acts!Goto(s, w),
           w.do # "idle" => KeysFit(UserOf[s], w), UNCHANGED <<list, accessKey, readable>>
    PROVE  KeysInv'
<1>1. change'[s] = w /\ Alters(change, change', s)
  BY TableFacts DEF acts!Goto, Alters
<1>2. Alters(list, list', UserOf[s]) /\ Alters(accessKey, accessKey', UserOf[s])
      /\ Alters(readable, readable', UserOf[s])
  BY DEF Alters
<1>3. /\ DOMAIN accessKey'[UserOf[s]] = TableNames /\ DOMAIN readable'[UserOf[s]] = TableNames
      /\ \A n \in TableNames : KeysAgree(UserOf[s], n)'
  BY TableFacts DEF KeysInv, KeysAgree
<1>4. w.do # "idle" => KeysFit(UserOf[s], w)'
  BY DEF KeysFit
<1> QED
  BY <1>1, <1>2, <1>3, <1>4, ActStepAloneKeepsKeys

\* What a change begins with.
LEMMA ChangeKeepsKeys ==
    ASSUME OneSessionEach, ActsInv, KeysInv, NEW s \in Sessions, NEW n \in TableNames,
           NEW table, NEW step, NEW who, NEW grant, NEW revoke, NEW key, NEW shares,
           acts!Change(s, list[UserOf[s]], n, table, step, who, key, grant, revoke, shares),
           UNCHANGED <<list, accessKey, readable>>,
           table.who # None =>
              /\ step # "storeUserACTs" /\ key = table.key
              /\ \A c \in shares : c.key = table.key
              /\ revoke = {} => \A c \in readable[UserOf[s]][n] : c.key = table.key
    PROVE  KeysInv'
<1> DEFINE u == UserOf[s]
           w == [do |-> step, name |-> n, who |-> who, key |-> key,
                 list |-> [list[u] EXCEPT ![n] = table],
                 grant |-> grant, revoke |-> revoke, shares |-> shares]
<1>1. acts!Goto(s, w)
  BY DEF acts!Change
<1>2. w.list[n] = table
  BY TableFacts DEF OwnerFits
<1>3. /\ w.do = step /\ w.name = n /\ w.key = key /\ w.revoke = revoke /\ w.shares = shares
  OBVIOUS
<1> HIDE DEF w
<1>4. KeysFit(u, w)
  BY <1>2, <1>3 DEF KeysFit
<1> QED
  BY <1>1, <1>4, TableCallKeepsKeys

LEMMA CreateACTKeepsKeys ==
    ASSUME OneSessionEach, ~MayMissList, ActsInv, KeysInv, NEW s \in Sessions,
           NEW n \in TableNames, NEW grant \in Users, acts!CreateACT(s, n, grant)
    PROVE  KeysInv'
<1> DEFINE u == UserOf[s]
           named == {grant}
           none == {}
           key == acts!FreshKey
           table == [who |-> named, key |-> key, content |-> <<>>]
<1>1. /\ list[u][n] = None
      /\ acts!Change(s, list[u], n, table, "CreateFeed", named, key, named, none, none)
      /\ UNCHANGED <<list, accessKey, readable>>
  BY DEF acts!CreateACT, acts!loadUserACTs
<1>2. readable[u][n] = {}
  BY <1>1, TableFacts DEF KeysInv, KeysAgree
<1>3. table.key = key /\ \A c \in none : FALSE
  OBVIOUS
<1> HIDE DEF table, key, none, named
<1> QED
  BY <1>1, <1>2, <1>3, ChangeKeepsKeys

LEMMA UpdateACTKeepsKeys ==
    ASSUME OneSessionEach, ~MayMissList, ActsInv, KeysInv, NEW s \in Sessions,
           NEW n \in TableNames, NEW grant, NEW revoke, acts!UpdateACT(s, n, grant, revoke)
    PROVE  KeysInv'
<1> DEFINE u == UserOf[s]
           old == list[u][n]
           who == (old.who \cup grant) \ revoke
           key == IF revoke = {} THEN old.key ELSE acts!FreshKey
           table == [old EXCEPT !.who = who, !.key = key]
           none == {}
<1>1. /\ old # None /\ old.who # None
      /\ acts!Change(s, list[u], n, table, "UpdateFeed", who, key, grant, revoke, none)
      /\ UNCHANGED <<list, accessKey, readable>>
  <2>1. acts!loadUserACTs(u) = {list[u]}
    BY DEF acts!loadUserACTs
  <2> QED
    BY <2>1 DEF acts!UpdateACT, acts!WithHistory
<1>2. \A c \in readable[u][n] : c.key = old.key
  BY <1>1, TableFacts DEF KeysInv, KeysAgree
<1>3. old \in acts!Table
  BY <1>1, TableFacts DEF OwnerFits
<1>4. table.key = key
  <2> HIDE DEF old, who, key
  <2> QED
    BY <1>3 DEF acts!Table
<1>5. revoke = {} => key = old.key
  OBVIOUS
<1>6. \A c \in none : FALSE
  OBVIOUS
<1> HIDE DEF table, key, none, who, old
<1> QED
  BY <1>1, <1>2, <1>4, <1>5, <1>6, ChangeKeepsKeys

LEMMA GrantAccessKeepsKeys ==
    ASSUME OneSessionEach, ~MayMissList, ActsInv, KeysInv, NEW s \in Sessions,
           NEW n \in TableNames, NEW pod, acts!GrantAccess(s, n, pod)
    PROVE  KeysInv'
<1> DEFINE u == UserOf[s]
           old == list[u][n]
           key == IF old.who = None THEN acts!FreshKey ELSE old.key
           new == [owner |-> u, name |-> n, pod |-> pod, key |-> key]
           shares == {new}
           table == [old EXCEPT !.content = Append(@, new)]
           none == {}
           who == IF old.who = None THEN {} ELSE old.who
<1>1. /\ old # None
      /\ acts!Change(s, list[u], n, table, "UpdateFeed", who, key, none, none, shares)
      /\ UNCHANGED <<list, accessKey, readable>>
  <2>1. acts!loadUserACTs(u) = {list[u]}
    BY DEF acts!loadUserACTs
  <2> QED
    BY <2>1 DEF acts!GrantAccess
<1>2. old.who # None => \A c \in readable[u][n] : c.key = old.key
  BY <1>1, TableFacts DEF KeysInv, KeysAgree
<1>3. old \in acts!Table
  BY <1>1, TableFacts DEF OwnerFits
<1>4. table.key = old.key /\ table.who = old.who
  <2> HIDE DEF old, new
  <2> QED
    BY <1>3 DEF acts!Table
<1>5. old.who # None => key = old.key
  OBVIOUS
<1>6. \A c \in shares : c.key = key
  OBVIOUS
<1> HIDE DEF table, new, shares, key, none, who, old
<1> QED
  BY <1>1, <1>2, <1>4, <1>5, <1>6, ChangeKeepsKeys

LEMMA SaveGrantedPodKeepsKeys ==
    ASSUME OneSessionEach, ~MayMissList, ActsInv, KeysInv, NEW s \in Sessions,
           NEW n \in TableNames, NEW c \in shared, acts!SaveGrantedPod(s, n, c)
    PROVE  KeysInv'
<1> DEFINE u == UserOf[s]
           none == {}
           table == [who |-> None, key |-> 0, content |-> <<c>>]
<1>1. /\ acts!Change(s, list[u], n, table, "storeUserACTs", none, 0, none, none, none)
      /\ UNCHANGED <<list, accessKey, readable>>
  BY DEF acts!SaveGrantedPod, acts!loadUserACTs
<1>2. table.who = None
  OBVIOUS
<1> HIDE DEF table, none
<1> QED
  BY <1>1, <1>2, ChangeKeepsKeys

\* The feed's history gives the key of the table that will be stored: the one before, or a
\* new one, with nothing shared yet.
LEMMA writeFeedKeepsKeys ==
    ASSUME OneSessionEach, ActsInv, KeysInv, NEW s \in Sessions, acts!writeFeed(s)
    PROVE  KeysInv'
<1> PICK u \in Users : u = UserOf[s]
  BY TableFacts
<1> PICK v \in TableCall : v = change[s]
  BY TableFacts
<1> DEFINE n == v.name
           table == v.list[n]
           left == IF v.revoke = {} THEN readable[u][n] ELSE {}
           w == [v EXCEPT !.do = "storeUserACTs"]
<1>1. /\ v.do \in {"CreateFeed", "UpdateFeed"} /\ ChangeFits(u, v) /\ KeysFit(u, v)
      /\ DOMAIN list = Users /\ DOMAIN change = Sessions
  BY TableFacts DEF acts!writeFeed, acts!Does, KeysInv
<1>2. n \in TableNames
  BY <1>1 DEF TableCall
<1>3. /\ w.do = "storeUserACTs" /\ w.name = n /\ w.list = v.list /\ w.shares = v.shares
  BY <1>1 DEF TableCall
<1>4. /\ UNCHANGED list /\ change' = [change EXCEPT ![s] = w]
      /\ accessKey' = [accessKey EXCEPT ![u][n] = v.key]
      /\ readable' = [readable EXCEPT ![u][n] = left]
  BY DEF acts!writeFeed, acts!Goto
<1> HIDE DEF left, w, table
<1>5. /\ DOMAIN accessKey = Users /\ DOMAIN readable = Users
      /\ DOMAIN accessKey[u] = TableNames /\ DOMAIN readable[u] = TableNames
      /\ \A m \in TableNames : KeysAgree(u, m)
  BY DEF KeysInv
<1>6. /\ change'[s] = w /\ Alters(change, change', s) /\ Alters(list, list', u)
      /\ Alters(accessKey, accessKey', u) /\ Alters(readable, readable', u)
  BY <1>1, <1>4, <1>5 DEF Alters
<1>7. /\ DOMAIN accessKey'[u] = TableNames /\ DOMAIN readable'[u] = TableNames
      /\ \A m \in TableNames :
            /\ accessKey'[u][m] = IF m = n THEN v.key ELSE accessKey[u][m]
            /\ readable'[u][m] = IF m = n THEN left ELSE readable[u][m]
  BY <1>4, <1>5
<1>8. left \subseteq readable[u][n] /\ (v.revoke # {} => left = {})
  BY DEF left
<1>9. table.who # None => /\ v.key = table.key /\ \A c \in left : c.key = table.key
                          /\ \A c \in v.shares : c.key = table.key
  BY <1>1, <1>8 DEF KeysFit, table
<1>10. KeysFit(u, w)'
  BY <1>2, <1>3, <1>7, <1>9 DEF KeysFit, table
<1>11. ASSUME NEW m \in TableNames
       PROVE  KeysAgree(u, m)'
  <2>1. KeysAgree(u, m) /\ list'[u][m] = list[u][m]
    BY <1>4, <1>5
  <2>2. CASE m # n
    BY <1>7, <2>1, <2>2 DEF KeysAgree
  <2>3. CASE m = n
    <3>1. (list[u][m] # None /\ list[u][m].who # None) => table.who # None
      BY <1>1, <2>3 DEF ChangeFits, ListFits, table
    <3>2. /\ accessKey'[u][m] = v.key /\ readable'[u][m] = left
      BY <1>7, <2>3
    <3>3. \A c \in left : c \in readable[u][m]
      BY <1>8, <2>3
    <3> QED
      BY <1>9, <2>1, <3>1, <3>2, <3>3 DEF KeysAgree
  <2> QED
    BY <2>2, <2>3
<1> QED
  BY <1>6, <1>7, <1>10, <1>11, ActStepAloneKeepsKeys

\* The list gets the table, and what the change shared can be read.
LEMMA storeUserACTsKeepsKeys ==
    ASSUME OneSessionEach, ActsInv, KeysInv, NEW s \in Sessions, acts!storeUserACTs(s)
    PROVE  KeysInv'
<1> PICK u \in Users : u = UserOf[s]
  BY TableFacts
<1> PICK v \in TableCall : v = change[s]
  BY TableFacts
<1> DEFINE n == v.name
           table == v.list[n]
           more == readable[u][n] \cup v.shares
<1>1. /\ v.do = "storeUserACTs" /\ ChangeFits(u, v) /\ KeysFit(u, v)
      /\ DOMAIN list = Users /\ DOMAIN change = Sessions
  BY TableFacts DEF acts!storeUserACTs, acts!Does, KeysInv
<1>2. n \in TableNames
  BY <1>1 DEF TableCall
<1>3. /\ list' = [list EXCEPT ![u] = v.list] /\ UNCHANGED accessKey
      /\ change' = [change EXCEPT ![s] = acts!Idle]
      /\ readable' = [readable EXCEPT ![u][n] = more]
  BY DEF acts!storeUserACTs, acts!Returns, acts!Goto
<1>4. /\ DOMAIN accessKey = Users /\ DOMAIN readable = Users
      /\ DOMAIN accessKey[u] = TableNames /\ DOMAIN readable[u] = TableNames
      /\ \A m \in TableNames : KeysAgree(u, m)
  BY DEF KeysInv
<1>5. table.who # None => /\ accessKey[u][n] = table.key
                          /\ \A c \in more : c.key = table.key
  BY <1>1 DEF KeysFit
<1>6. table # None
  BY <1>1 DEF ChangeFits, ListFits
<1>7. \A m \in TableNames : m # n => v.list[m] = list[u][m]
  BY <1>1 DEF ChangeFits, ListFits
<1> HIDE DEF more, table
<1>8. /\ change'[s] = acts!Idle /\ Alters(change, change', s) /\ Alters(list, list', u)
      /\ Alters(accessKey, accessKey', u) /\ Alters(readable, readable', u)
      /\ list'[u] = v.list
  BY <1>1, <1>3, <1>4 DEF Alters
<1>9. /\ DOMAIN accessKey'[u] = TableNames /\ DOMAIN readable'[u] = TableNames
      /\ \A m \in TableNames : readable'[u][m] = IF m = n THEN more ELSE readable[u][m]
  BY <1>3, <1>4
<1>10. ASSUME NEW m \in TableNames
       PROVE  KeysAgree(u, m)'
  <2>1. CASE m # n
    BY <1>3, <1>4, <1>7, <1>8, <1>9, <2>1 DEF KeysAgree
  <2>2. CASE m = n
    <3>1. list'[u][m] = table /\ readable'[u][m] = more /\ accessKey'[u][m] = accessKey[u][n]
      BY <1>3, <1>8, <1>9, <2>2 DEF table
    <3> QED
      BY <1>5, <1>6, <3>1 DEF KeysAgree
  <2> QED
    BY <2>1, <2>2
<1>11. acts!Idle.do = "idle"
  BY DEF acts!Idle
<1> QED
  BY <1>8, <1>9, <1>10, <1>11, ActStepAloneKeepsKeys

LEMMA FailKeepsKeys ==
    ASSUME OneSessionEach, ActsInv, KeysInv, NEW s \in Sessions, acts!Fail(s)
    PROVE  KeysInv'
<1>1. acts!Idle.do = "idle"
  BY DEF acts!Idle
<1> QED
  BY <1>1, TableCallKeepsKeys DEF acts!Fail, acts!Returns

LEMMA ActsStepKeepsKeys ==
    ASSUME OneSessionEach, ~MayMissList, ActsInv, KeysInv, acts!Next
    PROVE  KeysInv'
<1> PICK s \in Sessions : acts!Step(s)
  BY DEF acts!Next
<1>1. TablesOf[UserOf[s]] \subseteq TableNames
  BY ServicesAssumption DEF ServicesAssumption
<1> QED
  BY <1>1, CreateACTKeepsKeys, UpdateACTKeepsKeys, GrantAccessKeepsKeys, SaveGrantedPodKeepsKeys,
     writeFeedKeepsKeys, storeUserACTsKeepsKeys, FailKeepsKeys DEF acts!Step

LEMMA ActsInitFits ==
    ASSUME acts!Init
    PROVE  ActsInv /\ KeysInv
<1>1. acts!NoTables = [n \in TableNames |-> None] /\ \A n \in TableNames : acts!NoTables[n] = None
  BY DEF acts!NoTables
<1>2. \A u \in Users : OwnerFits(u)
  BY <1>1 DEF acts!Init, OwnerFits, TableFits
<1>3. acts!Idle \in TableCall /\ acts!Idle.do = "idle"
  BY DEF acts!Idle, TableCall
<1>4. ActsInv
  BY <1>2, <1>3 DEF acts!Init, ActsInv
<1>5. KeysInv
  BY <1>1, <1>3 DEF acts!Init, KeysInv, KeysAgree, acts!Idle
<1> QED
  BY <1>4, <1>5

LEMMA ActsStayFit ==
    ASSUME OneSessionEach, ~MayMissList
    PROVE  ServicesSpec => [](Part("acts") => ActsInv /\ KeysInv)
<1>1. ServicesInit => (Part("acts") => ActsInv /\ KeysInv)
  BY ActsInitFits DEF ServicesInit, Part
<1>2. ASSUME Part("acts") => ActsInv /\ KeysInv, [ServicesNext]_serviceVars
      PROVE  (Part("acts") => ActsInv /\ KeysInv)'
  <2>1. UNCHANGED part
    BY <1>2 DEF ServicesNext, serviceVars
  <2>2. CASE UNCHANGED serviceVars
    <3>1. UNCHANGED <<list, feed, shared, change, granted, keysMade>>
      BY <2>2 DEF serviceVars, actVars
    <3>2. \A u \in Users : OwnerFits(u) => OwnerFits(u)'
      BY <3>1 DEF OwnerFits, TableFits, ContentsFed, Fed
    <3>3. ASSUME NEW s \in Sessions, NEW v, ChangeFits(UserOf[s], v)
          PROVE  ChangeFits(UserOf[s], v)'
      BY <3>1, <3>3 DEF ChangeFits, ListFits, HistoryFits, FeedFits, ContentsFed, Fed
    <3>4. ASSUME ActsInv, NEW s \in Sessions
          PROVE  (change[s].do # "idle" => ChangeFits(UserOf[s], change[s]))'
      <4> PICK v : v = change[s]
        OBVIOUS
      <4> QED
        BY <3>1, <3>3, <3>4 DEF ActsInv
    <3>5. ASSUME ActsInv
          PROVE  ActsInv'
      BY <3>1, <3>2, <3>4, <3>5 DEF ActsInv, Fed
    <3>6. ASSUME ActsInv, KeysInv
          PROVE  KeysInv'
      <4>1. UNCHANGED <<list, change, accessKey, readable>>
        BY <2>2 DEF serviceVars, actVars
      <4> QED
        BY <3>6, <4>1 DEF KeysInv, KeysAgree, KeysFit
    <3> QED
      BY <1>2, <2>1, <3>5, <3>6 DEF Part
  <2>3. CASE Part("acts") /\ acts!Next
    BY <1>2, <2>3, ActsStepKeepsInv, ActsStepKeepsKeys
  <2>4. CASE ~Part("acts")
    BY <2>1, <2>4 DEF Part
  <2> QED
    BY <1>2, <2>2, <2>3, <2>4 DEF ServicesNext, Part
<1> QED
  BY <1>1, <1>2, PTL DEF ServicesSpec

\* A content opens to whom the acknowledged calls of its owner gave access, if it was shared
\* after the last revocation, and not to a user they took it from, whichever table it was
\* saved in and whatever failed (act.go, grant.go), for any users, tables and contents, if
\* each user has one session and finds his list.
THEOREM GrantsStayInForce ==
    ASSUME OneSessionEach, ~MayMissList
    PROVE  ServicesSpec => []GrantsInForce
<1>1. (Part("acts") => ActsInv /\ KeysInv) => GrantsInForce
  <2> SUFFICES ASSUME ActsInv, KeysInv, NEW u \in Users, NEW n \in TableNames,
                      list[u][n] # None, list[u][n].content # <<>>,
                      list[u][n].content[1].owner # u
               PROVE  LET c == list[u][n].content[1]
                          access == granted[c.owner][c.name][u]
                      IN  /\ access = "in" /\ c \in readable[c.owner][c.name] =>
                                acts!GetPodAccess(u, n) = c
                          /\ access = "out" => acts!GetPodAccess(u, n) = None
    BY DEF GrantsInForce, acts!GrantsInForce
  <2>1. OwnerFits(u) /\ list[u][n] \in acts!Table
    BY DEF ActsInv, OwnerFits
  <2>2. 1 \in DOMAIN list[u][n].content
    BY <2>1 DEF acts!Table
  <2> DEFINE c == list[u][n].content[1]
             calls == granted[c.owner][c.name]
             table == list[c.owner][c.name]
  <2>3. c \in acts!Content /\ Fed(c)
    BY <2>1, <2>2, ContentsAreContents DEF OwnerFits, TableFits, ContentsFed
  <2>4. c.owner \in Users /\ c.name \in TableNames
    BY <2>3 DEF acts!Content
  <2> HIDE DEF c
  <2>5. TableFits(c.owner, c.name) /\ KeysAgree(c.owner, c.name)
    BY <2>4 DEF ActsInv, OwnerFits, KeysInv
  <2>6. GrantsFit(feed[c.owner][c.name], calls, Users)
    BY <2>3, <2>5 DEF TableFits, Fed
  <2>7. calls[u] = "in" => table # None /\ table.who # None
    BY <2>5 DEF TableFits
  <2>8. calls[u] = "in" /\ c \in readable[c.owner][c.name] =>
           c.key = accessKey[c.owner][c.name]
    BY <2>5, <2>7 DEF KeysAgree
  <2>9. acts!GetPodAccess(u, n) =
           IF u \in feed[c.owner][c.name] /\ c.key = accessKey[c.owner][c.name]
           THEN c ELSE None
    BY DEF acts!GetPodAccess, c
  <2> QED
    BY <2>6, <2>8, <2>9 DEF GrantsFit, c
<1> QED
  BY <1>1, ActsStayFit, PTL

-----------------------------------------------------------------------------
\* User accounts

Account == [place: UserNames \cup {accounts!Wallet}, pass: Passwords \cup Signatures,
            addr: Addresses, name: UserNames]
User == [name: UserNames, addr: Addresses, lite: BOOLEAN]
AccountCall == [do: {"idle"}]
   \cup [do: {"RegisterSubdomain", "SetAll", "uploadNew", "uploadWallet", "addNew"},
         account: Account]
   \cup [do: {"login", "connect"}, place: UserNames, pass: Passwords, addr: Addresses]
   \cup [do: {"logout", "delete"}, session: Logins, place: UserNames, pass: Passwords,
         addr: Addresses]

AccountsTyped ==
    /\ owner \in [UserNames -> Addresses \cup {None}]
    /\ portable \subseteq Account
    /\ userMap \in [Logins -> User \cup {None}]
    /\ userCall \in [Calls -> AccountCall]
    /\ signedUp \subseteq Account /\ deleted \subseteq Account

Owned(a) == owner[a.name] = a.addr

\* What a call relies on from its earlier steps.
Promised(rest) ==
    /\ rest.do \in {"SetAll", "uploadNew", "uploadWallet", "addNew"} => Owned(rest.account)
    /\ rest.do \in {"login", "connect"} => owner[rest.place] = rest.addr
    /\ rest.do = "addNew" => rest.account \in portable \cup deleted

CallsKeepPromises == \A c \in Calls : Promised(userCall[c])
AccountsAreOwned == \A a \in portable : Owned(a)
PlacesAreUnique == \A a, b \in portable : accounts!Place(a) = accounts!Place(b) => a = b
SignedUpIsThere == \A a \in signedUp : Owned(a) /\ a \in portable \cup deleted
UsersAreOwners == \A s \in Logins :
                     userMap[s] # None => (userMap[s].lite \/ Owned(userMap[s]))

AccountsInv == /\ AccountsTyped /\ CallsKeepPromises /\ AccountsAreOwned /\ PlacesAreUnique
        /\ SignedUpIsThere /\ UsersAreOwners

-----------------------------------------------------------------------------
\* A call that ends, or goes on with `rest`, and changes nothing else.
LEMMA GoingOnKeepsAccountsInv ==
    ASSUME AccountsInv, NEW c \in Calls, NEW rest \in AccountCall, accounts!Goto(c, rest),
       Promised(rest),
           UNCHANGED <<owner, portable, userMap, signedUp, deleted>>
    PROVE  AccountsInv'
<1>1. AccountsTyped'
  BY DEF AccountsInv, AccountsTyped, accounts!Goto
<1>2. CallsKeepPromises'
  <2> SUFFICES ASSUME NEW d \in Calls
               PROVE  Promised(userCall[d])'
    BY DEF CallsKeepPromises
  <2>1. userCall'[d] = IF d = c THEN rest ELSE userCall[d]
    BY DEF AccountsInv, AccountsTyped, accounts!Goto
  <2>2. Promised(userCall'[d])
    BY <2>1 DEF AccountsInv, CallsKeepPromises
  <2> QED
    BY <2>2 DEF Promised, Owned
<1>3. AccountsAreOwned' /\ PlacesAreUnique' /\ SignedUpIsThere' /\ UsersAreOwners'
  BY DEF AccountsInv, AccountsAreOwned, PlacesAreUnique, SignedUpIsThere, UsersAreOwners, Owned,
     accounts!Place
<1> QED
  BY <1>1, <1>2, <1>3 DEF AccountsInv

\* A call that may always end.
LEMMA IdleIsPromised == accounts!Idle \in AccountCall /\ Promised(accounts!Idle)
  BY DEF accounts!Idle, AccountCall, Promised

\* A call that ends with a new session of a user who owns the name, or a lite one.
LEMMA AddingKeepsAccountsInv ==
    ASSUME AccountsInv, NEW c \in Calls, NEW user \in User, user.lite \/ Owned(user),
           accounts!addUserToMap(c, user), UNCHANGED <<accounts!chain, portable, deleted>>,
           signedUp' \subseteq Account,
           \A a \in signedUp' : Owned(a) /\ a \in portable \cup deleted
    PROVE  AccountsInv'
<1> USE DEF accounts!chain
<1>1. PICK s \in Logins : userMap' = [userMap EXCEPT ![s] = user]
  BY DEF accounts!addUserToMap
<1>2. userCall' = [userCall EXCEPT ![c] = accounts!Idle]
  BY DEF accounts!addUserToMap, accounts!Returns, accounts!Goto
<1>3. AccountsTyped'
  BY <1>1, <1>2, IdleIsPromised DEF AccountsInv, AccountsTyped
<1>4. CallsKeepPromises'
  <2> SUFFICES ASSUME NEW d \in Calls
               PROVE  Promised(userCall[d])'
    BY DEF CallsKeepPromises
  <2>1. userCall'[d] = IF d = c THEN accounts!Idle ELSE userCall[d]
    BY <1>2 DEF AccountsInv, AccountsTyped
  <2>2. Promised(userCall'[d])
    BY <2>1, IdleIsPromised DEF AccountsInv, CallsKeepPromises
  <2> QED
    BY <2>2 DEF Promised, Owned
<1>5. AccountsAreOwned' /\ PlacesAreUnique' /\ SignedUpIsThere'
  BY DEF AccountsInv, AccountsAreOwned, PlacesAreUnique, SignedUpIsThere, Owned, accounts!Place
<1>6. UsersAreOwners'
  BY <1>1 DEF AccountsInv, AccountsTyped, UsersAreOwners, Owned
<1> QED
  BY <1>3, <1>4, <1>5, <1>6 DEF AccountsInv

-----------------------------------------------------------------------------
\* RegisterSubdomain: an owner is never replaced, so what was owned stays owned.
LEMMA RegisteringKeepsAccountsInv ==
    ASSUME None \notin Addresses, AccountsInv, NEW c \in Calls, accounts!RegisterSubdomain(c)
    PROVE  AccountsInv'
<1> DEFINE a == userCall[c].account
<1>1. a \in Account /\ a.name \in UserNames /\ a.addr \in Addresses
  BY DEF AccountsInv, AccountsTyped, AccountCall, Account, accounts!RegisterSubdomain,
     accounts!Does
<1>2. CASE owner[a.name] # None
  BY <1>2, GoingOnKeepsAccountsInv, IdleIsPromised DEF accounts!RegisterSubdomain,
     accounts!Returns, accounts!chain
<1>3. CASE owner[a.name] = None
  <2>1. owner' = [owner EXCEPT ![a.name] = a.addr]
    BY <1>3 DEF accounts!RegisterSubdomain
  <2>2. PICK rest \in {accounts!Idle, [userCall[c] EXCEPT !.do = "SetAll"]} : accounts!Goto(c,
     rest)
    BY <1>3 DEF accounts!RegisterSubdomain, accounts!Then, accounts!Returns
  <2>3. rest \in AccountCall
    BY <1>1, <2>2, IdleIsPromised DEF AccountsInv, AccountsTyped, AccountCall,
       accounts!RegisterSubdomain, accounts!Does
  <2>4. UNCHANGED <<portable, userMap, signedUp, deleted>>
    BY DEF accounts!RegisterSubdomain
  <2>5. \A n \in UserNames : owner[n] # None => owner'[n] = owner[n]
    BY <1>3, <2>1 DEF AccountsInv, AccountsTyped
  <2>6. \A b : (b.name \in UserNames /\ b.addr \in Addresses /\ Owned(b)) => Owned(b)'
    BY <2>5 DEF Owned
  <2>7. owner'[a.name] = a.addr
    BY <1>1, <2>1 DEF AccountsInv, AccountsTyped
  <2>8. AccountsTyped'
    BY <1>1, <2>1, <2>2, <2>3, <2>4 DEF AccountsInv, AccountsTyped, accounts!Goto
  <2>9. CallsKeepPromises'
    <3> SUFFICES ASSUME NEW d \in Calls
                 PROVE  Promised(userCall[d])'
      BY DEF CallsKeepPromises
    <3>1. userCall'[d] = IF d = c THEN rest ELSE userCall[d]
      BY <2>2 DEF AccountsInv, AccountsTyped, accounts!Goto
    <3>2. CASE d = c
      <4>1. rest = accounts!Idle \/ (rest.do = "SetAll" /\ rest.account = a)
        BY <2>2 DEF AccountsInv, AccountsTyped, AccountCall, accounts!RegisterSubdomain,
           accounts!Does
      <4> QED
        BY <2>7, <3>1, <3>2, <4>1 DEF Promised, Owned, accounts!Idle
    <3>3. CASE d # c
      <4>1. userCall'[d] = userCall[d] /\ Promised(userCall[d]) /\ userCall[d] \in AccountCall
        BY <3>1, <3>3 DEF AccountsInv, AccountsTyped, CallsKeepPromises
      <4> QED
        BY <2>4, <2>5, <4>1 DEF Promised, Owned, AccountCall, Account
    <3> QED
      BY <3>2, <3>3
  <2>10. AccountsAreOwned' /\ SignedUpIsThere'
    BY <2>4, <2>5 DEF AccountsInv, AccountsTyped, AccountsAreOwned, SignedUpIsThere, Owned,
       Account
  <2>11. PlacesAreUnique'
    BY <2>4 DEF AccountsInv, PlacesAreUnique, accounts!Place
  <2>12. UsersAreOwners'
    BY <2>4, <2>5 DEF AccountsInv, AccountsTyped, UsersAreOwners, Owned, User
  <2> QED
    BY <2>8, <2>9, <2>10, <2>11, <2>12 DEF AccountsInv
<1> QED
  BY <1>2, <1>3

\* uploadPortableAccount: a place is taken once.
LEMMA UploadingKeepsAccountsInv ==
    ASSUME AccountsInv, NEW c \in Calls, accounts!uploadPortableAccount(c)
    PROVE  AccountsInv'
<1> USE DEF accounts!chain
<1> DEFINE a == userCall[c].account
<1>1. a \in Account /\ Owned(a)
  BY DEF AccountsInv, AccountsTyped, AccountCall, CallsKeepPromises, Promised,
     accounts!uploadPortableAccount, accounts!Does
<1>2. CASE accounts!Taken(a)
  BY <1>2, GoingOnKeepsAccountsInv, IdleIsPromised DEF accounts!uploadPortableAccount,
     accounts!Returns
<1>3. CASE ~accounts!Taken(a)
  <2>1. portable' = portable \cup {a}
    BY <1>3 DEF accounts!uploadPortableAccount
  <2>2. PICK rest \in {accounts!Idle, [userCall[c] EXCEPT !.do = "addNew"]} : accounts!Goto(c,
     rest)
    BY <1>3 DEF accounts!uploadPortableAccount, accounts!Then, accounts!Returns
  <2>3. rest \in AccountCall
    BY <1>1, <2>2, IdleIsPromised DEF AccountsInv, AccountsTyped, AccountCall,
       accounts!uploadPortableAccount, accounts!Does
  <2>4. UNCHANGED <<accounts!chain, userMap, signedUp, deleted>>
    BY DEF accounts!uploadPortableAccount
  <2>5. AccountsTyped'
    BY <1>1, <2>1, <2>2, <2>3, <2>4 DEF AccountsInv, AccountsTyped, accounts!Goto
  <2>6. CallsKeepPromises'
    <3> SUFFICES ASSUME NEW d \in Calls
                 PROVE  Promised(userCall[d])'
      BY DEF CallsKeepPromises
    <3>1. userCall'[d] = IF d = c THEN rest ELSE userCall[d]
      BY <2>2 DEF AccountsInv, AccountsTyped, accounts!Goto
    <3>2. CASE d = c
      <4>1. rest = accounts!Idle \/ (rest.do = "addNew" /\ rest.account = a)
        BY <2>2 DEF AccountsInv, AccountsTyped, AccountCall, accounts!uploadPortableAccount,
           accounts!Does
      <4> QED
        BY <1>1, <2>1, <2>4, <3>1, <3>2, <4>1 DEF Promised, Owned, accounts!Idle
    <3>3. CASE d # c
      BY <2>1, <2>4, <3>1, <3>3 DEF AccountsInv, CallsKeepPromises, Promised, Owned
    <3> QED
      BY <3>2, <3>3
  <2>7. AccountsAreOwned' /\ SignedUpIsThere' /\ UsersAreOwners'
    BY <1>1, <2>1, <2>4 DEF AccountsInv, AccountsAreOwned, SignedUpIsThere, UsersAreOwners, Owned
  <2>8. PlacesAreUnique'
    BY <1>3, <2>1 DEF AccountsInv, PlacesAreUnique, accounts!Taken, accounts!Place
  <2> QED
    BY <2>5, <2>6, <2>7, <2>8 DEF AccountsInv
<1> QED
  BY <1>2, <1>3

\* DeleteUserV2: what it takes away it has named in `deleted`.
LEMMA DeletingKeepsAccountsInv ==
    ASSUME AccountsInv, NEW c \in Calls, accounts!DeleteUserV2(c)
    PROVE  AccountsInv'
<1> USE DEF accounts!chain
<1>1. PICK a \in portable : portable' \in {portable,
   portable \ {a}} /\ deleted' = deleted \cup {a}
  BY DEF accounts!DeleteUserV2
<1>2. userCall' = [userCall EXCEPT ![c] = [userCall[c] EXCEPT !.do = "logout"]]
  BY DEF accounts!DeleteUserV2, accounts!Then, accounts!Goto
<1>3. UNCHANGED <<accounts!chain, userMap, signedUp>>
  BY DEF accounts!DeleteUserV2
<1>4. [userCall[c] EXCEPT !.do = "logout"] \in AccountCall
  BY DEF AccountsInv, AccountsTyped, AccountCall, accounts!DeleteUserV2, accounts!Does
<1>5. portable' \subseteq portable /\ portable \cup deleted \subseteq portable' \cup deleted'
  BY <1>1
<1>6. AccountsTyped'
  BY <1>1, <1>2, <1>3, <1>4 DEF AccountsInv, AccountsTyped
<1>7. CallsKeepPromises'
  <2> SUFFICES ASSUME NEW d \in Calls
               PROVE  Promised(userCall[d])'
    BY DEF CallsKeepPromises
  <2>1. CASE d = c
    <3>1. userCall'[d].do = "logout"
      BY <1>2, <2>1 DEF AccountsInv, AccountsTyped, AccountCall, accounts!DeleteUserV2,
         accounts!Does
    <3> QED
      BY <3>1 DEF Promised
  <2>2. CASE d # c
    BY <1>2, <1>3, <1>5, <2>2 DEF AccountsInv, AccountsTyped, CallsKeepPromises, Promised, Owned
  <2> QED
    BY <2>1, <2>2
<1>8. AccountsAreOwned' /\ PlacesAreUnique' /\ SignedUpIsThere' /\ UsersAreOwners'
  BY <1>3, <1>5 DEF AccountsInv, AccountsAreOwned, PlacesAreUnique, SignedUpIsThere,
     UsersAreOwners,
                    Owned, accounts!Place
<1> QED
  BY <1>6, <1>7, <1>8 DEF AccountsInv

-----------------------------------------------------------------------------
\* GetOwner and GetInfo: a sign-up goes on only with a name that is free or its own.
LEMMA CreatingKeepsAccountsInv ==
    ASSUME None \notin Addresses, AccountsInv, NEW c \in Calls, NEW a \in Account,
           accounts!CreateNewUserV2(c, a)
    PROVE  AccountsInv'
<1> DEFINE rest == [do |-> IF owner[a.name] = None THEN "RegisterSubdomain" ELSE "uploadNew",
                    account |-> a]
<1>1. rest \in AccountCall
  BY DEF AccountCall
<1>2. Promised(rest)
  BY DEF accounts!CreateNewUserV2, accounts!Available, Promised, Owned
<1> QED
  BY <1>1, <1>2, GoingOnKeepsAccountsInv DEF accounts!CreateNewUserV2, accounts!chain

\* SetAll changes the public resolver and nothing the invariant speaks of.
LEMMA SettingKeepsAccountsInv ==
    ASSUME AccountsInv, NEW c \in Calls, accounts!SetAll(c)
    PROVE  AccountsInv'
<1>1. PICK rest \in {accounts!Idle, [userCall[c] EXCEPT !.do = "uploadNew"]} : accounts!Goto(c,
   rest)
  BY DEF accounts!SetAll, accounts!Then, accounts!Returns
<1>2. rest \in AccountCall
  BY <1>1, IdleIsPromised DEF AccountsInv, AccountsTyped, AccountCall, accounts!SetAll,
     accounts!Does
<1>3. Promised(rest)
  <2>1. rest = accounts!Idle \/ (rest.do = "uploadNew" /\ rest.account = userCall[c].account)
    BY <1>1 DEF AccountsInv, AccountsTyped, AccountCall, accounts!SetAll, accounts!Does
  <2>2. Owned(userCall[c].account)
    BY DEF AccountsInv, CallsKeepPromises, Promised, accounts!SetAll, accounts!Does
  <2> QED
    BY <2>1, <2>2, IdleIsPromised DEF Promised
<1> QED
  BY <1>1, <1>2, <1>3, GoingOnKeepsAccountsInv DEF accounts!SetAll

\* A login that reads the owner keeps the address it read: no owner is replaced.
LEMMA AskingKeepsAccountsInv ==
    ASSUME AccountsInv, NEW c \in Calls, NEW n \in UserNames, NEW p \in Passwords,
           NEW then \in {"login", "connect"}, accounts!GetOwner(c, n, p, then)
    PROVE  AccountsInv'
<1> DEFINE rest == [do |-> then, place |-> n, pass |-> p, addr |-> owner[n]]
<1>1. owner[n] \in Addresses
  BY DEF AccountsInv, AccountsTyped, accounts!GetOwner
<1>2. rest \in AccountCall
  BY <1>1 DEF AccountCall
<1>3. Promised(rest)
  BY DEF Promised
<1> QED
  BY <1>2, <1>3, GoingOnKeepsAccountsInv DEF accounts!GetOwner, accounts!chain

\* Every way to a session: the end of a sign-up and the three logins.
LEMMA LoggingInKeepsAccountsInv ==
    ASSUME AccountsInv, NEW c \in Calls,
           \/ accounts!addNew(c) \/ accounts!LoginUserV2(c)
           \/ \E addr \in Addresses, w \in Signatures : accounts!LoginWithWallet(c, addr, w)
           \/ \E n \in UserNames, addr \in Addresses : accounts!LoadLiteUser(c, n, addr)
    PROVE  AccountsInv'
<1>0. \A a \in signedUp : Owned(a) /\ a \in portable \cup deleted
  BY DEF AccountsInv, SignedUpIsThere
<1>1. \A a \in portable : a \in Account /\ Owned(a)
  BY DEF AccountsInv, AccountsTyped, AccountsAreOwned
<1>2. CASE accounts!addNew(c)
  <2> DEFINE a == userCall[c].account
             user == [name |-> a.name, addr |-> a.addr, lite |-> FALSE]
  <2>1. a \in Account
    BY <1>2 DEF AccountsInv, AccountsTyped, AccountCall, accounts!addNew, accounts!Does
  <2>2. Owned(a) /\ a \in portable \cup deleted
    BY <1>2 DEF AccountsInv, CallsKeepPromises, Promised, accounts!addNew, accounts!Does
  <2>3. user \in User /\ Owned(user)
    BY <2>1, <2>2 DEF User, Account, Owned
  <2>4. signedUp' \subseteq Account
    BY <1>2, <2>1 DEF accounts!addNew, AccountsInv, AccountsTyped
  <2>5. \A b \in signedUp' : Owned(b) /\ b \in portable \cup deleted
    BY <1>0, <1>2, <2>2 DEF accounts!addNew
  <2>6. accounts!addUserToMap(c, user) /\ UNCHANGED <<accounts!chain, portable, deleted>>
    BY <1>2 DEF accounts!addNew
  <2> QED
    BY <2>3, <2>4, <2>5, <2>6, AddingKeepsAccountsInv
<1>3. CASE accounts!LoginUserV2(c)
  <2>1. PICK a \in portable :
           /\ accounts!Downloaded(c, a)
           /\ accounts!addUserToMap(c, [name |-> userCall[c].place, addr |-> a.addr,
              lite |-> FALSE])
    BY <1>3 DEF accounts!LoginUserV2
  <2> DEFINE user == [name |-> userCall[c].place, addr |-> a.addr, lite |-> FALSE]
  <2>2. userCall[c].place \in UserNames /\ owner[userCall[c].place] = userCall[c].addr
    BY <1>3 DEF AccountsInv, AccountsTyped, AccountCall, CallsKeepPromises, Promised,
       accounts!LoginUserV2, accounts!Does
  <2>3. a.addr = userCall[c].addr
    BY <2>1 DEF accounts!Downloaded, accounts!Place
  <2>4. user \in User /\ Owned(user)
    BY <1>1, <2>2, <2>3 DEF User, Account, Owned
  <2>5. accounts!addUserToMap(c, user) /\ UNCHANGED <<accounts!chain, portable, signedUp,
     deleted>>
    BY <1>3, <2>1 DEF accounts!LoginUserV2
  <2> QED
    BY <1>0, <2>4, <2>5, AddingKeepsAccountsInv DEF AccountsInv, AccountsTyped
<1>4. ASSUME NEW addr \in Addresses, NEW w \in Signatures, accounts!LoginWithWallet(c, addr, w)
      PROVE  AccountsInv'
  <2>1. PICK a \in portable :
           accounts!addUserToMap(c, [name |-> a.name, addr |-> a.addr, lite |-> FALSE])
    BY <1>4 DEF accounts!LoginWithWallet
  <2> DEFINE user == [name |-> a.name, addr |-> a.addr, lite |-> FALSE]
  <2>2. user \in User /\ Owned(user)
    BY <1>1 DEF User, Account, Owned
  <2>3. accounts!addUserToMap(c, user) /\ UNCHANGED <<accounts!chain, portable, signedUp,
     deleted>>
    BY <1>4, <2>1 DEF accounts!LoginWithWallet
  <2> QED
    BY <1>0, <2>2, <2>3, AddingKeepsAccountsInv DEF AccountsInv, AccountsTyped
<1>5. ASSUME NEW n \in UserNames, NEW addr \in Addresses, accounts!LoadLiteUser(c, n, addr)
      PROVE  AccountsInv'
  <2> DEFINE user == [name |-> n, addr |-> addr, lite |-> TRUE]
  <2>1. user \in User /\ user.lite
    BY DEF User
  <2>2. accounts!addUserToMap(c, user) /\ UNCHANGED <<accounts!chain, portable, signedUp,
     deleted>>
    BY <1>5 DEF accounts!LoadLiteUser
  <2> QED
    BY <1>0, <2>1, <2>2, AddingKeepsAccountsInv DEF AccountsInv, AccountsTyped
<1> QED
  BY <1>2, <1>3, <1>4, <1>5

\* ConnectWallet hands on an account of an owner under another place.
LEMMA ConnectingKeepsAccountsInv ==
    ASSUME AccountsInv, NEW c \in Calls, accounts!ConnectWallet(c)
    PROVE  AccountsInv'
<1>1. PICK a \in portable, w \in Signatures :
         accounts!Goto(c, [do |-> "uploadWallet",
                  account |-> [a EXCEPT !.place = accounts!Wallet, !.pass = w]])
  BY DEF accounts!ConnectWallet
<1> DEFINE b == [a EXCEPT !.place = accounts!Wallet, !.pass = w]
           rest == [do |-> "uploadWallet", account |-> b]
<1>2. a \in Account /\ Owned(a)
  BY DEF AccountsInv, AccountsTyped, AccountsAreOwned
<1>3. b \in Account /\ b.name = a.name /\ b.addr = a.addr
  BY <1>2 DEF Account
<1>4. rest \in AccountCall /\ Promised(rest)
  BY <1>2, <1>3 DEF AccountCall, Promised, Owned
<1> QED
  BY <1>1, <1>4, GoingOnKeepsAccountsInv DEF accounts!ConnectWallet, accounts!chain

\* LogoutUser and DeleteUserV2 find their session; Logout takes it out of the map.
LEMMA EndingKeepsAccountsInv ==
    ASSUME AccountsInv, NEW c \in Calls,
           \/ \E s \in Logins, p \in Passwords, then \in {"logout", "delete"} :
                 accounts!EndSession(c, s, p, then)
           \/ accounts!Logout(c)
    PROVE  AccountsInv'
<1>1. ASSUME NEW s \in Logins, NEW p \in Passwords, NEW then \in {"logout", "delete"},
             accounts!EndSession(c, s, p, then)
      PROVE  AccountsInv'
  <2> DEFINE rest == [do |-> then, session |-> s, place |-> userMap[s].name, pass |-> p,
                      addr |-> userMap[s].addr]
  <2>1. rest \in AccountCall
    BY <1>1 DEF accounts!EndSession, AccountsInv, AccountsTyped, User, AccountCall
  <2>2. Promised(rest)
    BY DEF Promised
  <2> QED
    BY <1>1, <2>1, <2>2, GoingOnKeepsAccountsInv DEF accounts!EndSession, accounts!chain
<1>2. CASE accounts!Logout(c)
  <2>1. \A d \in Calls : userCall'[d] = IF d = c THEN accounts!Idle ELSE userCall[d]
    BY <1>2 DEF accounts!Logout, accounts!Returns, accounts!Goto, AccountsInv, AccountsTyped
  <2>2. UNCHANGED <<owner, portable, signedUp, deleted>>
    BY <1>2 DEF accounts!Logout, accounts!chain
  <2>3. \A t \in Logins : userMap'[t] \in {userMap[t], None}
    BY <1>2 DEF accounts!Logout, AccountsInv, AccountsTyped
  <2>4. AccountsTyped'
    BY <1>2, <2>2, IdleIsPromised DEF accounts!Logout, accounts!Returns, accounts!Goto,
       AccountsInv, AccountsTyped
  <2>5. CallsKeepPromises'
    BY <2>1, <2>2, IdleIsPromised DEF AccountsInv, CallsKeepPromises, Promised, Owned
  <2>6. AccountsAreOwned' /\ PlacesAreUnique' /\ SignedUpIsThere'
    BY <2>2 DEF AccountsInv, AccountsAreOwned, PlacesAreUnique, SignedUpIsThere, Owned,
       accounts!Place
  <2>7. UsersAreOwners'
    BY <2>2, <2>3 DEF AccountsInv, UsersAreOwners, Owned
  <2> QED
    BY <2>4, <2>5, <2>6, <2>7 DEF AccountsInv
<1> QED
  BY <1>1, <1>2

\* A call that finds nothing, or fails, leaves what it did.
LEMMA GivingUpKeepsAccountsInv ==
    ASSUME AccountsInv, NEW c \in Calls,
       accounts!InvalidPassword(c) \/ accounts!NothingToDelete(c) \/ accounts!Fail(c)
    PROVE  AccountsInv'
BY GoingOnKeepsAccountsInv, IdleIsPromised DEF accounts!InvalidPassword,
   accounts!NothingToDelete, accounts!Fail, accounts!Returns, accounts!chain

-----------------------------------------------------------------------------
\* Nobody has signed up, no call runs.
LEMMA AccountsInitFits == accounts!Init => AccountsInv
BY IdleIsPromised
   DEF accounts!Init, AccountsInv, AccountsTyped, CallsKeepPromises, AccountsAreOwned,
      PlacesAreUnique,
       SignedUpIsThere, UsersAreOwners

\* Every step of a call of pkg/user.
LEMMA StepKeepsAccountsInv ==
    ASSUME None \notin Addresses, AccountsInv, NEW c \in Calls, accounts!Step(c)
    PROVE  AccountsInv'
<1>1. ASSUME NEW n \in UserNames, NEW p \in Passwords, NEW a \in Addresses,
             accounts!CreateNewUserV2(c, [place |-> n, pass |-> p, addr |-> a, name |-> n])
      PROVE  AccountsInv'
  <2>1. [place |-> n, pass |-> p, addr |-> a, name |-> n] \in Account
    BY DEF Account
  <2> QED
    BY <1>1, <2>1, CreatingKeepsAccountsInv
<1>2. ASSUME NEW n \in UserNames, NEW p \in Passwords, NEW a \in Addresses,
             \/ accounts!GetOwner(c, n, p, "login")
             \/ owner[n] = a /\ accounts!GetOwner(c, n, p, "connect")
      PROVE  AccountsInv'
  BY <1>2, AskingKeepsAccountsInv
<1>3. ASSUME NEW n \in UserNames, NEW a \in Addresses,
             (\E w \in Signatures : accounts!LoginWithWallet(c, a,
                w)) \/ accounts!LoadLiteUser(c, n, a)
      PROVE  AccountsInv'
  BY <1>3, LoggingInKeepsAccountsInv
<1>4. CASE accounts!RegisterSubdomain(c)
  BY <1>4, RegisteringKeepsAccountsInv
<1>5. CASE accounts!SetAll(c)
  BY <1>5, SettingKeepsAccountsInv
<1>6. CASE accounts!uploadPortableAccount(c)
  BY <1>6, UploadingKeepsAccountsInv
<1>7. CASE accounts!addNew(c) \/ accounts!LoginUserV2(c)
  BY <1>7, LoggingInKeepsAccountsInv
<1>8. CASE accounts!ConnectWallet(c)
  BY <1>8, ConnectingKeepsAccountsInv
<1>9. CASE accounts!Logout(c) \/ \E s \in Logins, p \in Passwords, then \in {"logout", "delete"} :
                           accounts!EndSession(c, s, p, then)
  BY <1>9, EndingKeepsAccountsInv
<1>10. CASE accounts!DeleteUserV2(c)
  BY <1>10, DeletingKeepsAccountsInv
<1>11. CASE accounts!InvalidPassword(c) \/ accounts!NothingToDelete(c) \/ accounts!Fail(c)
  BY <1>11, GivingUpKeepsAccountsInv
<1> QED
  BY <1>1, <1>2, <1>3, <1>4, <1>5, <1>6, <1>7, <1>8, <1>9, <1>10, <1>11 DEF accounts!Step

LEMMA AccountsStayFit ==
    ServicesSpec => [](Part("accounts") => AccountsInv)
<1>1. ServicesInit => (Part("accounts") => AccountsInv)
  BY AccountsInitFits DEF ServicesInit, Part
<1>2. ASSUME Part("accounts") => AccountsInv, [ServicesNext]_serviceVars
      PROVE  (Part("accounts") => AccountsInv)'
  <2>1. UNCHANGED part
    BY <1>2 DEF ServicesNext, serviceVars
  <2>2. CASE UNCHANGED serviceVars
    <3>1. UNCHANGED <<owner, pubkey, portable, userMap, userCall, signedUp, deleted>>
      BY <2>2 DEF serviceVars, accountVars
    <3> QED
      BY <1>2, <2>1, <3>1
      DEF Part, AccountsInv, AccountsTyped, CallsKeepPromises, Promised, AccountsAreOwned,
          PlacesAreUnique, SignedUpIsThere, UsersAreOwners, Owned, accounts!Place
  <2>3. CASE Part("accounts") /\ accounts!Next
    BY <1>2, <2>3, ServicesAssumption, StepKeepsAccountsInv DEF accounts!Next, ServicesAssumption
  <2>4. CASE ~Part("accounts")
    BY <2>1, <2>4 DEF Part
  <2> QED
    BY <1>2, <2>2, <2>3, <2>4 DEF ServicesNext, Part
<1> QED
  BY <1>1, <1>2, PTL DEF ServicesSpec

\* Whoever signs up at the same time for a name or with a mnemonic, and wherever calls
\* stop (CreateNewUserV2, LoginUserV2, ConnectWallet, LoginWithWallet, DeleteUserV2), an
\* acknowledged account stays its owner's until a delete of it begins, and a session works
\* with the account that owns its name.
THEOREM AccountsStayTheirs == ServicesSpec => []AccountsAreTheirOwners
<1>1. (Part("accounts") => AccountsInv) => AccountsAreTheirOwners
  BY DEF AccountsInv, SignedUpIsThere, UsersAreOwners, Owned, AccountsAreTheirOwners,
         accounts!AccountsAreTheirOwners
<1> QED
  BY <1>1, AccountsStayFit, PTL

-----------------------------------------------------------------------------
\* Document databases

Key(i) == <<"id", i>>

\* An index whose references are those of documents.
Refers(t, ds) ==
    /\ t \in [documents!AllEntries -> Seq(Nat)]
    /\ \A e \in documents!AllEntries : \A k \in 1..Len(t[e]) : t[e][k] \in 1..Len(ds)

GetOf(t, ds, i) == IF t[Key(i)] = <<>> THEN None ELSE ds[t[Key(i)][1]]

\* An id has one reference, to a document of that id; it is the document last put.
OwnRef(t, ds, i) ==
    t[Key(i)] # <<>> =>
        \E r \in 1..Len(ds) : t[Key(i)] = <<r>> /\ (ds[r] # None => ds[r].id = i)

Gives(t, ds, ak, i) == OwnRef(t, ds, i) /\ (ak[i] # Unknown => GetOf(t, ds, i) = ak[i])

GivesAll(t, ds, ak) == Refers(t, ds) /\ \A i \in Ids : Gives(t, ds, ak, i)

DocsInv ==
    /\ docs \in Seq(Docs \cup {None}) /\ acked \in [Ids -> Docs \cup {None, Unknown}]
    /\ made \subseteq documents!Fields /\ sealed \subseteq documents!Fields
    /\ GivesAll(index, docs, acked)
    /\ \A e \in documents!AllEntries : e[1] \notin made => index[e] = <<>>
    /\ database # None => made = documents!Fields
    /\ batch # None =>
          /\ database # None /\ GivesAll(batch, docs, acked)
          /\ \A i \in Ids : batch[Key(i)] # <<>> => docs[batch[Key(i)][1]] # None

-----------------------------------------------------------------------------
\* The entries of a document.

LEMMA EntriesAre ==
    ASSUME DocsAssumption, NEW d \in Docs
    PROVE  /\ d # None /\ d # Unknown /\ d.id \in Ids
           /\ Key(d.id) \in documents!SimpleEntries(d)
           /\ documents!SimpleEntries(d) \subseteq documents!Entries(d)
           /\ documents!Entries(d) \subseteq documents!AllEntries
           /\ \A i : Key(i) \in documents!Entries(d) <=> i = d.id
<1>1. d # None /\ d # Unknown /\ d.id \in Ids
  BY DEF DocsAssumption
<1>2. Key(d.id) \in documents!Entries(d) /\ "id" \notin Others /\ "id" \notin Simple
  BY DEF Key, documents!Entries, DocsAssumption
<1>3. Key(d.id) \in documents!SimpleEntries(d)
  BY <1>2 DEF documents!SimpleEntries, Key
<1>4. documents!SimpleEntries(d) \subseteq documents!Entries(d)
  BY DEF documents!SimpleEntries
<1>5. ASSUME NEW e \in documents!Entries(d)
      PROVE  e \in documents!AllEntries /\ (e = Key(d.id) \/ e[1] # "id")
  <2>1. CASE e = <<"id", d.id>>
    BY <1>1, <2>1 DEF Key, documents!AllEntries
  <2>2. CASE e # <<"id", d.id>>
    <3>1. PICK f \in (Simple \cup Others) \ documents!Lacks(d) : e \in {f} \X d.at[f]
      BY <2>2 DEF documents!Entries
    <3>2. d.at \in [Simple \cup Others -> {None} \cup SUBSET FieldValues] /\ d.at[f] # None
      BY <3>1 DEF DocsAssumption, documents!Lacks
    <3>3. d.at[f] \subseteq FieldValues
      BY <3>1, <3>2
    <3>4. PICK v \in FieldValues : e = <<f, v>>
      BY <3>1, <3>3
    <3>5. e[1] # "id"
      BY <1>2, <3>4
    <3> QED
      BY <3>4, <3>5 DEF documents!AllEntries
  <2> QED
    BY <2>1, <2>2
<1>6. \A i : Key(i) \in documents!Entries(d) <=> i = d.id
  BY <1>2, <1>5 DEF Key
<1> QED
  BY <1>1, <1>3, <1>4, <1>5, <1>6

LEMMA KeysAre ==
    ASSUME DocsAssumption
    PROVE  /\ \A i \in Ids : Key(i) \in documents!AllEntries /\ Key(i)[1] = "id"
           /\ \A e \in documents!AllEntries : e[1] = "id" => \E i \in Ids : e = Key(i)
           /\ \A i, j : Key(i) = Key(j) => i = j
  BY DEF Key, documents!AllEntries, DocsAssumption

\* What is left when entries are taken out, and what is there when some are added.
LEMMA WithoutIs ==
    ASSUME NEW t, NEW ds, Refers(t, ds), NEW es
    PROVE  /\ Refers(documents!Without(t, es), ds)
           /\ \A e \in documents!AllEntries :
                 documents!Without(t, es)[e] = IF e \in es THEN <<>> ELSE t[e]
<1>1. <<>> \in Seq(Nat) /\ Len(<<>>) = 0
  OBVIOUS
<1> QED
  BY <1>1 DEF Refers, documents!Without

LEMMA WithIs ==
    ASSUME NEW t, NEW ds \in Seq(Docs \cup {None}), Refers(t, ds), NEW es, NEW d \in Docs,
           NEW n, n = Len(ds) + 1
    PROVE  /\ Refers(documents!With(t, es, n), Append(ds, d))
           /\ \A e \in documents!AllEntries :
                 documents!With(t, es, n)[e] =
                    IF e \notin es THEN t[e] ELSE IF e[1] = "id" THEN <<n>> ELSE Append(t[e], n)
<1>1. n \in Nat /\ Len(Append(ds, d)) = n /\ Len(ds) \in Nat
  OBVIOUS
<1>2. \A e \in documents!AllEntries :
         documents!With(t, es, n)[e] =
            IF e \notin es THEN t[e] ELSE IF e[1] = "id" THEN <<n>> ELSE Append(t[e], n)
  BY DEF documents!With
<1>3. ASSUME NEW e \in documents!AllEntries, NEW s, s = documents!With(t, es, n)[e]
      PROVE  s \in Seq(Nat) /\ \A k \in 1..Len(s) : s[k] \in 1..n
  <2>1. PICK q \in Seq(Nat) : q = t[e] /\ \A k \in 1..Len(q) : q[k] \in 1..Len(ds)
    BY DEF Refers
  <2>2. CASE s = q
    BY <1>1, <2>1, <2>2
  <2>3. CASE s = <<n>>
    BY <1>1, <2>3
  <2>4. CASE s = Append(q, n)
    BY <1>1, <2>1, <2>4
  <2> QED
    BY <1>2, <1>3, <2>1, <2>2, <2>3, <2>4
<1>4. documents!With(t, es, n) = [e \in documents!AllEntries |-> documents!With(t, es, n)[e]]
  BY DEF documents!With
<1>5. documents!With(t, es, n) \in [documents!AllEntries -> Seq(Nat)]
  BY <1>3, <1>4
<1> QED
  BY <1>1, <1>2, <1>3, <1>5 DEF Refers
-----------------------------------------------------------------------------
\* What a call on the document with id i leaves of the others.

\* The documents of other ids stay.
Moves(ds, es, i) ==
    /\ ds \in Seq(Docs \cup {None}) /\ es \in Seq(Docs \cup {None}) /\ Len(ds) <= Len(es)
    /\ \A r \in 1..Len(ds) : es[r] = ds[r] \/ (es[r] = None /\ ds[r] # None /\ ds[r].id = i)

LEMMA OthersKept ==
    ASSUME NEW t, NEW ds, NEW ak, NEW j, Gives(t, ds, ak, j),
           NEW u, NEW es, NEW al, NEW i, i # j, Moves(ds, es, i),
           u[Key(j)] = t[Key(j)], al[j] = ak[j]
    PROVE  Gives(u, es, al, j)
<1>1. CASE t[Key(j)] = <<>>
  BY <1>1 DEF Gives, OwnRef, GetOf
<1>2. CASE t[Key(j)] # <<>>
  <2>1. PICK r \in 1..Len(ds) : t[Key(j)] = <<r>> /\ (ds[r] # None => ds[r].id = j)
    BY <1>2 DEF Gives, OwnRef
  <2>2. es[r] = ds[r] /\ r \in 1..Len(es)
    BY <2>1 DEF Moves
  <2>3. GetOf(u, es, j) = GetOf(t, ds, j)
    BY <1>2, <2>1, <2>2 DEF GetOf
  <2> QED
    BY <2>1, <2>2, <2>3 DEF Gives, OwnRef
<1> QED
  BY <1>1, <1>2

\* A reference stays the id's own, though its document may be deleted.
LEMMA OwnRefKept ==
    ASSUME NEW t, NEW ds, NEW j, OwnRef(t, ds, j), NEW u, NEW es, NEW i, Moves(ds, es, i),
           u[Key(j)] \in {t[Key(j)], <<>>}
    PROVE  OwnRef(u, es, j)
<1>1. CASE u[Key(j)] # <<>>
  <2>1. PICK r \in 1..Len(ds) : t[Key(j)] = <<r>> /\ (ds[r] # None => ds[r].id = j)
    BY <1>1 DEF OwnRef
  <2> QED
    BY <1>1, <2>1 DEF OwnRef, Moves
<1> QED
  BY <1>1 DEF OwnRef

LEMMA NothingMoves ==
    ASSUME NEW ds \in Seq(Docs \cup {None}), NEW i
    PROVE  Moves(ds, ds, i)
  BY DEF Moves

LEMMA OneDeleted ==
    ASSUME NEW ds \in Seq(Docs \cup {None}), NEW r \in 1..Len(ds), ds[r] # None
    PROVE  Moves(ds, [ds EXCEPT ![r] = None], ds[r].id)
<1>1. PICK es : es = [ds EXCEPT ![r] = None]
  OBVIOUS
<1>2. /\ es \in Seq(Docs \cup {None}) /\ Len(es) = Len(ds)
      /\ \A k \in 1..Len(ds) : es[k] = IF k = r THEN None ELSE ds[k]
  BY <1>1
<1> QED
  BY <1>1, <1>2 DEF Moves

LEMMA OneAdded ==
    ASSUME NEW ds, NEW es, NEW i, Moves(ds, es, i), NEW d \in Docs
    PROVE  /\ Moves(ds, Append(es, d), i)
           /\ Len(Append(es, d)) = Len(es) + 1 /\ Len(es) \in Nat
           /\ Append(es, d)[Len(es) + 1] = d
<1>1. es \in Seq(Docs \cup {None}) /\ d \in Docs \cup {None} /\ Len(ds) \in Nat
  BY DEF Moves
<1>2. PICK q : q = Append(es, d)
  OBVIOUS
<1>3. /\ q \in Seq(Docs \cup {None}) /\ Len(q) = Len(es) + 1 /\ Len(es) \in Nat
      /\ q[Len(es) + 1] = d /\ \A k \in 1..Len(es) : q[k] = es[k]
  BY <1>1, <1>2
<1>4. Moves(ds, q, i)
  BY <1>1, <1>3 DEF Moves
<1> QED
  BY <1>2, <1>3, <1>4

LEMMA GivesAfter ==
    ASSUME NEW t, NEW ds, NEW ak, GivesAll(t, ds, ak), NEW u, NEW es, NEW al, NEW i \in Ids,
           Refers(u, es), Moves(ds, es, i), Gives(u, es, al, i),
           \A j \in Ids : j # i => u[Key(j)] = t[Key(j)] /\ al[j] = ak[j]
    PROVE  GivesAll(u, es, al)
<1>1. ASSUME NEW j \in Ids, j # i
      PROVE  Gives(u, es, al, j)
  BY <1>1, OthersKept DEF GivesAll
<1> QED
  BY <1>1 DEF GivesAll

LEMMA RefersStay ==
    ASSUME NEW t, NEW ds, Refers(t, ds), NEW es, NEW i, Moves(ds, es, i)
    PROVE  Refers(t, es)
<1>1. Len(ds) \in Nat /\ Len(es) \in Nat /\ Len(ds) <= Len(es)
  BY DEF Moves
<1> QED
  BY <1>1 DEF Refers

\* Entries of one id are taken out.
LEMMA RemovesGives ==
    ASSUME DocsAssumption, NEW t, NEW ds, NEW ak, GivesAll(t, ds, ak), NEW i \in Ids,
           NEW S, \A j : Key(j) \in S => j = i, NEW es, Moves(ds, es, i),
           NEW al, \A j \in Ids : j # i => al[j] = ak[j],
           al[i] = Unknown \/ (al[i] = None /\ Key(i) \in S)
    PROVE  GivesAll(documents!Without(t, S), es, al)
<1>1. PICK u : u = documents!Without(t, S)
  OBVIOUS
<1>2. /\ Refers(u, ds)
      /\ \A e \in documents!AllEntries : u[e] = IF e \in S THEN <<>> ELSE t[e]
  BY <1>1, WithoutIs DEF GivesAll
<1>3. Refers(u, es)
  BY <1>2, RefersStay
<1>4. \A j \in Ids : u[Key(j)] = IF Key(j) \in S THEN <<>> ELSE t[Key(j)]
  BY <1>2, KeysAre
<1>5. OwnRef(u, es, i)
  BY <1>4, OwnRefKept DEF GivesAll, Gives
<1>6. Gives(u, es, al, i)
  BY <1>4, <1>5 DEF Gives, GetOf
<1>7. \A j \in Ids : j # i => u[Key(j)] = t[Key(j)]
  BY <1>4
<1> QED
  BY <1>1, <1>3, <1>6, <1>7, GivesAfter

\* Entries of a new document are added.
LEMMA InsertsGives ==
    ASSUME DocsAssumption, NEW t, NEW ds \in Seq(Docs \cup {None}), NEW ak,
           GivesAll(t, ds, ak), NEW d \in Docs, NEW S, S \subseteq documents!Entries(d),
           NEW al, \A j \in Ids : j # d.id => al[j] = ak[j],
           al[d.id] = Unknown \/ (al[d.id] = d /\ Key(d.id) \in S)
    PROVE  GivesAll(documents!With(t, S, Len(ds) + 1), Append(ds, d), al)
<1>1. PICK n : n = Len(ds) + 1
  OBVIOUS
<1>2. PICK u : u = documents!With(t, S, n)
  OBVIOUS
<1>3. PICK es : es = Append(ds, d)
  OBVIOUS
<1>4. PICK i \in Ids : i = d.id
  BY EntriesAre
<1>5. /\ Refers(u, es)
      /\ \A e \in documents!AllEntries :
            u[e] = IF e \notin S THEN t[e] ELSE IF e[1] = "id" THEN <<n>> ELSE Append(t[e], n)
  BY <1>1, <1>2, <1>3, WithIs DEF GivesAll
<1>6. \A j : Key(j) \in S => j = i
  BY <1>4, EntriesAre
<1>7. \A j \in Ids : u[Key(j)] = IF Key(j) \in S THEN <<n>> ELSE t[Key(j)]
  BY <1>5, KeysAre
<1>8. Moves(ds, es, i) /\ Len(es) = n /\ es[n] = d /\ n \in 1..Len(es)
  <2>1. Moves(ds, ds, i)
    BY NothingMoves
  <2>2. Moves(ds, es, i) /\ Len(es) = Len(ds) + 1 /\ Len(ds) \in Nat /\ es[Len(ds) + 1] = d
    BY <1>3, <2>1, OneAdded
  <2> QED
    BY <1>1, <2>2
<1>9. Gives(u, es, al, i)
  <2>1. CASE Key(i) \in S
    <3>1. u[Key(i)] = <<n>>
      BY <1>7, <2>1
    <3>4. <<n>> # <<>> /\ <<n>>[1] = n
      OBVIOUS
    <3>2. OwnRef(u, es, i)
      BY <1>4, <1>8, <3>1, <3>4 DEF OwnRef
    <3>3. GetOf(u, es, i) = d
      BY <1>8, <3>1, <3>4 DEF GetOf
    <3> QED
      BY <1>4, <3>2, <3>3 DEF Gives
  <2>2. CASE Key(i) \notin S
    <3>1. OwnRef(u, es, i)
      BY <1>7, <1>8, <2>2, OwnRefKept DEF GivesAll, Gives
    <3> QED
      BY <1>4, <2>2, <3>1 DEF Gives
  <2> QED
    BY <2>1, <2>2
<1>10. \A j \in Ids : j # i => u[Key(j)] = t[Key(j)] /\ al[j] = ak[j]
  BY <1>4, <1>6, <1>7
<1> QED
  BY <1>1, <1>2, <1>3, <1>4, <1>5, <1>8, <1>9, <1>10, GivesAfter

-----------------------------------------------------------------------------
\* The calls on one document.

DocCall ==
    /\ docs' \in Seq(Docs \cup {None}) /\ acked' \in [Ids -> Docs \cup {None, Unknown}]
    /\ GivesAll(index', docs', acked')

\* The document that an id's reference leads to.
LEMMA OldDocument ==
    ASSUME DocsAssumption, docs \in Seq(Docs \cup {None}), NEW t, NEW i \in Ids,
           OwnRef(t, docs, i), t[Key(i)] # <<>>, docs[t[Key(i)][1]] # None
    PROVE  \E r \in 1..Len(docs) :
              /\ t[Key(i)] = <<r>> /\ docs[r] \in Docs /\ docs[r].id = i
              /\ Moves(docs, [docs EXCEPT ![r] = None], i)
<1>1. PICK r \in 1..Len(docs) : t[Key(i)] = <<r>> /\ (docs[r] # None => docs[r].id = i)
  BY DEF OwnRef
<1>2. docs[r] # None /\ docs[r] \in Docs
  BY <1>1
<1> QED
  BY <1>1, <1>2, OneDeleted

LEMMA DeletesKeep ==
    ASSUME DocsAssumption, DocsInv, NEW i \in Ids, documents!IsThere(i), documents!Deletes(i)
    PROVE  DocCall
<1>1. PICK r \in 1..Len(docs) :
         /\ index[Key(i)] = <<r>> /\ docs[r] \in Docs /\ docs[r].id = i
         /\ Moves(docs, [docs EXCEPT ![r] = None], i)
  <2>1. index[Key(i)] # <<>> /\ docs[index[Key(i)][1]] # None
    BY DEF documents!IsThere, Key
  <2> QED
    BY <2>1, OldDocument DEF DocsInv, GivesAll, Gives
<1>2. PICK es : es = documents!SimpleEntries(docs[r])
  OBVIOUS
<1>3. Key(i) \in es /\ \A j : Key(j) \in es => j = i
  BY <1>1, <1>2, EntriesAre
<1>4. index[<<"id", i>>][1] = r
  BY <1>1 DEF Key
<1>5. CASE /\ index' = documents!Without(index, es)
           /\ docs' = [docs EXCEPT ![r] = None]
           /\ acked' = [acked EXCEPT ![i] = None]
  <2>1. acked'[i] = None /\ (\A j \in Ids : j # i => acked'[j] = acked[j])
        /\ acked' \in [Ids -> Docs \cup {None, Unknown}]
    BY <1>5 DEF DocsInv
  <2>3. Moves(docs, docs', i) /\ GivesAll(index, docs, acked)
    BY <1>1, <1>5 DEF DocsInv
  <2>4. GivesAll(documents!Without(index, es), docs', acked')
    BY <1>3, <2>1, <2>3, RemovesGives
  <2>2. GivesAll(index', docs', acked')
    BY <1>5, <2>4
  <2> QED
    BY <1>1, <1>5, <2>1, <2>2 DEF DocCall, Moves
<1>6. ASSUME NEW S \in SUBSET es, index' = documents!Without(index, S),
             acked' = [acked EXCEPT ![i] = Unknown], docs' = docs
      PROVE  DocCall
  <2>1. acked'[i] = Unknown /\ (\A j \in Ids : j # i => acked'[j] = acked[j])
        /\ acked' \in [Ids -> Docs \cup {None, Unknown}]
    BY <1>6 DEF DocsInv
  <2>2. Moves(docs, docs, i)
    BY NothingMoves DEF DocsInv
  <2>3. \A j : Key(j) \in S => j = i
    BY <1>3
  <2>4. GivesAll(index', docs', acked')
    BY <1>6, <2>1, <2>2, <2>3, RemovesGives DEF DocsInv
  <2> QED
    BY <1>6, <2>1, <2>4 DEF DocCall, DocsInv
<1> QED
  BY <1>2, <1>4, <1>5, <1>6 DEF documents!Deletes, documents!Fails

LEMMA DelKeeps ==
    ASSUME DocsAssumption, DocsInv, NEW i \in Ids, documents!Del(i)
    PROVE  DocCall /\ UNCHANGED <<made, sealed, database, batch>> /\ batch = None /\ database # None
<1>1. UNCHANGED <<made, sealed, database, batch>> /\ batch = None /\ database # None
  BY DEF documents!Del, documents!IsDBOpened
<1>2. CASE documents!IsThere(i) /\ documents!Deletes(i)
  BY <1>1, <1>2, DeletesKeep
<1>3. CASE /\ index[<<"id", i>>] = <<>>
           /\ acked' = [acked EXCEPT ![i] = None] /\ UNCHANGED <<index, docs, failed>>
  <2>1. acked'[i] = None /\ (\A j \in Ids : j # i => acked'[j] = acked[j])
        /\ acked' \in [Ids -> Docs \cup {None, Unknown}]
    BY <1>3 DEF DocsInv
  <2>2. Gives(index, docs, acked', i)
    BY <1>3, <2>1 DEF Gives, OwnRef, GetOf, Key
  <2>3. GivesAll(index, docs, acked')
    BY <2>1, <2>2 DEF DocsInv, GivesAll, Gives
  <2> QED
    BY <1>1, <1>3, <2>1, <2>3 DEF DocCall, DocsInv
<1> QED
  BY <1>2, <1>3 DEF documents!Del

\* A new document, put into the indexes t.
LEMMA InsertsKeep ==
    ASSUME DocsAssumption, acked \in [Ids -> Docs \cup {None, Unknown}], NEW d \in Docs,
           NEW t, NEW ds \in Seq(Docs \cup {None}), NEW ak, GivesAll(t, ds, ak),
           \A j \in Ids : j # d.id => ak[j] = acked[j], documents!Inserts(d, t, ds)
    PROVE  DocCall
<1>1. d.id \in Ids /\ Key(d.id) \in documents!Entries(d)
  BY EntriesAre
<1>2. docs' = Append(ds, d) /\ docs' \in Seq(Docs \cup {None})
  BY DEF documents!Inserts
<1>3. PICK S \in SUBSET documents!Entries(d) :
         /\ index' = documents!With(t, S, Len(ds) + 1)
         /\ \/ acked' = [acked EXCEPT ![d.id] = d] /\ S = documents!Entries(d)
            \/ acked' = [acked EXCEPT ![d.id] = Unknown]
  BY DEF documents!Inserts, documents!DoneBefore
<1>4. /\ acked' \in [Ids -> Docs \cup {None, Unknown}]
      /\ \A j \in Ids : j # d.id => acked'[j] = ak[j]
      /\ acked'[d.id] = Unknown \/ (acked'[d.id] = d /\ Key(d.id) \in S)
  BY <1>1, <1>3
<1> QED
  BY <1>2, <1>3, <1>4, InsertsGives DEF DocCall

LEMMA PutNewKeeps ==
    ASSUME DocsAssumption, DocsInv, NEW d \in Docs, documents!PutNew(d)
    PROVE  DocCall /\ UNCHANGED <<made, sealed, database, batch>> /\ batch = None /\ database # None
<1>1. UNCHANGED <<made, sealed, database, batch>> /\ batch = None /\ database # None
      /\ documents!Inserts(d, index, docs)
  BY DEF documents!PutNew, documents!IsDBOpened
<1> QED
  BY <1>1, InsertsKeep DEF DocsInv

LEMMA PutOverKeeps ==
    ASSUME DocsAssumption, DocsInv, NEW d \in Docs, documents!PutOver(d)
    PROVE  DocCall /\ UNCHANGED <<made, sealed, database, batch>> /\ batch = None /\ database # None
<1>1. UNCHANGED <<made, sealed, database, batch>> /\ batch = None /\ database # None
  BY DEF documents!PutOver, documents!IsDBOpened
<1>2. PICK i \in Ids : i = d.id
  BY EntriesAre
<1>3. PICK r \in 1..Len(docs) :
         /\ index[Key(i)] = <<r>> /\ docs[r] \in Docs /\ docs[r].id = i
         /\ Moves(docs, [docs EXCEPT ![r] = None], i)
  <2>1. index[Key(i)] # <<>> /\ docs[index[Key(i)][1]] # None
    BY <1>2 DEF documents!PutOver, documents!IsThere, Key
  <2> QED
    BY <2>1, OldDocument DEF DocsInv, GivesAll, Gives
<1>4. PICK es : es = documents!SimpleEntries(docs[r])
  OBVIOUS
<1>5. Key(i) \in es /\ \A j : Key(j) \in es => j = i
  BY <1>3, <1>4, EntriesAre
<1>6. index[<<"id", d.id>>][1] = r
  BY <1>2, <1>3 DEF Key
<1>7. CASE documents!Inserts(d, documents!Without(index, es), [docs EXCEPT ![r] = None])
  <2>1. PICK ak : ak = [acked EXCEPT ![i] = None]
    OBVIOUS
  <2>2. ak[i] = None /\ (\A j \in Ids : j # i => ak[j] = acked[j])
    BY <2>1 DEF DocsInv
  <2>3. PICK ds : ds = [docs EXCEPT ![r] = None]
    OBVIOUS
  <2>4. PICK t : t = documents!Without(index, es)
    OBVIOUS
  <2>5. Moves(docs, ds, i) /\ ds \in Seq(Docs \cup {None}) /\ GivesAll(index, docs, acked)
        /\ acked \in [Ids -> Docs \cup {None, Unknown}]
    BY <1>3, <2>3 DEF Moves, DocsInv
  <2>6. GivesAll(t, ds, ak)
    BY <1>5, <2>2, <2>4, <2>5, RemovesGives
  <2>7. documents!Inserts(d, t, ds)
    BY <1>7, <2>3, <2>4
  <2>8. \A j \in Ids : j # d.id => ak[j] = acked[j]
    BY <1>2, <2>2
  <2> QED
    BY <1>1, <2>5, <2>6, <2>7, <2>8, InsertsKeep
<1>8. ASSUME NEW S \in SUBSET es, index' = documents!Without(index, S),
             acked' = [acked EXCEPT ![i] = Unknown], docs' = docs
      PROVE  DocCall
  <2>1. acked'[i] = Unknown /\ (\A j \in Ids : j # i => acked'[j] = acked[j])
        /\ acked' \in [Ids -> Docs \cup {None, Unknown}]
    BY <1>8 DEF DocsInv
  <2>2. Moves(docs, docs, i)
    BY NothingMoves DEF DocsInv
  <2>3. \A j : Key(j) \in S => j = i
    BY <1>5
  <2>4. GivesAll(index', docs', acked')
    BY <1>8, <2>1, <2>2, <2>3, RemovesGives DEF DocsInv
  <2> QED
    BY <1>8, <2>1, <2>4 DEF DocCall, DocsInv
<1> QED
  BY <1>1, <1>2, <1>4, <1>6, <1>7, <1>8 DEF documents!PutOver, documents!Fails

\* What DocBatchPut takes out of the batch, and the documents after that.
Gone(i) == IF batch[Key(i)] = <<>> THEN {} ELSE documents!Entries(docs[batch[Key(i)][1]])
Buried(i) == IF batch[Key(i)] = <<>> THEN docs ELSE [docs EXCEPT ![batch[Key(i)][1]] = None]

\* The batch has let go of the old document of the id.
LEMMA BatchWithout ==
    ASSUME DocsAssumption, DocsInv, batch # None, NEW i \in Ids
    PROVE  /\ Moves(docs, Buried(i), i) /\ Buried(i) \in Seq(Docs \cup {None})
           /\ \A j : Key(j) \in Gone(i) => j = i
           /\ batch[Key(i)] # <<>> => Key(i) \in Gone(i)
           /\ \A r \in 1..Len(docs) : docs[r] # None /\ docs[r].id # i => Buried(i)[r] = docs[r]
<1>1. GivesAll(batch, docs, acked) /\ docs \in Seq(Docs \cup {None})
      /\ (batch[Key(i)] # <<>> => docs[batch[Key(i)][1]] # None)
  BY DEF DocsInv
<1>2. CASE batch[Key(i)] = <<>>
  BY <1>1, <1>2, NothingMoves DEF Gone, Buried
<1>3. CASE batch[Key(i)] # <<>>
  <2>1. PICK r \in 1..Len(docs) :
           /\ batch[Key(i)] = <<r>> /\ docs[r] \in Docs /\ docs[r].id = i
           /\ Moves(docs, [docs EXCEPT ![r] = None], i)
    BY <1>1, <1>3, OldDocument DEF GivesAll, Gives
  <2>2. Gone(i) = documents!Entries(docs[r]) /\ Buried(i) = [docs EXCEPT ![r] = None]
    BY <1>3, <2>1 DEF Gone, Buried
  <2>3. Key(i) \in Gone(i) /\ \A j : Key(j) \in Gone(i) => j = i
    BY <2>1, <2>2, EntriesAre
  <2>4. \A k \in 1..Len(docs) : docs[k] # None /\ docs[k].id # i => Buried(i)[k] = docs[k]
    BY <1>1, <2>1, <2>2
  <2> QED
    BY <2>1, <2>2, <2>3, <2>4 DEF Moves
<1> QED
  BY <1>2, <1>3

LEMMA DocBatchPutIs ==
    ASSUME NEW d \in Docs, documents!DocBatchPut(d)
    PROVE  \E S \in SUBSET documents!Entries(d) :
              /\ batch' = documents!With(documents!Without(batch, Gone(d.id)), S, Len(docs) + 1)
              /\ index' = [e \in documents!AllEntries |->
                              IF \E f \in S : f[1] = e[1] THEN batch'[e] ELSE index[e]]
              /\ sealed' = sealed \cup {e[1] : e \in S}
              /\ \/ S = documents!Entries(d) /\ acked' = [acked EXCEPT ![d.id] = d]
                    /\ failed' = failed
                 \/ acked' = [acked EXCEPT ![d.id] = Unknown] /\ failed' = TRUE
              /\ docs' = Append(Buried(d.id), d)
              /\ batch # None /\ documents!MayBePut(d) /\ UNCHANGED <<made, database>>
<1>1. PICK S \in documents!DoneBefore(documents!Entries(d)) :
         /\ batch' = documents!With(documents!Without(batch, Gone(d.id)), S, Len(docs) + 1)
         /\ index' = [e \in documents!AllEntries |->
                         IF e[1] \in {f[1] : f \in S} THEN batch'[e] ELSE index[e]]
         /\ sealed' = sealed \cup {e[1] : e \in S}
         /\ \/ S = documents!Entries(d) /\ acked' = [acked EXCEPT ![d.id] = d]
               /\ failed' = failed
            \/ acked' = [acked EXCEPT ![d.id] = Unknown] /\ failed' = TRUE
  BY DEF documents!DocBatchPut, documents!Fails, Gone, Key
<1>2. docs' = Append(Buried(d.id), d) /\ batch # None /\ documents!MayBePut(d)
      /\ UNCHANGED <<made, database>>
  BY DEF documents!DocBatchPut, Buried, Key
<1>3. S \in SUBSET documents!Entries(d)
  BY DEF documents!DoneBefore
<1>4. index' = [e \in documents!AllEntries |->
                  IF \E f \in S : f[1] = e[1] THEN batch'[e] ELSE index[e]]
  <2>1. \A e : e[1] \in {f[1] : f \in S} <=> \E f \in S : f[1] = e[1]
    OBVIOUS
  <2> QED
    BY <1>1, <2>1
<1> QED
  BY <1>1, <1>2, <1>3, <1>4

LEMMA DocBatchPutKeeps ==
    ASSUME DocsAssumption, DocsInv, NEW d \in Docs, documents!DocBatchPut(d)
    PROVE  DocsInv'
<1>1. PICK S \in SUBSET documents!Entries(d) :
         /\ batch' = documents!With(documents!Without(batch, Gone(d.id)), S, Len(docs) + 1)
         /\ index' = [e \in documents!AllEntries |->
                         IF \E f \in S : f[1] = e[1] THEN batch'[e] ELSE index[e]]
         /\ sealed' = sealed \cup {e[1] : e \in S}
         /\ \/ S = documents!Entries(d) /\ acked' = [acked EXCEPT ![d.id] = d]
               /\ failed' = failed
            \/ acked' = [acked EXCEPT ![d.id] = Unknown] /\ failed' = TRUE
         /\ docs' = Append(Buried(d.id), d)
         /\ batch # None /\ documents!MayBePut(d) /\ UNCHANGED <<made, database>>
  BY DocBatchPutIs
<1>2. PICK i \in Ids : i = d.id
  BY EntriesAre
<1>3. /\ Moves(docs, Buried(i), i) /\ Buried(i) \in Seq(Docs \cup {None})
      /\ \A j : Key(j) \in Gone(i) => j = i
      /\ batch[Key(i)] # <<>> => Key(i) \in Gone(i)
      /\ \A r \in 1..Len(docs) : docs[r] # None /\ docs[r].id # i => Buried(i)[r] = docs[r]
  BY <1>1, BatchWithout
<1>4. PICK ds \in Seq(Docs \cup {None}) : ds = Buried(i)
  BY <1>3
<1>5. PICK t : t = documents!Without(batch, Gone(i))
  OBVIOUS
<1>6. PICK ak : ak = [acked EXCEPT ![i] = Unknown]
  OBVIOUS
<1>7. ak[i] = Unknown /\ \A j \in Ids : j # i => ak[j] = acked[j]
  BY <1>6 DEF DocsInv
<1>8. GivesAll(t, ds, ak)
  <2>1. GivesAll(batch, docs, acked)
    BY <1>1 DEF DocsInv
  <2>2. PICK G : G = Gone(i)
    OBVIOUS
  <2>3. Moves(docs, ds, i) /\ t = documents!Without(batch, G) /\ \A j : Key(j) \in G => j = i
    BY <1>3, <1>4, <1>5, <2>2
  <2> QED
    BY <1>7, <2>1, <2>3, RemovesGives
<1>9. Len(ds) = Len(docs) /\ Moves(docs, docs', i) /\ docs' \in Seq(Docs \cup {None})
      /\ Len(docs') = Len(docs) + 1 /\ docs'[Len(docs) + 1] = d
      /\ \A r \in 1..Len(docs) : docs'[r] = ds[r]
  <2>1. Len(ds) = Len(docs)
    BY <1>4 DEF Buried, DocsInv
  <2>2. Moves(docs, ds, i) /\ docs' = Append(ds, d)
    BY <1>1, <1>2, <1>3, <1>4
  <2>3. \A r \in 1..Len(ds) : docs'[r] = ds[r]
    BY <2>2
  <2> QED
    BY <2>1, <2>2, <2>3, OneAdded DEF Moves
<1>10. /\ acked' \in [Ids -> Docs \cup {None, Unknown}]
       /\ \A j \in Ids : j # i => acked'[j] = acked[j]
       /\ acked'[i] = Unknown \/ (acked'[i] = d /\ Key(i) \in S)
  <2>1. Key(i) \in documents!Entries(d) /\ acked \in [Ids -> Docs \cup {None, Unknown}]
    BY <1>2, EntriesAre DEF DocsInv
  <2> QED
    BY <1>1, <1>2, <2>1
<1>11. GivesAll(batch', docs', acked')
  <2>1. \A j \in Ids : j # d.id => acked'[j] = ak[j]
    BY <1>2, <1>7, <1>10
  <2>2. GivesAll(documents!With(t, S, Len(ds) + 1), Append(ds, d), acked')
    BY <1>2, <1>8, <1>10, <2>1, InsertsGives
  <2> QED
    BY <1>1, <1>2, <1>4, <1>5, <1>9, <2>2
<1>12. \A j : Key(j) \in S => j = i
  BY <1>2, EntriesAre
<1>13. \A j \in Ids : batch'[Key(j)] = IF Key(j) \in S THEN <<Len(docs) + 1>>
                                      ELSE IF Key(j) \in Gone(i) THEN <<>> ELSE batch[Key(j)]
  <2>1. \A e \in documents!AllEntries : t[e] = IF e \in Gone(i) THEN <<>> ELSE batch[e]
    <3>1. Refers(batch, docs)
      BY <1>1 DEF DocsInv, GivesAll
    <3> QED
      BY <1>5, <3>1, WithoutIs
  <2>2. PICK n : n = Len(ds) + 1
    OBVIOUS
  <2>3. \A e \in documents!AllEntries :
           documents!With(t, S, n)[e] =
              IF e \notin S THEN t[e] ELSE IF e[1] = "id" THEN <<n>> ELSE Append(t[e], n)
    <3>1. Refers(t, ds) /\ ds \in Seq(Docs \cup {None}) /\ n = Len(ds) + 1
      BY <1>4, <1>8, <2>2 DEF GivesAll
    <3>2. /\ Refers(documents!With(t, S, n), Append(ds, d))
          /\ \A e \in documents!AllEntries :
                documents!With(t, S, n)[e] =
                   IF e \notin S THEN t[e] ELSE IF e[1] = "id" THEN <<n>> ELSE Append(t[e], n)
      BY <3>1, WithIs
    <3> QED
      BY <3>2
  <2>4. batch' = documents!With(t, S, n) /\ n = Len(docs) + 1
    BY <1>1, <1>2, <1>5, <1>9, <2>2
  <2> QED
    BY <2>1, <2>3, <2>4, KeysAre
<1>14. ASSUME NEW j \in Ids, batch'[Key(j)] # <<>>
       PROVE  docs'[batch'[Key(j)][1]] # None
  <2>1. CASE Key(j) \in S
    <3>1. batch'[Key(j)] = <<Len(docs) + 1>>
      BY <1>13, <2>1
    <3>2. docs'[Len(docs) + 1] # None
      BY <1>9, EntriesAre
    <3> QED
      BY <3>1, <3>2
  <2>2. CASE Key(j) \notin S
    <3>1. batch'[Key(j)] = batch[Key(j)] /\ Key(j) \notin Gone(i) /\ j # i
      BY <1>3, <1>13, <1>14, <2>2
    <3>2. PICK r \in 1..Len(docs) :
             batch[Key(j)] = <<r>> /\ docs[r] \in Docs /\ docs[r].id = j
      <4>1. OwnRef(batch, docs, j) /\ docs[batch[Key(j)][1]] # None /\ batch[Key(j)] # <<>>
            /\ docs \in Seq(Docs \cup {None})
        BY <1>1, <1>14, <3>1 DEF DocsInv, GivesAll, Gives
      <4> QED
        BY ZenonT(40), <4>1, OldDocument
    <3>3. docs'[r] = docs[r] /\ docs[r] # None
      BY <1>3, <1>4, <1>9, <3>1, <3>2, EntriesAre
    <3> QED
      BY <3>1, <3>2, <3>3
  <2> QED
    BY <2>1, <2>2
<1>15. GivesAll(index', docs', acked')
  <2>1. Refers(index, docs')
    BY <1>9, RefersStay DEF DocsInv, GivesAll
  <2>2. Refers(index', docs')
    <3>1. \A e \in documents!AllEntries : index'[e] \in {batch'[e], index[e]}
      BY <1>1
    <3>2. index' \in [documents!AllEntries -> Seq(Nat)]
      BY <1>1, <1>11, <2>1 DEF GivesAll, Refers
    <3>3. Refers(batch', docs')
      BY <1>11 DEF GivesAll
    <3> QED
      BY <2>1, <3>1, <3>2, <3>3 DEF Refers
  <2>3. CASE \E f \in S : f[1] = "id"
    <3>1. \A j \in Ids : index'[Key(j)] = batch'[Key(j)]
      BY <1>1, <2>3, KeysAre
    <3>2. \A j \in Ids : Gives(index', docs', acked', j)
      BY <1>11, <3>1 DEF GivesAll, Gives, OwnRef, GetOf
    <3> QED
      BY <2>2, <3>2 DEF GivesAll
  <2>4. CASE ~ \E f \in S : f[1] = "id"
    <3>1. \A j \in Ids : index'[Key(j)] = index[Key(j)]
      BY <1>1, <2>4, KeysAre
    <3>2. acked'[i] = Unknown
      BY <1>10, <2>4, KeysAre
    <3>3. Gives(index', docs', acked', i)
      BY <1>9, <3>1, <3>2, OwnRefKept DEF DocsInv, GivesAll, Gives
    <3> QED
      BY <1>9, <1>10, <2>2, <3>1, <3>3, GivesAfter DEF DocsInv
  <2> QED
    BY <2>3, <2>4
<1>16. /\ made' \subseteq documents!Fields /\ sealed' \subseteq documents!Fields
       /\ database' # None /\ made' = documents!Fields
  <2>1. \A e \in S : e[1] \in documents!Fields
    <3>1. S \subseteq documents!AllEntries
      BY EntriesAre
    <3> QED
      BY <3>1 DEF documents!AllEntries, documents!Fields
  <2> QED
    BY <1>1, <2>1 DEF DocsInv
<1>17. \A e \in documents!AllEntries : e[1] \in made'
  BY <1>16 DEF documents!AllEntries, documents!Fields
<1> QED
  BY <1>9, <1>10, <1>11, <1>14, <1>15, <1>16, <1>17 DEF DocsInv

LEMMA DeleteDBKeeps ==
    ASSUME DocsAssumption, DocsInv, documents!DeleteDocumentDB
    PROVE  DocsInv'
<1>1. PICK S \in SUBSET made :
         /\ made' = made \ S
         /\ index' = documents!Without(index, {e \in documents!AllEntries : e[1] \in S})
  BY DEF documents!DeleteDocumentDB
<1>2. /\ database' = None /\ batch' = None /\ UNCHANGED <<sealed, docs>>
      /\ listed' \in {TRUE} \cup {made' # {}}
      /\ acked' = [i \in Ids |-> IF listed' THEN Unknown ELSE None]
  BY DEF documents!DeleteDocumentDB
<1>3. PICK E : E = {e \in documents!AllEntries : e[1] \in S}
  OBVIOUS
<1>4. /\ Refers(index', docs)
      /\ \A e \in documents!AllEntries : index'[e] = IF e \in E THEN <<>> ELSE index[e]
  <2>1. Refers(index, docs)
    BY DEF DocsInv, GivesAll
  <2> QED
    BY <1>1, <1>3, <2>1, WithoutIs
<1>5. \A e \in documents!AllEntries : e[1] \notin made' => index'[e] = <<>>
  BY <1>1, <1>3, <1>4 DEF DocsInv
<1>6. acked' \in [Ids -> Docs \cup {None, Unknown}]
  BY <1>2
<1>7. \A i \in Ids : Gives(index', docs, acked', i)
  <2> SUFFICES ASSUME NEW i \in Ids PROVE Gives(index', docs, acked', i)
    OBVIOUS
  <2>1. Key(i) \in documents!AllEntries
    BY KeysAre
  <2>2. OwnRef(index', docs, i)
    <3>1. OwnRef(index, docs, i) /\ index'[Key(i)] \in {index[Key(i)], <<>>}
      BY <1>4, <2>1 DEF DocsInv, GivesAll, Gives
    <3>2. Moves(docs, docs, i)
      BY NothingMoves DEF DocsInv
    <3> QED
      BY <3>1, <3>2, OwnRefKept
  <2>3. CASE listed'
    BY <1>2, <2>2, <2>3 DEF Gives
  <2>4. CASE ~listed'
    <3>1. made' = {}
      BY <1>2, <2>4
    <3>2. index'[Key(i)] = <<>>
      BY <1>5, <2>1, <3>1
    <3>3. acked'[i] = None
      BY <1>2, <2>4
    <3> QED
      BY <2>2, <3>2, <3>3 DEF Gives, GetOf
  <2> QED
    BY <2>3, <2>4
<1> QED
  BY <1>1, <1>2, <1>4, <1>5, <1>6, <1>7 DEF DocsInv, GivesAll

LEMMA CreateDBKeeps ==
    ASSUME DocsAssumption, DocsInv, documents!CreateDocumentDB
    PROVE  DocsInv'
<1>1. UNCHANGED <<index, docs, database, batch, acked>> /\ database = None
  BY DEF documents!CreateDocumentDB, documents!IsDBOpened
<1>2. made \subseteq made' /\ made' \subseteq documents!Fields /\ sealed' \subseteq documents!Fields
  BY DEF documents!CreateDocumentDB, DocsInv
<1>3. batch = None
  BY <1>1 DEF DocsInv
<1> QED
  BY <1>1, <1>2, <1>3 DEF DocsInv

LEMMA OpenDBKeeps ==
    ASSUME DocsInv, documents!OpenDocumentDB
    PROVE  DocsInv'
<1>1. /\ UNCHANGED <<made, index, sealed, docs, batch, acked>> /\ database = None
      /\ made = documents!Fields
  BY DEF documents!OpenDocumentDB, documents!IsDBOpened
<1> QED
  BY <1>1 DEF DocsInv

LEMMA ClosePodKeeps ==
    ASSUME DocsInv, documents!ClosePod
    PROVE  DocsInv'
  BY DEF DocsInv, documents!ClosePod

LEMMA CreateDocBatchKeeps ==
    ASSUME DocsAssumption, DocsInv, documents!CreateDocBatch
    PROVE  DocsInv'
<1>1. /\ database # None /\ batch' = index /\ index = documents!Nothing
      /\ UNCHANGED <<made, index, sealed, docs, database, acked>>
  BY DEF documents!CreateDocBatch, documents!IsDBOpened
<1>2. \A i \in Ids : index[Key(i)] = <<>>
  BY <1>1, KeysAre DEF documents!Nothing
<1> QED
  BY <1>1, <1>2 DEF DocsInv

LEMMA DocBatchWriteKeeps ==
    ASSUME DocsInv, documents!DocBatchWrite
    PROVE  DocsInv'
  BY DEF DocsInv, documents!DocBatchWrite

\* What a call on one document leaves: the database is open, so all indexes are there.
LEMMA DocCallKeeps ==
    ASSUME DocsInv, DocCall, UNCHANGED <<made, sealed, database, batch>>,
           batch = None, database # None
    PROVE  DocsInv'
<1>1. \A e \in documents!AllEntries : e[1] \in made'
  BY DEF DocsInv, documents!AllEntries, documents!Fields
<1> QED
  BY <1>1 DEF DocsInv, DocCall

LEMMA DocsInvInit ==
    ASSUME DocsAssumption, documents!Init
    PROVE  DocsInv
<1>1. /\ docs = <<>> /\ acked = [i \in Ids |-> None] /\ made = {} /\ sealed = {}
      /\ index = documents!Nothing /\ database = None /\ batch = None
  BY DEF documents!Init
<1>2. \A e \in documents!AllEntries : index[e] = <<>>
  BY <1>1 DEF documents!Nothing
<1>3. Refers(index, docs)
  <2>1. <<>> \in Seq(Nat) /\ Len(<<>>) = 0
    OBVIOUS
  <2> QED
    BY <1>1, <2>1 DEF Refers, documents!Nothing
<1>4. \A i \in Ids : Gives(index, docs, acked, i)
  BY <1>1, <1>2, KeysAre DEF Gives, OwnRef, GetOf
<1> QED
  BY <1>1, <1>2, <1>3, <1>4 DEF DocsInv, GivesAll

LEMMA DocsStepKeeps ==
    ASSUME DocsAssumption, DocsInv, documents!Next
    PROVE  DocsInv'
<1>1. CASE documents!CreateDocumentDB
  BY <1>1, CreateDBKeeps
<1>2. CASE documents!OpenDocumentDB
  BY <1>2, OpenDBKeeps
<1>3. CASE documents!ClosePod
  BY <1>3, ClosePodKeeps
<1>4. CASE documents!DeleteDocumentDB
  BY <1>4, DeleteDBKeeps
<1>5. CASE documents!CreateDocBatch
  BY <1>5, CreateDocBatchKeeps
<1>6. CASE documents!DocBatchWrite
  BY <1>6, DocBatchWriteKeeps
<1>7. ASSUME NEW i \in Ids, documents!Del(i)
      PROVE  DocsInv'
  BY <1>7, DelKeeps, DocCallKeeps
<1>8. ASSUME NEW d \in Docs, documents!PutNew(d)
      PROVE  DocsInv'
  BY <1>8, PutNewKeeps, DocCallKeeps
<1>9. ASSUME NEW d \in Docs, documents!PutOver(d)
      PROVE  DocsInv'
  BY <1>9, PutOverKeeps, DocCallKeeps
<1>10. ASSUME NEW d \in Docs, documents!DocBatchPut(d)
       PROVE  DocsInv'
  BY <1>10, DocBatchPutKeeps
<1> QED
  BY <1>1, <1>2, <1>3, <1>4, <1>5, <1>6, <1>7, <1>8, <1>9, <1>10 DEF documents!Next

LEMMA DocumentsStayFit == ServicesSpec => [](Part("documents") => DocsInv)
<1>1. ServicesInit => (Part("documents") => DocsInv)
  BY DocsAssumption, DocsInvInit DEF ServicesInit
<1>2. ASSUME Part("documents") => DocsInv, [ServicesNext]_serviceVars
      PROVE  (Part("documents") => DocsInv)'
  <2> SUFFICES ASSUME Part("documents")' PROVE DocsInv'
    OBVIOUS
  <2>1. CASE UNCHANGED serviceVars
    <3>1. UNCHANGED <<part, made, index, sealed, docs, database, batch, acked>>
      BY <2>1 DEF serviceVars, docVars
    <3> QED
      BY <1>2, <3>1 DEF Part, DocsInv
  <2>2. CASE ServicesNext
    <3>1. Part("documents") /\ (documents!Next \/ UNCHANGED docVars)
      BY <2>2 DEF ServicesNext, Part
    <3>2. CASE documents!Next
      BY <1>2, <3>1, <3>2, DocsAssumption, DocsStepKeeps
    <3>3. CASE UNCHANGED docVars
      BY <1>2, <3>1, <3>3 DEF docVars, DocsInv
    <3> QED
      BY <3>1, <3>2, <3>3
  <2> QED
    BY <1>2, <2>1, <2>2
<1> QED
  BY <1>1, <1>2, PTL DEF ServicesSpec

\* A client gets back the document it put last (GetGivesLatest; Get in document.go).
THEOREM DocumentsAsPut == ServicesSpec => []GetGivesLatest
<1>1. (Part("documents") => DocsInv) => GetGivesLatest
  BY DEF GetGivesLatest, documents!GetGivesLatest, DocsInv, GivesAll, Gives, GetOf,
         documents!Get, Key
<1> QED
  BY <1>1, DocumentsStayFit, PTL

-----------------------------------------------------------------------------
\* The keys of documents, while no call has stopped half-way

\* The references an entry has.
Has(t, e, r) == \E k \in 1..Len(t[e]) : t[e][k] = r

\* A reference to a document is under the document's keys only, and the one its id has;
\* the documents last put are under all their keys.
Files(t, ds, ak) ==
    /\ \A e \in documents!AllEntries : \A r : Has(t, e, r) /\ ds[r] # None =>
          e \in documents!Entries(ds[r]) /\ t[Key(ds[r].id)] = <<r>>
    /\ \A i \in Ids, e \in documents!AllEntries :
          ak[i] \in Docs /\ e \in documents!Entries(ak[i]) =>
              \E r : Has(t, e, r) /\ t[Key(i)] = <<r>>

\* Two documents have no key of an index in common that a call takes entries from.
Apart(ak, loading) ==
    \A i, j \in Ids : i # j /\ ak[i] \in Docs /\ ak[j] \in Docs =>
        \A e \in documents!Entries(ak[i]) \cap documents!Entries(ak[j]) :
            ~loading /\ e[1] \in Others

FindInv ==
    ~failed =>
        /\ \A i \in Ids : acked[i] # Unknown
        /\ Apart(acked, batch # None) /\ Files(index, docs, acked)
        /\ batch # None => Files(batch, docs, acked)
                           /\ \A i \in Ids : batch[Key(i)] = index[Key(i)]

-----------------------------------------------------------------------------

LEMMA HasIs ==
    ASSUME NEW t, NEW ds \in Seq(Docs \cup {None}), Refers(t, ds),
           NEW e \in documents!AllEntries, NEW r, Has(t, e, r)
    PROVE  r \in 1..Len(ds) /\ (ds[r] # None => ds[r] \in Docs)
<1>1. r \in 1..Len(ds)
  BY DEF Has, Refers
<1> QED
  BY <1>1

LEMMA HasWithout ==
    ASSUME NEW t, NEW ds, Refers(t, ds), NEW S, NEW e \in documents!AllEntries, NEW r
    PROVE  Has(documents!Without(t, S), e, r) <=> e \notin S /\ Has(t, e, r)
<1>1. documents!Without(t, S)[e] = IF e \in S THEN <<>> ELSE t[e]
  BY WithoutIs
<1>2. Len(<<>>) = 0
  OBVIOUS
<1> QED
  BY <1>1, <1>2 DEF Has

LEMMA HasWith ==
    ASSUME NEW t, NEW ds \in Seq(Docs \cup {None}), Refers(t, ds), NEW S, NEW d \in Docs,
           NEW n, n = Len(ds) + 1, NEW e \in documents!AllEntries, NEW r
    PROVE  Has(documents!With(t, S, n), e, r) <=>
              \/ e \notin S /\ Has(t, e, r)
              \/ e \in S /\ r = n
              \/ e \in S /\ e[1] # "id" /\ Has(t, e, r)
<1>1. PICK u : u = documents!With(t, S, n)
  OBVIOUS
<1>2. u[e] = IF e \notin S THEN t[e] ELSE IF e[1] = "id" THEN <<n>> ELSE Append(t[e], n)
  <2>1. \A f \in documents!AllEntries : documents!With(t, S, n)[f] =
           IF f \notin S THEN t[f] ELSE IF f[1] = "id" THEN <<n>> ELSE Append(t[f], n)
    <3>1. /\ Refers(documents!With(t, S, n), Append(ds, d))
          /\ \A f \in documents!AllEntries : documents!With(t, S, n)[f] =
                IF f \notin S THEN t[f] ELSE IF f[1] = "id" THEN <<n>> ELSE Append(t[f], n)
      BY WithIs
    <3> QED
      BY <3>1
  <2> QED
    BY <1>1, <2>1
<1>3. PICK q \in Seq(Nat) : q = t[e]
  BY DEF Refers
<1>4. n \in Nat
  OBVIOUS
<1>5. CASE e \notin S
  BY <1>1, <1>2, <1>5 DEF Has
<1>6. CASE e \in S /\ e[1] = "id"
  <2>1. u[e] = <<n>> /\ Len(<<n>>) = 1 /\ <<n>>[1] = n
    BY <1>2, <1>6
  <2>2. Has(u, e, r) <=> r = n
    BY <2>1 DEF Has
  <2> QED
    BY <1>1, <1>6, <2>2
<1>7. CASE e \in S /\ e[1] # "id"
  <2>1. u[e] = Append(q, n)
    BY <1>2, <1>3, <1>7
  <2>2. /\ Len(Append(q, n)) = Len(q) + 1 /\ Len(q) \in Nat /\ Append(q, n)[Len(q) + 1] = n
        /\ \A k \in 1..Len(q) : Append(q, n)[k] = q[k]
    BY <1>3, <1>4
  <2>3. (\E k \in 1..(Len(q) + 1) : Append(q, n)[k] = r) <=> r = n \/ \E k \in 1..Len(q) : q[k] = r
    BY <2>2
  <2>4. Has(u, e, r) <=> r = n \/ Has(t, e, r)
    BY <1>3, <2>1, <2>2, <2>3 DEF Has
  <2> QED
    BY <1>1, <1>7, <2>4
<1> QED
  BY <1>5, <1>6, <1>7

LEMMA AckedIs ==
    ASSUME DocsAssumption, NEW t, NEW ds, NEW ak, GivesAll(t, ds, ak), NEW i \in Ids,
           ak[i] \in Docs
    PROVE  ak[i].id = i
<1>1. Gives(t, ds, ak, i) /\ ak[i] # Unknown /\ ak[i] # None
  BY DEF GivesAll, DocsAssumption
<1>2. t[Key(i)] # <<>> /\ GetOf(t, ds, i) = ak[i]
  BY <1>1 DEF Gives, GetOf
<1>3. PICK r \in 1..Len(ds) : t[Key(i)] = <<r>> /\ (ds[r] # None => ds[r].id = i)
  BY <1>1, <1>2 DEF Gives, OwnRef
<1>4. ds[r] = ak[i]
  BY <1>2, <1>3 DEF GetOf
<1> QED
  BY <1>1, <1>3, <1>4

\* The old document of an id is taken out.
LEMMA TakesOut ==
    ASSUME DocsAssumption, NEW t, NEW ds, NEW ak, Refers(t, ds), Files(t, ds, ak), NEW i \in Ids,
           NEW S, \A j : Key(j) \in S => j = i,
           \A j \in Ids : j # i /\ ak[j] \in Docs => S \cap documents!Entries(ak[j]) = {},
           NEW es, Moves(ds, es, i),
           \A r \in 1..Len(ds) : t[Key(i)] = <<r>> => es[r] = None,
           NEW al, \A j \in Ids : j # i => al[j] = ak[j], al[i] = None
    PROVE  Files(documents!Without(t, S), es, al)
<1>1. PICK u : u = documents!Without(t, S)
  OBVIOUS
<1>2. /\ \A j \in Ids : j # i => u[Key(j)] = t[Key(j)]
      /\ ds \in Seq(Docs \cup {None})
  <2>1. \A e \in documents!AllEntries : u[e] = IF e \in S THEN <<>> ELSE t[e]
    BY <1>1, WithoutIs
  <2> QED
    BY <2>1, KeysAre DEF Moves
<1>3. \A e \in documents!AllEntries : \A r : Has(u, e, r) <=> e \notin S /\ Has(t, e, r)
  BY <1>1, HasWithout
<1>4. ASSUME NEW e \in documents!AllEntries, NEW r, Has(u, e, r), es[r] # None
      PROVE  e \in documents!Entries(es[r]) /\ u[Key(es[r].id)] = <<r>>
  <2>1. Has(t, e, r)
    BY <1>3, <1>4
  <2>2. r \in 1..Len(ds) /\ (ds[r] # None => ds[r] \in Docs)
    BY <1>2, <2>1, HasIs
  <2>3. es[r] = ds[r] /\ ds[r] \in Docs
    BY <1>4, <2>2 DEF Moves
  <2>4. e \in documents!Entries(ds[r]) /\ t[Key(ds[r].id)] = <<r>>
    BY <1>4, <2>1, <2>3 DEF Files
  <2>5. ds[r].id \in Ids /\ ds[r].id # i
    BY <1>4, <2>2, <2>3, <2>4, EntriesAre
  <2> QED
    BY <1>2, <2>3, <2>4, <2>5
<1>5. ASSUME NEW j \in Ids, NEW e \in documents!AllEntries, al[j] \in Docs,
             e \in documents!Entries(al[j])
      PROVE  \E r : Has(u, e, r) /\ u[Key(j)] = <<r>>
  <2>1. j # i /\ al[j] = ak[j]
    BY <1>5 DEF DocsAssumption
  <2>2. e \notin S /\ u[Key(j)] = t[Key(j)]
    BY <1>2, <1>5, <2>1
  <2>3. PICK r : Has(t, e, r) /\ t[Key(j)] = <<r>>
    BY <1>5, <2>1 DEF Files
  <2> QED
    BY <1>3, <2>2, <2>3
<1>6. Files(u, es, al)
  BY <1>4, <1>5 DEF Files
<1> QED
  BY <1>1, <1>6

\* A document is put in, under an id that has none.
LEMMA PutsIn ==
    ASSUME DocsAssumption, NEW t, NEW ds \in Seq(Docs \cup {None}), NEW ak,
           GivesAll(t, ds, ak), Files(t, ds, ak), NEW d \in Docs, t[Key(d.id)] = <<>>,
           NEW al, \A j \in Ids : j # d.id => al[j] = ak[j], al[d.id] = d
    PROVE  Files(documents!With(t, documents!Entries(d), Len(ds) + 1), Append(ds, d), al)
<1>1. PICK n : n = Len(ds) + 1
  OBVIOUS
<1>2. PICK S : S = documents!Entries(d)
  OBVIOUS
<1>3. PICK u : u = documents!With(t, S, n)
  OBVIOUS
<1>4. PICK es : es = Append(ds, d)
  OBVIOUS
<1>5. Refers(t, ds)
  BY DEF GivesAll
<1>6. PICK i \in Ids : i = d.id
  BY EntriesAre
<1>7. Key(i) \in S /\ \A j : Key(j) \in S => j = i
  BY <1>2, <1>6, EntriesAre
<1>8. u[Key(i)] = <<n>> /\ \A j \in Ids : j # i => u[Key(j)] = t[Key(j)]
  <2>1. /\ Refers(documents!With(t, S, n), Append(ds, d))
        /\ \A e \in documents!AllEntries : documents!With(t, S, n)[e] =
              IF e \notin S THEN t[e] ELSE IF e[1] = "id" THEN <<n>> ELSE Append(t[e], n)
    BY <1>1, <1>5, WithIs
  <2> QED
    BY <1>3, <1>7, <2>1, KeysAre
<1>9. \A e \in documents!AllEntries : \A r : Has(u, e, r) <=>
         \/ e \notin S /\ Has(t, e, r)
         \/ e \in S /\ r = n
         \/ e \in S /\ e[1] # "id" /\ Has(t, e, r)
  BY <1>1, <1>3, <1>5, HasWith
<1>10. es[n] = d /\ \A q \in 1..Len(ds) : es[q] = ds[q]
  BY <1>1, <1>4
<1>11. ASSUME NEW e \in documents!AllEntries, NEW r, Has(t, e, r), es[r] # None
       PROVE  e \in documents!Entries(es[r]) /\ u[Key(es[r].id)] = <<r>>
  <2>1. r \in 1..Len(ds) /\ (ds[r] # None => ds[r] \in Docs)
    BY <1>5, <1>11, HasIs
  <2>2. es[r] = ds[r] /\ ds[r] \in Docs
    BY <1>10, <1>11, <2>1
  <2>3. e \in documents!Entries(ds[r]) /\ t[Key(ds[r].id)] = <<r>>
    BY <1>11, <2>2 DEF Files
  <2>4. ds[r].id \in Ids
    BY <2>2, EntriesAre
  <2>5. ds[r].id # i
    <3>1. <<r>> # <<>> /\ t[Key(i)] = <<>>
      BY <1>6
    <3> QED
      BY <2>3, <3>1
  <2> QED
    BY <1>8, <2>2, <2>3, <2>4, <2>5
<1>12. ASSUME NEW e \in S
       PROVE  e \in documents!Entries(es[n]) /\ u[Key(es[n].id)] = <<n>>
  BY <1>2, <1>6, <1>8, <1>10
<1>13. ASSUME NEW j \in Ids, NEW e \in documents!AllEntries, al[j] \in Docs,
              e \in documents!Entries(al[j])
       PROVE  \E r : Has(u, e, r) /\ u[Key(j)] = <<r>>
  <2>1. CASE j = i
    BY <1>2, <1>6, <1>8, <1>9, <1>13, <2>1
  <2>2. CASE j # i
    <3>1. al[j] = ak[j] /\ u[Key(j)] = t[Key(j)]
      BY <1>6, <1>8, <2>2
    <3>2. PICK r : Has(t, e, r) /\ t[Key(j)] = <<r>>
      BY <1>13, <3>1 DEF Files
    <3>3. ak[j].id = j
      <4>1. ak[j] \in Docs /\ GivesAll(t, ds, ak) /\ j \in Ids /\ DocsAssumption
        BY <1>13, <3>1
      <4>2. \A k \in Ids : ak[k] \in Docs => ak[k].id = k
        BY ZenonT(40), <4>1, AckedIs
      <4> QED
        BY <4>1, <4>2
    <3>4. Key(i) \notin documents!Entries(ak[j])
      BY <1>13, <2>2, <3>1, <3>3, EntriesAre
    <3>5. e \in S => e[1] # "id"
      <4>1. ASSUME e \in S, e[1] = "id" PROVE FALSE
        <5>1. PICK k \in Ids : e = Key(k)
          BY <4>1, KeysAre
        <5> QED
          BY <1>7, <1>13, <3>1, <3>4, <4>1, <5>1
      <4> QED
        BY <4>1
    <3>6. Has(u, e, r)
      BY <1>9, <3>2, <3>5
    <3> QED
      BY <3>1, <3>2, <3>6
  <2> QED
    BY <2>1, <2>2
<1>14. \A e \in documents!AllEntries : \A r : Has(u, e, r) /\ es[r] # None =>
          e \in documents!Entries(es[r]) /\ u[Key(es[r].id)] = <<r>>
  BY <1>9, <1>11, <1>12
<1>15. Files(u, es, al)
  BY <1>13, <1>14 DEF Files
<1> QED
  BY <1>1, <1>2, <1>3, <1>4, <1>15

-----------------------------------------------------------------------------
\* The calls, one after the other.

LEMMA OthersApart ==
    ASSUME NEW ak, NEW loading, Apart(ak, loading), NEW al, NEW i \in Ids,
           \A j \in Ids : j # i => al[j] = ak[j], al[i] \notin Docs
    PROVE  Apart(al, loading)
  BY DEF Apart

LEMMA NewApart ==
    ASSUME Distinct, NEW d \in Docs, documents!MayBePut(d), Apart(acked, batch # None),
           d.id \in Ids, NEW al, \A j \in Ids : j # d.id => al[j] = acked[j], al[d.id] = d
    PROVE  Apart(al, batch # None)
<1>1. ASSUME NEW j \in Ids, j # d.id, acked[j] \in Docs,
             NEW e \in documents!Entries(acked[j]) \cap documents!Entries(d)
      PROVE  batch = None /\ e[1] \in Others
  BY <1>1 DEF documents!MayBePut
<1> QED
  BY <1>1 DEF Apart

\* The old document of an id, and what it has in common with the others.
LEMMA OldIsAlone ==
    ASSUME NEW t, GivesAll(t, docs, acked), Apart(acked, batch # None), NEW i \in Ids,
           acked[i] # Unknown, NEW r \in 1..Len(docs), t[Key(i)] = <<r>>, docs[r] # None,
           docs \in Seq(Docs \cup {None})
    PROVE  \A j \in Ids : j # i /\ acked[j] \in Docs =>
              /\ documents!SimpleEntries(docs[r]) \cap documents!Entries(acked[j]) = {}
              /\ batch # None => documents!Entries(docs[r]) \cap documents!Entries(acked[j]) = {}
<1>1. acked[i] = docs[r] /\ acked[i] \in Docs
  <2>1. Gives(t, docs, acked, i) /\ <<r>> # <<>> /\ <<r>>[1] = r
    BY DEF GivesAll
  <2> QED
    BY <2>1 DEF Gives, GetOf
<1> QED
  BY <1>1 DEF Apart, documents!SimpleEntries

LEMMA DelFinds ==
    ASSUME DocsAssumption, DocsInv, FindInv, NEW i \in Ids, documents!Del(i)
    PROVE  FindInv'
<1> SUFFICES ASSUME ~failed' PROVE FindInv'
  BY DEF FindInv
<1>1. batch = None /\ batch' = None
  BY DEF documents!Del
<1>2. /\ docs \in Seq(Docs \cup {None}) /\ acked \in [Ids -> Docs \cup {None, Unknown}]
      /\ GivesAll(index, docs, acked)
  BY DEF DocsInv
<1>3. CASE documents!IsThere(i) /\ documents!Deletes(i)
  <2>1. PICK r \in 1..Len(docs) :
           /\ index[Key(i)] = <<r>> /\ docs[r] \in Docs /\ docs[r].id = i
           /\ Moves(docs, [docs EXCEPT ![r] = None], i)
    <3>1. index[Key(i)] # <<>> /\ docs[index[Key(i)][1]] # None
      BY <1>3 DEF documents!IsThere, Key
    <3> QED
      BY <1>2, <3>1, OldDocument DEF GivesAll, Gives
  <2>2. PICK es : es = documents!SimpleEntries(docs[r])
    OBVIOUS
  <2>3. \A j : Key(j) \in es => j = i
    BY <2>1, <2>2, EntriesAre
  <2>4. index[<<"id", i>>][1] = r
    BY <2>1 DEF Key
  <2>5. /\ index' = documents!Without(index, es) /\ docs' = [docs EXCEPT ![r] = None]
        /\ acked' = [acked EXCEPT ![i] = None] /\ ~failed
    BY <1>3, <2>2, <2>4 DEF documents!Deletes, documents!Fails
  <2>6. /\ \A j \in Ids : acked[j] # Unknown
        /\ Apart(acked, batch # None) /\ Files(index, docs, acked)
    BY <2>5 DEF FindInv
  <2>7. acked'[i] = None /\ \A j \in Ids : j # i => acked'[j] = acked[j]
    BY <1>2, <2>5
  <2>8. \A j \in Ids : j # i /\ acked[j] \in Docs => es \cap documents!Entries(acked[j]) = {}
    <3>1. docs[r] # None /\ acked[i] # Unknown
      BY <2>1, <2>6 DEF DocsAssumption
    <3>2. GivesAll(index, docs, acked) /\ Apart(acked, batch # None) /\ index[Key(i)] = <<r>>
      BY <1>2, <2>1, <2>6
    <3>3. \A j \in Ids : j # i /\ acked[j] \in Docs =>
             /\ documents!SimpleEntries(docs[r]) \cap documents!Entries(acked[j]) = {}
             /\ batch # None => documents!Entries(docs[r]) \cap documents!Entries(acked[j]) = {}
      BY <1>2, <3>1, <3>2, OldIsAlone
    <3> QED
      BY <2>2, <3>3
  <2>9. Moves(docs, docs', i) /\ \A q \in 1..Len(docs) : index[Key(i)] = <<q>> => docs'[q] = None
    BY <1>2, <2>1, <2>5
  <2>10. Files(documents!Without(index, es), docs', acked')
    <3>1. Refers(index, docs)
      BY <1>2 DEF GivesAll
    <3> QED
      BY <2>3, <2>6, <2>7, <2>8, <2>9, <3>1, TakesOut
  <2>11. Apart(acked', batch # None)
    <3>1. acked'[i] \notin Docs
      BY <2>7 DEF DocsAssumption
    <3> QED
      BY <2>6, <2>7, <3>1, OthersApart
  <2>12. \A j \in Ids : acked'[j] # Unknown
    BY <2>6, <2>7 DEF DocsAssumption
  <2> QED
    BY <1>1, <2>5, <2>10, <2>11, <2>12 DEF FindInv
<1>4. CASE /\ index[<<"id", i>>] = <<>>
           /\ acked' = [acked EXCEPT ![i] = None] /\ UNCHANGED <<index, docs, failed>>
  <2>1. acked[i] # Unknown
    BY <1>4 DEF FindInv
  <2>2. acked[i] = None
    BY <1>2, <1>4, <2>1 DEF GivesAll, Gives, GetOf, Key
  <2>3. acked' = acked
    BY <1>2, <1>4, <2>2
  <2> QED
    BY <1>1, <1>4, <2>3 DEF FindInv
<1> QED
  BY <1>3, <1>4 DEF documents!Del

\* What a document that is put leaves, in the one index the calls look at.
LEMMA InsertsFinds ==
    ASSUME DocsAssumption, Distinct, NEW d \in Docs, documents!MayBePut(d),
           acked \in [Ids -> Docs \cup {None, Unknown}], \A j \in Ids : acked[j] # Unknown,
           batch = None, batch' = None, Apart(acked, batch # None),
           NEW t, NEW ds \in Seq(Docs \cup {None}), NEW ak, GivesAll(t, ds, ak), Files(t, ds, ak),
           \A j \in Ids : j # d.id => ak[j] = acked[j], t[Key(d.id)] = <<>>,
           documents!Inserts(d, t, ds), acked'[d.id] # Unknown
    PROVE  FindInv'
<1>1. d.id \in Ids
  BY EntriesAre
<1>2. /\ docs' = Append(ds, d) /\ acked' = [acked EXCEPT ![d.id] = d]
      /\ index' = documents!With(t, documents!Entries(d), Len(ds) + 1)
  BY <1>1 DEF documents!Inserts
<1>3. acked'[d.id] = d /\ \A j \in Ids : j # d.id => acked'[j] = acked[j]
  BY <1>1, <1>2
<1>4. Files(index', docs', acked')
  <2>1. \A j \in Ids : j # d.id => acked'[j] = ak[j]
    BY <1>3
  <2> QED
    BY <1>2, <1>3, <2>1, PutsIn
<1>5. Apart(acked', batch # None)
  BY <1>1, <1>3, NewApart
<1>6. \A j \in Ids : acked'[j] # Unknown
  BY <1>1, <1>3, EntriesAre
<1> QED
  BY <1>4, <1>5, <1>6 DEF FindInv

LEMMA PutNewFinds ==
    ASSUME DocsAssumption, Distinct, DocsInv, FindInv, NEW d \in Docs, documents!PutNew(d)
    PROVE  FindInv'
<1> SUFFICES ASSUME ~failed' PROVE FindInv'
  BY DEF FindInv
<1>1. /\ batch = None /\ batch' = None /\ documents!MayBePut(d) /\ ~failed
      /\ index[Key(d.id)] = <<>> /\ acked'[d.id] # Unknown /\ documents!Inserts(d, index, docs)
  BY DEF documents!PutNew, Key
<1>2. /\ docs \in Seq(Docs \cup {None}) /\ acked \in [Ids -> Docs \cup {None, Unknown}]
      /\ GivesAll(index, docs, acked)
  BY DEF DocsInv
<1>3. /\ \A j \in Ids : acked[j] # Unknown
      /\ Apart(acked, batch # None) /\ Files(index, docs, acked)
  BY <1>1 DEF FindInv
<1> QED
  BY <1>1, <1>2, <1>3, InsertsFinds

LEMMA PutOverFinds ==
    ASSUME DocsAssumption, Distinct, DocsInv, FindInv, NEW d \in Docs, documents!PutOver(d)
    PROVE  FindInv'
<1> SUFFICES ASSUME ~failed' PROVE FindInv'
  BY DEF FindInv
<1>1. PICK i \in Ids : i = d.id
  BY EntriesAre
<1>2. /\ docs \in Seq(Docs \cup {None}) /\ acked \in [Ids -> Docs \cup {None, Unknown}]
      /\ GivesAll(index, docs, acked)
  BY DEF DocsInv
<1>3. PICK r \in 1..Len(docs) :
         /\ index[Key(i)] = <<r>> /\ docs[r] \in Docs /\ docs[r].id = i
         /\ Moves(docs, [docs EXCEPT ![r] = None], i)
  <2>1. index[Key(i)] # <<>> /\ docs[index[Key(i)][1]] # None
    BY <1>1 DEF documents!PutOver, documents!IsThere, Key
  <2> QED
    BY <1>2, <2>1, OldDocument DEF GivesAll, Gives
<1>4. PICK es : es = documents!SimpleEntries(docs[r])
  OBVIOUS
<1>5. Key(i) \in es /\ \A j : Key(j) \in es => j = i
  BY <1>3, <1>4, EntriesAre
<1>6. PICK ds : ds = [docs EXCEPT ![r] = None]
  OBVIOUS
<1>7. PICK t : t = documents!Without(index, es)
  OBVIOUS
<1>8. /\ batch = None /\ batch' = None /\ documents!MayBePut(d) /\ ~failed
      /\ documents!Inserts(d, t, ds) /\ acked'[d.id] # Unknown
  <2>1. index[<<"id", d.id>>][1] = r
    BY <1>1, <1>3 DEF Key
  <2> QED
    BY <1>4, <1>6, <1>7, <2>1 DEF documents!PutOver, documents!Fails
<1>9. /\ \A j \in Ids : acked[j] # Unknown
      /\ Apart(acked, batch # None) /\ Files(index, docs, acked)
  BY <1>8 DEF FindInv
<1>10. PICK ak : ak = [acked EXCEPT ![i] = None]
  OBVIOUS
<1>11. ak[i] = None /\ \A j \in Ids : j # i => ak[j] = acked[j]
  BY <1>2, <1>10
<1>12. Moves(docs, ds, i) /\ ds \in Seq(Docs \cup {None})
       /\ \A q \in 1..Len(docs) : index[Key(i)] = <<q>> => ds[q] = None
  BY <1>2, <1>3, <1>6
<1>13. GivesAll(t, ds, ak)
  BY <1>2, <1>5, <1>7, <1>11, <1>12, RemovesGives
<1>14. \A j \in Ids : j # i /\ acked[j] \in Docs => es \cap documents!Entries(acked[j]) = {}
  <2>1. docs[r] # None /\ acked[i] # Unknown
    BY <1>3, <1>9 DEF DocsAssumption
  <2>2. \A j \in Ids : j # i /\ acked[j] \in Docs =>
           /\ documents!SimpleEntries(docs[r]) \cap documents!Entries(acked[j]) = {}
           /\ batch # None => documents!Entries(docs[r]) \cap documents!Entries(acked[j]) = {}
    <3>1. GivesAll(index, docs, acked) /\ Apart(acked, batch # None) /\ index[Key(i)] = <<r>>
      BY <1>2, <1>3, <1>9
    <3> QED
      BY <1>2, <2>1, <3>1, OldIsAlone
  <2> QED
    BY <1>4, <2>2
<1>15. Refers(index, docs)
  BY <1>2 DEF GivesAll
<1>16. Files(t, ds, ak)
  BY <1>5, <1>7, <1>9, <1>11, <1>12, <1>14, <1>15, TakesOut
<1>17. t[Key(d.id)] = <<>>
  <2>1. \A e \in documents!AllEntries : t[e] = IF e \in es THEN <<>> ELSE index[e]
    BY <1>7, <1>15, WithoutIs
  <2> QED
    BY <1>1, <1>5, <2>1, KeysAre
<1>18. \A j \in Ids : j # d.id => ak[j] = acked[j]
  BY <1>1, <1>11
<1> QED
  BY <1>2, <1>8, <1>9, <1>12, <1>13, <1>16, <1>17, <1>18, InsertsFinds

LEMMA DocBatchPutFinds ==
    ASSUME DocsAssumption, Distinct, DocsInv, FindInv, NEW d \in Docs, documents!DocBatchPut(d)
    PROVE  FindInv'
<1> SUFFICES ASSUME ~failed' PROVE FindInv'
  BY DEF FindInv
<1>1. PICK i \in Ids : i = d.id
  BY EntriesAre
<1>2. /\ batch' = documents!With(documents!Without(batch, Gone(i)), documents!Entries(d),
                                   Len(docs) + 1)
      /\ \A e \in documents!AllEntries :
            index'[e] = IF \E f \in documents!Entries(d) : f[1] = e[1] THEN batch'[e] ELSE index[e]
      /\ acked' = [acked EXCEPT ![i] = d] /\ ~failed
      /\ docs' = Append(Buried(i), d) /\ batch # None /\ documents!MayBePut(d)
  <2>1. PICK S \in SUBSET documents!Entries(d) :
           /\ batch' = documents!With(documents!Without(batch, Gone(d.id)), S, Len(docs) + 1)
           /\ index' = [e \in documents!AllEntries |->
                           IF \E f \in S : f[1] = e[1] THEN batch'[e] ELSE index[e]]
           /\ sealed' = sealed \cup {e[1] : e \in S}
           /\ \/ S = documents!Entries(d) /\ acked' = [acked EXCEPT ![d.id] = d]
                 /\ failed' = failed
              \/ acked' = [acked EXCEPT ![d.id] = Unknown] /\ failed' = TRUE
           /\ docs' = Append(Buried(d.id), d)
           /\ batch # None /\ documents!MayBePut(d) /\ UNCHANGED <<made, database>>
    BY DocBatchPutIs
  <2> QED
    BY <1>1, <2>1
<1>3. /\ docs \in Seq(Docs \cup {None}) /\ acked \in [Ids -> Docs \cup {None, Unknown}]
      /\ GivesAll(batch, docs, acked) /\ Refers(batch, docs) /\ Refers(index, docs)
      /\ \A j \in Ids : batch[Key(j)] # <<>> => docs[batch[Key(j)][1]] # None
  BY <1>2 DEF DocsInv, GivesAll
<1>4. /\ \A j \in Ids : acked[j] # Unknown
      /\ Apart(acked, batch # None) /\ Files(index, docs, acked)
      /\ Files(batch, docs, acked) /\ \A j \in Ids : batch[Key(j)] = index[Key(j)]
  BY <1>2 DEF FindInv
<1>5. PICK G : G = Gone(i)
  OBVIOUS
<1>6. PICK ds : ds = Buried(i)
  OBVIOUS
<1>7. /\ Moves(docs, ds, i) /\ ds \in Seq(Docs \cup {None}) /\ Len(ds) = Len(docs)
      /\ \A j : Key(j) \in G => j = i
      /\ batch[Key(i)] # <<>> => Key(i) \in G
  <2>1. Len(ds) = Len(docs)
    BY <1>3, <1>6 DEF Buried
  <2> QED
    BY <1>2, <1>5, <1>6, <2>1, BatchWithout
<1>8. PICK ak : ak = [acked EXCEPT ![i] = None]
  OBVIOUS
<1>9. ak[i] = None /\ \A j \in Ids : j # i => ak[j] = acked[j]
  BY <1>3, <1>8
<1>10. /\ \A q \in 1..Len(docs) : batch[Key(i)] = <<q>> => ds[q] = None
       /\ \A j \in Ids : j # i /\ acked[j] \in Docs => G \cap documents!Entries(acked[j]) = {}
  <2>1. CASE batch[Key(i)] = <<>>
    BY <1>5, <2>1 DEF Gone
  <2>2. CASE batch[Key(i)] # <<>>
    <3>1. PICK r \in 1..Len(docs) : batch[Key(i)] = <<r>> /\ docs[r] # None
      BY <1>3, <2>2 DEF GivesAll, Gives, OwnRef
    <3>2. ds = [docs EXCEPT ![r] = None] /\ G = documents!Entries(docs[r])
      BY <1>5, <1>6, <2>2, <3>1 DEF Buried, Gone
    <3>3. \A j \in Ids : j # i /\ acked[j] \in Docs =>
             /\ documents!SimpleEntries(docs[r]) \cap documents!Entries(acked[j]) = {}
             /\ batch # None => documents!Entries(docs[r]) \cap documents!Entries(acked[j]) = {}
      BY <1>3, <1>4, <3>1, OldIsAlone
    <3> QED
      BY <1>2, <1>3, <3>1, <3>2, <3>3
  <2> QED
    BY <2>1, <2>2
<1>11. PICK t : t = documents!Without(batch, G)
  OBVIOUS
<1>12. t[Key(i)] = <<>> /\ \A j \in Ids : j # i => t[Key(j)] = batch[Key(j)]
  <2>1. \A e \in documents!AllEntries : t[e] = IF e \in G THEN <<>> ELSE batch[e]
    BY <1>3, <1>11, WithoutIs
  <2> QED
    BY <1>7, <2>1, KeysAre
<1>13. GivesAll(t, ds, ak)
  <2>1. Gives(t, ds, ak, i)
    BY <1>9, <1>12 DEF Gives, OwnRef, GetOf
  <2>2. Refers(t, docs)
    BY <1>3, <1>11, WithoutIs
  <2>3. Refers(t, ds)
    BY <1>7, <2>2, RefersStay
  <2> QED
    BY <1>3, <1>7, <1>9, <1>12, <2>1, <2>3, GivesAfter
<1>14. Files(t, ds, ak)
  <2>1. Files(batch, docs, acked) /\ Refers(batch, docs) /\ Moves(docs, ds, i)
        /\ \A j : Key(j) \in G => j = i
    BY <1>3, <1>4, <1>7
  <2> QED
    BY <1>9, <1>10, <1>11, <2>1, TakesOut
<1>15. /\ acked'[d.id] = d /\ (\A j \in Ids : j # d.id => acked'[j] = ak[j])
       /\ \A j \in Ids : j # i => acked'[j] = acked[j]
  BY <1>1, <1>2, <1>3, <1>9
<1>16. batch' = documents!With(t, documents!Entries(d), Len(ds) + 1) /\ docs' = Append(ds, d)
  BY <1>2, <1>5, <1>6, <1>7, <1>11
<1>17. Files(batch', docs', acked')
  <2>1. t[Key(d.id)] = <<>>
    BY <1>1, <1>12
  <2> QED
    BY <1>7, <1>13, <1>14, <1>15, <1>16, <2>1, PutsIn
<1>18. Apart(acked', batch # None)
  BY ZenonT(40), <1>1, <1>2, <1>4, <1>15, NewApart
<1>19. \A j \in Ids : index'[Key(j)] = batch'[Key(j)]
  <2>1. Key(i) \in documents!Entries(d) /\ Key(i)[1] = "id"
    BY <1>1, EntriesAre, KeysAre
  <2>2. ASSUME NEW j \in Ids
        PROVE  index'[Key(j)] = batch'[Key(j)]
    <3>1. Key(j) \in documents!AllEntries /\ Key(j)[1] = "id"
      BY KeysAre
    <3>2. \E f \in documents!Entries(d) : f[1] = Key(j)[1]
      BY <2>1, <3>1
    <3> QED
      BY <1>2, <3>1, <3>2
  <2> QED
    BY <2>2
<1>20. /\ Refers(batch', docs')
       /\ \A j \in Ids : j # i => batch'[Key(j)] = index[Key(j)]
  <2>1. Refers(t, ds) /\ ds \in Seq(Docs \cup {None})
    BY <1>7, <1>13 DEF GivesAll
  <2>2. PICK n : n = Len(ds) + 1
    OBVIOUS
  <2>3. PICK S : S = documents!Entries(d)
    OBVIOUS
  <2>4. /\ Refers(documents!With(t, S, n), Append(ds, d))
        /\ \A e \in documents!AllEntries : documents!With(t, S, n)[e] =
              IF e \notin S THEN t[e] ELSE IF e[1] = "id" THEN <<n>> ELSE Append(t[e], n)
    BY <2>1, <2>2, WithIs
  <2>5. \A j : Key(j) \in S => j = i
    BY <1>1, <2>3, EntriesAre
  <2>6. batch' = documents!With(t, S, n)
    BY <1>16, <2>2, <2>3
  <2> QED
    BY <1>4, <1>12, <1>16, <2>4, <2>5, <2>6, KeysAre
<1>21. \A q \in 1..Len(docs) : docs'[q] # None =>
          docs'[q] = docs[q] /\ docs[q] \in Docs /\ index[Key(i)] # <<q>>
  <2>1. Moves(docs, ds, i)
    BY <1>7
  <2>2. \A q \in 1..Len(docs) : docs'[q] = ds[q]
    BY <1>7, <1>16
  <2> QED
    BY <1>3, <1>4, <1>10, <2>1, <2>2 DEF Moves
<1>22. Files(index', docs', acked')
  <2>1. ASSUME NEW e \in documents!AllEntries, NEW r, Has(index', e, r), docs'[r] # None
        PROVE  e \in documents!Entries(docs'[r]) /\ index'[Key(docs'[r].id)] = <<r>>
    <3>1. CASE index'[e] = batch'[e]
      <4>1. Has(batch', e, r)
        BY <2>1, <3>1 DEF Has
      <4>2. e \in documents!Entries(docs'[r]) /\ batch'[Key(docs'[r].id)] = <<r>>
        BY <1>17, <2>1, <4>1 DEF Files
      <4>3. docs' \in Seq(Docs \cup {None}) /\ Refers(batch', docs')
        BY <1>7, <1>16, <1>20
      <4>4. r \in 1..Len(docs') /\ (docs'[r] # None => docs'[r] \in Docs)
        BY <4>1, <4>3, HasIs
      <4>5. docs'[r].id \in Ids
        BY <2>1, <4>4, EntriesAre
      <4> QED
        BY <1>19, <4>2, <4>5
    <3>2. CASE index'[e] = index[e]
      <4>1. Has(index, e, r)
        BY <2>1, <3>2 DEF Has
      <4>2. r \in 1..Len(docs)
        BY <1>3, <4>1, HasIs
      <4>3. docs'[r] = docs[r] /\ docs[r] \in Docs /\ index[Key(i)] # <<r>>
        BY <1>21, <2>1, <4>2
      <4>4. e \in documents!Entries(docs[r]) /\ index[Key(docs[r].id)] = <<r>>
        BY <1>4, <2>1, <4>1, <4>3 DEF Files
      <4>5. docs[r].id \in Ids /\ docs[r].id # i
        BY <4>3, <4>4, EntriesAre
      <4> QED
        BY <1>19, <1>20, <4>3, <4>4, <4>5
    <3> QED
      BY <1>2, <3>1, <3>2
  <2>2. ASSUME NEW j \in Ids, NEW e \in documents!AllEntries, acked'[j] \in Docs,
               e \in documents!Entries(acked'[j])
        PROVE  \E r : Has(index', e, r) /\ index'[Key(j)] = <<r>>
    <3>1. CASE index'[e] = batch'[e]
      <4>1. PICK r : Has(batch', e, r) /\ batch'[Key(j)] = <<r>>
        BY <1>17, <2>2 DEF Files
      <4> QED
        BY <1>19, <3>1, <4>1 DEF Has
    <3>2. CASE index'[e] = index[e] /\ ~ \E f \in documents!Entries(d) : f[1] = e[1]
      <4>1. j # i
        BY <1>1, <1>15, <2>2, <3>2
      <4>2. PICK r : Has(index, e, r) /\ index[Key(j)] = <<r>>
        BY <1>4, <1>15, <2>2, <4>1 DEF Files
      <4> QED
        BY <1>19, <1>20, <3>2, <4>1, <4>2 DEF Has
    <3> QED
      BY <1>2, <3>1, <3>2
  <2> QED
    BY <2>1, <2>2 DEF Files
<1>23. \A j \in Ids : acked'[j] # Unknown
  <2>1. d # Unknown
    BY EntriesAre
  <2>2. acked'[i] # Unknown
    BY <1>1, <1>15, <2>1
  <2> QED
    BY <1>4, <1>15, <2>2
<1>24. Apart(acked', (batch # None)')
  BY <1>2, <1>18 DEF Apart
<1> QED
  BY <1>17, <1>19, <1>22, <1>23, <1>24 DEF FindInv

\* With no document put, or no reference in an index, there is nothing to find.
LEMMA NothingFiled ==
    ASSUME DocsAssumption, NEW t, \A e \in documents!AllEntries : t[e] = <<>>,
           NEW ds, NEW ak, \A i \in Ids : ak[i] \notin Docs
    PROVE  Files(t, ds, ak)
<1>1. \A e \in documents!AllEntries : \A r : ~ Has(t, e, r)
  <2>1. Len(<<>>) = 0
    OBVIOUS
  <2> QED
    BY <2>1 DEF Has
<1> QED
  BY <1>1 DEF Files

LEMMA FindInvInit ==
    ASSUME DocsAssumption, documents!Init
    PROVE  FindInv
<1>1. /\ acked = [i \in Ids |-> None] /\ index = documents!Nothing /\ batch = None
      /\ \A i \in Ids : acked[i] # Unknown /\ acked[i] \notin Docs
  BY DEF documents!Init, DocsAssumption
<1>2. \A e \in documents!AllEntries : index[e] = <<>>
  BY <1>1 DEF documents!Nothing
<1>3. Files(index, docs, acked)
  BY <1>1, <1>2, NothingFiled
<1> QED
  BY <1>1, <1>3 DEF FindInv, Apart

LEMMA DeleteDBFinds ==
    ASSUME DocsAssumption, DocsInv, FindInv, documents!DeleteDocumentDB
    PROVE  FindInv'
<1> SUFFICES ASSUME ~failed' PROVE FindInv'
  BY DEF FindInv
<1>1. made' = {} /\ ~listed' /\ batch' = None
  BY DEF documents!DeleteDocumentDB
<1>2. \A i \in Ids : acked'[i] # Unknown /\ acked'[i] \notin Docs
  BY <1>1 DEF documents!DeleteDocumentDB, DocsAssumption
<1>3. \A e \in documents!AllEntries : index'[e] = <<>>
  <2>1. DocsInv'
    BY DeleteDBKeeps
  <2> QED
    BY <1>1, <2>1 DEF DocsInv
<1>4. Files(index', docs', acked')
  BY <1>2, <1>3, NothingFiled
<1> QED
  BY <1>1, <1>2, <1>4 DEF FindInv, Apart

LEMMA CreateDocBatchFinds ==
    ASSUME DocsAssumption, DocsInv, FindInv, documents!CreateDocBatch
    PROVE  FindInv'
<1> SUFFICES ASSUME ~failed' PROVE FindInv'
  BY DEF FindInv
<1>1. /\ batch' = index /\ index = documents!Nothing /\ ~failed
      /\ UNCHANGED <<index, docs, acked>>
  BY DEF documents!CreateDocBatch
<1>2. /\ \A j \in Ids : acked[j] # Unknown
      /\ Files(index, docs, acked)
  BY <1>1 DEF FindInv
<1>3. \A j \in Ids : acked[j] = None
  <2>1. \A j \in Ids : index[Key(j)] = <<>>
    BY <1>1, KeysAre DEF documents!Nothing
  <2> QED
    BY <1>2, <2>1 DEF DocsInv, GivesAll, Gives, GetOf
<1>4. \A j \in Ids : acked'[j] \notin Docs
  BY <1>1, <1>3 DEF DocsAssumption
<1>5. Apart(acked', (batch # None)')
  BY <1>4 DEF Apart
<1> QED
  BY <1>1, <1>2, <1>5 DEF FindInv

\* The calls that touch no document, and end a batch if they change it.
LEMMA OthersFind ==
    ASSUME FindInv, UNCHANGED <<index, docs, acked>>, ~failed' => ~failed,
           batch' \in {batch, None}
    PROVE  FindInv'
  BY DEF FindInv, Apart

LEMMA FindStepKeeps ==
    ASSUME DocsAssumption, Distinct, DocsInv, FindInv, documents!Next
    PROVE  FindInv'
<1>1. CASE documents!CreateDocumentDB
  BY <1>1, OthersFind DEF documents!CreateDocumentDB
<1>2. CASE documents!OpenDocumentDB
  BY <1>2, OthersFind DEF documents!OpenDocumentDB
<1>3. CASE documents!ClosePod
  BY <1>3, OthersFind DEF documents!ClosePod
<1>4. CASE documents!DeleteDocumentDB
  BY <1>4, DeleteDBFinds
<1>5. CASE documents!CreateDocBatch
  BY <1>5, CreateDocBatchFinds
<1>6. CASE documents!DocBatchWrite
  BY <1>6, OthersFind DEF documents!DocBatchWrite
<1>7. ASSUME NEW i \in Ids, documents!Del(i)
      PROVE  FindInv'
  BY <1>7, DelFinds
<1>8. ASSUME NEW d \in Docs, documents!PutNew(d)
      PROVE  FindInv'
  BY <1>8, PutNewFinds
<1>9. ASSUME NEW d \in Docs, documents!PutOver(d)
      PROVE  FindInv'
  BY <1>9, PutOverFinds
<1>10. ASSUME NEW d \in Docs, documents!DocBatchPut(d)
       PROVE  FindInv'
  BY <1>10, DocBatchPutFinds
<1> QED
  BY <1>1, <1>2, <1>3, <1>4, <1>5, <1>6, <1>7, <1>8, <1>9, <1>10 DEF documents!Next

LEMMA DocumentsStayFiled ==
    ASSUME Distinct
    PROVE  ServicesSpec => [](Part("documents") => FindInv)
<1>1. ServicesInit => (Part("documents") => FindInv)
  BY DocsAssumption, FindInvInit DEF ServicesInit
<1>2. ASSUME Part("documents") => DocsInv, Part("documents") => FindInv,
             [ServicesNext]_serviceVars
      PROVE  (Part("documents") => FindInv)'
  <2> SUFFICES ASSUME Part("documents")' PROVE FindInv'
    OBVIOUS
  <2>1. CASE UNCHANGED serviceVars
    <3>1. UNCHANGED <<part, index, docs, batch, failed, acked>>
      BY <2>1 DEF serviceVars, docVars
    <3> QED
      BY <1>2, <3>1, OthersFind DEF Part
  <2>2. CASE ServicesNext
    <3>1. Part("documents") /\ (documents!Next \/ UNCHANGED docVars)
      BY <2>2 DEF ServicesNext, Part
    <3>2. CASE documents!Next
      BY <1>2, <3>1, <3>2, DocsAssumption, FindStepKeeps
    <3>3. CASE UNCHANGED docVars
      BY <1>2, <3>1, <3>3, OthersFind DEF docVars
    <3> QED
      BY <3>1, <3>2, <3>3
  <2> QED
    BY <1>2, <2>1, <2>2
<1> QED
  BY <1>1, <1>2, DocumentsStayFit, PTL DEF ServicesSpec

\* The documents of a key that can be downloaded are those clients have under it.
LEMMA FiledIsFound ==
    ASSUME DocsAssumption, DocsInv, FindInv, ~failed, NEW e \in documents!AllEntries
    PROVE  documents!Found(e) = documents!Having(e)
<1>1. /\ docs \in Seq(Docs \cup {None}) /\ Refers(index, docs)
      /\ \A i \in Ids : Gives(index, docs, acked, i) /\ acked[i] # Unknown
      /\ Files(index, docs, acked)
  BY DEF DocsInv, GivesAll, FindInv
<1>2. ASSUME NEW d
      PROVE  d \in documents!Found(e) <=> d # None /\ \E r : Has(index, e, r) /\ docs[r] = d
  <2>1. PICK q \in Seq(Nat) : q = index[e]
    BY <1>1 DEF Refers
  <2>2. DOMAIN q = 1..Len(q)
    OBVIOUS
  <2>3. documents!Found(e) = {docs[q[k]] : k \in 1..Len(q)} \ {None}
    BY <2>1, <2>2 DEF documents!Found
  <2>4. ASSUME NEW r
        PROVE  Has(index, e, r) <=> \E k \in 1..Len(q) : q[k] = r
    BY <2>1 DEF Has
  <2> QED
    BY <2>3, <2>4
<1>3. ASSUME NEW r, Has(index, e, r), docs[r] # None
      PROVE  \E i \in Ids : acked[i] = docs[r] /\ acked[i] \in Docs
                             /\ e \in documents!Entries(acked[i])
  <2>1. r \in 1..Len(docs) /\ docs[r] \in Docs
    BY <1>1, <1>3, HasIs
  <2>2. e \in documents!Entries(docs[r]) /\ index[Key(docs[r].id)] = <<r>>
    BY <1>1, <1>3 DEF Files
  <2>3. PICK i \in Ids : i = docs[r].id
    BY <2>1, EntriesAre
  <2>4. <<r>> # <<>> /\ <<r>>[1] = r
    OBVIOUS
  <2>5. acked[i] = docs[r]
    BY <1>1, <2>2, <2>3, <2>4 DEF Gives, GetOf
  <2> QED
    BY <2>1, <2>2, <2>5
<1>4. ASSUME NEW i \in Ids, acked[i] \in Docs, e \in documents!Entries(acked[i])
      PROVE  acked[i] # None /\ \E r : Has(index, e, r) /\ docs[r] = acked[i]
  <2>1. PICK r : Has(index, e, r) /\ index[Key(i)] = <<r>>
    BY <1>1, <1>4 DEF Files
  <2>2. <<r>> # <<>> /\ <<r>>[1] = r
    OBVIOUS
  <2>3. acked[i] = docs[r]
    BY <1>1, <2>1, <2>2 DEF Gives, GetOf
  <2>4. acked[i] # None
    BY <1>4 DEF DocsAssumption
  <2> QED
    BY <2>1, <2>3, <2>4
<1> QED
  BY <1>2, <1>3, <1>4 DEF documents!Having

\* A key without an entry has no document.
LEMMA FoundByKey ==
    ASSUME DocsAssumption, DocsInv, FindInv
    PROVE  documents!FindsByField
<1> SUFFICES ASSUME ~failed, NEW e \in documents!AllEntries
             PROVE  /\ documents!Having(e) # {} /\ documents!Passes(e, e) =>
                           documents!Find(e) = {documents!Having(e)}
                    /\ \A answer \in documents!Find(e) :
                          \/ answer = {}
                          \/ \E g \in documents!AllEntries :
                                /\ g = e \/ (g[1] = e[1] /\ <<e[2], g[2]>> \in Behind)
                                /\ documents!Passes(e, g) /\ answer = documents!Having(g)
  BY DEF documents!FindsByField
<1>1. \A g \in documents!AllEntries : documents!Found(g) = documents!Having(g)
  BY FiledIsFound
<1>2. index[e] = <<>> => documents!Having(e) = {}
  <2>1. index[e] = <<>> => DOMAIN index[e] = {}
    OBVIOUS
  <2> QED
    BY <1>1, <2>1 DEF documents!Found
<1>3. index[e] # <<>> =>
         documents!Find(e) = {IF documents!Passes(e, e) THEN documents!Having(e) ELSE {}}
  BY <1>1 DEF documents!Find, documents!Landings
<1>4. ASSUME NEW answer \in documents!Find(e)
      PROVE  \/ answer = {}
             \/ \E g \in documents!Landings(e) :
                   documents!Passes(e, g) /\ answer = documents!Found(g)
  BY <1>4 DEF documents!Find
<1>5. \A g \in documents!Landings(e) :
         g \in documents!AllEntries /\ (g = e \/ (g[1] = e[1] /\ <<e[2], g[2]>> \in Behind))
  BY DEF documents!Landings
<1> QED
  BY <1>1, <1>2, <1>3, <1>4, <1>5

\* Find gives the documents that have a value, no more and no less, and for a value that
\* none has those of one key behind it, or none, as long as no call stopped half-way
\* (FindsByField; Find in document.go), for any documents and order of the keys, if
\* clients give no key of a simple field to two documents.
THEOREM DocumentsAreFound ==
    ASSUME Distinct
    PROVE  ServicesSpec => []FindsByField
<1>1. (Part("documents") => DocsInv) /\ (Part("documents") => FindInv) => FindsByField
  BY DocsAssumption, FoundByKey DEF FindsByField
<1> QED
  BY <1>1, DocumentsStayFit, DocumentsStayFiled, PTL

-----------------------------------------------------------------------------
\* Listings

Places == {"none", "refused", "given", "looking", "read", "done"}

\* The tasks that are not over.
Active == {n \in listing!names : task[n] \in {"given", "looking", "read"}}

Count == Cardinality(listing!names)

\* The names whose task has put an entry into the list.
Entered == {n \in listing!names : /\ task[n] \in {"read", "done"}
                                  /\ found[n] \in {"entry", "old"}}

Olds == listing!Having("old")

EntriesFit(S) ==
    /\ \A e \in S : /\ e = <<e[1], e[2]>> /\ e[1] \in Entered
                    /\ IF found[e[1]] = "old" THEN e[2] \in Olds ELSE e[2] = e[1]
    /\ \A e, g \in S : e[1] = g[1] => e = g
    /\ \A n \in Entered : \E e \in S : e[1] = n

\* The caller goes through the names in order; the WaitGroup counts the tasks that
\* are not over, but for the one ListFiles has still to add; every task that put an entry
\* into the list put one, which is that of its name, or of some old directory.
ListInv ==
    /\ call \in listing!Local \cup {"PublicPodDisLs"}
    /\ Count \in Nat /\ listing!names = 1..Count
    /\ listing!Having("old") # {} => call \notin listing!Local
    /\ task \in [listing!names -> Places]
    /\ started \in 0..Count /\ \A n \in listing!names : task[n] = "none" <=> n > started
    /\ counter \in Nat /\ owes \in BOOLEAN
    /\ ret = "none" => counter + (IF owes THEN 1 ELSE 0) = Cardinality(Active)
    /\ \A n \in listing!names : task[n] = "looking" => topic \in Olds /\ n \in Olds
    /\ EntriesFit(entries) /\ received \subseteq entries
    /\ listing!ListsEveryName

ListStep ==
    /\ ret = "none" /\ UNCHANGED <<call, found>>
    /\ listing!names' = listing!names /\ Count' = Count

LEMMA SameCardinality == \A S : listing!Cardinality(S) = Cardinality(S)
  BY DEF listing!Cardinality, Cardinality

LEMMA ListInitFits ==
    ASSUME ServicesAssumption, listing!Init
    PROVE  ListInv
<1>1. PICK k \in 0..MaxNames : found \in [1..k -> listing!Finds]
  BY DEF listing!Init
<1>2. k \in Nat /\ MaxOld \in Nat
  BY <1>1, ServicesAssumption DEF ServicesAssumption
<1>3. listing!names = 1..k
  BY <1>1 DEF listing!names
<1>4. Count = k /\ IsFiniteSet(1..k)
  BY <1>2, <1>3, FS_Interval DEF Count
<1>5. listing!Having("old") # {} => call \notin listing!Local
  <2>1. listing!Having("old") \in SUBSET (1..k)
    BY <1>3 DEF listing!Having
  <2>2. IsFiniteSet(listing!Having("old"))
    BY <1>4, <2>1, FS_Subset
  <2>3. Cardinality(listing!Having("old")) \in Nat
    BY <2>2, FS_CardinalityType
  <2>4. CASE call \in listing!Local
    <3>1. Cardinality(listing!Having("old")) = 0
      BY <2>3, <2>4, SameCardinality DEF listing!Init
    <3> QED
      BY <2>2, <3>1, FS_EmptySet
  <2> QED
    BY <2>4
<1>6. task = [n \in listing!names |-> "none"] /\ Active = {} /\ Entered = {}
  BY DEF listing!Init, Active, Entered
<1>7. Cardinality(Active) = 0
  BY <1>6, FS_EmptySet
<1> QED
  <2>1. /\ call \in listing!Local \cup {"PublicPodDisLs"}
        /\ started = 0 /\ counter = 0 /\ ~owes /\ ret = "none" /\ entries = {} /\ received = {}
    BY DEF listing!Init
  <2>2. /\ task \in [listing!names -> Places]
        /\ \A n \in listing!names : n > 0 /\ task[n] = "none"
    BY <1>2, <1>3, <1>6 DEF Places
  <2>3. counter + (IF owes THEN 1 ELSE 0) = Cardinality(Active)
    BY <1>7, <2>1
  <2>4. EntriesFit(entries)
    BY <1>6, <2>1 DEF EntriesFit
  <2>5. started \in 0..Count /\ \A n \in listing!names : task[n] = "none" <=> n > started
    BY <1>2, <1>4, <2>1, <2>2
  <2>6. \A n \in listing!names : task[n] = "looking" => topic \in Olds /\ n \in Olds
    BY <2>2
  <2>7. owes \in BOOLEAN
    BY DEF listing!Init
  <2> QED
    BY <1>2, <1>3, <1>4, <1>5, <2>1, <2>2, <2>3, <2>4, <2>5, <2>6, <2>7
       DEF ListInv, listing!ListsEveryName

\* A task begins, ends, or does neither.
LEMMA ActiveCounted ==
    ASSUME ListInv
    PROVE  /\ IsFiniteSet(Active) /\ Cardinality(Active) \in Nat
           /\ \A n : n \notin Active => Cardinality(Active \cup {n}) = Cardinality(Active) + 1
           /\ \A n \in Active : Cardinality(Active \ {n}) = Cardinality(Active) - 1
           /\ Cardinality(Active) = 0 <=> Active = {}
<1>1. IsFiniteSet(listing!names)
  BY FS_Interval DEF ListInv
<1>2. Active \in SUBSET listing!names
  BY DEF Active
<1>3. IsFiniteSet(Active)
  BY <1>1, <1>2, FS_Subset
<1>4. Cardinality(Active) \in Nat
  BY <1>3, FS_CardinalityType
<1>5. \A n : n \notin Active => Cardinality(Active \cup {n}) = Cardinality(Active) + 1
  BY <1>3, FS_AddElement
<1>6. \A n \in Active : Cardinality(Active \ {n}) = Cardinality(Active) - 1
  BY <1>3, FS_RemoveElement
<1> QED
  BY <1>3, <1>4, <1>5, <1>6, FS_EmptySet

LEMMA StepsAreRuns ==
    ASSUME ListInv, listing!Next
    PROVE  ListStep
<1>1. ret = "none" /\ UNCHANGED <<call, found>>
  BY DEF listing!Next, listing!Main, listing!Task, listing!GiveDirTask, listing!GiveFileTask,
     listing!AddFileTask, listing!StartGoroutine, listing!Return, listing!ReceiveEntry,
     listing!ReceiveError, listing!ReceiveNothing, listing!CloseChannels, listing!SetTopic,
     listing!Read, listing!Done, listing!CallOf, listing!Runs
<1>2. listing!names' = listing!names
  BY <1>1 DEF listing!names
<1> QED
  BY <1>1, <1>2 DEF ListStep, Count

\* The caller gives the next task away, or it is refused.
LEMMA StartingKeepsListInv ==
    ASSUME ListInv, ListStep, listing!More, UNCHANGED <<topic, entries, received, ret>>,
           NEW step \in {"given", "refused"}, listing!Starts(step),
           owes' \in BOOLEAN, counter' \in Nat,
           counter' + (IF owes' THEN 1 ELSE 0)
               = counter + (IF owes THEN 1 ELSE 0) + (IF step = "given" THEN 1 ELSE 0)
    PROVE  ListInv'
<1> DEFINE n == started + 1
<1>1. n \in listing!names /\ task[n] = "none" /\ started < Count
  BY SameCardinality DEF listing!More, ListInv, Count
<1>2. started' = n /\ task' = [task EXCEPT ![n] = step]
  BY DEF listing!Starts, listing!Steps
<1> HIDE DEF n
<1>3. /\ task'[n] = step /\ step \in Places
      /\ \A m \in listing!names : m # n => task'[m] = task[m]
      /\ task' \in [listing!names -> Places]
  BY <1>1, <1>2 DEF ListInv, Places
<1>4. Active' = (IF step = "given" THEN Active \cup {n} ELSE Active) /\ n \notin Active
  BY <1>1, <1>3 DEF Active, ListStep
<1>5. Cardinality(Active') = Cardinality(Active) + (IF step = "given" THEN 1 ELSE 0)
  BY <1>4, ActiveCounted
<1>6. Entered' = Entered /\ EntriesFit(entries)'
  <2>1. Entered' = Entered /\ Olds' = Olds /\ found' = found /\ entries' = entries
    BY <1>1, <1>3 DEF Entered, ListStep, Olds, listing!Having
  <2> QED
    BY <2>1 DEF ListInv, EntriesFit
<1>7. started' \in 0..Count /\ \A m \in listing!names : task'[m] = "none" <=> m > started'
  BY <1>1, <1>2, <1>3 DEF n, ListInv
<1>8. counter' + (IF owes' THEN 1 ELSE 0) = Cardinality(Active')
  BY <1>5, ActiveCounted DEF ListInv, ListStep
<1>9. \A m \in listing!names : task'[m] = "looking" => topic' \in Olds' /\ m \in Olds'
  BY <1>3 DEF ListInv, ListStep, Olds, listing!Having
<1>10. listing!Having("old")' = listing!Having("old") /\ listing!Local' = listing!Local
  BY DEF ListStep, listing!Having, listing!Local
<1> QED
  BY <1>3, <1>6, <1>7, <1>8, <1>9, <1>10 DEF ListInv, ListStep, listing!ListsEveryName

\* A task puts in its entry.
LEMMA EntryAdded ==
    ASSUME EntriesFit(entries), NEW n, n \notin Entered, Entered' = Entered \cup {n},
           Olds' = Olds, found' = found,
           NEW x, IF found[n] = "old" THEN x \in Olds ELSE x = n,
           entries' = entries \cup {<<n, x>>}
    PROVE  EntriesFit(entries)'
<1>1. \A e \in entries : /\ e = <<e[1], e[2]>> /\ e[1] \in Entered /\ e[1] # n
                         /\ IF found[e[1]] = "old" THEN e[2] \in Olds ELSE e[2] = e[1]
  BY DEF EntriesFit
<1>2. \A e \in entries' : /\ e = <<e[1], e[2]>> /\ e[1] \in Entered'
                          /\ IF found'[e[1]] = "old" THEN e[2] \in Olds' ELSE e[2] = e[1]
  BY <1>1
<1>3. \A e, g \in entries' : e[1] = g[1] => e = g
  <2>1. \A e, g \in entries : e[1] = g[1] => e = g
    BY DEF EntriesFit
  <2> QED
    BY <1>1, <2>1
<1>4. \A m \in Entered' : \E e \in entries' : e[1] = m
  <2>1. \A m \in Entered : \E e \in entries : e[1] = m
    BY DEF EntriesFit
  <2>2. <<n, x>>[1] = n /\ <<n, x>> \in entries'
    OBVIOUS
  <2> QED
    BY <2>1, <2>2
<1> QED
  BY <1>2, <1>3, <1>4 DEF EntriesFit

\* A task goes on.
LEMMA TaskKeepsListInv ==
    ASSUME ListInv, ListStep, NEW n \in listing!names, listing!Task(n)
    PROVE  ListInv'
<1>1. PICK step \in {"looking", "read", "done"} : task' = [task EXCEPT ![n] = step]
  BY DEF listing!Task, listing!SetTopic, listing!Read, listing!Done, listing!Steps
<1>2. /\ task'[n] = step /\ step \in Places
      /\ \A m \in listing!names : m # n => task'[m] = task[m]
      /\ task' \in [listing!names -> Places]
  BY <1>1 DEF ListInv, Places
<1>3. task[n] \in {"given", "looking", "read"} /\ n \in Active
  BY DEF listing!Task, listing!SetTopic, listing!Read, listing!Done, Active
<1>4. started' = started /\ owes' = owes /\ received' = received
  BY DEF listing!Task, listing!SetTopic, listing!Read, listing!Done, listing!Caller,
     listing!Answers
<1>5. \A m \in listing!names : task'[m] = "none" <=> m > started'
  BY <1>2, <1>3, <1>4 DEF ListInv
<1>6. listing!Having("old")' = listing!Having("old") /\ listing!Local' = listing!Local
  BY DEF ListStep, listing!Having, listing!Local
<1>7. \/ counter' = counter /\ ret' = "none" /\ step # "done"
      \/ counter' = counter /\ ret' = "panic" /\ step = "done"
      \/ counter > 0 /\ counter' = counter - 1 /\ step = "done" /\ ret' = "none"
  BY <1>1, <1>2 DEF listing!Task, listing!SetTopic, listing!Read, listing!Done, listing!Steps,
     listing!Caller, listing!Answers, ListInv, ListStep
<1>8. Active' = IF step = "done" THEN Active \ {n} ELSE Active
  BY <1>2, <1>3 DEF Active, ListStep
<1>9. counter' \in Nat /\ (ret' = "none" =>
          counter' + (IF owes' THEN 1 ELSE 0) = Cardinality(Active'))
  BY <1>3, <1>4, <1>7, <1>8, ActiveCounted DEF ListInv, ListStep
<1>10. ListsEveryName' /\ listing!ListsEveryName'
  BY <1>7 DEF listing!ListsEveryName, ListsEveryName
<1>11. Olds' = Olds /\ found' = found
  BY DEF ListStep, Olds, listing!Having
<1>12. /\ \A m \in listing!names : task'[m] = "looking" => topic' \in Olds /\ m \in Olds
       /\ EntriesFit(entries)' /\ entries \subseteq entries'
  <2>1. CASE listing!SetTopic(n)
    <3>1. topic' = n /\ n \in Olds /\ task[n] = "given" /\ step = "looking"
          /\ entries' = entries
      BY <1>1, <1>2, <2>1 DEF listing!SetTopic, listing!Steps, ListInv, Olds, listing!Having
    <3>2. Entered' = Entered
      BY <1>2, <3>1 DEF Entered, ListStep
    <3>3. EntriesFit(entries)'
      BY <1>11, <3>1, <3>2 DEF ListInv, EntriesFit
    <3> QED
      BY <1>2, <3>1, <3>3 DEF ListInv
  <2>2. CASE listing!Read(n)
    <3>1. step = "read" /\ topic' = topic
          /\ (task[n] = "looking" \/ (task[n] = "given" /\ found[n] # "old"))
      BY <1>1, <1>2, <2>2 DEF listing!Read, listing!Steps, ListInv
    <3>2. task[n] = "looking" => topic \in Olds /\ n \in Olds
      BY DEF ListInv
    <3>3. n \notin Entered /\ Entered' =
             IF found[n] \in {"entry", "old"} THEN Entered \cup {n} ELSE Entered
      BY <1>2, <1>3, <3>1 DEF Entered, ListStep
    <3>4. EntriesFit(entries)' /\ entries \subseteq entries'
      <4>1. CASE found[n] = "old"
        <5>1. task[n] = "looking" /\ entries' = entries \cup {<<n, topic>>}
          BY <2>2, <3>1, <4>1 DEF listing!Read
        <5>2. EntriesFit(entries) /\ Entered' = Entered \cup {n} /\ topic \in Olds
          BY <3>2, <3>3, <4>1, <5>1 DEF ListInv
        <5> QED
          BY <1>11, <3>3, <4>1, <5>1, <5>2, EntryAdded
      <4>2. CASE found[n] = "entry"
        <5>1. entries' = entries \cup {<<n, n>>}
          BY <2>2, <3>1, <3>2, <4>2 DEF listing!Read, Olds, listing!Having
        <5>2. EntriesFit(entries) /\ Entered' = Entered \cup {n}
          BY <3>3, <4>2 DEF ListInv
        <5> QED
          BY <1>11, <3>3, <4>2, <5>1, <5>2, EntryAdded
      <4>3. CASE found[n] \notin {"entry", "old"}
        <5>1. entries' = entries
          BY <2>2, <3>1, <3>2, <4>3 DEF listing!Read, Olds, listing!Having
        <5> QED
          BY <1>11, <3>3, <4>3, <5>1 DEF ListInv, EntriesFit
      <4> QED
        BY <4>1, <4>2, <4>3
    <3> QED
      BY <1>2, <3>1, <3>4 DEF ListInv
  <2>3. CASE listing!Done(n)
    <3>1. step = "done" /\ topic' = topic /\ task[n] = "read" /\ entries' = entries
      BY <1>1, <1>2, <2>3 DEF listing!Done, listing!Steps, ListInv
    <3>2. Entered' = Entered
      BY <1>2, <3>1 DEF Entered, ListStep
    <3>3. EntriesFit(entries)'
      BY <1>11, <3>1, <3>2 DEF ListInv, EntriesFit
    <3> QED
      BY <1>2, <3>1, <3>3 DEF ListInv
  <2> QED
    BY <2>1, <2>2, <2>3 DEF listing!Task
<1>13. received' \subseteq entries'
  BY <1>4, <1>12 DEF ListInv
<1> QED
  BY <1>2, <1>4, <1>5, <1>6, <1>9, <1>10, <1>11, <1>12, <1>13 DEF ListInv, ListStep

\* When as many entries came as there are names, every name's came.
LEMMA AllReceived ==
    ASSUME ListInv, NEW S, S \subseteq entries, Cardinality(S) = Count
    PROVE  /\ {e[1] : e \in S} = listing!names
           /\ listing!names \ Olds \subseteq {e[2] : e \in S}
           /\ (\A n, m \in Olds : n = m) => {e[2] : e \in S} = listing!names
<1> DEFINE D == {e[1] : e \in S}
           f == [e \in S |-> e[1]]
<1>1. IsFiniteSet(listing!names) /\ D \in SUBSET listing!names
  <2>1. IsFiniteSet(listing!names)
    BY FS_Interval DEF ListInv
  <2>2. \A e \in entries : e[1] \in Entered
    BY DEF ListInv, EntriesFit
  <2> QED
    BY <2>1, <2>2 DEF Entered
<1>2. IsFiniteSet(D)
  BY <1>1, FS_Subset
<1>3. f \in Bijection(S, D)
  <2>1. f \in [S -> D] /\ \A y \in D : \E e \in S : f[e] = y
    OBVIOUS
  <2>2. \A e, g \in S : f[e] = f[g] => e = g
    BY DEF ListInv, EntriesFit
  <2>3. f \in Injection(S, D) /\ f \in Surjection(S, D)
    BY <2>1, <2>2 DEF Injection, Surjection, IsInjective
  <2> QED
    BY <2>3 DEF Bijection
<1>4. ExistsBijection(D, S)
  BY <1>3, Fun_ExistsBijSymmetric DEF ExistsBijection
<1>5. Cardinality(D) = Count
  BY <1>2, <1>4, FS_Bijection
<1>6. D = listing!names
  BY <1>1, <1>5, FS_Subset DEF Count
<1>7. \A e \in S : /\ found[e[1]] # "old" => e[2] = e[1]
                   /\ found[e[1]] = "old" => e[2] \in Olds
  BY DEF ListInv, EntriesFit
<1>8. listing!names \ Olds \subseteq {e[2] : e \in S}
  <2>1. SUFFICES ASSUME NEW n \in listing!names, n \notin Olds
                 PROVE  \E e \in S : e[2] = n
    OBVIOUS
  <2>2. PICK e \in S : e[1] = n
    BY <1>6
  <2> QED
    BY <1>7, <2>1, <2>2 DEF Olds, listing!Having
<1>9. ASSUME \A n, m \in Olds : n = m
      PROVE  {e[2] : e \in S} = listing!names
  <2>1. ASSUME NEW e \in S
        PROVE  e[2] = e[1] /\ e[1] \in listing!names
    <3>1. e[1] \in listing!names
      BY <1>6
    <3> QED
      BY <1>7, <1>9, <3>1 DEF Olds, listing!Having
  <2>2. {e[2] : e \in S} = D
    BY <2>1
  <2> QED
    BY <1>6, <2>2
<1> QED
  BY <1>6, <1>8, <1>9

\* PublicPodDisLs receives.
LEMMA ReceivingKeepsListInv ==
    ASSUME ListInv, ListStep, call = "PublicPodDisLs",
           UNCHANGED <<started, owes, counter, task, topic, entries>>,
           received' \subseteq entries,
           ret' = "error" \/ listing!EndsWhenAll
    PROVE  ListInv'
<1>1. Active' = Active /\ Entered' = Entered
      /\ listing!Having("old")' = listing!Having("old") /\ listing!Local' = listing!Local
  BY DEF ListStep, Active, Entered, listing!Having, listing!Local
<1>4. Olds' = Olds /\ EntriesFit(entries)'
  BY <1>1 DEF ListStep, ListInv, EntriesFit, Olds
<1>2. listing!ListsEveryName'
  <2>1. CASE ret' = "ok"
    <3>1. Cardinality(received') = Count
      BY <2>1, SameCardinality DEF listing!EndsWhenAll, Count
    <3>2. /\ {e[1] : e \in received'} = listing!names
          /\ listing!names \ Olds \subseteq {e[2] : e \in received'}
          /\ (\A n, m \in Olds : n = m) => {e[2] : e \in received'} = listing!names
      BY <3>1, AllReceived
    <3>3. listing!names' = listing!names /\ listing!Having("old")' = Olds /\ call' = call
      BY <1>1 DEF ListStep, Olds
    <3> QED
      BY <3>2, <3>3 DEF listing!ListsEveryName, listing!Local
  <2> QED
    BY <2>1 DEF listing!ListsEveryName
<1>3. counter' + (IF owes' THEN 1 ELSE 0) = Cardinality(Active')
  BY <1>1 DEF ListInv, ListStep
<1> QED
  BY <1>1, <1>2, <1>3, <1>4 DEF ListInv, ListStep

\* ListDir or ListFiles returns: no task is under way.
LEMMA ReturnKeepsListInv ==
    ASSUME ListInv, ListStep, listing!Return
    PROVE  ListInv'
<1>1. /\ call \in listing!Local /\ ~listing!More /\ ~owes /\ counter = 0
      /\ ret' = "ok" /\ received' = entries
      /\ UNCHANGED <<started, owes, counter, task, topic, entries>>
  BY DEF listing!Return, listing!Caller
<1>2. Active' = Active /\ Entered' = Entered
      /\ listing!Having("old")' = listing!Having("old") /\ listing!Local' = listing!Local
      /\ listing!Having("entry")' = listing!Having("entry")
      /\ listing!In("refused")' = listing!In("refused")
  BY <1>1 DEF ListStep, Active, Entered, listing!Having, listing!Local, listing!In
<1>3. Active = {}
  BY <1>1, ActiveCounted DEF ListInv, ListStep
<1>4. \A n \in listing!names : task[n] \in {"refused", "done"}
  <2>1. started = Count
    BY <1>1, SameCardinality DEF listing!More, ListInv, Count
  <2> QED
    BY <1>3, <2>1 DEF ListInv, Places, Active
<1>5. Entered = listing!Having("entry") \ listing!In("refused") /\ Olds = {}
  BY <1>1, <1>4 DEF Entered, listing!Having, listing!In, ListInv, Olds
<1>6. entries = {<<n, n>> : n \in Entered}
  <2>1. \A e \in entries : e = <<e[1], e[1]>> /\ e[1] \in Entered
    BY <1>5 DEF ListInv, EntriesFit, Entered, Olds, listing!Having
  <2>2. \A n \in Entered : \E e \in entries : e[1] = n
    BY DEF ListInv, EntriesFit
  <2> QED
    BY <2>1, <2>2
<1>7. listing!ListsEveryName'
  BY <1>1, <1>2, <1>5, <1>6 DEF listing!ListsEveryName, ListInv, ListStep, listing!Local
<1>8. Olds' = Olds /\ EntriesFit(entries)'
  BY <1>1, <1>2 DEF ListStep, ListInv, EntriesFit, Olds
<1> QED
  BY <1>1, <1>2, <1>7, <1>8 DEF ListInv, ListStep

LEMMA ListStepKeepsInv ==
    ASSUME ListInv, listing!Next
    PROVE  ListInv'
<1>1. ListStep
  BY StepsAreRuns
<1>2. CASE listing!GiveDirTask
  <2>1. listing!More /\ UNCHANGED <<owes, topic, entries, received, ret>>
    BY <1>2 DEF listing!GiveDirTask, listing!Answers
  <2>2. CASE listing!Starts("given") /\ counter' = counter + 1
    BY <1>1, <2>1, <2>2, StartingKeepsListInv DEF ListInv
  <2>3. CASE listing!Starts("refused") /\ counter' = counter
    BY <1>1, <2>1, <2>3, StartingKeepsListInv DEF ListInv
  <2> QED
    BY <1>2, <2>2, <2>3 DEF listing!GiveDirTask
<1>3. CASE listing!GiveFileTask
  <2>1. listing!More /\ ~owes /\ UNCHANGED <<counter, topic, entries, received, ret>>
    BY <1>3 DEF listing!GiveFileTask, listing!Answers
  <2>2. CASE listing!Starts("given") /\ owes' = TRUE
    BY <1>1, <2>1, <2>2, StartingKeepsListInv DEF ListInv
  <2>3. CASE listing!Starts("refused") /\ owes' = owes
    BY <1>1, <2>1, <2>3, StartingKeepsListInv DEF ListInv
  <2> QED
    BY <1>3, <2>2, <2>3 DEF listing!GiveFileTask
<1>4. CASE listing!StartGoroutine
  <2>1. listing!More /\ listing!Starts("given") /\ counter' = counter + 1
        /\ UNCHANGED <<owes, topic, entries, received, ret>>
    BY <1>4 DEF listing!StartGoroutine, listing!Answers
  <2> QED
    BY <1>1, <2>1, StartingKeepsListInv DEF ListInv
<1>5. CASE listing!AddFileTask
  <2>1. owes /\ ~owes' /\ counter' = counter + 1
        /\ UNCHANGED <<started, task, topic, entries, received, ret>>
    BY <1>5 DEF listing!AddFileTask, listing!Answers
  <2>2. Active' = Active /\ Entered' = Entered
        /\ listing!Having("old")' = listing!Having("old") /\ listing!Local' = listing!Local
    BY <1>1, <2>1 DEF ListStep, Active, Entered, listing!Having, listing!Local
  <2>3. counter' \in Nat /\ counter + 1 = Cardinality(Active)
    BY <1>1, <2>1 DEF ListInv, ListStep
  <2>4. counter' + (IF owes' THEN 1 ELSE 0) = Cardinality(Active')
    BY <2>1, <2>2, <2>3
  <2>5. owes' \in BOOLEAN
    BY <1>5 DEF listing!AddFileTask
  <2>6. Olds' = Olds /\ EntriesFit(entries)'
    BY <1>1, <2>1, <2>2 DEF ListStep, ListInv, EntriesFit, Olds
  <2> QED
    BY <1>1, <2>1, <2>2, <2>3, <2>4, <2>5, <2>6 DEF ListInv, ListStep, listing!ListsEveryName
<1>6. CASE listing!CloseChannels
  <2>1. UNCHANGED <<started, owes, counter, task, topic, entries, received, ret>>
    BY <1>6 DEF listing!CloseChannels, listing!Caller
  <2>2. Active' = Active /\ Entered' = Entered
        /\ listing!Having("old")' = listing!Having("old") /\ listing!Local' = listing!Local
    BY <1>1, <2>1 DEF ListStep, Active, Entered, listing!Having, listing!Local
  <2>3. Olds' = Olds /\ EntriesFit(entries)'
    BY <1>1, <2>1, <2>2 DEF ListStep, ListInv, EntriesFit, Olds
  <2> QED
    BY <1>1, <2>1, <2>2, <2>3 DEF ListInv, ListStep, listing!ListsEveryName
<1>7. CASE listing!ReceiveEntry \/ listing!ReceiveError \/ listing!ReceiveNothing
  <2>1. /\ call = "PublicPodDisLs"
        /\ UNCHANGED <<started, owes, counter, task, topic, entries>>
        /\ received' \subseteq entries
        /\ ret' = "error" \/ listing!EndsWhenAll
    BY <1>7 DEF listing!ReceiveEntry, listing!ReceiveError, listing!ReceiveNothing,
       listing!CallOf, listing!Caller, ListInv
  <2> QED
    BY <1>1, <2>1, ReceivingKeepsListInv
<1> QED
  BY <1>1, <1>2, <1>3, <1>4, <1>5, <1>6, <1>7, TaskKeepsListInv, ReturnKeepsListInv
     DEF listing!Next, listing!Main

LEMMA ListingsStayFit == ServicesSpec => [](Part("listing") => ListInv)
<1>1. ServicesInit => (Part("listing") => ListInv)
  BY ServicesAssumption, ListInitFits DEF ServicesInit, Part
<1>2. ASSUME Part("listing") => ListInv, [ServicesNext]_serviceVars
      PROVE  (Part("listing") => ListInv)'
  <2>1. UNCHANGED part
    BY <1>2 DEF ServicesNext, serviceVars
  <2>2. CASE UNCHANGED serviceVars
    <3>1. UNCHANGED <<call, found, started, owes, counter, task, topic, entries, received,
                      closed, ret>>
      BY <2>2 DEF serviceVars, listVars
    <3> QED
      BY <1>2, <2>1, <3>1 DEF Part, ListInv, Count, Active, Entered, EntriesFit, Olds, listing!names,
         listing!Having, listing!Local, listing!In, listing!ListsEveryName
  <2>3. CASE Part("listing") /\ listing!Next
    BY <1>2, <2>3, ListStepKeepsInv
  <2>4. CASE ~Part("listing")
    BY <2>1, <2>4 DEF Part
  <2> QED
    BY <1>2, <2>2, <2>3, <2>4 DEF ServicesNext, Part
<1> QED
  BY <1>1, <1>2, PTL DEF ServicesSpec

\* A listing that returns without an error has every name once, whatever is deleted,
\* refused or lost while its tasks run, for any directory and number of goroutines; only
\* the entries of directories stored in the old way may stand in for one another, for
\* the goroutines of PublicPodDisLs share the variable topic (ListDir, ListFiles,
\* pkg/dfs/pod_api.go).
THEOREM ListingsAreWhole == ServicesSpec => []ListsEveryName
<1>1. (Part("listing") => ListInv) => ListsEveryName
  BY DEF ListInv, ListsEveryName
<1> QED
  BY <1>1, ListingsStayFit, PTL
=============================================================================
