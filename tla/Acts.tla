-------------------------------- MODULE Acts --------------------------------
(***************************************************************************)
(* Access control tables (pkg/act).  A user's tables are one list on Swarm *)
(* and a feed per table.  A change has three steps, between which other    *)
(* sessions of the user may run: the list is read, the feed is given a new *)
(* history, the list is stored.  Each session has a mutex of its own.      *)
(*                                                                         *)
(* A history (github.com/asabya/swarm-act) stands for the users it opens   *)
(* to and the access key it gives them, with which the references of       *)
(* contents are encrypted.  A revocation makes a new key: contents shared  *)
(* before it open to nobody any more.                                      *)
(***************************************************************************)
EXTENDS Naturals, Sequences

CONSTANTS Users, Sessions,
          UserOf,         \* session -> its user
          Owners,         \* users who create tables
          Names,          \* of tables
          NamesOf,        \* user -> the names the user gives to tables
          Pods,
          MayFail,        \* whether a step may fail or a session end in a call
          MayMissList,    \* whether the list may not be found
          MaxContents,    \* bound on the contents of a table
          MaxKeys,        \* bound on the access keys that are made
          None

VARIABLES list,     \* user -> name -> the table in the user's list, or None
          feed,     \* owner -> name -> the users the history in the feed opens to, or None
          accessKey, \* owner -> name -> the access key that history gives them
          keysMade, \* number of access keys made so far
          shared,   \* contents GrantAccess returned
          work,     \* session -> the rest of its call
          given,    \* history: owner -> name -> user -> whether acknowledged calls gave
                    \* access ("in"), took it ("out"), or one stopped half-way ("unsure")
          readable  \* history: owner -> name -> contents shared since users were revoked last
vars == <<list, feed, accessKey, keysMade, shared, work, given, readable>>

\* key: the access key its reference is encrypted with.
Content == [owner: Users, name: Names, pod: Pods, key: Nat]
\* who and key: what HistoryRef and GranteesRef stand for; who is None for a saved pod.
Table == [who: (SUBSET Users) \cup {None}, key: Nat, content: Seq(Content)]
Idle == [do |-> "idle"]
NoTables == [n \in Names |-> None]

Init ==
    /\ list = [u \in Users |-> NoTables]
    /\ feed = [u \in Users |-> NoTables]
    /\ accessKey = [u \in Users |-> [n \in Names |-> 0]]
    /\ keysMade = 0
    /\ shared = {}
    /\ work = [s \in Sessions |-> Idle]
    /\ given = [u \in Users |-> [n \in Names |-> [v \in Users |-> "out"]]]
    /\ readable = [u \in Users |-> [n \in Names |-> {}]]

-----------------------------------------------------------------------------
\* A download that fails is taken for an empty list.
loadUserACTs(u) == {list[u]} \cup (IF MayMissList THEN {NoTables} ELSE {})

Calling(s) == work[s] = Idle
Does(s, step) == work[s].do = step
Goto(s, w) == work' = [work EXCEPT ![s] = w]
Returns(s) == Goto(s, Idle)

\* The rest of a change once its table is made: the feed, which gets a history for
\* `who` with this key, then the list. It returns what it shared.
Change(s, l, n, table, step, who, key, grant, revoke, shares) ==
    Goto(s, [do |-> step, name |-> n, who |-> who, key |-> key,
             list |-> [l EXCEPT ![n] = table],
             grant |-> grant, revoke |-> revoke, shares |-> shares])

FreshKey == keysMade + 1
MakesKey == keysMade < MaxKeys /\ keysMade' = FreshKey
KeepsKey == keysMade' = keysMade

\* What a call says about the users it names.
Says(s, granted, revoked) ==
    given' = [given EXCEPT ![UserOf[s]][work[s].name] =
                  [v \in Users |-> IF v \in work[s].revoke THEN revoked
                                   ELSE IF v \in work[s].grant THEN granted ELSE @[v]]]

\* CreateUpdateACT for a new name. With no key to grant, the library is given a nil
\* key, and what is stored stays.
CreateACT(s, n, grant) ==
    /\ Calling(s) /\ UserOf[s] \in Owners
    /\ \E l \in loadUserACTs(UserOf[s]) :
          /\ l[n] = None /\ MakesKey
          /\ Change(s, l, n, [who |-> {grant}, key |-> FreshKey, content |-> <<>>],
                    "CreateFeed", {grant}, FreshKey, {grant}, {}, {})
    /\ UNCHANGED <<list, feed, accessKey, shared, given, readable>>

\* Mutant: the references of the table are not replaced.
KeepsHistory(table, who, key) == table

\* The references RevokeGrant returned go into the table.
WithHistory(table, who, key) == [table EXCEPT !.who = who, !.key = key]

\* CreateUpdateACT for a name in the list: RevokeGrant starts from the table's
\* references; those of a saved pod are none, and it fails. To revoke is to make a new
\* key and to give it to those who stay.
UpdateACT(s, n, grant, revoke) ==
    /\ Calling(s) /\ grant \cup revoke # {}
    /\ IF revoke = {} THEN KeepsKey ELSE MakesKey
    /\ \E l \in loadUserACTs(UserOf[s]) :
          /\ l[n] # None /\ l[n].who # None
          /\ LET who == (l[n].who \cup grant) \ revoke
                 key == IF revoke = {} THEN l[n].key ELSE FreshKey IN
                Change(s, l, n, WithHistory(l[n], who, key), "UpdateFeed",
                       who, key, grant, revoke, {})
    /\ UNCHANGED <<list, feed, accessKey, shared, given, readable>>

\* GrantAccess: HandleUpload encrypts with the key of HistoryRef (from none: a new
\* history, for its user only), and HistoryRef stays.
GrantAccess(s, n, pod) ==
    LET u == UserOf[s] IN
    /\ Calling(s)
    /\ \E l \in loadUserACTs(u) :
          /\ l[n] # None /\ Len(l[n].content) < MaxContents
          /\ IF l[n].who = None THEN MakesKey ELSE KeepsKey
          /\ LET key == IF l[n].who = None THEN FreshKey ELSE l[n].key
                 c == [owner |-> u, name |-> n, pod |-> pod, key |-> key] IN
                Change(s, l, n, [l[n] EXCEPT !.content = Append(@, c)], "UpdateFeed",
                       IF l[n].who = None THEN {} ELSE l[n].who, key, {}, {}, {c})
    /\ UNCHANGED <<list, feed, accessKey, shared, given, readable>>

\* SaveGrantedPod refuses a name that is taken, and has no feed to update.
SaveGrantedPod(s, n, c) ==
    /\ Calling(s) /\ c.owner # UserOf[s]
    /\ \E l \in loadUserACTs(UserOf[s]) :
          /\ l[n] = None
          /\ Change(s, l, n, [who |-> None, key |-> 0, content |-> <<c>>],
                    "storeUserACTs", {}, 0, {}, {}, {})
    /\ UNCHANGED <<list, feed, accessKey, keysMade, shared, given, readable>>

-----------------------------------------------------------------------------
\* The feed of a name that was used before is there: createSoc cannot create it.
writeFeed(s) ==
    LET u == UserOf[s]  n == work[s].name IN
    /\ Does(s, "UpdateFeed") \/ (Does(s, "CreateFeed") /\ feed[u][n] = None)
    /\ feed' = [feed EXCEPT ![u][n] = work[s].who]
    /\ accessKey' = [accessKey EXCEPT ![u][n] = work[s].key]
    /\ Says(s, "unsure", "unsure")
    /\ readable' = [readable EXCEPT ![u][n] = IF work[s].revoke = {} THEN @ ELSE {}]
    /\ Goto(s, [work[s] EXCEPT !.do = "storeUserACTs"])
    /\ UNCHANGED <<list, keysMade, shared>>

storeUserACTs(s) ==
    LET u == UserOf[s]  n == work[s].name IN
    /\ Does(s, "storeUserACTs")
    /\ list' = [list EXCEPT ![u] = work[s].list]
    /\ Says(s, "in", "out")
    /\ shared' = shared \cup work[s].shares
    /\ readable' = [readable EXCEPT ![u][n] = @ \cup work[s].shares]
    /\ Returns(s)
    /\ UNCHANGED <<feed, accessKey, keysMade>>

\* A step fails, or the session ends in the call.
Fail(s) ==
    /\ MayFail \/ (Does(s, "CreateFeed") /\ feed[UserOf[s]][work[s].name] # None)
    /\ ~Calling(s)
    /\ Returns(s)
    /\ UNCHANGED <<list, feed, accessKey, keysMade, shared, given, readable>>

Step(s) ==
    \/ \E n \in NamesOf[UserOf[s]] :
          \/ \E u \in Users \ {UserOf[s]} : CreateACT(s, n, u)
          \/ \E grant, revoke \in {{}} \cup {{u} : u \in Users \ {UserOf[s]}} :
                grant \cap revoke = {} /\ UpdateACT(s, n, grant, revoke)
          \/ \E pod \in Pods : GrantAccess(s, n, pod)
          \/ \E c \in shared : SaveGrantedPod(s, n, c)
    \/ writeFeed(s) \/ storeUserACTs(s) \/ Fail(s)

Next == \E s \in Sessions : Step(s)

Spec == Init /\ [][Next]_vars

-----------------------------------------------------------------------------
\* GetPodAccess opens the first content of a table, with the key that the history in
\* its feed gives the user now.
GetPodAccess(u, n) ==
    LET c == list[u][n].content[1] IN
    IF list[u][n] # None /\ list[u][n].content # <<>>
          /\ u \in feed[c.owner][c.name] /\ c.key = accessKey[c.owner][c.name]
    THEN c ELSE None

\* A user to whom the acknowledged calls of a content's owner give access opens it if it
\* was shared after the last revocation, and a user they took it from does not open it,
\* whichever table the content was saved in and whatever failed in between: no change
\* for somebody else brings a revoked user back, and none but a revocation shuts
\* another out (act.go, grant.go).
GrantsInForce ==
    \A u \in Users, n \in Names :
        (list[u][n] # None /\ list[u][n].content # <<>>) =>
            LET c == list[u][n].content[1]  access == given[c.owner][c.name][u] IN
                c.owner # u =>
                    /\ access = "in" /\ c \in readable[c.owner][c.name] => GetPodAccess(u, n) = c
                    /\ access = "out" => GetPodAccess(u, n) = None
=============================================================================
