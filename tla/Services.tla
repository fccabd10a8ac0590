------------------------------ MODULE Services ------------------------------
(***************************************************************************)
(* The services of FairOS that share no state with one another: groups and *)
(* their permissions, access control tables, users, document databases and *)
(* listings.  A behaviour is one of one of them, or, if part says another  *)
(* service, of none.                                                       *)
(***************************************************************************)
EXTENDS Integers, Sequences, FiniteSets

CONSTANTS MayFail,       \* whether stores, uploads and transactions may fail
          MayMissList,   \* whether a read of a list may fail
          Users, Sessions,
          UserOf,        \* session -> its user
          GroupNames, GroupsOf,      \* user -> the names the user gives to groups
          Asked, Careful, MaxShared,
          Owners, TableNames, Pods,
          TablesOf,                  \* user -> the names the user gives to tables
          MaxContents, MaxKeys,
          UserNames, Addresses, Passwords, Signatures,
          Logins,        \* ids of the sessions users log in to
          Calls, Lite,
          Ids, FieldValues, Simple, Others,
          Docs,          \* the documents clients put
          Tested, Behind, Matches,   \* how Find compares values (DocStore)
          Distinct, MaxRefs,
          MaxNames, Slots, MaxOld, MayRefuse,
          None, Unknown

VARIABLES part,
          lists, acls, listMap, opened, invites, work, locked, given,
          list, feed, accessKey, keysMade, shared, change, granted, readable,
          owner, pubkey, portable, userMap, userCall, signedUp, deleted,
          listed, made, index, sealed, docs, database, batch, failed, acked,
          call, found, started, owes, counter, task, topic, entries, received, closed, ret

groupVars   == <<lists, acls, listMap, opened, invites, work, locked, given>>
actVars     == <<list, feed, accessKey, keysMade, shared, change, granted, readable>>
accountVars == <<owner, pubkey, portable, userMap, userCall, signedUp, deleted>>
docVars     == <<listed, made, index, sealed, docs, database, batch, failed, acked>>
listVars    == <<call, found, started, owes, counter, task, topic, entries, received,
                 closed, ret>>
serviceVars == <<part, groupVars, actVars, accountVars, docVars, listVars>>

groups == INSTANCE Groups WITH Names <- GroupNames, NamesOf <- GroupsOf

acts == INSTANCE Acts WITH
    Names <- TableNames, NamesOf <- TablesOf, work <- change, given <- granted

accounts == INSTANCE Accounts WITH
    Names <- UserNames, Sessions <- Logins, call <- userCall

documents == INSTANCE DocStore WITH Values <- FieldValues, opened <- database

listing == INSTANCE Listing

\* Who has a session is a user and owns names of groups and tables; None is nothing
\* that can be stored, cached or registered.
ASSUME ServicesAssumption ==
    /\ UserOf \in [Sessions -> Users]
    /\ \A s \in Sessions : GroupsOf[UserOf[s]] \subseteq GroupNames
                            /\ TablesOf[UserOf[s]] \subseteq TableNames
    /\ Asked \subseteq 0..2
    /\ None \notin [Users -> 0..2] /\ None \notin acts!Table /\ None \notin Addresses
    /\ \A who \in SUBSET Users : who # None
    /\ MaxNames \in Nat /\ MaxOld \in Nat /\ Slots \in Nat \ {0}

\* A document has its id and, for every field, its values there, or None.
ASSUME DocsAssumption ==
    /\ Docs \subseteq [id: Ids, at: [Simple \cup Others -> {None} \cup SUBSET FieldValues]]
    /\ \A d \in Docs, f \in Simple : d.at[f] # None
    /\ Simple \cap Others = {} /\ "id" \notin Simple \cup Others
    /\ None \notin Docs /\ Unknown \notin Docs /\ None # Unknown
    /\ \A vs \in SUBSET FieldValues : vs # None
    /\ \A fs \in SUBSET ({"id"} \cup Simple \cup Others) : fs # None

-----------------------------------------------------------------------------
\* The variables of a part that is not there.
NoGroups == lists = None /\ acls = None /\ listMap = None /\ opened = None
      /\ invites = None /\ work = None /\ locked = None /\ given = None
NoActs == list = None /\ feed = None /\ accessKey = None /\ keysMade = None
      /\ shared = None /\ change = None /\ granted = None /\ readable = None
NoAccounts == owner = None /\ pubkey = None /\ portable = None /\ userMap = None
      /\ userCall = None /\ signedUp = None /\ deleted = None
NoDocuments == listed = None /\ made = None /\ index = None /\ sealed = None
      /\ docs = None /\ database = None /\ batch = None /\ failed = None /\ acked = None
NoListing == call = None /\ found = None /\ started = None /\ owes = None
      /\ counter = None /\ task = None /\ topic = None /\ entries = None
      /\ received = None /\ closed = None /\ ret = None

Part(name) == part = name

ServicesInit ==
    /\ IF Part("groups") THEN groups!Init ELSE NoGroups
    /\ IF Part("acts") THEN acts!Init ELSE NoActs
    /\ IF Part("accounts") THEN accounts!Init ELSE NoAccounts
    /\ IF Part("documents") THEN documents!Init ELSE NoDocuments
    /\ IF Part("listing") THEN listing!Init ELSE NoListing

ServicesNext ==
    /\ UNCHANGED part
    /\ \/ /\ Part("groups") /\ groups!Next
          /\ UNCHANGED <<actVars, accountVars, docVars, listVars>>
       \/ /\ Part("acts") /\ acts!Next
          /\ UNCHANGED <<groupVars, accountVars, docVars, listVars>>
       \/ /\ Part("accounts") /\ accounts!Next
          /\ UNCHANGED <<groupVars, actVars, docVars, listVars>>
       \/ /\ Part("documents") /\ documents!Next
          /\ UNCHANGED <<groupVars, actVars, accountVars, listVars>>
       \/ /\ Part("listing") /\ listing!Next
          /\ UNCHANGED <<groupVars, actVars, accountVars, docVars>>

ServicesSpec == ServicesInit /\ [][ServicesNext]_serviceVars

-----------------------------------------------------------------------------
\* What members may do with a group is what acknowledged calls gave them (Groups).
PermissionsAsGiven == Part("groups") => groups!PermissionsAsGiven

\* A group opens only to a member, with the permission the member has (Groups).
OpensAsGiven == [][Part("groups") => groups!OpensStep]_serviceVars

\* Contents open to whom acknowledged calls gave access, and to nobody else (Acts).
GrantsInForce == Part("acts") => acts!GrantsInForce

\* Acknowledged accounts stay their owners', and sessions work with them (Accounts).
AccountsAreTheirOwners == Part("accounts") => accounts!AccountsAreTheirOwners

\* Get returns the document last put (DocStore).
GetGivesLatest == Part("documents") => documents!GetGivesLatest

\* Find returns the documents whose field has the value (DocStore).
FindsByField == Part("documents") => documents!FindsByField

\* A listing that returns has every name once (Listing).
ListsEveryName == Part("listing") => listing!ListsEveryName
=============================================================================
