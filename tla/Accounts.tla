------------------------------ MODULE Accounts ------------------------------
(***************************************************************************)
(* Users (pkg/user).  A user name is registered on a chain for the address *)
(* of a mnemonic (pkg/ensm/eth); the mnemonic's seed is kept on Swarm, in  *)
(* a chunk at a place made of the name, the password and the address; who  *)
(* is logged in is a map in memory.  A call is the steps between which     *)
(* other calls may run: every one reads or writes one of the three.        *)
(***************************************************************************)
EXTENDS FiniteSets

CONSTANTS Names, Addresses, Passwords,
          Signatures,   \* of wallets
          Sessions,     \* ids; auth.GetUniqueSessionId gives one nobody has
          Calls,        \* the calls that run at a time
          MayFail,      \* whether a read, a transaction or an upload may fail
          Lite,         \* whether LoadLiteUser is called
          None

VARIABLES owner,     \* name -> its address in the ENS registry, or None
          pubkey,    \* name -> the address whose key the public resolver has, or None
          portable,  \* the accounts on Swarm: place (a name or Wallet), pass (a password or
                     \* signature) and addr say where; name is what the account says
          userMap,   \* session -> the user of it, or None
          call,      \* call -> the rest of it
          signedUp,  \* history: the accounts whose sign-up was acknowledged
          deleted    \* history: the accounts a delete was begun of

vars == <<owner, pubkey, portable, userMap, call, signedUp, deleted>>

Wallet == "wallet"       \* the place of a name when a wallet opens the account
Idle == [do |-> "idle"]
chain == <<owner, pubkey>>

Init ==
    /\ owner = [n \in Names |-> None] /\ pubkey = [n \in Names |-> None]
    /\ portable = {}
    /\ userMap = [s \in Sessions |-> None]
    /\ call = [c \in Calls |-> Idle]
    /\ signedUp = {} /\ deleted = {}

-----------------------------------------------------------------------------
Does(c, step) == call[c].do = step
Goto(c, rest) == call' = [call EXCEPT ![c] = rest]
Then(c, step) == Goto(c, [call[c] EXCEPT !.do = step])
Returns(c) == Goto(c, Idle)

\* The chunk of an account: a second upload to its place is refused, and what is read
\* there is what was uploaded.
Place(a) == [place |-> a.place, pass |-> a.pass, addr |-> a.addr]
Taken(a) == \E b \in portable : Place(b) = Place(a)

addUserToMap(c, user) ==
    /\ \E s \in Sessions : userMap[s] = None /\ userMap' = [userMap EXCEPT ![s] = user]
    /\ Returns(c)

\* Any call may fail at any step; what it did stays.
Fail(c) ==
    /\ MayFail /\ ~Does(c, "idle")
    /\ Returns(c)
    /\ UNCHANGED <<chain, portable, userMap, signedUp, deleted>>

-----------------------------------------------------------------------------
\* Mutant: any name may be signed up for, taken or not.
AnyName(name, addr) == TRUE

\* A name is free, or the mnemonic's own: then a sign-up that stopped is taken up.
Available(name, addr) == owner[name] \in {None, addr}

\* CreateNewUserV2: GetOwner, and GetInfo when the name is the user's already.
CreateNewUserV2(c, account) ==
    /\ Does(c, "idle") /\ Available(account.name, account.addr)
    /\ Goto(c, [do |-> IF owner[account.name] = None THEN "RegisterSubdomain" ELSE "uploadNew",
                account |-> account])
    /\ UNCHANGED <<chain, portable, userMap, signedUp, deleted>>

\* The registrar gives a name once. A receipt that does not come in time is an error,
\* though the transaction is mined.
RegisterSubdomain(c) ==
    LET a == call[c].account IN
    /\ Does(c, "RegisterSubdomain")
    /\ IF owner[a.name] = None
       THEN /\ owner' = [owner EXCEPT ![a.name] = a.addr]
            /\ Then(c, "SetAll") \/ (MayFail /\ Returns(c))
       ELSE Returns(c) /\ UNCHANGED owner
    /\ UNCHANGED <<pubkey, portable, userMap, signedUp, deleted>>

\* SetResolver and SetAll
SetAll(c) ==
    LET a == call[c].account IN
    /\ Does(c, "SetAll")
    /\ pubkey' = [pubkey EXCEPT ![a.name] = a.addr]
    /\ Then(c, "uploadNew") \/ (MayFail /\ Returns(c))
    /\ UNCHANGED <<owner, portable, userMap, signedUp, deleted>>

uploadPortableAccount(c) ==
    LET a == call[c].account IN
    /\ Does(c, "uploadNew") \/ Does(c, "uploadWallet")
    /\ IF Taken(a) THEN Returns(c) /\ UNCHANGED portable
       ELSE /\ portable' = portable \cup {a}
            /\ IF Does(c, "uploadNew") THEN Then(c, "addNew") ELSE Returns(c)
    /\ UNCHANGED <<chain, userMap, signedUp, deleted>>

\* The end of a sign-up: the user is logged in.
addNew(c) ==
    LET a == call[c].account IN
    /\ Does(c, "addNew")
    /\ addUserToMap(c, [name |-> a.name, addr |-> a.addr, lite |-> FALSE])
    /\ signedUp' = signedUp \cup {a}
    /\ UNCHANGED <<chain, portable, deleted>>

-----------------------------------------------------------------------------
\* LoginUserV2 and ConnectWallet read the owner of the name, ConnectWallet compares it
\* with the wallet, and the account is read at the owner's place.
GetOwner(c, name, pass, then) ==
    /\ Does(c, "idle") /\ owner[name] # None
    /\ Goto(c, [do |-> then, place |-> name, pass |-> pass, addr |-> owner[name]])
    /\ UNCHANGED <<chain, portable, userMap, signedUp, deleted>>

\* What downloadPortableAccount reads, if the password is right.
Downloaded(c, a) == Place(a) = [place |-> call[c].place, pass |-> call[c].pass,
                                addr |-> call[c].addr]

LoginUserV2(c) ==
    /\ Does(c, "login")
    /\ \E a \in portable :
          /\ Downloaded(c, a)
          /\ addUserToMap(c, [name |-> call[c].place, addr |-> a.addr, lite |-> FALSE])
    /\ UNCHANGED <<chain, portable, signedUp, deleted>>

ConnectWallet(c) ==
    /\ Does(c, "connect")
    /\ \E a \in portable, signature \in Signatures :
          /\ Downloaded(c, a)
          /\ Goto(c, [do |-> "uploadWallet",
                      account |-> [a EXCEPT !.place = Wallet, !.pass = signature]])
    /\ UNCHANGED <<chain, portable, userMap, signedUp, deleted>>

\* The account has the name the wallet was connected under.
LoginWithWallet(c, addr, signature) ==
    /\ Does(c, "idle")
    /\ \E a \in portable :
          /\ Place(a) = [place |-> Wallet, pass |-> signature, addr |-> addr]
          /\ addUserToMap(c, [name |-> a.name, addr |-> a.addr, lite |-> FALSE])
    /\ UNCHANGED <<chain, portable, signedUp, deleted>>

\* A login that finds no account: ErrInvalidPassword.
InvalidPassword(c) ==
    /\ Does(c, "login") \/ Does(c, "connect")
    /\ ~ \E a \in portable : Downloaded(c, a)
    /\ Returns(c)
    /\ UNCHANGED <<chain, portable, userMap, signedUp, deleted>>

\* LoadLiteUser takes the name it is given, LoginUserWithSignature the address for one.
LoadLiteUser(c, name, addr) ==
    /\ Lite /\ Does(c, "idle")
    /\ addUserToMap(c, [name |-> name, addr |-> addr, lite |-> TRUE])
    /\ UNCHANGED <<chain, portable, signedUp, deleted>>

-----------------------------------------------------------------------------
\* LogoutUser and DeleteUserV2 look the session up; a delete finds no registered name
\* for the address of a signature.
EndSession(c, s, pass, then) ==
    /\ Does(c, "idle") /\ userMap[s] # None
    /\ then = "delete" => userMap[s].name \in Names /\ owner[userMap[s].name] # None
    /\ Goto(c, [do |-> then, session |-> s, place |-> userMap[s].name, pass |-> pass,
                addr |-> userMap[s].addr])
    /\ UNCHANGED <<chain, portable, userMap, signedUp, deleted>>

\* deletePortableAccount fails when the password names no account; a node may still
\* have the chunk afterwards.
DeleteUserV2(c) ==
    /\ Does(c, "delete")
    /\ \E a \in portable :
          /\ Downloaded(c, a)
          /\ portable' \in {portable, portable \ {a}}
          /\ deleted' = deleted \cup {a}
    /\ Then(c, "logout")
    /\ UNCHANGED <<chain, userMap, signedUp>>

NothingToDelete(c) ==
    /\ Does(c, "delete") /\ ~ \E a \in portable : Downloaded(c, a)
    /\ Returns(c)
    /\ UNCHANGED <<chain, portable, userMap, signedUp, deleted>>

\* Logout removes the session; one that is gone by now is an error.
Logout(c) ==
    /\ Does(c, "logout")
    /\ userMap' = [userMap EXCEPT ![call[c].session] = None]
    /\ Returns(c)
    /\ UNCHANGED <<chain, portable, signedUp, deleted>>

Step(c) ==
    \/ \E n \in Names, p \in Passwords, a \in Addresses :
          \/ CreateNewUserV2(c, [place |-> n, pass |-> p, addr |-> a, name |-> n])
          \/ GetOwner(c, n, p, "login")
          \/ owner[n] = a /\ GetOwner(c, n, p, "connect")
          \/ \E w \in Signatures : LoginWithWallet(c, a, w)
          \/ LoadLiteUser(c, n, a)
    \/ RegisterSubdomain(c) \/ SetAll(c) \/ uploadPortableAccount(c) \/ addNew(c)
    \/ LoginUserV2(c) \/ ConnectWallet(c) \/ InvalidPassword(c)
    \/ \E s \in Sessions, p \in Passwords, then \in {"logout", "delete"} :
          EndSession(c, s, p, then)
    \/ DeleteUserV2(c) \/ NothingToDelete(c) \/ Logout(c) \/ Fail(c)

Next == \E c \in Calls : Step(c)

Spec == Init /\ [][Next]_vars

-----------------------------------------------------------------------------
\* An acknowledged sign-up is for good: until it is deleted, the name is the user's and
\* its password finds the account, whoever signs up at the same time for the same name or
\* with the same mnemonic, and wherever a sign-up stopped (new.go). And a session works
\* with the account that owns the name it goes by (new.go, login.go).
AccountsAreTheirOwners ==
    /\ \A a \in signedUp \ deleted :
          owner[a.name] = a.addr /\ \E b \in portable : Place(b) = Place(a)
    /\ \A s \in Sessions : userMap[s] # None =>
          (userMap[s].lite \/ owner[userMap[s].name] = userMap[s].addr)

\* Who signed up can be sent things: the name has the user's public key. The code does
\* not keep it: after a sign-up that stopped behind RegisterSubdomain, the next one only
\* reads the key that was never set.
PublicKeysAreSet == \A a \in signedUp : pubkey[a.name] = a.addr
=============================================================================
