----------------------------- MODULE FrontEnds -----------------------------
(***************************************************************************)
(* Every endpoint of every front end, for Gateway to serve: the routes of  *)
(* the HTTP server, the events of a websocket, the functions of wasm and   *)
(* of the mobile library. The sets of endpoints below are the ones whose   *)
(* code does not keep a property; the README says why, one by one.         *)
(***************************************************************************)
EXTENDS RequestSteps, FiniteSets, TLC

CONSTANT MaxItems
VARIABLES session, up, req

http   == INSTANCE HttpApi
ws     == INSTANCE WsApi
wasm   == INSTANCE WasmApi
mobile == INSTANCE MobileApi

Of(frontEnd, names) == {<<frontEnd, n>> : n \in names}
Table(frontEnd, handlers) == [e \in Of(frontEnd, DOMAIN handlers) |-> handlers[e[2]]]

AllEndpoints ==
    Table("http", http!Routes) @@ Table("http", [startServer |-> http!startServer])
        @@ Table("ws", ws!Events) @@ Table("wasm", wasm!Functions)
        @@ Table("mobile", mobile!Exports)

\* Signing up, logging in, asking about users, and what is shared in public.
AnyoneMayCall ==
    Of("http", DOMAIN http!OpenRoutes \cup {"startServer"})
      \cup Of("ws", {"UserLogin", "UserPresent", "UserIsLoggedin", "UnknownEvent"})
      \cup Of("wasm", {"connect", "login", "walletLogin", "signatureLogin", "connectWallet",
                       "userPresent", "userIsLoggedIn", "publicPodReceiveInfo", "publicPodFile",
                       "publicPodFileMeta", "publicPodDir", "publicKvEntryGet"})
      \cup Of("mobile", {"Connect", "LoginUser", "IsUserPresent", "IsUserLoggedIn"})

\* An error is answered and the handler goes on; or the body breaks off behind
\* "ok"; or the goroutine panics and nothing is answered, as when another
\* request logs the session out at the same time, or a push has no two words.
AnsweredNotOnce ==
    Of("http", {"GrantRevokeHandler", "KVLoadCSVHandler", "FileDownloadHandlerGet",
                "FileDownloadHandlerPost", "PublicPodGetFileHandler",
                "PublicPodFilePathHandler", "GitUploadPack", "GitReceivePack",
                "UserLogoutHandler", "UserDeleteV2Handler"})
      \cup Of("ws", {"DocCreate", "FileDownload", "FileUploadStream", "UserLogout", "UserDelete"})
      \cup Of("wasm", {"connect", "publicKvEntryGet", "fileReceiveInfo", "docCount", "docFind",
                       "docEntryGet", "kvLoadCSV", "userLogout", "userDelete"})
      \cup Of("mobile", {"KVLoadCSV", "LogoutUser"})

\* The session id is handed on in the place of another argument.
NeverServed ==
    Of("http", {"GroupOpenHandler", "GroupCloseHandler", "GroupRemoveMemberHandler"})
      \cup Of("ws", {"FileReceive"}) \cup Of("wasm", {"groupRemoveMember"})

\* Another argument is tested than the one called missing, or handleDownload reads
\* from a pod whatever the request names.
ServesOther ==
    Of("http", {"KVPutHandler", "KVDelHandler", "PublicPodGetDirHandler",
                "FileDownloadHandlerGet", "FileDownloadHandlerPost"})

INSTANCE Gateway WITH Served <- AllEndpoints, ForEveryone <- AnyoneMayCall

\* The goroutine of the login middleware panicked in Logout.
LostAtTheGate == req.leaving /\ Logged("panic")

\* The properties of Gateway for the other endpoints: one answer to a request
\* (the handlers of pkg/api, wasm and gomobile), unless another one logs the expired
\* session out while the login middleware does,
OneAnswerElsewhere == req.at \notin AnsweredNotOnce /\ ~LostAtTheGate => OneAnswer
\* no refusal without a reason (the same, and the arguments of pkg/dfs),
GoodRequestsAreServedElsewhere == req.at \notin NeverServed => GoodRequestsAreServed
\* no answer that was not asked for ("argument missing", isGroup).
ServedAsAskedElsewhere == req.at \notin ServesOther => ServedAsAsked
-----------------------------------------------------------------------------
(* What the code of the other endpoints has in common, for the proofs.     *)

Positions(steps) == 1..Len(steps)
Is(steps, i, kinds) == steps[i].do \in kinds

\* Optional steps, attempts and loops are made of steps of the endpoint.
WellFormed(steps) ==
    /\ Len(steps) \in Nat \ {0} /\ DOMAIN steps = Positions(steps)
    /\ \A i \in Positions(steps) :
        /\ Is(steps, i, {"maybe", "attempt"}) => steps[i].length \in 0..Len(steps) - i
        /\ Is(steps, i, {"again"}) => steps[i].length \in 1..i - 1

\* Step j belongs to what the `maybe` or `attempt` at i stands for.
Holds(steps, i, j) ==
    Is(steps, i, {"maybe", "attempt"}) /\ j \in i + 1..i + steps[i].length

\* A request that comes to step i has come by step j.
Past(steps, j, i) ==
    j < i /\ \A b \in 1..j - 1 : Holds(steps, b, j) => Holds(steps, b, i)

\* The steps that are made for whoever has no session, and the end.
Open(steps) ==
    {Len(steps) + 1} \cup
    {i \in Positions(steps) : ~\E j \in Positions(steps) : Is(steps, j, {"session"}) /\ Past(steps, j, i)}

\* From the open steps only a session leads to others, and they change nothing.
LoginFirst(steps) ==
    LET open == Open(steps) IN
    /\ 1 \in open
    /\ \A i \in open \cap Positions(steps) :
        /\ ~Is(steps, i, {"write", "do", "logout"})
        /\ Is(steps, i, {"session"}) \/ i + 1 \in open
        /\ Is(steps, i, {"maybe"}) => i + steps[i].length + 1 \in open
        /\ Is(steps, i, {"again"}) => i - steps[i].length \in open
        /\ \A b \in 1..i - 1 : Is(steps, b, {"attempt"}) /\ Holds(steps, b, i)
                                  => b + steps[b].length + 1 \in open

\* The login middleware comes once, before everything else.
GateFirst(steps) ==
    \A i \in Positions(steps) : Is(steps, i, {"gate"}) =>
        i = 1 /\ \A j \in Positions(steps) : Is(steps, j, {"again"}) => j - steps[j].length > 1

\* Tells an error and goes on.
GoesOnTelling(step) == step.do = "tell" \/ (step.do = "newApi" /\ step.onError = "tell")

\* The answer is the last step, which nothing leads past.
AnswersLast(steps) ==
    /\ Is(steps, Len(steps), {"ok", "refuse"})
    /\ \A i \in 1..Len(steps) - 1 :
        /\ ~Is(steps, i, {"ok", "refuse", "stream", "panic", "drop", "logout"})
        /\ ~GoesOnTelling(steps[i]) /\ ~Holds(steps, i, Len(steps))

\* The session id is what is looked up, and a stream ends a request that has
\* told no error.
RefusesWithReason(steps) ==
    \A i \in Positions(steps) :
        /\ Is(steps, i, {"session"}) => steps[i].id = sessionId
        /\ Is(steps, i, {"stream"}) =>
              i = Len(steps) /\ \A j \in Positions(steps) : ~GoesOnTelling(steps[j])

\* Step i tests for argument n, and nothing leads past it or is answered before.
AsksAt(steps, n, i) ==
    /\ Is(steps, i, {"ask"}) /\ steps[i].tests = n
    /\ \A j \in 1..i - 1 : ~Is(steps, j, {"ok", "stream"}) /\ ~Holds(steps, j, i)

AsksForAll(e) ==
    /\ \A n \in Named(e) : n # "nothing" /\ \E i \in Positions(AllEndpoints[e]) : AsksAt(AllEndpoints[e], n, i)
    /\ {"driveName", "groupName"} \cap Named(e) # {} => "pod" \notin Kinds(e)

\* The rules that the endpoints follow, except the ones named above.
ASSUME FrontEndsAssumption ==
    /\ MaxItems \in Nat /\ <<>> \notin Endpoints
    /\ \A e \in Endpoints :
        /\ WellFormed(AllEndpoints[e]) /\ GateFirst(AllEndpoints[e])
        /\ e \notin AnyoneMayCall \/ "gate" \in Kinds(e) => LoginFirst(AllEndpoints[e])
        /\ e \notin AnsweredNotOnce => AnswersLast(AllEndpoints[e])
        /\ e \notin NeverServed => RefusesWithReason(AllEndpoints[e])
        /\ e \notin ServesOther => AsksForAll(e)
=============================================================================
