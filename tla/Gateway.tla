------------------------------- MODULE Gateway -------------------------------
(***************************************************************************)
(* Requests served one after another for one session, while other clients  *)
(* with the same session id log out, close its pod and groups, and while   *)
(* the cookie's login time passes. `Served` gives each endpoint its steps; *)
(* every step is an action, so the others act between any two of them.     *)
(***************************************************************************)
EXTENDS RequestSteps, FiniteSets

CONSTANTS Served,         \* endpoint -> sequence of steps
          MaxItems,       \* rows or files a request has beyond the first
          ForEveryone     \* endpoints that do not act for a user who is logged in

VARIABLES session,  \* [in, pod, group, fresh]: logged in; open; login time not passed
          up,       \* the process runs and has an api
          req       \* the request being served, or the last one

vars == <<session, up, req>>

Endpoints == DOMAIN Served
Kinds(e) == {Served[e][i].do : i \in DOMAIN Served[e]}
\* The arguments an endpoint calls missing when they are.
Named(e) == {Served[e][i].names : i \in {j \in DOMAIN Served[e] : Served[e][j].do = "ask"}}
\* The endpoints that can be called before there is an api.
WithoutApi(e) == {"connected", "newApi"} \cap Kinds(e) # {}

LoggedOut == [in |-> FALSE, pod |-> FALSE, group |-> FALSE, fresh |-> FALSE]

NoRequest == [at |-> <<>>, pos |-> 1, lacks |-> "nothing", group |-> FALSE,
              holds |-> "token", items |-> 0, begun |-> FALSE, expired |-> FALSE,
              leaving |-> FALSE, drive |-> "none", wrong |-> FALSE, log |-> <<>>]

Init ==
    /\ session = LoggedOut
    /\ up \in BOOLEAN
    /\ req = NoRequest

Idle  == req.at = <<>>
Ended == ~Idle /\ req.pos > Len(Served[req.at])
Now   == Served[req.at][req.pos]
At(kind) == ~Idle /\ ~Ended /\ Now.do = kind

\* What a request brings with it, as far as its endpoint looks at it.
Begin ==
    /\ Idle
    /\ up' = up
    /\ \E e \in Endpoints :
        /\ up \/ WithoutApi(e)
        /\ \E lacks \in {"nothing"} \cup Named(e),
              group \in {g \in BOOLEAN : "driveName" \notin Named(e) => (g <=> "groupName" \in Named(e))},
              holds \in IF {"gate", "token"} \cap Kinds(e) = {} THEN {"token"}
                        ELSE {"token", "cookie", "none"},
              items \in IF "again" \in Kinds(e) THEN 0..MaxItems ELSE {0} :
            req' = [NoRequest EXCEPT !.at = e, !.lacks = lacks, !.group = group,
                                     !.holds = holds, !.items = items, !.begun = session.in]
    /\ UNCHANGED session

(* What a step leads to. *)
Add(entry) == IF req.log # <<>> /\ req.log[Len(req.log)] = entry THEN req.log
              ELSE Append(req.log, entry)
Forward(n) == req' = [req EXCEPT !.pos = @ + n]

\* The attempts around the step, whose failure it may be.
Attempts == {i \in 1..req.pos - 1 : /\ Served[req.at][i].do = "attempt"
                                    /\ req.pos <= i + Served[req.at][i].length}

\* An error: back to the attempt it is part of, or an answer and the end.
Fail(wrong) ==
    IF Attempts # {}
    THEN \E i \in Attempts : req' = [req EXCEPT !.pos = i + Served[req.at][i].length + 1]
    ELSE req' = [req EXCEPT !.pos = Len(Served[req.at]) + 1, !.wrong = @ \/ wrong,
                            !.log = Append(@, "refused")]

Changed(effect) ==
    CASE effect = "login"    -> [in |-> TRUE, pod |-> FALSE, group |-> FALSE, fresh |-> TRUE]
      [] effect = "openPod"  -> [session EXCEPT !.pod = session.in]
      [] effect = "openGroup" -> [session EXCEPT !.group = session.in]
      [] effect \in {"closePod", "closeAll"} -> [session EXCEPT !.pod = FALSE]
      [] effect = "closeGroup" -> [session EXCEPT !.group = FALSE]
      [] OTHER -> session

Apply(effect) ==
    /\ session' = Changed(effect)
    /\ up' = up
    /\ req' = [req EXCEPT !.pos = @ + 1, !.log = Add("write")]

Still == UNCHANGED <<session, up>>

Told == req' = [req EXCEPT !.pos = @ + 1, !.log = Append(@, "refused"), !.wrong = TRUE]

Crash == req' = [req EXCEPT !.pos = Len(Served[req.at]) + 1, !.log = Append(@, "panic")]

(* The steps. *)
\* Mutant: goes on behind the answer.
AskStepGoesOn ==
    /\ At("ask") /\ Still
    /\ IF Now.tests = req.lacks THEN Told ELSE Forward(1)

AskStep ==
    /\ At("ask") /\ Still
    /\ IF Now.tests = req.lacks THEN Fail(TRUE) ELSE Forward(1)

ReadStep == At("read") /\ Still /\ (Forward(1) \/ Fail(TRUE))

WriteStep ==
    \/ At("write") /\ Apply(Now.effect)
    \/ At("write") /\ Still /\ Fail(TRUE)

DoStep == At("do") /\ Apply(Now.effect)

\* Mutant: a token is not looked for when there is no cookie.
TokenStepOfCookie ==
    /\ At("token") /\ Still
    /\ IF req.holds = "cookie" THEN Forward(1) ELSE Fail(req.holds = "none")

TokenStep ==
    /\ At("token") /\ Still
    /\ IF req.holds = "none" THEN Fail(TRUE) ELSE Forward(1)

\* Mutant: the id is not looked up.
SessionStepOfAnyone == At("session") /\ Still /\ Forward(1)

SessionStep ==
    /\ At("session") /\ Still
    /\ IF Now.id = sessionId /\ session.in THEN Forward(1) ELSE Fail(~session.in)

\* A session that is gone is refused, or, when it goes between the test and the
\* lookup, is nil in the map, and its feeds are asked for.
LogoutStep ==
    /\ At("logout") /\ up' = up /\ session' = LoggedOut
    /\ \/ session.in /\ req' = [req EXCEPT !.pos = @ + 1, !.log = Add("write")]
       \/ Fail(TRUE)
       \/ ~session.in /\ Crash

\* Mutant: isGroup is not looked at.
InGroupNever == Now.do = "group"

\* A request for the drive of a pod or a group goes where the request says.
InGroup == Now.do = "group" \/ (Now.do = "drive" /\ req.group)
Into(drive) == req' = [req EXCEPT !.pos = @ + 1, !.drive = drive]

PodStep ==
    /\ At("pod") \/ At("drive")
    /\ ~InGroup
    /\ \/ session.pod /\ Still /\ Into("pod")
       \/ ~session.pod /\ Still /\ Fail(TRUE)
       \/ ~session.pod /\ session' = Changed("openPod") /\ up' = up /\ Into("pod")

GroupStep ==
    /\ At("group") \/ At("drive")
    /\ InGroup /\ Still
    /\ IF session.group THEN Into("group") ELSE Fail(TRUE)

OpenedStep == At("opened") /\ Still /\ IF session.pod THEN Forward(1) ELSE Fail(TRUE)

MaybeStep   == At("maybe") /\ Still /\ (Forward(1) \/ Forward(Now.length + 1))
AttemptStep == At("attempt") /\ Still /\ Forward(1)
AgainStep ==
    /\ At("again") /\ Still
    /\ IF req.items = 0 THEN Forward(1)
       ELSE req' = [req EXCEPT !.pos = @ - Now.length, !.items = @ - 1]

AnswerStep ==
    \/ At("ok") /\ Still /\ req' = [req EXCEPT !.pos = @ + 1, !.log = Append(@, "ok")]
    \/ At("refuse") /\ Still /\ Fail(TRUE)
    \/ At("tell") /\ Still /\ Told

StreamStep ==
    /\ At("stream") /\ Still
    /\ \E sent \in {<<"ok">>, <<"ok", "refused">>} :
          req' = [req EXCEPT !.pos = @ + 1, !.log = @ \o sent, !.wrong = Len(sent) > 1]

ConnectedStep == At("connected") /\ Still /\ IF up THEN Forward(1) ELSE Fail(TRUE)

\* A new api knows no user, and a failed one is none.
NewApiStep ==
    /\ At("newApi") /\ session' = LoggedOut
    /\ \/ up' = TRUE /\ Forward(1)
       \/ up' = FALSE /\ Now.onError = "refuse" /\ Fail(TRUE)
       \/ up' = FALSE /\ Now.onError = "tell" /\ Told

PanicStep ==
    \/ At("panic") /\ Crash /\ up' = FALSE /\ session' = LoggedOut
    \/ At("drop") /\ Crash /\ Still

\* LoginMiddleware: a token passes; a cookie passes until its login time has
\* passed. Then the session's pods are closed and it is to be logged out; a cookie
\* without a session passes, for the handlers to refuse it.
GateStep ==
    /\ At("gate") /\ ~req.leaving /\ up' = up
    /\ \/ req.holds = "token" /\ Forward(1) /\ UNCHANGED session
       \/ req.holds = "none" /\ Fail(TRUE) /\ UNCHANGED session
       \/ req.holds = "cookie" /\ session.fresh /\ Forward(1) /\ UNCHANGED session
       \/ /\ req.holds = "cookie" /\ ~session.fresh /\ session.in
          /\ session' = Changed("closeAll") /\ req' = [req EXCEPT !.leaving = TRUE]
       \/ /\ req.holds = "cookie" /\ ~session.fresh /\ ~session.in /\ UNCHANGED session
          /\ req' = [req EXCEPT !.pos = @ + 1, !.expired = TRUE]

\* Mutant: the request goes on when the session was logged out.
GateLogoutGoesOn ==
    /\ At("gate") /\ req.leaving /\ UNCHANGED <<session, up>>
    /\ req' = [req EXCEPT !.pos = @ + 1, !.expired = TRUE, !.leaving = FALSE]

\* Users.LogoutUser for the middleware: the request ends when the session is out, and
\* goes on when that failed (the feeds are not closed, or it was out already). A
\* session that another request takes out between the test and the lookup is nil.
GateLogout ==
    /\ At("gate") /\ req.leaving /\ up' = up /\ session' = LoggedOut
    /\ \/ session.in /\ Fail(TRUE)
       \/ req' = [req EXCEPT !.pos = @ + 1, !.expired = TRUE, !.leaving = FALSE]
       \/ ~session.in /\ Crash

Serve == \/ AskStep \/ ReadStep \/ WriteStep \/ DoStep \/ LogoutStep \/ TokenStep \/ SessionStep
         \/ PodStep \/ GroupStep \/ OpenedStep \/ MaybeStep \/ AttemptStep \/ AgainStep
         \/ AnswerStep \/ StreamStep \/ ConnectedStep \/ NewApiStep \/ PanicStep
         \/ GateStep \/ GateLogout
Done  == Ended /\ req' = NoRequest /\ UNCHANGED <<session, up>>

(* The others. *)
TimePasses == session.fresh /\ session' = [session EXCEPT !.fresh = FALSE] /\ UNCHANGED <<up, req>>
OtherLogsOut == session.in /\ session' = LoggedOut /\ UNCHANGED <<up, req>>
OtherCloses ==
    /\ session.pod \/ session.group
    /\ session' = [session EXCEPT !.pod = FALSE, !.group = FALSE] /\ UNCHANGED <<up, req>>

Next == Begin \/ Serve \/ Done \/ TimePasses \/ OtherLogsOut \/ OtherCloses

\* Handlers run to their end: calls below return, with an error if need be.
Spec == Init /\ [][Next]_vars /\ WF_vars(Serve)

Entries == {"write", "ok", "refused", "panic"}
Logged(entry) == \E i \in DOMAIN req.log : req.log[i] = entry
Answers == {i \in DOMAIN req.log : req.log[i] \in {"ok", "refused"}}

TypeOK ==
    /\ session \in [in : BOOLEAN, pod : BOOLEAN, group : BOOLEAN, fresh : BOOLEAN]
    /\ (session.pod \/ session.group \/ session.fresh) => session.in
    /\ session.in => up
    /\ req.pos \in 1..(IF Idle THEN 1 ELSE Len(Served[req.at]) + 1)
    /\ req.log \in Seq(Entries) /\ req.items \in 0..MaxItems

\* A client waits for one answer, and acts on it: a served request is answered
\* once, neither twice nor never, with nothing done behind the answer
\* (jsonhttp calls, respondWithError, resolve and reject).
OneAnswer == Ended => Cardinality(Answers) = 1 /\ Len(req.log) \in Answers

\* A request that begins without a login changes nothing, whatever it is sent
\* and whoever logs in meanwhile, except where anyone may call
\* (GetLoggedInUserInfo in pkg/dfs).
StrangersDoNothing == (~req.begun /\ ~Idle /\ req.at \notin ForEveryone) => ~Logged("write")

\* A request is refused for a reason: an argument, a login or a pod that is
\* missing, or a call that failed (the arguments handlers hand to pkg/dfs).
GoodRequestsAreServed == (Ended /\ Logged("refused")) => req.wrong

\* What a request is served is what it asked for: it had every argument its endpoint
\* calls missing ("argument missing" in pkg/api), and one for a group is not answered
\* from the pod of that name (isGroup).
ServedAsAsked ==
    /\ (Ended /\ Logged("ok")) => req.lacks = "nothing"
    /\ req.group => req.drive # "pod"

\* A cookie whose login time has passed changes nothing (LoginMiddleware).
ExpiredIsNotServed == req.expired => ~Logged("write")
=============================================================================
