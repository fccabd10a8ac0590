-------------------------- MODULE FrontEndsProofs --------------------------
(***************************************************************************)
(* What the requests of every front end keep to, for any number of rows    *)
(* and files.  The rules of FrontEnds say where the steps of an endpoint   *)
(* stand; first comes what one step does to a request (ServeIs), and then  *)
(* one invariant for each rule.                                            *)
(***************************************************************************)
EXTENDS FrontEnds, SequenceTheorems, FiniteSetTheorems, TLAPS

Steps == AllEndpoints[req.at]
Here == Steps[req.pos]

Requests ==
    [at: Endpoints \cup {<<>>}, pos: Nat \ {0}, lacks: {"nothing"} \cup UNION {Named(e) : e \in Endpoints},
     group: BOOLEAN, holds: {"token", "cookie", "none"}, items: 0..MaxItems, begun: BOOLEAN,
     expired: BOOLEAN, leaving: BOOLEAN, drive: {"none", "pod", "group"}, wrong: BOOLEAN,
     log: Seq(Entries)]

\* A request lacks an argument of its endpoint, and is for a group only if one
\* can be named.
Fits ==
    /\ req.at \in Endpoints /\ req.pos \in 1..Len(Steps) + 1
    /\ req.lacks \in {"nothing"} \cup Named(req.at)
    /\ req.group => {"driveName", "groupName"} \cap Named(req.at) # {}

Typed ==
    /\ session \in [in : BOOLEAN, pod : BOOLEAN, group : BOOLEAN, fresh : BOOLEAN]
    /\ req \in Requests
    /\ IF Idle THEN req = NoRequest ELSE Fits

-----------------------------------------------------------------------------
\* What one step does.

LEMMA EndpointIs ==
    ASSUME NEW e \in Endpoints
    PROVE  /\ WellFormed(AllEndpoints[e]) /\ GateFirst(AllEndpoints[e]) /\ e # <<>>
           /\ e \notin AnyoneMayCall \/ "gate" \in Kinds(e) => LoginFirst(AllEndpoints[e])
           /\ e \notin AnsweredNotOnce => AnswersLast(AllEndpoints[e])
           /\ e \notin NeverServed => RefusesWithReason(AllEndpoints[e])
           /\ e \notin ServesOther => AsksForAll(e)
  BY FrontEndsAssumption

\* A request at one of its steps.
Serving == ~Idle /\ ~Ended

LEMMA ServingIs ==
    ASSUME Typed, Serving
    PROVE  /\ Fits /\ req.at \in Endpoints /\ req.pos \in Positions(Steps) /\ Len(Steps) \in Nat
           /\ WellFormed(Steps) /\ req.log \in Seq(Entries)
<1>1. Fits /\ req.at \in Endpoints /\ WellFormed(Steps)
  BY EndpointIs DEF Serving, Typed, Fits, Steps
<1>2. req.pos <= Len(Steps)
  BY <1>1 DEF Serving, Ended, Fits, Steps, WellFormed
<1> QED
  BY <1>1, <1>2 DEF Fits, Typed, Requests, WellFormed, Positions

\* Goes on at step n.
GoesOn(n) == req'.pos = n /\ req'.log = req.log /\ req'.wrong = req.wrong
Logs(entry) == req'.log = Append(req.log, entry)
Same == req'.at = req.at /\ req'.lacks = req.lacks /\ req'.group = req.group /\ req'.begun = req.begun
SameWay == req'.expired = req.expired /\ req'.drive = req.drive
NoLogin == session'.in => session.in

\* A step that is passed, that is jumped from or that fails,
Passes ==
    /\ GoesOn(req.pos + 1) /\ NoLogin
    /\ Here.do \notin {"write", "do", "logout", "ok", "refuse", "stream", "tell", "panic", "drop"}
    /\ Here.do = "session" => session.in
    /\ Here.do = "ask" => Here.tests # req.lacks
    /\ req'.expired = req.expired \/ (Here.do = "gate" /\ ~session'.in)
    /\ req'.drive = "pod" => req.drive = "pod" \/ Here.do = "pod" \/ ~req.group
Jumps ==
    /\ NoLogin /\ SameWay
    /\ \/ Here.do = "maybe" /\ GoesOn(req.pos + Here.length + 1)
       \/ Here.do = "again" /\ GoesOn(req.pos - Here.length)
FallsOut ==
    /\ NoLogin /\ SameWay
    /\ \E i \in 1..req.pos - 1 :
          Is(Steps, i, {"attempt"}) /\ Holds(Steps, i, req.pos) /\ GoesOn(i + Steps[i].length + 1)
IsRefused ==
    /\ NoLogin /\ SameWay
    /\ req'.pos = Len(Steps) + 1 /\ Logs("refused")
    /\ req'.wrong \/ (Here.do = "session" /\ Here.id # sessionId)
\* one that has an effect or may have one,
Changes ==
    /\ Here.do \in {"write", "do", "logout"} /\ SameWay
    /\ req'.pos = req.pos + 1 /\ req'.wrong = req.wrong
    /\ req'.log = req.log \/ Logs("write")
\* and one that answers, or breaks off.
Says ==
    /\ NoLogin /\ SameWay /\ req'.pos = req.pos + 1
    /\ \/ Here.do = "ok" /\ Logs("ok") /\ req'.wrong = req.wrong
       \/ GoesOnTelling(Here) /\ Logs("refused") /\ req'.wrong
       \/ Here.do = "stream" /\ Logs("ok")
       \/ Here.do = "stream" /\ req'.log = Append(Append(req.log, "ok"), "refused") /\ req'.wrong
Breaks ==
    /\ NoLogin /\ SameWay
    /\ Here.do \in {"panic", "drop", "logout"} \/ (Here.do = "gate" /\ req'.leaving)
    /\ req'.pos = Len(Steps) + 1 /\ Logs("panic") /\ req'.wrong = req.wrong
\* At the middleware, before a session is logged out.
Waits ==
    /\ NoLogin /\ SameWay /\ GoesOn(req.pos) /\ Here.do = "gate"

Outcome ==
    /\ Same /\ req' \in Requests /\ req'.pos \in 1..Len(Steps) + 1
    /\ session' \in [in : BOOLEAN, pod : BOOLEAN, group : BOOLEAN, fresh : BOOLEAN]
    /\ \/ Passes \/ Jumps \/ FallsOut \/ IsRefused \/ Changes \/ Says \/ Breaks \/ Waits

\* What the operators of Gateway that end a step make of a request.
Moved(n) ==
    /\ Same /\ SameWay /\ GoesOn(n) /\ req' \in Requests /\ req'.pos \in 1..Len(Steps) + 1

LEMMA ForwardIs ==
    ASSUME Typed, Serving, NEW n \in Int, req.pos + n \in 1..Len(Steps) + 1, Forward(n)
    PROVE  Moved(req.pos + n)
<1>1. req \in Requests /\ req.pos \in Nat /\ req.pos + n \in Nat \ {0}
  BY ServingIs DEF Typed, Positions
<1> QED
  BY <1>1 DEF Forward, Moved, Same, SameWay, GoesOn, Requests

FailIs(w) ==
    /\ Same /\ SameWay /\ req' \in Requests /\ req'.pos \in 1..Len(Steps) + 1
    /\ \/ \E i \in 1..req.pos - 1 :
             Is(Steps, i, {"attempt"}) /\ Holds(Steps, i, req.pos) /\ GoesOn(i + Steps[i].length + 1)
       \/ req'.pos = Len(Steps) + 1 /\ Logs("refused") /\ req'.wrong = (req.wrong \/ w)

LEMMA Failed ==
    ASSUME Typed, Serving, NEW w \in BOOLEAN, Fail(w)
    PROVE  FailIs(w)
<1>1. /\ req \in Requests /\ req.pos \in Positions(Steps) /\ Len(Steps) \in Nat /\ WellFormed(Steps)
      /\ req.log \in Seq(Entries)
  BY ServingIs DEF Typed
<1>2. CASE Attempts # {}
  <2>1. PICK i \in Attempts : req' = [req EXCEPT !.pos = i + Steps[i].length + 1]
    BY <1>2 DEF Fail, Steps
  <2>2. i \in 1..req.pos - 1 /\ Is(Steps, i, {"attempt"}) /\ req.pos <= i + Steps[i].length
    BY <2>1 DEF Attempts, Steps, Is
  <2>3. i \in Positions(Steps) /\ Steps[i].length \in 0..Len(Steps) - i
    BY <1>1, <2>2 DEF WellFormed, Positions, Is
  <2>4. Holds(Steps, i, req.pos)
    BY <1>1, <2>2, <2>3 DEF Holds, Is, Positions
  <2>5. i + Steps[i].length + 1 \in Nat \ {0} /\ i + Steps[i].length + 1 \in 1..Len(Steps) + 1
    BY <1>1, <2>3 DEF Positions
  <2>6. Same /\ SameWay /\ req' \in Requests /\ GoesOn(i + Steps[i].length + 1)
    BY <1>1, <2>1, <2>5 DEF Same, SameWay, GoesOn, Requests
  <2> QED
    BY <2>2, <2>4, <2>5, <2>6 DEF FailIs, GoesOn
<1>3. CASE Attempts = {}
  <2>1. req' = [req EXCEPT !.pos = Len(Steps) + 1, !.wrong = @ \/ w, !.log = Append(@, "refused")]
    BY <1>3 DEF Fail, Steps
  <2>2. Append(req.log, "refused") \in Seq(Entries) /\ Len(Steps) + 1 \in Nat \ {0}
    BY <1>1, AppendProperties DEF Entries
  <2>3. (req.wrong \/ w) \in BOOLEAN
    OBVIOUS
  <2>4. /\ req'.pos = Len(Steps) + 1 /\ req'.wrong = (req.wrong \/ w) /\ Logs("refused")
        /\ Same /\ SameWay /\ req' \in Requests
    BY <1>1, <2>1, <2>2, <2>3 DEF Same, SameWay, Logs, Requests
  <2> QED
    BY <1>1, <2>4 DEF FailIs
<1> QED
  BY <1>2, <1>3

LEMMA FailedOutcome ==
    ASSUME Typed, Serving, NEW w \in BOOLEAN, Fail(w), NoLogin,
           session' \in [in : BOOLEAN, pod : BOOLEAN, group : BOOLEAN, fresh : BOOLEAN],
           w \/ (Here.do = "session" /\ Here.id # sessionId)
    PROVE  Outcome
<1>1. FailIs(w)
  BY Failed
<1> QED
  BY <1>1 DEF FailIs, Outcome, FallsOut, IsRefused

\* A step that is passed and changes nothing but the sessions.
LEMMA PassedOutcome ==
    ASSUME Typed, Serving, Forward(1), NoLogin,
           session' \in [in : BOOLEAN, pod : BOOLEAN, group : BOOLEAN, fresh : BOOLEAN],
           Here.do \notin {"write", "do", "logout", "ok", "refuse", "stream", "tell", "panic", "drop"},
           Here.do = "session" => session.in, Here.do = "ask" => Here.tests # req.lacks
    PROVE  Outcome
<1>1. req.pos + 1 \in 1..Len(Steps) + 1
  BY ServingIs DEF Positions
<1>2. Moved(req.pos + 1)
  BY <1>1, ForwardIs
<1> QED
  BY <1>2 DEF Moved, Outcome, Passes, SameWay

\* An entry more in the log.
LEMMA LoggedIs ==
    ASSUME Typed, Serving, NEW log \in Seq(Entries), NEW n \in 1..Len(Steps) + 1, NEW w \in BOOLEAN,
           req' = [req EXCEPT !.pos = n, !.log = log, !.wrong = w]
    PROVE  /\ Same /\ SameWay /\ req' \in Requests /\ req'.pos \in 1..Len(Steps) + 1
           /\ req'.pos = n /\ req'.log = log /\ req'.wrong = w
<1>1. req \in Requests /\ n \in Nat \ {0}
  BY ServingIs DEF Typed
<1> QED
  BY <1>1 DEF Same, SameWay, Requests

LEMMA AtIs ==
    ASSUME NEW kind, At(kind)
    PROVE  Serving /\ Here.do = kind /\ Now = Here
  BY DEF At, Serving, Now, Here, Steps

Sessions == [in : BOOLEAN, pod : BOOLEAN, group : BOOLEAN, fresh : BOOLEAN]

LEMMA StillIs ==
    ASSUME Typed, Still
    PROVE  session' = session /\ session' \in Sessions /\ NoLogin
  BY DEF Typed, Still, NoLogin, Sessions

LEMMA ChangedIs ==
    ASSUME Typed, NEW effect
    PROVE  Changed(effect) \in Sessions
<1>1. session \in Sessions
  BY DEF Typed, Sessions
<1>2. CASE effect = "login"
  BY <1>2 DEF Changed, Sessions
<1>3. CASE effect = "openPod"
  BY <1>1, <1>3 DEF Changed, Sessions
<1>4. CASE effect = "openGroup"
  BY <1>1, <1>4 DEF Changed, Sessions
<1>5. CASE effect \in {"closePod", "closeAll"}
  BY <1>1, <1>5 DEF Changed, Sessions
<1>6. CASE effect = "closeGroup"
  BY <1>1, <1>6 DEF Changed, Sessions
<1>7. CASE effect \notin {"login", "openPod", "openGroup", "closePod", "closeAll", "closeGroup"}
  BY <1>1, <1>7 DEF Changed
<1> QED
  BY <1>2, <1>3, <1>4, <1>5, <1>6, <1>7

LEMMA OpensPod == Typed => Changed("openPod").in = session.in
  BY DEF Typed, Changed

LEMMA AddIs ==
    ASSUME Typed
    PROVE  Add("write") \in Seq(Entries) /\ Add("write") \in {req.log, Append(req.log, "write")}
<1>1. req.log \in Seq(Entries)
  BY DEF Typed, Requests
<1>2. Append(req.log, "write") \in Seq(Entries)
  BY <1>1, AppendProperties DEF Entries
<1> QED
  BY <1>1, <1>2 DEF Add

LEMMA ApplyIs ==
    ASSUME Typed, Serving, Here.do \in {"write", "do"}, NEW effect, Apply(effect)
    PROVE  Outcome
<1> DEFINE log == Add("write")
<1>1. /\ log \in Seq(Entries) /\ log \in {req.log, Append(req.log, "write")}
      /\ req.pos + 1 \in 1..Len(Steps) + 1 /\ req \in Requests
  BY AddIs, ServingIs DEF Positions, Typed
<1>2. req' = [req EXCEPT !.pos = req.pos + 1, !.log = log, !.wrong = req.wrong]
  BY <1>1 DEF Apply, Requests
<1>3. req.wrong \in BOOLEAN
  BY <1>1 DEF Requests
<1> HIDE DEF log
<1>4. /\ Same /\ SameWay /\ req' \in Requests /\ req'.pos = req.pos + 1 /\ req'.log = log
      /\ req'.wrong = req.wrong
  BY <1>1, <1>2, <1>3, LoggedIs
<1>5. session' \in Sessions
  BY ChangedIs DEF Apply
<1> QED
  BY <1>1, <1>4, <1>5 DEF Outcome, Changes, Logs, Sessions

LEMMA AskIs == Typed /\ AskStep => Outcome
<1> SUFFICES ASSUME Typed, AskStep PROVE Outcome
  OBVIOUS
<1>1. Serving /\ Here.do = "ask" /\ session' \in Sessions /\ NoLogin
  BY AtIs, StillIs DEF AskStep
<1>2. CASE Now.tests = req.lacks
  BY <1>1, <1>2, FailedOutcome DEF AskStep, Sessions
<1>3. CASE Now.tests # req.lacks
  BY <1>1, <1>3, AtIs, PassedOutcome DEF AskStep, Sessions
<1> QED
  BY <1>2, <1>3

\* The steps that are passed or fail, without more.
LEMMA PassOrFail ==
    ASSUME Typed, Serving, Still, Forward(1) \/ Fail(TRUE),
           Here.do \in {"read", "token", "opened", "connected", "attempt"}
    PROVE  Outcome
<1>1. session' \in Sessions /\ NoLogin
  BY StillIs
<1>2. CASE Forward(1)
  BY <1>1, <1>2, PassedOutcome DEF Sessions
<1>3. CASE Fail(TRUE)
  BY <1>1, <1>3, FailedOutcome DEF Sessions
<1> QED
  BY <1>2, <1>3

LEMMA SimpleIs ==
    ASSUME Typed, ReadStep \/ TokenStep \/ OpenedStep \/ ConnectedStep \/ AttemptStep
    PROVE  Outcome
<1>1. Serving /\ Here.do \in {"read", "token", "opened", "connected", "attempt"}
  BY AtIs DEF ReadStep, TokenStep, OpenedStep, ConnectedStep, AttemptStep
<1>2. Still /\ (Forward(1) \/ Fail(TRUE))
  BY DEF ReadStep, TokenStep, OpenedStep, ConnectedStep, AttemptStep
<1> QED
  BY <1>1, <1>2, PassOrFail

LEMMA EffectIs == Typed /\ (WriteStep \/ DoStep) => Outcome
<1> SUFFICES ASSUME Typed, WriteStep \/ DoStep PROVE Outcome
  OBVIOUS
<1>1. CASE At("write") /\ Apply(Now.effect)
  BY <1>1, AtIs, ApplyIs
<1>2. CASE At("do") /\ Apply(Now.effect)
  BY <1>2, AtIs, ApplyIs
<1>3. CASE At("write") /\ Still /\ Fail(TRUE)
  BY <1>3, AtIs, StillIs, FailedOutcome DEF Sessions
<1> QED
  BY <1>1, <1>2, <1>3 DEF WriteStep, DoStep

LEMMA SessionIs == Typed /\ SessionStep => Outcome
<1> SUFFICES ASSUME Typed, SessionStep PROVE Outcome
  OBVIOUS
<1>1. /\ Serving /\ Here.do = "session" /\ Now = Here /\ session' \in Sessions /\ NoLogin
      /\ session.in \in BOOLEAN
  BY AtIs, StillIs DEF SessionStep, Typed
<1>2. CASE Now.id = sessionId /\ session.in
  BY <1>1, <1>2, PassedOutcome DEF SessionStep, Sessions
<1>3. CASE ~(Now.id = sessionId /\ session.in)
  <2>1. Fail(~session.in) /\ (~session.in) \in BOOLEAN
    BY <1>1, <1>3 DEF SessionStep
  <2> QED
    BY <1>1, <1>3, <2>1, FailedOutcome DEF Sessions
<1> QED
  BY <1>2, <1>3

LEMMA CrashIs ==
    ASSUME Typed, Serving, Crash, NoLogin, session' \in Sessions,
           Here.do \in {"panic", "drop", "logout"} \/ (Here.do = "gate" /\ req.leaving)
    PROVE  Outcome
<1>1. /\ Append(req.log, "panic") \in Seq(Entries) /\ req \in Requests
      /\ Len(Steps) + 1 \in 1..Len(Steps) + 1
  BY ServingIs, AppendProperties DEF Entries, Typed, WellFormed
<1>2. /\ req' = [req EXCEPT !.pos = Len(Steps) + 1, !.log = Append(req.log, "panic"), !.wrong = req.wrong]
      /\ req.wrong \in BOOLEAN
  BY <1>1 DEF Crash, Requests, Steps
<1>3. /\ Same /\ SameWay /\ req' \in Requests /\ req'.pos = Len(Steps) + 1
      /\ req'.log = Append(req.log, "panic") /\ req'.wrong = req.wrong
  BY <1>1, <1>2, LoggedIs
<1>4. req'.leaving = req.leaving
  BY <1>1, <1>2 DEF Requests
<1> QED
  BY <1>1, <1>3, <1>4 DEF Outcome, Breaks, Logs, Sessions

LEMMA LoggedOutIs == session' = LoggedOut => session' \in Sessions /\ NoLogin /\ ~session'.in
  BY DEF LoggedOut, Sessions, NoLogin

LEMMA LogoutIs == Typed /\ LogoutStep => Outcome
<1> SUFFICES ASSUME Typed, LogoutStep PROVE Outcome
  OBVIOUS
<1>1. Serving /\ Here.do = "logout" /\ session' \in Sessions /\ NoLogin
  BY AtIs, LoggedOutIs DEF LogoutStep
<1>2. CASE req' = [req EXCEPT !.pos = @ + 1, !.log = Add("write")]
  <2> DEFINE log == Add("write")
  <2>1. /\ log \in Seq(Entries) /\ log \in {req.log, Append(req.log, "write")}
        /\ req.pos + 1 \in 1..Len(Steps) + 1 /\ req \in Requests
    BY <1>1, AddIs, ServingIs DEF Positions, Typed
  <2>2. req' = [req EXCEPT !.pos = req.pos + 1, !.log = log, !.wrong = req.wrong]
    BY <2>1, <1>2 DEF Requests
  <2>3. req.wrong \in BOOLEAN
    BY <2>1 DEF Requests
  <2> HIDE DEF log
  <2>4. /\ Same /\ SameWay /\ req' \in Requests /\ req'.pos = req.pos + 1 /\ req'.log = log
        /\ req'.wrong = req.wrong
    BY <1>1, <2>1, <2>2, <2>3, LoggedIs
  <2> QED
    BY <1>1, <2>1, <2>4 DEF Outcome, Changes, Logs, Sessions
<1>3. CASE Fail(TRUE)
  BY <1>1, <1>3, FailedOutcome DEF Sessions
<1>4. CASE Crash
  BY <1>1, <1>4, CrashIs
<1> QED
  BY <1>2, <1>3, <1>4 DEF LogoutStep

\* Into a pod or a group.
LEMMA IntoIs ==
    ASSUME Typed, Serving, NEW drive \in {"pod", "group"}, Into(drive), NoLogin, session' \in Sessions,
           Here.do \in {"pod", "group", "drive"},
           drive = "pod" => Here.do = "pod" \/ ~req.group
    PROVE  Outcome
<1>1. req \in Requests /\ req.pos + 1 \in Nat \ {0} /\ req.pos + 1 \in 1..Len(Steps) + 1
  BY ServingIs DEF Positions, Typed
<1>2. /\ Same /\ GoesOn(req.pos + 1) /\ req' \in Requests /\ req'.drive = drive
      /\ req'.expired = req.expired
  BY <1>1 DEF Into, Same, GoesOn, Requests
<1>3. Passes
  BY <1>2 DEF Passes
<1>4. req'.pos \in 1..Len(Steps) + 1
  BY <1>1, <1>2 DEF GoesOn
<1> QED
  BY <1>2, <1>3, <1>4 DEF Outcome, Sessions

LEMMA PodIs == Typed /\ PodStep => Outcome
<1> SUFFICES ASSUME Typed, PodStep PROVE Outcome
  OBVIOUS
<1>1. /\ Serving /\ Here.do \in {"pod", "drive"} /\ Now = Here
      /\ Here.do = "pod" \/ ~req.group
  BY AtIs DEF PodStep, InGroup
<1>2. CASE Still /\ Into("pod")
  BY <1>1, <1>2, StillIs, IntoIs
<1>3. CASE Still /\ Fail(TRUE)
  BY <1>1, <1>3, StillIs, FailedOutcome DEF Sessions
<1>4. CASE session' = Changed("openPod") /\ Into("pod")
  <2>1. session' \in Sessions /\ NoLogin
    BY <1>4, ChangedIs, OpensPod DEF NoLogin
  <2> QED
    BY <1>1, <1>4, <2>1, IntoIs
<1> QED
  BY <1>2, <1>3, <1>4 DEF PodStep

LEMMA GroupIs == Typed /\ GroupStep => Outcome
<1> SUFFICES ASSUME Typed, GroupStep PROVE Outcome
  OBVIOUS
<1>1. Serving /\ Here.do \in {"group", "drive"} /\ session' \in Sessions /\ NoLogin
  BY AtIs, StillIs DEF GroupStep
<1>2. CASE Into("group")
  BY <1>1, <1>2, IntoIs
<1>3. CASE Fail(TRUE)
  BY <1>1, <1>3, FailedOutcome DEF Sessions
<1> QED
  BY <1>2, <1>3 DEF GroupStep

LEMMA MaybeIs == Typed /\ MaybeStep => Outcome
<1> SUFFICES ASSUME Typed, MaybeStep PROVE Outcome
  OBVIOUS
<1>1. Serving /\ Here.do = "maybe" /\ Now = Here /\ session' \in Sessions /\ NoLogin
  BY AtIs, StillIs DEF MaybeStep
<1>2. CASE Forward(1)
  BY <1>1, <1>2, PassedOutcome DEF Sessions
<1>3. CASE Forward(Now.length + 1)
  <2>1. /\ req.pos \in Positions(Steps) /\ Len(Steps) \in Nat
        /\ Here.length \in 0..Len(Steps) - req.pos
    BY <1>1, ServingIs DEF WellFormed, Is, Here
  <2> DEFINE n == Here.length + 1
  <2>2. n \in Int /\ req.pos + n \in 1..Len(Steps) + 1 /\ req.pos + n = req.pos + Here.length + 1
    BY <2>1 DEF Positions
  <2>3. Forward(n)
    BY <1>1, <1>3
  <2> HIDE DEF n
  <2>4. Moved(req.pos + n)
    BY <1>1, <2>2, <2>3, ForwardIs
  <2> QED
    BY <1>1, <2>2, <2>4 DEF Moved, Outcome, Jumps, Sessions
<1> QED
  BY <1>2, <1>3 DEF MaybeStep

LEMMA AgainIs == Typed /\ AgainStep => Outcome
<1> SUFFICES ASSUME Typed, AgainStep PROVE Outcome
  OBVIOUS
<1>1. Serving /\ Here.do = "again" /\ Now = Here /\ session' \in Sessions /\ NoLogin
  BY AtIs, StillIs DEF AgainStep
<1>2. CASE req.items = 0
  BY <1>1, <1>2, PassedOutcome DEF Sessions, AgainStep
<1>3. CASE req.items # 0
  <2>1. /\ req.pos \in Positions(Steps) /\ Len(Steps) \in Nat /\ Here.length \in 1..req.pos - 1
        /\ req \in Requests
    BY <1>1, ServingIs DEF WellFormed, Is, Here, Typed
  <2>2. req' = [req EXCEPT !.pos = req.pos - Here.length, !.items = req.items - 1]
    BY <1>1, <1>3, <2>1 DEF AgainStep, Requests
  <2>3. /\ req.pos - Here.length \in Nat \ {0} /\ req.pos - Here.length \in 1..Len(Steps) + 1
        /\ req.items - 1 \in 0..MaxItems
    BY <1>3, <2>1, FrontEndsAssumption DEF Positions, Requests
  <2>4. Same /\ SameWay /\ GoesOn(req.pos - Here.length) /\ req' \in Requests
    BY <2>1, <2>2, <2>3 DEF Same, SameWay, GoesOn, Requests
  <2> QED
    BY <1>1, <2>3, <2>4 DEF Outcome, Jumps, GoesOn, Sessions
<1> QED
  BY <1>2, <1>3

\* An answer that is not the end of the request yet.
LEMMA ToldIs ==
    ASSUME Typed, Serving, Told, NoLogin, session' \in Sessions, GoesOnTelling(Here)
    PROVE  Outcome
<1>1. /\ Append(req.log, "refused") \in Seq(Entries) /\ req.pos + 1 \in 1..Len(Steps) + 1
      /\ req \in Requests
  BY ServingIs, AppendProperties DEF Entries, Positions, Typed
<1>2. req' = [req EXCEPT !.pos = req.pos + 1, !.log = Append(req.log, "refused"), !.wrong = TRUE]
  BY <1>1 DEF Told, Requests
<1>3. /\ Same /\ SameWay /\ req' \in Requests /\ req'.pos = req.pos + 1
      /\ req'.log = Append(req.log, "refused") /\ req'.wrong = TRUE
  BY <1>1, <1>2, LoggedIs
<1> QED
  BY <1>1, <1>3 DEF Outcome, Says, Logs, Sessions

LEMMA AnswerIs == Typed /\ AnswerStep => Outcome
<1> SUFFICES ASSUME Typed, AnswerStep PROVE Outcome
  OBVIOUS
<1>1. Serving /\ session' \in Sessions /\ NoLogin
  BY AtIs, StillIs DEF AnswerStep
<1>2. CASE At("ok") /\ req' = [req EXCEPT !.pos = @ + 1, !.log = Append(@, "ok")]
  <2>1. /\ Append(req.log, "ok") \in Seq(Entries) /\ req.pos + 1 \in 1..Len(Steps) + 1
        /\ req \in Requests /\ Here.do = "ok"
    BY <1>1, <1>2, AtIs, ServingIs, AppendProperties DEF Entries, Positions, Typed
  <2>2. /\ req' = [req EXCEPT !.pos = req.pos + 1, !.log = Append(req.log, "ok"), !.wrong = req.wrong]
        /\ req.wrong \in BOOLEAN
    BY <1>2, <2>1 DEF Requests
  <2>3. /\ Same /\ SameWay /\ req' \in Requests /\ req'.pos = req.pos + 1
        /\ req'.log = Append(req.log, "ok") /\ req'.wrong = req.wrong
    BY <1>1, <2>1, <2>2, LoggedIs
  <2> QED
    BY <1>1, <2>1, <2>3 DEF Outcome, Says, Logs, Sessions
<1>3. CASE Fail(TRUE)
  BY <1>1, <1>3, FailedOutcome DEF Sessions
<1>4. CASE At("tell") /\ Told
  BY <1>1, <1>4, AtIs, ToldIs DEF GoesOnTelling
<1> QED
  BY <1>2, <1>3, <1>4 DEF AnswerStep

LEMMA AppendTwo ==
    ASSUME NEW S, NEW s \in Seq(S), NEW a \in S, NEW b \in S
    PROVE  s \o <<a>> = Append(s, a) /\ s \o <<a, b>> = Append(Append(s, a), b)
  OBVIOUS

LEMMA StreamIs == Typed /\ StreamStep => Outcome
<1> SUFFICES ASSUME Typed, StreamStep PROVE Outcome
  OBVIOUS
<1>1. /\ Serving /\ session' \in Sessions /\ NoLogin /\ Here.do = "stream"
      /\ req.log \in Seq(Entries) /\ req.pos + 1 \in 1..Len(Steps) + 1 /\ req \in Requests
  BY AtIs, StillIs, ServingIs DEF StreamStep, Positions, Typed
<1>2. PICK sent \in {<<"ok">>, <<"ok", "refused">>} :
          req' = [req EXCEPT !.pos = @ + 1, !.log = @ \o sent, !.wrong = Len(sent) > 1]
  BY DEF StreamStep
<1>3. CASE sent = <<"ok">>
  <2>1. /\ req.log \o sent = Append(req.log, "ok") /\ Append(req.log, "ok") \in Seq(Entries)
        /\ (Len(sent) > 1) = FALSE
    BY <1>1, <1>3, AppendTwo, AppendProperties DEF Entries
  <2>2. req' = [req EXCEPT !.pos = req.pos + 1, !.log = Append(req.log, "ok"), !.wrong = FALSE]
    BY <1>1, <1>2, <2>1 DEF Requests
  <2>3. /\ Same /\ SameWay /\ req' \in Requests /\ req'.pos = req.pos + 1
        /\ req'.log = Append(req.log, "ok")
    BY <1>1, <2>1, <2>2, LoggedIs
  <2> QED
    BY <1>1, <2>3 DEF Outcome, Says, Logs, Sessions
<1>4. CASE sent = <<"ok", "refused">>
  <2> DEFINE log == Append(Append(req.log, "ok"), "refused")
  <2>1. /\ req.log \o sent = log /\ log \in Seq(Entries) /\ (Len(sent) > 1) = TRUE
    BY <1>1, <1>4, AppendTwo, AppendProperties DEF Entries
  <2>2. req' = [req EXCEPT !.pos = req.pos + 1, !.log = log, !.wrong = TRUE]
    BY <1>1, <1>2, <2>1 DEF Requests
  <2> HIDE DEF log
  <2>3. /\ Same /\ SameWay /\ req' \in Requests /\ req'.pos = req.pos + 1
        /\ req'.log = log /\ req'.wrong = TRUE
    BY <1>1, <2>1, <2>2, LoggedIs
  <2> QED
    BY <1>1, <2>3 DEF Outcome, Says, Sessions, log
<1> QED
  BY <1>2, <1>3, <1>4

LEMMA NewApiIs == Typed /\ NewApiStep => Outcome
<1> SUFFICES ASSUME Typed, NewApiStep PROVE Outcome
  OBVIOUS
<1>1. Serving /\ Here.do = "newApi" /\ Now = Here /\ session' \in Sessions /\ NoLogin
  BY AtIs, LoggedOutIs DEF NewApiStep
<1>2. CASE Forward(1)
  BY <1>1, <1>2, PassedOutcome DEF Sessions
<1>3. CASE Fail(TRUE)
  BY <1>1, <1>3, FailedOutcome DEF Sessions
<1>4. CASE Now.onError = "tell" /\ Told
  BY <1>1, <1>4, ToldIs DEF GoesOnTelling
<1> QED
  BY <1>2, <1>3, <1>4 DEF NewApiStep

LEMMA PanicIs == Typed /\ PanicStep => Outcome
<1> SUFFICES ASSUME Typed, PanicStep PROVE Outcome
  OBVIOUS
<1>1. Serving /\ Here.do \in {"panic", "drop"} /\ Crash /\ session' \in Sessions /\ NoLogin
  BY AtIs, StillIs, LoggedOutIs DEF PanicStep
<1> QED
  BY <1>1, CrashIs

LEMMA GateIs == Typed /\ GateStep => Outcome
<1> SUFFICES ASSUME Typed, GateStep PROVE Outcome
  OBVIOUS
<1>1. Serving /\ Here.do = "gate"
  BY AtIs DEF GateStep
<1>2. UNCHANGED session => session' \in Sessions /\ NoLogin
  BY DEF Typed, Sessions, NoLogin
<1>3. CASE Forward(1) /\ UNCHANGED session
  BY <1>1, <1>2, <1>3, PassedOutcome DEF Sessions
<1>4. CASE Fail(TRUE) /\ UNCHANGED session
  BY <1>1, <1>2, <1>4, FailedOutcome DEF Sessions
<1>5. CASE session' = Changed("closeAll") /\ req' = [req EXCEPT !.leaving = TRUE]
  <2>0. Changed("closeAll") = [session EXCEPT !.pod = FALSE]
    BY DEF Changed
  <2>3. req \in Requests /\ req.pos \in 1..Len(Steps) + 1 /\ session \in Sessions
    BY <1>1, ServingIs DEF Positions, Typed, Sessions
  <2>4. session' \in Sessions /\ session'.in = session.in
    BY <1>5, <2>0, <2>3 DEF Sessions
  <2>1. /\ req \in Requests /\ req.pos \in 1..Len(Steps) + 1
        /\ session' \in Sessions /\ session'.in = session.in
    BY <2>3, <2>4
  <2>2. Same /\ SameWay /\ GoesOn(req.pos) /\ req' \in Requests /\ req'.pos = req.pos
    BY <1>5, <2>1 DEF Same, SameWay, GoesOn, Requests
  <2> QED
    BY <1>1, <2>1, <2>2 DEF Outcome, Waits, NoLogin, Sessions
<1>6. CASE UNCHANGED session /\ ~session.in /\ req' = [req EXCEPT !.pos = @ + 1, !.expired = TRUE]
  <2>1. req \in Requests /\ req.pos + 1 \in Nat \ {0} /\ req.pos + 1 \in 1..Len(Steps) + 1
    BY <1>1, ServingIs DEF Positions, Typed
  <2>2. /\ Same /\ GoesOn(req.pos + 1) /\ req' \in Requests /\ req'.drive = req.drive
    BY <1>6, <2>1 DEF Same, GoesOn, Requests
  <2>3. req'.pos \in 1..Len(Steps) + 1 /\ session' \in Sessions /\ ~session'.in
    BY <1>2, <1>6, <2>1, <2>2 DEF GoesOn
  <2>4. Passes
    BY <1>1, <2>2, <2>3 DEF Passes, NoLogin
  <2> QED
    BY <2>2, <2>3, <2>4 DEF Outcome, Sessions
<1> QED
  BY <1>3, <1>4, <1>5, <1>6 DEF GateStep

LEMMA GateLogoutIs == Typed /\ GateLogout => Outcome
<1> SUFFICES ASSUME Typed, GateLogout PROVE Outcome
  OBVIOUS
<1>1. /\ Serving /\ Here.do = "gate" /\ req.leaving
      /\ session' \in Sessions /\ NoLogin /\ ~session'.in
  BY AtIs, LoggedOutIs DEF GateLogout
<1>2. CASE Fail(TRUE)
  BY <1>1, <1>2, FailedOutcome DEF Sessions
<1>3. CASE req' = [req EXCEPT !.pos = @ + 1, !.expired = TRUE, !.leaving = FALSE]
  <2>1. req \in Requests /\ req.pos + 1 \in Nat \ {0} /\ req.pos + 1 \in 1..Len(Steps) + 1
    BY <1>1, ServingIs DEF Positions, Typed
  <2>2. /\ Same /\ GoesOn(req.pos + 1) /\ req' \in Requests /\ req'.drive = req.drive
    BY <1>3, <2>1 DEF Same, GoesOn, Requests
  <2>3. Passes /\ req'.pos \in 1..Len(Steps) + 1
    BY <1>1, <2>1, <2>2 DEF Passes, GoesOn
  <2> QED
    BY <1>1, <2>2, <2>3 DEF Outcome, Sessions
<1>4. CASE Crash
  BY <1>1, <1>4, CrashIs
<1> QED
  BY <1>2, <1>3, <1>4 DEF GateLogout

LEMMA ServeIs == Typed /\ Serve => Serving /\ Outcome
<1> SUFFICES ASSUME Typed, Serve PROVE Serving /\ Outcome
  OBVIOUS
<1>1. Outcome
  BY AskIs, SimpleIs, EffectIs, SessionIs, LogoutIs, PodIs, GroupIs, MaybeIs, AgainIs, AnswerIs,
     StreamIs, NewApiIs, PanicIs, GateIs, GateLogoutIs DEF Serve
<1>2. Serving
  BY AtIs DEF Serve, AskStep, ReadStep, WriteStep, DoStep, LogoutStep, TokenStep, SessionStep,
     PodStep, GroupStep, OpenedStep, MaybeStep, AttemptStep, AgainStep, AnswerStep, StreamStep,
     ConnectedStep, NewApiStep, PanicStep, GateStep, GateLogout
<1> QED
  BY <1>1, <1>2

\* A request begins.
Starts ==
    /\ session' = session /\ req' \in Requests
    /\ req'.at \in Endpoints /\ req'.pos = 1 /\ req'.lacks \in {"nothing"} \cup Named(req'.at)
    /\ req'.group => {"driveName", "groupName"} \cap Named(req'.at) # {}
    /\ req'.begun = session.in /\ ~req'.expired /\ req'.drive = "none" /\ ~req'.wrong
    /\ req'.log = <<>>

LEMMA NoRequestIs == NoRequest \in Requests /\ NoRequest.at = <<>>
  BY FrontEndsAssumption, EmptySeq DEF NoRequest, Requests

LEMMA BeginIs == Typed /\ Begin => Starts
<1> SUFFICES ASSUME Typed, Begin PROVE Starts
  OBVIOUS
<1>1. PICK e \in Endpoints :
        \E lacks \in {"nothing"} \cup Named(e),
              group \in {g \in BOOLEAN : "driveName" \notin Named(e) => (g <=> "groupName" \in Named(e))},
              holds \in IF {"gate", "token"} \cap Kinds(e) = {} THEN {"token"}
                        ELSE {"token", "cookie", "none"},
              items \in IF "again" \in Kinds(e) THEN 0..MaxItems ELSE {0} :
            req' = [NoRequest EXCEPT !.at = e, !.lacks = lacks, !.group = group,
                                     !.holds = holds, !.items = items, !.begun = session.in]
  BY DEF Begin
<1>2. PICK lacks \in {"nothing"} \cup Named(e),
           group \in {g \in BOOLEAN : "driveName" \notin Named(e) => (g <=> "groupName" \in Named(e))},
           holds \in IF {"gate", "token"} \cap Kinds(e) = {} THEN {"token"}
                     ELSE {"token", "cookie", "none"},
           items \in IF "again" \in Kinds(e) THEN 0..MaxItems ELSE {0} :
            req' = [NoRequest EXCEPT !.at = e, !.lacks = lacks, !.group = group,
                                     !.holds = holds, !.items = items, !.begun = session.in]
  BY <1>1
<1>7. holds \in {"token", "cookie", "none"}
  BY <1>2
<1>8. items \in 0..MaxItems
  BY <1>2, FrontEndsAssumption
<1>3. group \in BOOLEAN /\ (group => {"driveName", "groupName"} \cap Named(e) # {})
  BY <1>2
<1>4. session.in \in BOOLEAN /\ session' = session
  BY DEF Typed, Begin
<1>5. /\ req'.at = e /\ req'.lacks = lacks /\ req'.group = group /\ req'.begun = session.in
      /\ req'.pos = 1 /\ ~req'.expired /\ req'.drive = "none" /\ ~req'.wrong /\ req'.log = <<>>
  BY <1>2 DEF NoRequest
<1>6. req' \in Requests
  BY ZenonT(40), <1>2, <1>3, <1>4, <1>7, <1>8, NoRequestIs DEF Requests
<1> QED
  BY <1>3, <1>4, <1>5, <1>6 DEF Starts

\* Nothing happens to the request, but the others may log out and close.
Elsewhere == req' = req /\ NoLogin /\ session' \in Sessions

LEMMA NextIs ==
    ASSUME Typed, [Next]_vars
    PROVE  \/ Serving /\ Outcome
           \/ Starts
           \/ Elsewhere
           \/ req' = NoRequest /\ session' = session
<1>1. CASE UNCHANGED vars
  BY <1>1 DEF vars, Elsewhere, NoLogin, Typed, Sessions
<1>2. CASE TimePasses
  BY <1>2 DEF TimePasses, Elsewhere, NoLogin, Typed, Sessions
<1>3. CASE OtherLogsOut
  BY <1>3, LoggedOutIs DEF OtherLogsOut, Elsewhere
<1>4. CASE OtherCloses
  BY <1>4 DEF OtherCloses, Elsewhere, NoLogin, Typed, Sessions
<1>5. CASE Done
  BY <1>5 DEF Done
<1> QED
  BY <1>1, <1>2, <1>3, <1>4, <1>5, ServeIs, BeginIs DEF Next

LEMMA TypedInit == Init => Typed
  BY NoRequestIs DEF Init, Typed, LoggedOut, Idle

LEMMA TypedStep == Typed /\ [Next]_vars => Typed'
<1> SUFFICES ASSUME Typed, [Next]_vars PROVE Typed'
  OBVIOUS
<1>1. CASE Serving /\ Outcome
  <2>1. req'.at = req.at /\ Steps' = Steps
    BY <1>1 DEF Outcome, Same, Steps
  <2>2. Fits'
    BY <1>1, <2>1, ServingIs DEF Outcome, Same, Fits
  <2>3. ~Idle'
    BY <1>1, <2>1 DEF Serving, Idle
  <2> QED
    BY <1>1, <2>2, <2>3 DEF Outcome, Typed
<1>2. CASE Starts
  <2>1. ~Idle' /\ WellFormed(Steps')
    BY <1>2, EndpointIs DEF Starts, Idle, Steps
  <2>2. Fits'
    BY <1>2, <2>1 DEF Starts, Fits, WellFormed
  <2> QED
    BY <1>2, <2>1, <2>2 DEF Starts, Typed
<1>3. CASE Elsewhere
  <2>1. Idle' = Idle /\ (Fits => Fits')
    BY <1>3 DEF Elsewhere, Idle, Fits, Steps
  <2> QED
    BY <1>3, <2>1 DEF Elsewhere, Typed, Sessions
<1>4. CASE req' = NoRequest /\ session' = session
  BY <1>4, NoRequestIs DEF Typed, Idle
<1> QED
  BY <1>1, <1>2, <1>3, <1>4, NextIs

-----------------------------------------------------------------------------
\* What is in the log.

Has(log, entry) == \E i \in DOMAIN log : log[i] = entry

LEMMA AppendHas ==
    ASSUME NEW log \in Seq(Entries), NEW x \in Entries
    PROVE  /\ Append(log, x) \in Seq(Entries) /\ Len(Append(log, x)) = Len(log) + 1 /\ Len(log) \in Nat
           /\ \A i \in 1..Len(log) : Append(log, x)[i] = log[i]
           /\ Append(log, x)[Len(log) + 1] = x
           /\ \A entry : Has(Append(log, x), entry) => Has(log, entry) \/ entry = x
<1>1. /\ Append(log, x) \in Seq(Entries) /\ Len(Append(log, x)) = Len(log) + 1 /\ Len(log) \in Nat
      /\ \A i \in 1..Len(log) : Append(log, x)[i] = log[i]
      /\ Append(log, x)[Len(log) + 1] = x
      /\ DOMAIN log = 1..Len(log) /\ DOMAIN Append(log, x) = 1..Len(log) + 1
  BY AppendProperties, LenProperties
<1>2. ASSUME NEW entry, Has(Append(log, x), entry), entry # x PROVE Has(log, entry)
  <2>1. PICK i \in 1..Len(log) + 1 : Append(log, x)[i] = entry
    BY <1>1, <1>2 DEF Has
  <2>2. i \in 1..Len(log)
    BY <1>1, <1>2, <2>1
  <2> QED
    BY <1>1, <2>1, <2>2 DEF Has
<1> QED
  BY <1>1, <1>2

LEMMA NothingInEmpty == \A entry : ~Has(<<>>, entry)
  BY DEF Has

\* What a step adds to the log.
LEMMA OutcomeLogs ==
    ASSUME Typed, Serving, Outcome, NEW entry \in Entries, Logged(entry)', ~Logged(entry)
    PROVE  \/ entry = "write" /\ Changes
           \/ entry = "ok" /\ Says /\ Here.do \in {"ok", "stream"}
           \/ entry = "refused" /\ (IsRefused \/ (Says /\ req'.wrong))
           \/ entry = "panic" /\ Breaks
<1>1. req.log \in Seq(Entries) /\ ~Has(req.log, entry) /\ Has(req'.log, entry)
  BY DEF Typed, Requests, Logged, Has
<1>2. {"write", "ok", "refused", "panic"} \subseteq Entries
  BY DEF Entries
<1>3. ASSUME NEW x \in Entries, Logs(x) PROVE entry = x
  BY <1>1, <1>3, AppendHas DEF Logs
<1>4. CASE Passes \/ Jumps \/ FallsOut \/ Waits
  BY <1>1, <1>4 DEF Passes, Jumps, FallsOut, Waits, GoesOn
<1>5. CASE IsRefused
  BY <1>2, <1>3, <1>5 DEF IsRefused
<1>6. CASE Changes
  BY <1>1, <1>2, <1>3, <1>6 DEF Changes
<1>7. CASE Says
  <2>1. CASE req'.log = Append(Append(req.log, "ok"), "refused") /\ Here.do = "stream" /\ req'.wrong
    <3>1. PICK log : log = Append(req.log, "ok")
      OBVIOUS
    <3>2. log \in Seq(Entries) /\ (Has(log, entry) => entry = "ok")
      BY <1>1, <1>2, <3>1, AppendHas
    <3>4. Has(Append(log, "refused"), entry)
      BY <1>1, <2>1, <3>1
    <3>3. entry \in {"ok", "refused"}
      BY <1>2, <3>2, <3>4, AppendHas
    <3> QED
      BY <1>7, <2>1, <3>3
  <2>2. CASE Here.do \in {"ok", "stream"} /\ Logs("ok")
    BY <1>2, <1>3, <1>7, <2>2
  <2>3. CASE Logs("refused") /\ req'.wrong
    BY <1>2, <1>3, <1>7, <2>3
  <2> QED
    BY <1>7, <2>1, <2>2, <2>3 DEF Says
<1>8. CASE Breaks
  BY <1>2, <1>3, <1>8 DEF Breaks
<1> QED
  BY <1>4, <1>5, <1>6, <1>7, <1>8 DEF Outcome

-----------------------------------------------------------------------------
\* Whoever is not logged in.

\* A request that begins without a login where not anyone may call, or that the
\* middleware let pass although its login time was over.
Outside == ~Idle /\ (req.expired \/ (~req.begun /\ req.at \notin AnyoneMayCall))

\* It does not come by a session and finds none, until its end.
KeptOut ==
    /\ ~Idle /\ req.expired => "gate" \in Kinds(req.at)
    /\ ~Idle /\ "gate" \in Kinds(req.at) /\ req.pos = 1 => req.log = <<>>
    /\ Outside => ~session.in /\ ~Logged("write") /\ req.pos \in Open(Steps)

LEMMA KindIs ==
    ASSUME Typed, Serving, NEW kind
    PROVE  /\ Here.do = kind => kind \in Kinds(req.at)
           /\ kind \in Kinds(req.at) <=> \E i \in Positions(Steps) : Is(Steps, i, {kind})
<1>1. DOMAIN Steps = Positions(Steps) /\ req.pos \in Positions(Steps)
  BY ServingIs DEF WellFormed
<1> QED
  BY <1>1 DEF Kinds, Here, Is, Steps

\* The first step is not come back to behind the login middleware.
LEMMA BehindGate ==
    ASSUME Typed, Serving, Outcome, "gate" \in Kinds(req.at)
    PROVE  (req'.pos # 1 \/ Waits) /\ (Here.do = "gate" => req.pos = 1)
<1>1. /\ req.pos \in Positions(Steps) /\ Len(Steps) \in Nat /\ GateFirst(Steps) /\ WellFormed(Steps)
      /\ Len(Steps) \in Nat \ {0}
  BY ServingIs, EndpointIs DEF Steps, WellFormed
<1>2. \A j \in Positions(Steps) : Is(Steps, j, {"again"}) => j - Steps[j].length > 1
  BY <1>1, KindIs DEF GateFirst
<1>3. req.pos \in Nat \ {0} /\ req.pos + 1 # 1 /\ Len(Steps) + 1 # 1
  BY <1>1 DEF Positions
<1>8. Here.do = "gate" => req.pos = 1
  BY <1>1 DEF GateFirst, Is, Here
<1>4. CASE Jumps
  <2>1. CASE Here.do = "maybe" /\ GoesOn(req.pos + Here.length + 1)
    <3>1. Here.length \in Nat
      BY <1>1, <2>1 DEF WellFormed, Is, Here
    <3> QED
      BY <1>1, <1>3, <2>1, <3>1 DEF GoesOn, GateFirst, Is, Here
  <2>2. CASE Here.do = "again" /\ GoesOn(req.pos - Here.length)
    BY <1>1, <1>2, <2>2 DEF GoesOn, Is, Here
  <2> QED
    BY <1>4, <2>1, <2>2 DEF Jumps
<1>5. CASE FallsOut
  <2>1. PICK i \in 1..req.pos - 1 :
          Is(Steps, i, {"attempt"}) /\ Holds(Steps, i, req.pos) /\ GoesOn(i + Steps[i].length + 1)
    BY <1>5 DEF FallsOut
  <2>2. i \in Positions(Steps) /\ Steps[i].length \in Nat /\ i \in Nat \ {0}
    BY <1>1, <2>1 DEF WellFormed, Is, Positions
  <2>3. req'.pos = i + Steps[i].length + 1
    BY <2>1 DEF GoesOn
  <2>4. req'.pos # 1
    BY <2>2, <2>3
  <2> QED
    BY <1>8, <2>4
<1>6. CASE Passes \/ Says \/ Changes \/ IsRefused \/ Breaks
  <2>1. req'.pos \in {req.pos + 1, Len(Steps) + 1}
    BY <1>6 DEF Passes, GoesOn, Says, Changes, IsRefused, Breaks
  <2> QED
    BY <1>1, <1>3, <2>1 DEF GateFirst, Is, Here
<1>7. CASE Waits
  BY <1>1, <1>7 DEF Waits, GateFirst, Is, Here
<1> QED
  BY <1>4, <1>5, <1>6, <1>7 DEF Outcome

\* A request without a session stays on the open steps and writes nothing.
LEMMA StaysOut ==
    ASSUME Typed, Serving, Outcome, LoginFirst(Steps), ~session.in, ~Logged("write"),
           req.pos \in Open(Steps)
    PROVE  ~session'.in /\ ~Logged("write")' /\ req'.pos \in Open(Steps)
<1>1. req.pos \in Open(Steps) \cap Positions(Steps) /\ Len(Steps) + 1 \in Open(Steps)
  BY ServingIs DEF Open
<1>2. /\ Here.do \notin {"write", "do", "logout"}
      /\ Here.do = "session" \/ req.pos + 1 \in Open(Steps)
      /\ Here.do = "maybe" => req.pos + Here.length + 1 \in Open(Steps)
      /\ Here.do = "again" => req.pos - Here.length \in Open(Steps)
      /\ \A b \in 1..req.pos - 1 : Is(Steps, b, {"attempt"}) /\ Holds(Steps, b, req.pos)
                                      => b + Steps[b].length + 1 \in Open(Steps)
  BY <1>1 DEF LoginFirst, Is, Here, Positions
<1>3. ~Changes
  BY <1>2 DEF Changes
<1>4. ~Logged("write")'
  BY <1>3, OutcomeLogs DEF Entries
<1>5. ~session'.in
  BY <1>3 DEF Outcome, Passes, Jumps, FallsOut, IsRefused, Says, Breaks, Waits, NoLogin
<1>6. CASE Passes
  BY <1>2, <1>4, <1>5, <1>6 DEF Passes, GoesOn
<1>7. CASE Jumps
  BY <1>2, <1>4, <1>5, <1>7 DEF Jumps, GoesOn
<1>8. CASE FallsOut
  BY <1>2, <1>4, <1>5, <1>8 DEF FallsOut, GoesOn
<1>9. CASE IsRefused \/ Breaks
  BY <1>1, <1>4, <1>5, <1>9 DEF IsRefused, Breaks
<1>10. CASE Says
  BY <1>2, <1>4, <1>5, <1>10 DEF Says, GoesOnTelling
<1>11. CASE Waits
  BY <1>1, <1>4, <1>5, <1>11 DEF Waits, GoesOn
<1> QED
  BY <1>3, <1>6, <1>7, <1>8, <1>9, <1>10, <1>11 DEF Outcome

LEMMA KeptOutStep == Typed /\ KeptOut /\ [Next]_vars => KeptOut'
<1> SUFFICES ASSUME Typed, KeptOut, [Next]_vars PROVE KeptOut'
  OBVIOUS
<1>1. CASE Serving /\ Outcome
  <2>1. /\ req'.at = req.at /\ Steps' = Steps /\ req'.begun = req.begun /\ ~Idle /\ ~Idle'
        /\ req.at \in Endpoints
    BY <1>1, ServingIs DEF Outcome, Same, Steps, Serving, Idle
  <2>2. "gate" \in Kinds(req.at) /\ req'.pos = 1 => req'.log = <<>>
    <3>1. ASSUME Waits, "gate" \in Kinds(req.at) PROVE req'.log = <<>>
      BY <1>1, <2>1, <3>1, BehindGate DEF Waits, GoesOn, KeptOut
    <3> QED
      BY <1>1, <3>1, BehindGate
  <2>3. /\ req'.expired \in BOOLEAN /\ req.expired \in BOOLEAN
        /\ req'.expired /\ ~req.expired => Passes /\ Here.do = "gate" /\ ~session'.in
    BY <1>1 DEF Outcome, Passes, Jumps, FallsOut, IsRefused, Changes, Says, Breaks, Waits, SameWay,
                Typed, Requests
  <2>4. req'.expired => "gate" \in Kinds(req.at)
    BY <1>1, <2>1, <2>3, KindIs DEF KeptOut
  <2>5. CASE Outside
    <3>1. LoginFirst(Steps)
      BY <2>1, <2>5, EndpointIs DEF Outside, KeptOut, Steps
    <3>2. ~session'.in /\ ~Logged("write")' /\ req'.pos \in Open(Steps)
      BY <1>1, <2>5, <3>1, StaysOut DEF KeptOut
    <3> QED
      BY <2>1, <2>2, <2>4, <3>2 DEF KeptOut
  <2>6. CASE ~Outside /\ Outside'
    <3>1. req'.expired /\ ~req.expired
      BY <2>1, <2>3, <2>6 DEF Outside
    <3>2. "gate" \in Kinds(req.at) /\ req.pos = 1 /\ LoginFirst(Steps)
      BY <1>1, <2>1, <2>3, <2>4, <3>1, EndpointIs, BehindGate DEF Steps
    <3>9. req.log = <<>>
      BY <2>1, <3>2 DEF KeptOut
    <3>10. GoesOn(req.pos + 1)
      BY <2>3, <3>1 DEF Passes
    <3>3. req'.log = <<>> /\ req'.pos = 2
      BY <3>2, <3>9, <3>10 DEF GoesOn
    <3>4. 1 \in Open(Steps) \cap Positions(Steps)
      BY <1>1, <3>2, ServingIs DEF LoginFirst
    <3>5. Is(Steps, 1, {"session"}) \/ 1 + 1 \in Open(Steps)
      BY <3>2, <3>4 DEF LoginFirst
    <3>6. 2 \in Open(Steps)
      BY <2>3, <3>1, <3>2, <3>5 DEF Is, Here
    <3>7. ~Logged("write")'
      BY <3>3, NothingInEmpty DEF Logged, Has
    <3> QED
      BY <2>1, <2>2, <2>3, <2>4, <3>1, <3>3, <3>6, <3>7 DEF KeptOut
  <2> QED
    BY <2>1, <2>2, <2>4, <2>5, <2>6 DEF KeptOut
<1>2. CASE Starts
  <2>1. req'.at \in Endpoints /\ ~req'.expired /\ req'.log = <<>> /\ ~Logged("write")'
    BY <1>2, NothingInEmpty DEF Starts, Logged, Has
  <2>2. Outside' => ~session'.in /\ LoginFirst(Steps')
    BY <1>2, <2>1, EndpointIs DEF Outside, Starts, Steps
  <2>3. Outside' => req'.pos \in Open(Steps')
    BY <1>2, <2>2 DEF Starts, LoginFirst
  <2> QED
    BY <2>1, <2>2, <2>3 DEF KeptOut
<1>3. CASE Elsewhere
  BY <1>3 DEF Elsewhere, NoLogin, KeptOut, Idle, Outside, Logged, Steps
<1>4. CASE req' = NoRequest
  BY <1>4, NoRequestIs DEF KeptOut, Idle, Outside
<1> QED
  BY <1>1, <1>2, <1>3, <1>4, NextIs

LEMMA AlwaysTyped == Spec => []Typed
  BY TypedInit, TypedStep, PTL DEF Spec

LEMMA AlwaysKeptOut == Spec => []KeptOut
<1>1. Init => KeptOut
  BY NoRequestIs DEF Init, KeptOut, Idle, Outside
<1> QED
  BY <1>1, KeptOutStep, AlwaysTyped, PTL DEF Spec

\* A request that begins without a login changes nothing, at every endpoint and
\* whatever its rows, its arguments and the others do, except where anyone may
\* call: it meets the lookup of its session before every write (getUserFromMap).
THEOREM StrangersChangeNothing == Spec => []StrangersDoNothing
<1>1. KeptOut => StrangersDoNothing
  BY DEF KeptOut, Outside, StrangersDoNothing
<1> QED
  BY <1>1, AlwaysKeptOut, PTL

\* A request whose login time is over changes nothing, although LoginMiddleware
\* serves it when the session could not be logged out.
THEOREM ExpiredChangeNothing == Spec => []ExpiredIsNotServed
<1>1. Typed /\ KeptOut => ExpiredIsNotServed
  <2> SUFFICES ASSUME Typed, KeptOut PROVE ExpiredIsNotServed
    OBVIOUS
  <2>1. CASE Idle
    BY <2>1 DEF Typed, NoRequest, ExpiredIsNotServed
  <2>2. CASE ~Idle
    BY <2>2 DEF KeptOut, Outside, ExpiredIsNotServed
  <2> QED
    BY <2>1, <2>2
<1> QED
  BY <1>1, AlwaysKeptOut, AlwaysTyped, PTL

-----------------------------------------------------------------------------
\* One answer, at the end.

AnswerLast ==
    /\ \A i \in 1..Len(req.log) :
          req.log[i] = "write" \/ (i = Len(req.log) /\ Ended /\ req.log[i] \in {"ok", "refused"})
    /\ Ended => Len(req.log) > 0 /\ req.log[Len(req.log)] \in {"ok", "refused"}

\* It is, but for the panic in the middleware, which ends the request.
Answered == ~Idle /\ AnswersLast(Steps) => AnswerLast \/ (LostAtTheGate /\ Ended)

\* An entry that is an answer ends the request, one that is none does not.
LEMMA AnsweredAfter ==
    ASSUME Typed, Serving, Answered, AnswersLast(Steps), req'.at = req.at, NEW x \in Entries, Logs(x),
           (x = "write" /\ ~Ended') \/ (x \in {"ok", "refused"} /\ Ended')
    PROVE  Answered'
<1> DEFINE n == Len(req.log)
<1>1. /\ req.log \in Seq(Entries) /\ n \in Nat /\ Len(req'.log) = n + 1
      /\ \A i \in 1..n : req'.log[i] = req.log[i]
      /\ req'.log[n + 1] = x
  BY AppendHas, ServingIs DEF Logs
<1>2. \A i \in 1..n : req.log[i] = "write"
  BY DEF Answered, AnswerLast, Serving
<1> HIDE DEF n
<1>3. \A i \in 1..n + 1 : i \in 1..n \/ i = n + 1
  BY <1>1
<1>4. \A i \in 1..n + 1 : req'.log[i] = "write" \/ (i = n + 1 /\ Ended' /\ req'.log[i] \in {"ok", "refused"})
  BY <1>1, <1>2, <1>3
<1>5. Ended' => n + 1 > 0 /\ req'.log[n + 1] \in {"ok", "refused"}
  BY <1>1
<1> QED
  BY <1>1, <1>4, <1>5 DEF Answered, AnswerLast

LEMMA AnsweredStep == Typed /\ Answered /\ [Next]_vars => Answered'
<1> SUFFICES ASSUME Typed, Answered, [Next]_vars PROVE Answered'
  OBVIOUS
<1>1. ASSUME Serving, Outcome PROVE Answered'
  <2>1. /\ req'.at = req.at /\ Steps' = Steps /\ ~Idle /\ ~Idle'
        /\ req.pos \in Positions(Steps) /\ Len(Steps) \in Nat /\ WellFormed(Steps)
    BY <1>1, ServingIs DEF Outcome, Same, Steps, Serving, Idle
  <2> SUFFICES ASSUME AnswersLast(Steps) PROVE Answered'
    BY <2>1 DEF Answered
  <2>2. Ended' <=> req'.pos > Len(Steps)
    BY <2>1 DEF Ended, Steps
  <2>3. /\ Here.do \in {"ok", "stream", "panic", "drop", "logout", "refuse"} \/ GoesOnTelling(Here)
              => req.pos = Len(Steps)
        /\ req.pos = Len(Steps) => Here.do \in {"ok", "refuse"}
    BY <2>1 DEF AnswersLast, Is, Here, Positions
  <2>4. \A i \in 1..Len(Steps) - 1 : ~Holds(Steps, i, Len(Steps))
    BY DEF AnswersLast
  <2>5. ASSUME NEW i \in Positions(Steps), i < Len(Steps), Is(Steps, i, {"maybe", "attempt"})
        PROVE  i + Steps[i].length + 1 <= Len(Steps)
    <3>1. Steps[i].length \in 0..Len(Steps) - i /\ i \in 1..Len(Steps) - 1
      BY <2>1, <2>5 DEF WellFormed, Is, Positions
    <3>2. Len(Steps) \notin i + 1..i + Steps[i].length
      BY <2>4, <2>5, <3>1 DEF Holds
    <3> QED
      BY <2>1, <3>1, <3>2
  <2>6. {"write", "ok", "refused"} \subseteq Entries
    BY DEF Entries
  <2>7. ASSUME req'.log = req.log, req'.pos <= Len(Steps)
        PROVE  Answered'
    <3>1. ~Ended' /\ ~Ended
      BY <1>1, <2>1, <2>2, <2>7 DEF Serving, Positions, Outcome
    <3> QED
      BY <2>1, <2>7, <3>1 DEF Answered, AnswerLast
  <2>8. CASE Passes
    <3>1. req.pos + 1 <= Len(Steps)
      BY <2>1, <2>3, <2>8 DEF Passes, Positions, AnswersLast, Is, Here
    <3> QED
      BY <2>7, <2>8, <3>1 DEF Passes, GoesOn
  <2>9. CASE Jumps
    <3>1. CASE Here.do = "maybe" /\ GoesOn(req.pos + Here.length + 1)
      <4>1. req.pos < Len(Steps) /\ Is(Steps, req.pos, {"maybe", "attempt"})
        BY <2>1, <2>3, <3>1 DEF Positions, Is, Here
      <4> QED
        BY <2>1, <2>5, <2>7, <3>1, <4>1 DEF GoesOn, Here
    <3>2. CASE Here.do = "again" /\ GoesOn(req.pos - Here.length)
      <4>1. Here.length \in 1..req.pos - 1
        BY <2>1, <3>2 DEF WellFormed, Is, Here
      <4> QED
        BY <2>1, <2>7, <3>2, <4>1 DEF GoesOn, Positions
    <3> QED
      BY <2>9, <3>1, <3>2 DEF Jumps
  <2>10. CASE FallsOut
    <3>1. PICK i \in 1..req.pos - 1 :
            Is(Steps, i, {"attempt"}) /\ Holds(Steps, i, req.pos) /\ GoesOn(i + Steps[i].length + 1)
      BY <2>10 DEF FallsOut
    <3>2. i \in Positions(Steps) /\ i < Len(Steps) /\ Is(Steps, i, {"maybe", "attempt"})
      BY <2>1, <3>1 DEF Positions, Is
    <3> QED
      BY <2>5, <2>7, <3>1, <3>2 DEF GoesOn
  <2>11. CASE IsRefused
    BY <1>1, <2>1, <2>2, <2>6, <2>11, AnsweredAfter DEF IsRefused
  <2>12. CASE Changes
    <3>1. req.pos + 1 <= Len(Steps)
      BY <2>1, <2>3, <2>12 DEF Changes, Positions
    <3>2. ~Ended'
      BY <2>1, <2>2, <2>12, <3>1 DEF Changes, Positions
    <3>3. CASE req'.log = req.log
      BY <2>7, <2>12, <3>1, <3>3 DEF Changes
    <3>4. CASE Logs("write")
      <4>1. "write" \in Entries /\ req'.at = req.at
        BY <2>1, <2>6
      <4> QED
        BY <1>1, <3>2, <3>4, <4>1, AnsweredAfter
    <3> QED
      BY <2>12, <3>3, <3>4 DEF Changes
  <2>13. CASE Says
    <3>1. req.pos = Len(Steps) /\ Here.do = "ok"
      BY <2>3, <2>13 DEF Says, GoesOnTelling
    <3>2. Logs("ok") /\ Ended'
      BY <2>1, <2>2, <2>13, <3>1 DEF Says, GoesOnTelling, Positions
    <3> QED
      BY <1>1, <2>1, <2>6, <3>2, AnsweredAfter
  <2>14. CASE Breaks
    <3>1. req'.leaving /\ Logs("panic") /\ Ended'
      BY <2>1, <2>2, <2>3, <2>14 DEF Breaks
    <3>2. Len(req'.log) \in DOMAIN req'.log /\ req'.log[Len(req'.log)] = "panic"
      <4>1. req.log \in Seq(Entries) /\ "panic" \in Entries
        BY <1>1, ServingIs DEF Entries
      <4> HIDE DEF Logged
      <4>2. /\ req'.log \in Seq(Entries) /\ Len(req'.log) = Len(req.log) + 1 /\ Len(req.log) \in Nat
            /\ req'.log[Len(req.log) + 1] = "panic"
        BY <3>1, <4>1, AppendHas DEF Logs
      <4>3. DOMAIN req'.log = 1..Len(req'.log)
        BY <4>2, LenProperties
      <4> QED
        BY <4>2, <4>3
    <3>3. LostAtTheGate'
      BY <3>1, <3>2 DEF LostAtTheGate, Logged
    <3> QED
      BY <3>1, <3>3 DEF Answered
  <2>15. CASE Waits
    BY <2>1, <2>7, <2>15 DEF Waits, GoesOn, Positions
  <2> QED
    BY <1>1, <2>8, <2>9, <2>10, <2>11, <2>12, <2>13, <2>14, <2>15 DEF Outcome
<1>2. CASE Starts
  <2>1. WellFormed(Steps') /\ req'.pos = 1 /\ req'.log = <<>>
    BY <1>2, EndpointIs DEF Starts, Steps
  <2>2. ~Ended'
    BY <2>1 DEF Ended, Steps, WellFormed
  <2>3. Len(req'.log) = 0
    BY <2>1
  <2> QED
    BY <2>2, <2>3 DEF Answered, AnswerLast
<1>3. CASE Elsewhere
  BY <1>3 DEF Elsewhere, Answered, AnswerLast, LostAtTheGate, Logged, Idle, Ended, Steps
<1>4. CASE req' = NoRequest
  BY <1>4, NoRequestIs DEF Answered, Idle
<1> QED
  BY <1>1, <1>2, <1>3, <1>4, NextIs

\* A request is answered once, and nothing is done behind the answer, at every
\* endpoint but the ones named in AnsweredNotOnce, unless the login middleware loses
\* the session it logs out to another request: the answer is the last step,
\* and no error is told before it without a return (jsonhttp, respondWithError,
\* resolve and reject).
THEOREM OthersAnswerOnce == Spec => []OneAnswerElsewhere
<1>1. Init => Answered
  BY NoRequestIs DEF Init, Answered, Idle
<1>2. Typed /\ Answered => OneAnswerElsewhere
  <2> SUFFICES ASSUME Typed, Answered, req.at \notin AnsweredNotOnce, ~LostAtTheGate, Ended
               PROVE  Cardinality(Answers) = 1 /\ Len(req.log) \in Answers
    BY DEF OneAnswerElsewhere, OneAnswer
  <2>1. ~Idle /\ AnswersLast(Steps) /\ req.log \in Seq(Entries)
    BY EndpointIs DEF Ended, Typed, Fits, Steps, Requests
  <2>2. Len(req.log) \in Nat /\ DOMAIN req.log = 1..Len(req.log)
    BY <2>1, LenProperties
  <2>3. Answers = {Len(req.log)}
    BY <2>1, <2>2 DEF Answered, AnswerLast, Answers
  <2> QED
    BY <2>3, FS_Singleton
<1> QED
  BY <1>1, <1>2, AnsweredStep, AlwaysTyped, PTL DEF Spec

-----------------------------------------------------------------------------
\* No refusal without a reason.

HasStream(steps) == \E i \in Positions(steps) : Is(steps, i, {"stream"})

\* What was refused had a reason, and before a stream nothing is refused.
Reasoned ==
    ~Idle /\ RefusesWithReason(Steps) =>
        /\ Logged("refused") => req.wrong
        /\ HasStream(Steps) /\ ~Ended => ~Logged("refused")

LEMMA ReasonedStep == Typed /\ Reasoned /\ [Next]_vars => Reasoned'
<1> SUFFICES ASSUME Typed, Reasoned, [Next]_vars PROVE Reasoned'
  OBVIOUS
<1>1. ASSUME Serving, Outcome PROVE Reasoned'
  <2>1. /\ req'.at = req.at /\ Steps' = Steps /\ ~Idle /\ ~Idle' /\ ~Ended
        /\ req.pos \in Positions(Steps) /\ Len(Steps) \in Nat
    BY <1>1, ServingIs DEF Outcome, Same, Steps, Serving, Idle
  <2> SUFFICES ASSUME RefusesWithReason(Steps) PROVE Reasoned'
    BY <2>1 DEF Reasoned
  <2>2. Ended' <=> req'.pos > Len(Steps)
    BY <2>1 DEF Ended, Steps
  <2>3. /\ Here.do = "session" => Here.id = sessionId
        /\ Here.do = "stream" => req.pos = Len(Steps) /\ HasStream(Steps)
        /\ HasStream(Steps) => ~GoesOnTelling(Here)
    BY <2>1 DEF RefusesWithReason, Is, Here, HasStream
  <2>4. Logged("refused") => req.wrong /\ ~HasStream(Steps)
    BY <2>1 DEF Reasoned
  <2>5. CASE Logged("refused")
    <3>1. Here.do # "stream"
      BY <2>3, <2>4, <2>5
    <3>2. req.wrong => req'.wrong
      BY <1>1, <2>3, <3>1
         DEF Outcome, Passes, Jumps, FallsOut, IsRefused, Changes, Says, Breaks, Waits, GoesOn
    <3> QED
      BY <2>1, <2>4, <2>5, <3>2 DEF Reasoned
  <2>6. CASE ~Logged("refused") /\ Logged("refused")'
    <3>1. IsRefused \/ (Says /\ req'.wrong)
      BY <1>1, <2>6, OutcomeLogs DEF Entries
    <3>2. req'.wrong
      BY <2>3, <3>1 DEF IsRefused
    <3>3. CASE IsRefused
      <4>1. Ended'
        BY <2>1, <2>2, <3>3 DEF IsRefused
      <4> QED
        BY <2>1, <3>2, <4>1 DEF Reasoned
    <3>4. CASE Says
      <4>1. Here.do # "ok"
        <5>1. ASSUME Here.do = "ok" PROVE FALSE
          <6>1. Logs("ok") /\ req.log \in Seq(Entries)
            BY <1>1, <3>4, <5>1, ServingIs DEF Says, GoesOnTelling
          <6>2. "ok" \in Entries /\ Has(req'.log, "refused") /\ ~Has(req.log, "refused")
            BY <2>6 DEF Entries, Has, Logged
          <6> QED
            BY <6>1, <6>2, AppendHas DEF Logs
        <5> QED
          BY <5>1
      <4>2. HasStream(Steps) => Here.do = "stream"
        BY <2>3, <3>4, <4>1 DEF Says
      <4>3. HasStream(Steps) => Ended'
        BY <2>1, <2>2, <2>3, <3>4, <4>2 DEF Says
      <4> QED
        BY <2>1, <3>2, <4>3 DEF Reasoned
    <3> QED
      BY <3>1, <3>3, <3>4
  <2>7. CASE ~Logged("refused")'
    BY <2>7 DEF Reasoned
  <2> QED
    BY <2>5, <2>6, <2>7
<1>2. CASE Starts
  <2>1. ~Logged("refused")'
    BY <1>2, NothingInEmpty DEF Starts, Logged, Has
  <2> QED
    BY <2>1 DEF Reasoned
<1>3. CASE Elsewhere
  BY <1>3 DEF Elsewhere, Reasoned, Idle, Ended, Steps, Logged
<1>4. CASE req' = NoRequest
  BY <1>4, NoRequestIs DEF Reasoned, Idle
<1> QED
  BY <1>1, <1>2, <1>3, <1>4, NextIs

\* A request is refused for a missing argument, login, pod or group, or because
\* a call failed, at every endpoint but those of NeverServed, which hand the
\* session id on in the place of another argument.
THEOREM OthersRefuseWithReason == Spec => []GoodRequestsAreServedElsewhere
<1>1. Init => Reasoned
  BY NoRequestIs DEF Init, Reasoned, Idle
<1>2. Typed /\ Reasoned => GoodRequestsAreServedElsewhere
  <2> SUFFICES ASSUME Typed, Reasoned, req.at \notin NeverServed, Ended, Logged("refused")
               PROVE  req.wrong
    BY DEF GoodRequestsAreServedElsewhere, GoodRequestsAreServed
  <2>1. ~Idle /\ RefusesWithReason(Steps)
    BY EndpointIs DEF Ended, Typed, Fits, Steps
  <2> QED
    BY <2>1 DEF Reasoned
<1> QED
  BY <1>1, <1>2, ReasonedStep, AlwaysTyped, PTL DEF Spec

-----------------------------------------------------------------------------
\* What was asked for.

\* A request that lacks an argument is not past the test of it, or refused; one
\* for a group is not in a pod.
Asked ==
    ~Idle /\ AsksForAll(req.at) =>
        /\ req.lacks # "nothing" =>
              \E i \in Positions(Steps) :
                  AsksAt(Steps, req.lacks, i) /\ (req.pos <= i \/ Ended) /\ ~Logged("ok")
        /\ req.group => req.drive # "pod"

LEMMA AskedStep == Typed /\ Asked /\ [Next]_vars => Asked'
<1> SUFFICES ASSUME Typed, Asked, [Next]_vars PROVE Asked'
  OBVIOUS
<1>1. ASSUME Serving, Outcome PROVE Asked'
  <2>1. /\ req'.at = req.at /\ Steps' = Steps /\ ~Idle /\ ~Idle' /\ ~Ended
        /\ req'.lacks = req.lacks /\ req'.group = req.group
        /\ req.pos \in Positions(Steps) /\ Len(Steps) \in Nat /\ WellFormed(Steps) /\ Fits
    BY <1>1, ServingIs DEF Outcome, Same, Steps, Serving, Idle
  <2> SUFFICES ASSUME AsksForAll(req.at) PROVE Asked'
    BY <2>1 DEF Asked
  <2>2. Ended' <=> req'.pos > Len(Steps)
    BY <2>1 DEF Ended, Steps
  <2>3. ASSUME req.group PROVE req'.drive # "pod"
    <3>1. req.drive # "pod" /\ "pod" \notin Kinds(req.at)
      BY <2>1, <2>3 DEF Asked, AsksForAll, Fits
    <3>2. Here.do # "pod"
      BY <1>1, <3>1, KindIs
    <3> QED
      BY <1>1, <2>3, <3>1, <3>2
         DEF Outcome, Passes, Jumps, FallsOut, IsRefused, Changes, Says, Breaks, Waits, SameWay
  <2>4. ASSUME req.lacks # "nothing"
        PROVE  \E i \in Positions(Steps) :
                  AsksAt(Steps, req.lacks, i) /\ (req'.pos <= i \/ Ended') /\ ~Logged("ok")'
    <3>1. PICK i \in Positions(Steps) : AsksAt(Steps, req.lacks, i) /\ req.pos <= i /\ ~Logged("ok")
      BY <2>1, <2>4 DEF Asked
    <3>2. /\ req.pos = i => Here.do = "ask" /\ Here.tests = req.lacks
          /\ req.pos < i => Here.do \notin {"ok", "stream"}
          /\ \A j \in 1..i - 1 : ~Holds(Steps, j, i)
      BY <2>1, <3>1 DEF AsksAt, Is, Here, Positions
    <3>3. ~Logged("ok")'
      BY <1>1, <2>1, <3>1, <3>2, OutcomeLogs DEF Entries, Positions
    <3>4. ASSUME NEW j \in 1..i - 1, Is(Steps, j, {"maybe", "attempt"})
          PROVE  j + Steps[j].length + 1 <= i
      <4>1. j \in Positions(Steps) /\ Steps[j].length \in Nat
        BY <2>1, <3>4 DEF Positions, WellFormed, Is
      <4>2. i \notin j + 1..j + Steps[j].length
        BY <3>2, <3>4 DEF Holds
      <4> QED
        BY <2>1, <3>4, <4>1, <4>2 DEF Positions
    <3>5. CASE Passes \/ Changes \/ Says
      <4>1. req.pos # i
        BY <3>2, <3>5 DEF Passes, Changes, Says, GoesOnTelling
      <4> QED
        BY <2>1, <3>1, <3>3, <3>5, <4>1 DEF Passes, Changes, Says, GoesOn, Positions
    <3>6. CASE Jumps
      <4>1. CASE Here.do = "maybe" /\ GoesOn(req.pos + Here.length + 1)
        <5>1. req.pos \in 1..i - 1 /\ Is(Steps, req.pos, {"maybe", "attempt"})
          BY <2>1, <3>1, <3>2, <4>1 DEF Positions, Is, Here
        <5> QED
          BY <3>1, <3>3, <3>4, <4>1, <5>1 DEF GoesOn, Here
      <4>2. CASE Here.do = "again" /\ GoesOn(req.pos - Here.length)
        <5>1. Here.length \in 1..req.pos - 1
          BY <2>1, <4>2 DEF WellFormed, Is, Here
        <5> QED
          BY <2>1, <3>1, <3>3, <4>2, <5>1 DEF GoesOn, Positions
      <4> QED
        BY <3>6, <4>1, <4>2 DEF Jumps
    <3>7. CASE FallsOut
      <4>1. PICK j \in 1..req.pos - 1 :
              Is(Steps, j, {"attempt"}) /\ Holds(Steps, j, req.pos) /\ GoesOn(j + Steps[j].length + 1)
        BY <3>7 DEF FallsOut
      <4>2. j \in 1..i - 1 /\ Is(Steps, j, {"maybe", "attempt"})
        BY <2>1, <3>1, <4>1 DEF Positions, Is
      <4> QED
        BY <3>1, <3>3, <3>4, <4>1, <4>2 DEF GoesOn
    <3>8. CASE IsRefused \/ Breaks
      <4>1. Ended'
        BY <2>1, <2>2, <3>8 DEF IsRefused, Breaks
      <4> QED
        BY <3>1, <3>3, <4>1
    <3>9. CASE Waits
      BY <3>1, <3>3, <3>9 DEF Waits, GoesOn
    <3> QED
      BY <1>1, <3>5, <3>6, <3>7, <3>8, <3>9 DEF Outcome
  <2> QED
    BY <2>1, <2>3, <2>4 DEF Asked
<1>2. CASE Starts
  <2>1. ~Logged("ok")' /\ req'.pos = 1 /\ req'.drive = "none" /\ WellFormed(Steps')
    BY <1>2, NothingInEmpty, EndpointIs DEF Starts, Logged, Has, Steps
  <2>2. AsksForAll(req'.at) /\ req'.lacks # "nothing"
            => \E i \in Positions(Steps') : AsksAt(Steps', req'.lacks, i)
    BY <1>2 DEF Starts, AsksForAll, Steps
  <2>3. \A i \in Positions(Steps') : 1 <= i
    BY DEF Positions
  <2> QED
    BY <2>1, <2>2, <2>3 DEF Asked
<1>3. CASE Elsewhere
  BY <1>3 DEF Elsewhere, Asked, Idle, Ended, Steps, Logged
<1>4. CASE req' = NoRequest
  BY <1>4, NoRequestIs DEF Asked, Idle
<1> QED
  BY <1>1, <1>2, <1>3, <1>4, NextIs

\* A request that is served had every argument its endpoint calls missing, and
\* one for a group was not served from a pod, at every endpoint but those of
\* ServesOther ("argument missing" in pkg/api, isGroup).
THEOREM OthersServeAsAsked == Spec => []ServedAsAskedElsewhere
<1>1. Init => Asked
  BY NoRequestIs DEF Init, Asked, Idle
<1>2. Typed /\ Asked => ServedAsAskedElsewhere
  <2> SUFFICES ASSUME Typed, Asked, req.at \notin ServesOther PROVE ServedAsAsked
    BY DEF ServedAsAskedElsewhere
  <2>1. CASE Idle
    BY <2>1 DEF Typed, NoRequest, ServedAsAsked, Ended
  <2>2. CASE ~Idle
    <3>1. AsksForAll(req.at)
      BY <2>2, EndpointIs DEF Typed, Fits
    <3> QED
      BY <2>2, <3>1 DEF Asked, ServedAsAsked
  <2> QED
    BY <2>1, <2>2
<1> QED
  BY <1>1, <1>2, AskedStep, AlwaysTyped, PTL DEF Spec

=============================================================================
