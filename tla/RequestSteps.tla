---------------------------- MODULE RequestSteps ----------------------------
(***************************************************************************)
(* The vocabulary in which the front ends are written. Serving a request   *)
(* is a sequence of steps; a definition of HttpApi, WsApi, WasmApi or      *)
(* DfsApi is such a sequence, put together with \o in the order of the     *)
(* code. Gateway says what each kind of step does.  Contents, formats and   *)
(* status codes are left out: an answer is "ok" or "refused", and a step   *)
(* that may end the request early is named for what it looks at.           *)
(***************************************************************************)
EXTENDS Naturals, Sequences

Step(kind) == [do |-> kind]

\* `if a == "" { refuse: "a" argument missing; return }`
AskAs(tested, named) == <<[do |-> "ask", tests |-> tested, names |-> named]>>
Ask(a) == AskAs(a, a)

\* A call that changes nothing and may fail: decode, parse, look up, fetch.
Read == <<Step("read")>>

\* A call to a component below, which may fail and then has changed nothing.
Write(effect) == <<[do |-> "write", effect |-> effect]>>

\* A change in memory that cannot fail.
Do(effect) == <<[do |-> "do", effect |-> effect]>>

\* The request carries a session id, in a cookie or a token.
Token == <<Step("token")>>

\* The dfs layer looks the session id up; `id` is what it was given as one.
Session(id) == <<[do |-> "session", id |-> id]>>
sessionId == "sessionId"

\* Takes the session out of the map, where it was a moment ago, and closes its
\* feeds, which may fail.
Logout == <<Step("logout")>>

\* The pod of the request, opened if it is not; the group, which must be open;
\* one or the other, as the request says; the pod, which must be open.
Pod     == <<Step("pod")>>
Group   == <<Step("group")>>
Drive   == <<Step("drive")>>
InMap   == <<Step("opened")>>

\* Steps that some requests make and others do not, and steps made once more
\* for every further row or file of the request.
Maybe(steps)   == <<[do |-> "maybe", length |-> Len(steps)]>> \o steps
ForEach(steps) == steps \o <<[do |-> "again", length |-> Len(steps)]>>

\* Steps whose failure is counted or dropped: the request goes on behind them.
Attempt(steps)  == <<[do |-> "attempt", length |-> Len(steps)]>> \o steps
TryWrite(effect) == Attempt(Write(effect))

\* Answers: the last one, an error after which the code goes on, and a body
\* that is sent piece by piece behind the status "ok".
Ok      == <<Step("ok")>>
Refuse  == <<Step("refuse")>>
Tell    == <<Step("tell")>>
Stream  == <<Step("stream")>>

\* `if api == nil { refuse }` (wasm); `api, err = NewDfsAPI(...)`, whose error
\* is told or refused; a panic, which ends the process of wasm and of an app,
\* and of which net/http saves the server: the connection drops.
Connected == <<Step("connected")>>
NewApi(onError) == <<[do |-> "newApi", onError |-> onError]>>
Panic     == <<Step("panic")>>
Drop      == <<Step("drop")>>

\* The login middleware in front of a route.
Gate == <<Step("gate")>>
=============================================================================
