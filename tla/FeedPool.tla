------------------------------ MODULE FeedPool ------------------------------
(***************************************************************************)
(* The write-back pool of a feed Handler (pkg/feed/handler.go, api.go).    *)
(* A write is acknowledged as soon as it is in the pool; it reaches Swarm  *)
(* when the pool evicts it: for want of room, after its time to live, or   *)
(* in CommitFeeds.  The callback runs createSoc and updateSoc and only     *)
(* logs their errors.                                                      *)
(*                                                                         *)
(* The pool is an expirable LRU (external): an item past its time to live  *)
(* is not returned by Get but stays until the cleaner removes it, Add over *)
(* an existing key evicts nothing, and callbacks run under the LRU's lock. *)
(***************************************************************************)
EXTENDS Integers, FiniteSets

CONSTANTS Topics, Values,
          Absent,       \* what a read of a feed without updates gives
          NoItem,       \* no item in the pool
          Clients,      \* request handlers that use this session's feed API
          PoolSize,     \* feedCacheSize
          MayExpire,    \* whether items may outlive feedCacheTTL
          MoveCaller,   \* whether mapChildrenToNewPath is among the callers
          MaxFaults     \* bound on failed uploads and crashes

Item == [data: Values, create: BOOLEAN]

ASSUME PoolAssumption ==
    /\ Absent \notin Values
    /\ NoItem \notin Item
    /\ IsFiniteSet(Topics)
    /\ PoolSize \in Nat \ {0}
    /\ MayExpire \in BOOLEAN /\ MoveCaller \in BOOLEAN
    /\ MaxFaults \in Nat

VARIABLES pool,     \* topic -> item
          expired,  \* topics whose item is past its time to live
          stored,   \* topic -> value the lookup finds in Swarm
          client,   \* request in progress of each client
          faults,   \* faults so far
          acked,    \* history: last acknowledged write
          answer    \* history: last read

vars == <<pool, expired, stored, client, faults, acked, answer>>

Value == Values \cup {Absent}
Request == [pc: {"idle", "decided", "peeked"}, topic: Topics, data: Values,
            create: BOOLEAN]

Pooled == {t \in Topics : pool[t] # NoItem}

\* Items, answers and acknowledgements hold the values that were written
\* (feedItem of handler.go), and only an item of the pool can be expired.
TypeOK ==
    /\ pool \in [Topics -> Item \cup {NoItem}]
    /\ expired \in SUBSET Pooled
    /\ stored \in [Topics -> Value]
    /\ client \in [Clients -> Request]
    /\ faults \in Nat
    /\ acked \in [Topics -> Value]
    /\ answer \in [topic: Topics, value: Value]

Init ==
    /\ pool = [t \in Topics |-> NoItem]
    /\ expired = {}
    /\ stored = [t \in Topics |-> Absent]
    /\ client \in [Clients -> {r \in Request : r.pc = "idle" /\ ~r.create}]
    /\ \A c, d \in Clients : client[c] = client[d]
    /\ faults = 0
    /\ acked = [t \in Topics |-> Absent]
    /\ answer \in [topic: Topics, value: {Absent}]

-----------------------------------------------------------------------------
Hit(t) == pool[t] # NoItem /\ t \notin expired

\* Mutant: the read path gives the pool's item, not the data in it.
SeenItem(t) == IF Hit(t) THEN pool[t] ELSE stored[t]

\* Mutant: reads do not look in the pool.
SeenInSwarm(t) == stored[t]

\* GetFeedData: the pool's item, else the latest update in Swarm.
Seen(t) == IF Hit(t) THEN pool[t].data ELSE stored[t]

\* Mutant: the pool has no eviction callback.
FlushedNothing(t, ok) == stored[t]

\* What is in Swarm after the eviction callback ran for t.  createSoc always
\* writes the feed's first slot, so it fails when the feed exists, and then
\* updateSoc is not tried; ok says whether the network did its part.
Flushed(t, ok) ==
    IF ok /\ ~(pool[t].create /\ stored[t] # Absent)
    THEN pool[t].data ELSE stored[t]

Fault(n) == faults + n <= MaxFaults /\ faults' = faults + n

GetFeedData(c, t) ==
    /\ client[c].pc = "idle"
    /\ answer' = [topic |-> t, value |-> Seen(t)]
    /\ UNCHANGED <<pool, expired, stored, client, faults, acked>>

Decide(c, t, v, create) ==
    /\ client[c].pc = "idle"
    /\ client' = [client EXCEPT ![c] =
                    [pc |-> "decided", topic |-> t, data |-> v, create |-> create]]
    /\ UNCHANGED <<pool, expired, stored, faults, acked, answer>>

\* handleMeta: a read, then UpdateFeed when it succeeded and else CreateFeed.
\* The other writers (SetInode, deleteMeta) update what they have just read.
handleMeta(c, t, v) == Decide(c, t, v, Seen(t) = Absent)

\* mapChildrenToNewPath asks for the address of the previous update as well,
\* which getSoc leaves nil for an item of the pool.
mapChildren(c, t, v) ==
    /\ MoveCaller
    /\ Decide(c, t, v, Hit(t) \/ stored[t] = Absent)

\* putInPool is a Get followed by an Add.
putInPoolGet(c) ==
    LET t == client[c].topic IN
    /\ client[c].pc = "decided"
    /\ client' = [client EXCEPT ![c] =
                    [pc |-> "peeked", topic |-> t, data |-> client[c].data,
                     create |-> client[c].create \/ (Hit(t) /\ pool[t].create)]]
    /\ UNCHANGED <<pool, expired, stored, faults, acked, answer>>

Added(c) == [data |-> client[c].data, create |-> client[c].create]

Acknowledge(c) ==
    /\ acked' = [acked EXCEPT ![client[c].topic] = client[c].data]
    /\ client' = [client EXCEPT ![c].pc = "idle"]
    /\ UNCHANGED answer

\* Mutant: an item that is already pooled is not replaced.
putInPoolKeeps(c) ==
    LET t == client[c].topic IN
    /\ client[c].pc = "peeked"
    /\ pool[t] # NoItem \/ Cardinality(Pooled) < PoolSize
    /\ pool' = [pool EXCEPT ![t] = IF @ = NoItem THEN Added(c) ELSE @]
    /\ expired' = expired \ {t}
    /\ Acknowledge(c)
    /\ UNCHANGED <<stored, faults>>

putInPoolAdd(c) ==
    LET t == client[c].topic IN
    /\ client[c].pc = "peeked"
    /\ pool[t] # NoItem \/ Cardinality(Pooled) < PoolSize
    /\ pool' = [pool EXCEPT ![t] = Added(c)]
    /\ expired' = expired \ {t}
    /\ Acknowledge(c)
    /\ UNCHANGED <<stored, faults>>

\* The pool is full: the item used longest ago (any other one here) goes.
putInPoolEvict(c, u, ok) ==
    LET t == client[c].topic IN
    /\ client[c].pc = "peeked"
    /\ pool[t] = NoItem /\ Cardinality(Pooled) >= PoolSize
    /\ u \in Pooled
    /\ pool' = [pool EXCEPT ![u] = NoItem, ![t] = Added(c)]
    /\ expired' = expired \ {u, t}
    /\ stored' = [stored EXCEPT ![u] = Flushed(u, ok)]
    /\ Fault(IF ok THEN 0 ELSE 1)
    /\ Acknowledge(c)

Expire(t) ==
    /\ MayExpire
    /\ Hit(t)
    /\ expired' = expired \cup {t}
    /\ UNCHANGED <<pool, stored, client, faults, acked, answer>>

RemoveExpired(t, ok) ==
    /\ t \in expired
    /\ pool' = [pool EXCEPT ![t] = NoItem]
    /\ expired' = expired \ {t}
    /\ stored' = [stored EXCEPT ![t] = Flushed(t, ok)]
    /\ Fault(IF ok THEN 0 ELSE 1)
    /\ UNCHANGED <<client, acked, answer>>

\* Purge runs the callback for every item and empties the pool.
CommitFeeds(c, bad) ==
    /\ client[c].pc = "idle"
    /\ bad \subseteq Pooled
    /\ pool' = [t \in Topics |-> NoItem]
    /\ expired' = {}
    /\ stored' = [t \in Topics |->
                    IF t \in Pooled THEN Flushed(t, t \notin bad) ELSE stored[t]]
    /\ Fault(Cardinality(bad))
    /\ UNCHANGED <<client, acked, answer>>

\* The process stops without CommitFeeds.
Crash ==
    /\ Fault(1)
    /\ pool' = [t \in Topics |-> NoItem]
    /\ expired' = {}
    /\ client' = [c \in Clients |-> [client[c] EXCEPT !.pc = "idle"]]
    /\ UNCHANGED <<stored, acked, answer>>

Next ==
    \/ \E c \in Clients, t \in Topics : GetFeedData(c, t)
    \/ \E c \in Clients, t \in Topics, v \in Values :
          handleMeta(c, t, v) \/ mapChildren(c, t, v)
    \/ \E c \in Clients : putInPoolGet(c) \/ putInPoolAdd(c)
    \/ \E c \in Clients, u \in Topics, ok \in BOOLEAN : putInPoolEvict(c, u, ok)
    \/ \E t \in Topics : Expire(t)
    \/ \E t \in Topics, ok \in BOOLEAN : RemoveExpired(t, ok)
    \/ \E c \in Clients, bad \in SUBSET Topics : CommitFeeds(c, bad)
    \/ Crash

Spec == Init /\ [][Next]_vars

-----------------------------------------------------------------------------
\* What the pool and Swarm hold together for a topic.
Held(t) == IF pool[t] # NoItem THEN pool[t].data ELSE stored[t]

\* UpdateFeed "updates the contents of an already created feed": a write that
\* was acknowledged is in the pool or in Swarm until a later write replaces it.
NoLostWrite == \A t \in Topics : acked[t] = Held(t)

\* The eviction callback creates only feeds Swarm does not hold yet, so that
\* createSoc cannot collide with the feed's first chunk.
CreatesNewFeeds ==
    \A t \in Topics : pool[t] # NoItem /\ pool[t].create => stored[t] = Absent

\* Whatever expires, fails or runs concurrently, a flush never puts an older
\* write over a newer one.
FlushesNewest ==
    [][\A t \in Topics : stored'[t] # stored[t] => stored'[t] = acked[t]]_vars

\* Behind one client after the other, the pool cannot be told from a register.
Register == INSTANCE FeedRegister WITH reg <- acked
BehavesAsRegister == Register!Spec
=============================================================================
