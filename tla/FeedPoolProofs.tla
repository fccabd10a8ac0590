--------------------------- MODULE FeedPoolProofs ---------------------------
(***************************************************************************)
(* The pool of a session that serves one request at a time, whose items do *)
(* not outlive their time to live, that never fails and that is not used   *)
(* by mapChildrenToNewPath is indistinguishable from a register.           *)
(* Whatever expires, fails or runs at the same time, what the pool writes  *)
(* is the newest update it was given.                                      *)
(***************************************************************************)
EXTENDS FeedPool, FiniteSetTheorems, TLAPS

Serial ==
    /\ \A c, d \in Clients : c = d
    /\ ~MayExpire /\ ~MoveCaller
    /\ MaxFaults = 0

\* A client that has decided to create a feed is right until it acts.
DecisionsHold ==
    \A c \in Clients : client[c].pc # "idle" /\ client[c].create
                          => stored[client[c].topic] = Absent

IInv ==
    /\ TypeOK
    /\ expired = {}
    /\ faults = 0
    /\ NoLostWrite
    /\ CreatesNewFeeds
    /\ DecisionsHold

-----------------------------------------------------------------------------
LEMMA FlushedTyped ==
  ASSUME TypeOK, NEW t \in Topics, NEW ok \in BOOLEAN, pool[t] # NoItem
  PROVE  Flushed(t, ok) \in Value
<1>1. pool[t] \in Item
  BY DEF TypeOK
<1> QED
  BY <1>1 DEF TypeOK, Flushed, Item, Value

LEMMA FaultTyped ==
  ASSUME faults \in Nat, NEW n \in Nat, Fault(n)
  PROVE  faults' \in Nat
BY DEF Fault

\* Every variable of the pool keeps its type, for any caller and any fault.
THEOREM PoolTyped == Spec => []TypeOK
<1>1. Init => TypeOK
  BY PoolAssumption DEF Init, TypeOK, Item, Value, Pooled
<1>2. TypeOK /\ [Next]_vars => TypeOK'
  <2> SUFFICES ASSUME TypeOK, [Next]_vars PROVE TypeOK'
    OBVIOUS
  <2>1. ASSUME NEW c \in Clients, NEW t \in Topics, GetFeedData(c, t) PROVE TypeOK'
    <3>1. Seen(t) \in Value
      BY PoolAssumption DEF TypeOK, Seen, Hit, Item, Value
    <3> QED
      BY <2>1, <3>1 DEF GetFeedData, TypeOK, Pooled
  <2>2. ASSUME NEW c \in Clients, NEW t \in Topics, NEW v \in Values,
               NEW b \in BOOLEAN, Decide(c, t, v, b)
        PROVE  TypeOK'
    BY <2>2 DEF Decide, TypeOK, Request, Pooled
  <2>3. ASSUME NEW c \in Clients, putInPoolGet(c) PROVE TypeOK'
    <3>1. (client[c].create \/ (Hit(client[c].topic) /\ pool[client[c].topic].create)) \in BOOLEAN
      BY DEF TypeOK, Request, Hit, Item
    <3> QED
      BY <2>3, <3>1 DEF putInPoolGet, TypeOK, Request, Pooled
  <2>4. ASSUME NEW c \in Clients, putInPoolAdd(c) PROVE TypeOK'
    <3>1. Added(c) \in Item
      BY DEF Added, TypeOK, Request, Item
    <3>2. client[c].topic \in Topics /\ client[c].data \in Value /\ Added(c) # NoItem
      BY <3>1, PoolAssumption DEF TypeOK, Request, Value
    <3>3. pool' \in [Topics -> Item \cup {NoItem}] /\ acked' \in [Topics -> Value]
      BY <2>4, <3>1, <3>2 DEF putInPoolAdd, Acknowledge, TypeOK
    <3>4. client' \in [Clients -> Request]
      BY <2>4 DEF putInPoolAdd, Acknowledge, TypeOK, Request
    <3>5. expired' \in SUBSET Pooled'
      BY <2>4, <3>2 DEF putInPoolAdd, TypeOK, Pooled
    <3> QED
      BY <2>4, <3>3, <3>4, <3>5 DEF putInPoolAdd, Acknowledge, TypeOK
  <2>5. ASSUME NEW c \in Clients, NEW u \in Topics, NEW ok \in BOOLEAN,
               putInPoolEvict(c, u, ok)
        PROVE  TypeOK'
    <3>1. Added(c) \in Item
      BY DEF Added, TypeOK, Request, Item
    <3>2. Flushed(u, ok) \in Value
      BY <2>5, FlushedTyped DEF putInPoolEvict, Pooled
    <3>3. faults' \in Nat
      BY <2>5, FaultTyped DEF putInPoolEvict, TypeOK
    <3> QED
      BY <2>5, <3>1, <3>2, <3>3 DEF putInPoolEvict, Acknowledge, TypeOK, Request, Value, Pooled
  <2>6. ASSUME NEW t \in Topics, Expire(t) PROVE TypeOK'
    BY <2>6 DEF Expire, Hit, TypeOK, Pooled
  <2>7. ASSUME NEW t \in Topics, NEW ok \in BOOLEAN, RemoveExpired(t, ok)
        PROVE  TypeOK'
    <3>1. Flushed(t, ok) \in Value
      BY <2>7, FlushedTyped DEF RemoveExpired, TypeOK, Pooled
    <3>2. faults' \in Nat
      BY <2>7, FaultTyped DEF RemoveExpired, TypeOK
    <3> QED
      BY <2>7, <3>1, <3>2 DEF RemoveExpired, TypeOK, Pooled
  <2>8. ASSUME NEW c \in Clients, NEW bad \in SUBSET Topics, CommitFeeds(c, bad)
        PROVE  TypeOK'
    <3>1. Cardinality(bad) \in Nat
      BY PoolAssumption, FS_Subset, FS_CardinalityType
    <3>2. faults' \in Nat
      BY <2>8, <3>1, FaultTyped DEF CommitFeeds, TypeOK
    <3>3. \A t \in Pooled : Flushed(t, t \notin bad) \in Value
      BY FlushedTyped DEF Pooled
    <3>4. stored' \in [Topics -> Value]
      BY <2>8, <3>3 DEF CommitFeeds, TypeOK, Pooled
    <3> QED
      BY <2>8, <3>2, <3>4 DEF CommitFeeds, TypeOK, Pooled
  <2>9. CASE Crash
    <3>1. faults' \in Nat
      BY <2>9, FaultTyped DEF Crash, TypeOK
    <3> QED
      BY <2>9, <3>1 DEF Crash, TypeOK, Request, Pooled
  <2>10. CASE UNCHANGED vars
    BY <2>10 DEF vars, TypeOK, Pooled
  <2>11. ASSUME NEW t \in Topics PROVE (Seen(t) = Absent) \in BOOLEAN /\ (Hit(t) \/ stored[t] = Absent) \in BOOLEAN
    BY DEF Hit
  <2> QED
    BY <2>1, <2>2, <2>3, <2>4, <2>5, <2>6, <2>7, <2>8, <2>9, <2>10, <2>11
       DEF Next, handleMeta, mapChildren
<1> QED
  BY <1>1, <1>2, PTL DEF Spec

-----------------------------------------------------------------------------
LEMMA IInvInit == Init => IInv
<1> SUFFICES ASSUME Init PROVE IInv
  OBVIOUS
<1>1. TypeOK
  BY PoolAssumption DEF Init, TypeOK, Item, Value, Pooled
<1> QED
  BY <1>1 DEF Init, IInv, NoLostWrite, Held, CreatesNewFeeds, DecisionsHold

\* With no fault and no stale item, flushing an item stores its data.
LEMMA FlushStores ==
  ASSUME IInv, NEW t \in Pooled
  PROVE  Flushed(t, TRUE) = pool[t].data
BY DEF IInv, CreatesNewFeeds, Flushed, Pooled

LEMMA NoFault ==
  ASSUME MaxFaults = 0, faults = 0, NEW n \in Nat, Fault(n)
  PROVE  n = 0 /\ faults' = 0
BY DEF Fault

LEMMA IInvStep ==
  ASSUME Serial, IInv, TypeOK', [Next]_vars
  PROVE  IInv'
<1> USE DEF Serial
<1>0. expired = {} /\ faults = 0 /\ TypeOK /\ NoLostWrite /\ CreatesNewFeeds /\ DecisionsHold
  BY DEF IInv
<1>1. ASSUME NEW c \in Clients, NEW t \in Topics, GetFeedData(c, t) PROVE IInv'
  BY <1>1 DEF GetFeedData, IInv, NoLostWrite, Held, CreatesNewFeeds, DecisionsHold
<1>2. ASSUME NEW c \in Clients, NEW t \in Topics, NEW v \in Values, handleMeta(c, t, v)
      PROVE  IInv'
  <2>1. Seen(t) = Absent => stored[t] = Absent
    BY <1>0, PoolAssumption DEF Seen, Hit, TypeOK, Item
  <2>2. (Seen(t) = Absent) \in BOOLEAN
    OBVIOUS
  <2>3. ASSUME NEW b \in BOOLEAN, b => stored[t] = Absent, Decide(c, t, v, b)
        PROVE  IInv'
    <3>1. /\ client' = [client EXCEPT ![c] = [pc |-> "decided", topic |-> t, data |-> v,
                                              create |-> b]]
          /\ UNCHANGED <<pool, expired, stored, faults, acked>>
      BY <2>3 DEF Decide
    <3>2. \A d \in Clients : d = c
      OBVIOUS
    <3>3. client'[c].topic = t /\ client'[c].create = b
      BY <3>1, <1>0 DEF TypeOK
    <3>4. DecisionsHold'
      BY <2>3, <3>1, <3>2, <3>3 DEF DecisionsHold
    <3> QED
      BY <3>1, <3>4, <1>0 DEF IInv, NoLostWrite, Held, CreatesNewFeeds
  <2> QED
    BY <1>2, <2>1, <2>2, <2>3 DEF handleMeta
<1>3. ASSUME NEW c \in Clients, putInPoolGet(c) PROVE IInv'
  <2> DEFINE t == client[c].topic
  <2>1. /\ client[c].pc = "decided" /\ t \in Topics
        /\ client'[c].topic = t
        /\ client'[c].create <=> client[c].create \/ (Hit(t) /\ pool[t].create)
        /\ UNCHANGED <<pool, expired, stored, faults, acked>>
    BY <1>3, <1>0 DEF putInPoolGet, TypeOK, Request
  <2>2. client'[c].create => stored[t] = Absent
    <3>1. CASE client[c].create
      BY <2>1, <3>1, <1>0 DEF DecisionsHold
    <3>2. CASE Hit(t) /\ pool[t].create
      BY <2>1, <3>2, <1>0 DEF CreatesNewFeeds, Hit
    <3> QED
      BY <2>1, <3>1, <3>2
  <2>3. DecisionsHold'
    BY <2>1, <2>2 DEF DecisionsHold
  <2> QED
    BY <2>1, <2>3, <1>0 DEF IInv, NoLostWrite, Held, CreatesNewFeeds
<1>4. ASSUME NEW c \in Clients, putInPoolAdd(c) PROVE IInv'
  <2> DEFINE t == client[c].topic
  <2>1. /\ client[c].pc = "peeked" /\ t \in Topics
        /\ pool' = [pool EXCEPT ![t] = Added(c)]
        /\ acked' = [acked EXCEPT ![t] = client[c].data]
        /\ client' = [client EXCEPT ![c].pc = "idle"]
        /\ expired' = {} /\ UNCHANGED <<stored, faults>>
    BY <1>4, <1>0 DEF putInPoolAdd, Acknowledge, TypeOK, Request
  <2>2. Added(c) # NoItem /\ Added(c).data = client[c].data /\ Added(c).create = client[c].create
    BY <1>0, PoolAssumption DEF Added, TypeOK, Request, Item
  <2>3. NoLostWrite'
    BY <2>1, <2>2, <1>0 DEF NoLostWrite, Held, TypeOK
  <2>4. CreatesNewFeeds'
    BY <2>1, <2>2, <1>0 DEF CreatesNewFeeds, DecisionsHold, TypeOK
  <2>5. DecisionsHold'
    BY <2>1, <1>0 DEF DecisionsHold, TypeOK, Request
  <2> QED
    BY <2>1, <2>3, <2>4, <2>5, <1>0 DEF IInv
<1>5. ASSUME NEW c \in Clients, NEW u \in Topics, NEW ok \in BOOLEAN, putInPoolEvict(c, u, ok)
      PROVE  IInv'
  <2> DEFINE t == client[c].topic
  <2>1. ok /\ faults' = 0
    BY <1>5, <1>0, NoFault DEF putInPoolEvict
  <2>2. /\ client[c].pc = "peeked" /\ t \in Topics /\ pool[t] = NoItem
        /\ u \in Pooled /\ u # t
        /\ pool' = [pool EXCEPT ![u] = NoItem, ![t] = Added(c)]
        /\ acked' = [acked EXCEPT ![t] = client[c].data]
        /\ client' = [client EXCEPT ![c].pc = "idle"]
        /\ stored' = [stored EXCEPT ![u] = Flushed(u, ok)]
        /\ expired' = {}
    BY <1>5, <1>0 DEF putInPoolEvict, Acknowledge, TypeOK, Request, Pooled
  <2>3. Added(c) # NoItem /\ Added(c).data = client[c].data /\ Added(c).create = client[c].create
    BY <1>0, PoolAssumption DEF Added, TypeOK, Request, Item
  <2>4. Flushed(u, ok) = pool[u].data
    BY <2>1, <2>2, FlushStores
  <2>5. NoLostWrite'
    BY <2>2, <2>3, <2>4, <1>0 DEF NoLostWrite, Held, TypeOK, Pooled
  <2>6. CreatesNewFeeds'
    BY <2>2, <2>3, <1>0 DEF CreatesNewFeeds, DecisionsHold, TypeOK, Pooled
  <2>7. DecisionsHold'
    BY <2>2, <1>0 DEF DecisionsHold, TypeOK, Request
  <2> QED
    BY <2>1, <2>2, <2>5, <2>6, <2>7 DEF IInv
<1>6. ASSUME NEW c \in Clients, NEW bad \in SUBSET Topics, CommitFeeds(c, bad)
      PROVE  IInv'
  <2>1. IsFiniteSet(bad) /\ Cardinality(bad) \in Nat
    BY PoolAssumption, FS_Subset, FS_CardinalityType
  <2>2. Cardinality(bad) = 0 /\ faults' = 0
    BY <1>6, <1>0, <2>1, NoFault DEF CommitFeeds
  <2>3. bad = {}
    BY <2>1, <2>2, FS_EmptySet
  <2>4. /\ client[c].pc = "idle"
        /\ pool' = [t \in Topics |-> NoItem] /\ expired' = {}
        /\ stored' = [t \in Topics |-> IF t \in Pooled THEN Flushed(t, TRUE) ELSE stored[t]]
        /\ UNCHANGED <<client, acked>>
    BY <1>6, <2>3 DEF CommitFeeds
  <2>5. \A t \in Topics : stored'[t] = Held(t)
    BY <2>4, FlushStores DEF Held, Pooled
  <2>6. NoLostWrite'
    BY <2>4, <2>5, <1>0 DEF NoLostWrite, Held
  <2>7. CreatesNewFeeds' /\ DecisionsHold'
    BY <2>4 DEF CreatesNewFeeds, DecisionsHold
  <2> QED
    BY <2>2, <2>4, <2>6, <2>7 DEF IInv
<1>7. CASE Crash
  BY <1>7, <1>0, NoFault DEF Crash
<1>8. CASE UNCHANGED vars
  BY <1>8, <1>0 DEF vars, IInv, NoLostWrite, Held, CreatesNewFeeds, DecisionsHold
<1>9. ASSUME NEW t \in Topics PROVE ~Expire(t) /\ \A ok \in BOOLEAN : ~RemoveExpired(t, ok)
  BY <1>0 DEF Expire, RemoveExpired
<1>10. ASSUME NEW c \in Clients, NEW t \in Topics, NEW v \in Values PROVE ~mapChildren(c, t, v)
  BY DEF mapChildren
<1> QED
  BY <1>1, <1>2, <1>3, <1>4, <1>5, <1>6, <1>7, <1>8, <1>9, <1>10 DEF Next

\* An acknowledged write of a serial, fault-free session is never lost: it is
\* in the pool or in Swarm whatever the pool evicts and whenever it is purged.
THEOREM SerialPoolKeepsWrites == Serial => (Spec => [](NoLostWrite /\ CreatesNewFeeds))
<1> SUFFICES ASSUME Serial PROVE Spec => [](NoLostWrite /\ CreatesNewFeeds)
  OBVIOUS
<1>1. IInv /\ TypeOK' /\ [Next]_vars => IInv'
  BY IInvStep
<1>2. IInv => NoLostWrite /\ CreatesNewFeeds
  BY DEF IInv
<1> QED
  BY IInvInit, <1>1, <1>2, PoolTyped, PTL DEF Spec

-----------------------------------------------------------------------------
\* One step of the pool is one step of the register, or none.
LEMMA StepOfRegister ==
  ASSUME Serial, IInv, [Next]_vars
  PROVE  [Register!Next]_(Register!vars)
<1> USE DEF Register!vars
<1>0. expired = {} /\ TypeOK /\ NoLostWrite
  BY DEF IInv
<1>1. ASSUME NEW c \in Clients, NEW t \in Topics, GetFeedData(c, t)
      PROVE  Register!Next
  <2>1. Seen(t) = acked[t]
    BY <1>0 DEF Seen, Hit, NoLostWrite, Held
  <2> QED
    BY <1>1, <2>1 DEF GetFeedData, Register!Next, Register!Read
<1>2. ASSUME NEW c \in Clients,
             putInPoolAdd(c) \/ \E u \in Topics, ok \in BOOLEAN : putInPoolEvict(c, u, ok)
      PROVE  Register!Next
  <2>1. client[c].topic \in Topics /\ client[c].data \in Values
    BY <1>0 DEF TypeOK, Request
  <2>2. Acknowledge(c)
    BY <1>2 DEF putInPoolAdd, putInPoolEvict
  <2> QED
    BY <2>1, <2>2 DEF Acknowledge, Register!Next, Register!Write
<1>3. ASSUME NEW c \in Clients, NEW t \in Topics, NEW v \in Values,
             handleMeta(c, t, v) \/ mapChildren(c, t, v)
      PROVE  UNCHANGED <<acked, answer>>
  BY <1>3 DEF handleMeta, mapChildren, Decide
<1>4. ASSUME NEW c \in Clients, putInPoolGet(c) PROVE UNCHANGED <<acked, answer>>
  BY <1>4 DEF putInPoolGet
<1>5. ASSUME NEW t \in Topics, Expire(t) \/ \E ok \in BOOLEAN : RemoveExpired(t, ok)
      PROVE  UNCHANGED <<acked, answer>>
  BY <1>5 DEF Expire, RemoveExpired
<1>6. ASSUME NEW c \in Clients, NEW bad \in SUBSET Topics, CommitFeeds(c, bad)
      PROVE  UNCHANGED <<acked, answer>>
  BY <1>6 DEF CommitFeeds
<1>7. CASE Crash
  BY <1>7 DEF Crash
<1>8. CASE UNCHANGED vars
  BY <1>8 DEF vars
<1> QED
  BY <1>1, <1>2, <1>3, <1>4, <1>5, <1>6, <1>7, <1>8 DEF Next

\* Readers of a serial, fault-free session cannot tell the pool from a register.
THEOREM SerialPoolIsRegister == Serial => (Spec => BehavesAsRegister)
<1> SUFFICES ASSUME Serial PROVE Spec => BehavesAsRegister
  OBVIOUS
<1>1. Init => Register!Init
  BY DEF Init, Register!Init
<1>2. IInv /\ TypeOK' /\ [Next]_vars => IInv'
  BY IInvStep
<1>3. IInv /\ [Next]_vars => [Register!Next]_(Register!vars)
  BY StepOfRegister
<1> QED
  BY IInvInit, <1>1, <1>2, <1>3, PoolTyped, PTL DEF Spec, BehavesAsRegister, Register!Spec
-----------------------------------------------------------------------------
\* An item of the pool holds the write acknowledged last for its topic: only an
\* Add acknowledges, and it replaces what the pool has for the topic.
HoldsNewest == \A t \in Topics : pool[t] # NoItem => pool[t].data = acked[t]

\* What a flush leaves in Swarm was there before or is the newest write.
LEMMA FlushedIsNewest ==
  ASSUME HoldsNewest, NEW t \in Pooled, NEW ok \in BOOLEAN
  PROVE  Flushed(t, ok) \in {stored[t], acked[t]}
BY DEF HoldsNewest, Flushed, Pooled

StoresNewest == \A t \in Topics : stored'[t] # stored[t] => stored'[t] = acked[t]

LEMMA HoldsNewestStep ==
  ASSUME TypeOK, HoldsNewest, [Next]_vars
  PROVE  HoldsNewest' /\ StoresNewest
<1>1. ASSUME UNCHANGED <<pool, acked, stored>>
      PROVE  HoldsNewest' /\ StoresNewest
  BY <1>1 DEF HoldsNewest, StoresNewest
<1>2. ASSUME NEW c \in Clients, putInPoolAdd(c)
      PROVE  HoldsNewest' /\ StoresNewest
  <2> DEFINE t == client[c].topic
  <2>1. /\ t \in Topics /\ Added(c).data = client[c].data
        /\ pool' = [pool EXCEPT ![t] = Added(c)]
        /\ acked' = [acked EXCEPT ![t] = client[c].data] /\ stored' = stored
    BY <1>2 DEF putInPoolAdd, Acknowledge, Added, TypeOK, Request
  <2> QED
    BY <2>1 DEF HoldsNewest, StoresNewest, TypeOK
<1>3. ASSUME NEW c \in Clients, NEW u \in Topics, NEW ok \in BOOLEAN, putInPoolEvict(c, u, ok)
      PROVE  HoldsNewest' /\ StoresNewest
  <2> DEFINE t == client[c].topic
  <2>1. /\ t \in Topics /\ Added(c).data = client[c].data
        /\ u \in Pooled /\ u # t
        /\ pool' = [pool EXCEPT ![u] = NoItem, ![t] = Added(c)]
        /\ acked' = [acked EXCEPT ![t] = client[c].data]
        /\ stored' = [stored EXCEPT ![u] = Flushed(u, ok)]
    BY <1>3 DEF putInPoolEvict, Acknowledge, Added, TypeOK, Request, Pooled
  <2>2. HoldsNewest'
    BY <2>1 DEF HoldsNewest, TypeOK, Pooled
  <2>3. StoresNewest
    BY <2>1, FlushedIsNewest DEF StoresNewest, TypeOK
  <2> QED
    BY <2>2, <2>3
<1>4. ASSUME NEW t \in Topics, NEW ok \in BOOLEAN, RemoveExpired(t, ok)
      PROVE  HoldsNewest' /\ StoresNewest
  <2>1. /\ t \in Pooled
        /\ pool' = [pool EXCEPT ![t] = NoItem]
        /\ stored' = [stored EXCEPT ![t] = Flushed(t, ok)] /\ acked' = acked
    BY <1>4 DEF RemoveExpired, TypeOK
  <2> QED
    BY <2>1, FlushedIsNewest DEF HoldsNewest, StoresNewest, TypeOK
<1>5. ASSUME NEW c \in Clients, NEW bad \in SUBSET Topics, CommitFeeds(c, bad)
      PROVE  HoldsNewest' /\ StoresNewest
  <2>1. /\ pool' = [t \in Topics |-> NoItem] /\ acked' = acked
        /\ \A t \in Topics : stored'[t] = IF t \in Pooled THEN Flushed(t, t \notin bad)
                                                          ELSE stored[t]
    BY <1>5 DEF CommitFeeds
  <2>2. \A t \in Pooled : Flushed(t, t \notin bad) \in {stored[t], acked[t]}
    BY FlushedIsNewest
  <2> QED
    BY <2>1, <2>2 DEF HoldsNewest, StoresNewest
<1>6. CASE Crash
  BY <1>6 DEF Crash, HoldsNewest, StoresNewest
<1> QED
  BY <1>1, <1>2, <1>3, <1>4, <1>5, <1>6
     DEF Next, vars, GetFeedData, handleMeta, mapChildren, Decide, putInPoolGet, Expire

\* Whatever expires, fails or stops, and for any clients and callers, what the
\* pool's eviction callback writes to Swarm is the write acknowledged last for
\* that feed.
THEOREM PoolFlushesNewest == Spec => FlushesNewest
<1>1. Init => HoldsNewest
  BY DEF Init, HoldsNewest
<1>2. TypeOK /\ HoldsNewest /\ [Next]_vars => HoldsNewest'
  BY HoldsNewestStep
<1>3. TypeOK /\ HoldsNewest /\ [Next]_vars
        => [\A t \in Topics : stored'[t] # stored[t] => stored'[t] = acked[t]]_vars
  BY HoldsNewestStep DEF StoresNewest
<1> QED
  BY <1>1, <1>2, <1>3, PoolTyped, PTL DEF Spec, FlushesNewest
=============================================================================
