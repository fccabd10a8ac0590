---------------------------- MODULE FeedWriters ----------------------------
(***************************************************************************)
(* Sessions that write one feed of Swarm (pkg/feed/handler.go).  Each has  *)
(* a Handler with its own lookup cache.  An update is two steps: newRequest*)
(* looks up the latest update and chooses a level; updateSoc then reads    *)
(* the clock again and uploads the chunk, retrying after a second when     *)
(* the slot is taken.                                                      *)
(***************************************************************************)
EXTENDS FeedLookup

CONSTANTS Sessions,
          StartTime, MaxTime,   \* bounds of the clock, in seconds
          MaxVersion,           \* bound on the number of uploads
          maxUpdateRetry,       \* 3 in the code
          MaxSkew,              \* ticks between newRequest's clock and updateSoc's
          Lossy,                \* whether reads of existing chunks may time out: the choices
          LossyStart            \* where the clock starts, and with one upload less, if so

ASSUME WriterConstants ==
    /\ StartTime \in Nat /\ MaxTime \in Times /\ StartTime <= MaxTime
    /\ MaxVersion \in Nat /\ maxUpdateRetry \in Nat /\ MaxSkew \in Nat
    /\ Lossy \subseteq BOOLEAN /\ LossyStart \in StartTime..MaxTime

VARIABLES lossy,    \* reads of existing chunks may time out
          now,      \* time.Now().Unix()
          chunks,   \* Swarm: slot -> version of the update stored in it
          cache,    \* Handler.cache of each session: last slot found, or NoClue
          pc,       \* "idle", "lookup", "wait", "upload" or "sleep"
          req,      \* the request being built: level, retries and the time it was taken
          found     \* newRequest's feedUpdate, kept across its one second wait

vars == <<lossy, now, chunks, cache, pc, req, found>>

Versions == 1..MaxVersion
Latest == Cardinality(DOMAIN chunks)
MoreUploads == Latest < (IF lossy THEN MaxVersion - 1 ELSE MaxVersion)

\* Every request, cache entry and chunk names a slot of epoch.go, and updateSoc
\* retries at most maxUpdateRetry times.
TypeOK ==
    /\ lossy \in Lossy /\ now \in StartTime..MaxTime
    /\ DOMAIN chunks \subseteq Slots
    /\ \A s \in DOMAIN chunks : chunks[s] \in Versions
    /\ cache \in [Sessions -> Slots]
    /\ pc \in [Sessions -> {"idle", "lookup", "wait", "upload", "sleep"}]
    /\ req \in [Sessions -> [level: Levels, retries: 0..maxUpdateRetry,
                             at: 0..MaxTime]]
    /\ found \in [Sessions -> Slots \cup {None}]

Init ==
    /\ lossy \in Lossy
    /\ now = IF lossy THEN LossyStart ELSE StartTime
    /\ chunks = <<>>
    /\ cache = [s \in Sessions |-> NoClue]
    /\ pc = [s \in Sessions |-> "idle"]
    /\ req = [s \in Sessions |-> [level |-> 0, retries |-> 0, at |-> 0]]
    /\ found = [s \in Sessions |-> None]

-----------------------------------------------------------------------------
\* What Lookup can answer session s: the reads in lost time out.
Lookup(s, lost) == LongEarthAlgorithm(DOMAIN chunks \ lost, now, cache[s])

LostReads == IF lossy THEN SUBSET DOMAIN chunks ELSE {{}}

\* A single owner chunk is stored once: a second upload to a slot is refused.
Store(slot) ==
    chunks' = [e \in DOMAIN chunks \cup {slot} |->
                  IF e \in DOMAIN chunks THEN chunks[e] ELSE Latest + 1]

Tick ==
    /\ now < MaxTime
    /\ \A s \in Sessions : pc[s] = "upload" => now - req[s].at < MaxSkew
    /\ now' = now + 1
    /\ UNCHANGED <<lossy, chunks, cache, pc, req, found>>

\* createSoc: the first chunk of the feed, at the highest level.
createSoc(s) ==
    LET slot == EpochID(GetFirstEpoch(now)) IN
    /\ pc[s] = "idle"
    /\ MoreUploads
    /\ slot \notin DOMAIN chunks
    /\ Store(slot)
    /\ UNCHANGED <<lossy, now, cache, pc, req, found>>

StartUpdate(s) ==
    /\ pc[s] = "idle"
    /\ MoreUploads
    /\ pc' = [pc EXCEPT ![s] = "lookup"]
    /\ req' = [req EXCEPT ![s].retries = 0]
    /\ UNCHANGED <<lossy, now, chunks, cache, found>>

\* A read without an update (GetFeedData): only the cache moves.
getSoc(s) ==
    /\ pc[s] = "idle"
    /\ \E lost \in LostReads : \E answer \in Lookup(s, lost) :
         /\ answer # None
         /\ cache' = [cache EXCEPT ![s] = answer]
    /\ UNCHANGED <<lossy, now, chunks, pc, req, found>>

\* Mutant: the next level is always the one below.
LevelBelow(last) == IF last = None THEN HighestLevel ELSE Max({LowestLevel, last.level - 1})

\* The level newRequest chooses after the update it found.
LevelAfter(last) ==
    IF last = None THEN HighestLevel ELSE GetNextEpoch(last, now).level

\* newRequest; a level 0 update of this very second makes it wait a second.
newRequest(s) ==
    /\ pc[s] = "lookup"
    /\ \E lost \in LostReads : \E answer \in Lookup(s, lost) :
         LET full == answer.level = LowestLevel /\ answer.time = now IN
             /\ cache' = [cache EXCEPT ![s] = IF answer = None THEN @ ELSE answer]
             /\ found' = [found EXCEPT ![s] = answer]
             /\ pc' = [pc EXCEPT ![s] = IF full THEN "wait" ELSE "upload"]
             /\ req' = [req EXCEPT ![s].level = IF full THEN @ ELSE LevelAfter(answer),
                                   ![s].at = now]
    /\ UNCHANGED <<lossy, now, chunks>>

Waited(s) ==
    /\ pc[s] = "wait"
    /\ now > req[s].at
    /\ req' = [req EXCEPT ![s].level = LevelAfter(found[s]),
                          ![s].at = now]
    /\ pc' = [pc EXCEPT ![s] = "upload"]
    /\ UNCHANGED <<lossy, now, chunks, cache, found>>

\* The rest of updateSoc: the slot is (level chosen before, time of now).
updateSoc(s) ==
    LET slot == EpochID([time |-> now, level |-> req[s].level])
        retry == slot \in DOMAIN chunks /\ req[s].retries < maxUpdateRetry
    IN
    /\ pc[s] = "upload"
    /\ MoreUploads
    /\ IF slot \in DOMAIN chunks THEN UNCHANGED chunks ELSE Store(slot)
    /\ pc' = [pc EXCEPT ![s] = IF retry THEN "sleep" ELSE "idle"]
    /\ req' = [req EXCEPT ![s].retries = IF retry THEN @ + 1 ELSE @, ![s].at = now]
    /\ UNCHANGED <<lossy, now, cache, found>>

Slept(s) ==
    /\ pc[s] = "sleep"
    /\ now > req[s].at
    /\ pc' = [pc EXCEPT ![s] = "lookup"]
    /\ UNCHANGED <<lossy, now, chunks, cache, req, found>>

Next ==
    \/ Tick
    \/ \E s \in Sessions :
          \/ createSoc(s) \/ StartUpdate(s) \/ getSoc(s) \/ newRequest(s)
          \/ Waited(s) \/ updateSoc(s) \/ Slept(s)

Spec == Init /\ [][Next]_vars

\* The placement rule the writers follow, seen from the set of slots in use.
Placement == INSTANCE FeedSlots
                WITH SlotOf <- getBaseTime, Clock <- 0..MaxTime,
                     chunks <- DOMAIN chunks

ASSUME EpochsAreNested == Placement!SlotAssumption

-----------------------------------------------------------------------------
\* Every write of every session follows the placement rule of FeedSlots, from
\* which NoHoles follows: whichever update a lossy or stale lookup started from
\* and however often "chunk already exists" made it start again.
WritesArePlaced == Placement!Spec

\* No update is in a slot below an empty one on the way a lookup takes to it:
\* a lookup stops at the first empty slot, so it would never see that update.
NoHoles == Placement!NoHoles

\* Lookup finds the update with the highest timestamp that is smaller or equal
\* than 'now' (lookup.go): whatever the session's cached hint and whatever the
\* goroutines' timing, the answer is the last update uploaded, while no read
\* times out.
LookupFindsLatest ==
    lossy \/ \A clue \in {NoClue} \cup {cache[s] : s \in Sessions} :
        LET answers == LongEarthAlgorithm(DOMAIN chunks, now, clue)
        IN  IF chunks = <<>> THEN answers = {None}
            ELSE \A a \in answers : a # None /\ chunks[a] = Latest

\* The sequential algorithm gives the answer of the concurrent one.
AlgorithmsAgree ==
    \A clue \in {NoClue} \cup {cache[s] : s \in Sessions} :
        LongEarthAlgorithm(DOMAIN chunks, now, clue)
            = {FluzCapacitorAlgorithm(DOMAIN chunks, now, clue)}

\* When the hint turns out to be bad the search restarts at or before now.
RestartStaysInThePast ==
    \A s \in Sessions : cache[s] # NoClue => RestartTime(cache[s]) <= now
=============================================================================
